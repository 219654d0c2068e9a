----------------------------- MODULE HelperStore -----------------------------
(***************************************************************************)
(* The console's view of the mixer helper (port 4720):                     *)
(* src/console-rs/crates/ua-engine/src/helper.rs, on the connection of     *)
(* connection.rs (module Connection has its detail; here a session opens   *)
(* Ready, because the helper's options load no tree).                      *)
(*                                                                         *)
(* The store asks for the whole tree on every Ready, subscribes what it    *)
(* finds there, and re-reads one subtree at intervals, because a node that *)
(* appears is not pushed.  The connection's news, and the values pushed,   *)
(* come on one channel; replies come on channels of their own, and drain   *)
(* looks at those second.                                                  *)
(***************************************************************************)
EXTENDS Integers, Sequences, FiniteSets

CONSTANTS Paths,      \* STATUS_PATHS and effect-slot properties
          Polled,     \* those in the subtree that is re-read
          Growing,    \* those that may not exist at first
          Writable,   \* those the console sets
          Values,
          Tickets,    \* names for requests; a bound on those that are about
          MaxFaults,  \* bound on losses, failed dials, expiries and errors
          MaxDoings   \* bound on changes at the helper, the console's sets, and
                      \* its calls of connect_with and disconnect

ASSUME HelperAssumption ==
  /\ Growing \subseteq Polled /\ Polled \subseteq Paths /\ Writable \subseteq Paths
  /\ IsFiniteSet(Paths)
  /\ Values # {} /\ Values \subseteq Nat
  /\ Tickets \subseteq Nat \ {0}
  /\ {MaxFaults, MaxDoings} \subseteq Nat

VARIABLES ui,        \* the HelperStore
          pc,        \* where the UI thread is in drain
          updates,   \* EngineHandle::updates
          mail,      \* the reply channels of the tickets the store holds
          conn,      \* the connection: "none" without a handle
          gen,       \* Shared.generation
          tx,        \* requests on their way to the network thread
          pending,   \* requests this session waits for
          up, down,  \* the socket
          val,       \* the helper's values
          subs,      \* what this session has subscribed
          used       \* what has been used of the bounds

net  == <<conn, gen, tx, pending>>
sock == <<up, down, subs>>
vars == <<ui, pc, updates, mail, net, sock, val, used>>

------------------------------------------------------------------------------
Absent == -1
None   == 0
NoMail == [st |-> "none"]
Error  == [st |-> "error"]
Letter(tree, g) == [st |-> "reply", tree |-> tree, gen |-> g]

Statuses == {"Offline", "Connecting", "Loading", "Live", "Reconnecting", "Failed"}

Get(t)       == [k |-> "get", id |-> t]
Subscribe(p) == [k |-> "subscribe", p |-> p, gen |-> gen]
SetTo(p, v)  == [k |-> "set", p |-> p, v |-> v, gen |-> gen]
News(k)      == [k |-> k]

\* `from` is a history field: the session whose answer the tree was last read
\* from.  No action reads it.
Closed(status, tree, from) ==
  [status |-> status, tree |-> tree, root |-> None, poll |-> None,
   subscribed |-> {}, due |-> FALSE, from |-> from]

Init ==
  /\ val \in [Paths -> Values \cup {Absent}]
  /\ \A p \in Paths : val[p] = Absent => p \in Growing
  /\ ui = Closed("Connecting", [p \in Paths |-> Absent], 0)
  /\ pc = "idle" /\ updates = <<>>
  /\ mail = [t \in Tickets |-> NoMail]
  /\ conn = "backoff" /\ gen = 0 /\ tx = <<>> /\ pending = {}
  /\ up = <<>> /\ down = <<>> /\ subs = {}
  /\ used = [faults |-> 0, doings |-> 0]

Uses(what, max) == used[what] < max /\ used' = [used EXCEPT ![what] = @ + 1]

------------------------------------------------------------------------------
\* Tickets: function ids are never used twice; a name is free again when
\* nobody can mention it any more.
Held(s) == {s.root, s.poll} \ {None}
Mentioned(q) == {q[i].id : i \in {j \in DOMAIN q : q[j].k \in {"get", "reply", "refused"}}}
Free == Tickets \ (Held(ui) \cup pending \cup Mentioned(tx) \cup Mentioned(up) \cup Mentioned(down))
Fresh == CHOOSE t \in Free : \A u \in Free : t <= u

\* A PendingReply that is dropped takes its channel with it.
Delivered(s, m) == [t \in Tickets |-> IF t \in Held(s) THEN m[t] ELSE NoMail]

Connected == conn = "ready"

\* The store becomes s; it has sent `cmds`, if the connection takes them, and a
\* request made while not connected fails at once.
Becomes(s, cmds, m) ==
  /\ ui' = s
  /\ tx' = IF Connected THEN tx \o cmds ELSE tx
  /\ mail' = Delivered(s, IF Connected THEN m
                          ELSE [t \in Tickets |-> IF t \in Mentioned(cmds) THEN Error ELSE m[t]])

------------------------------------------------------------------------------
\* HelperStore::drain, first part: the update channel, in order.

PushAll(tree, values) ==
  [p \in Paths |-> IF p \in DOMAIN values THEN values[p] ELSE tree[p]]

\* Seeded fault of OnReady: the polls of the last session are kept.
OnReadyPolling(s, t) == [s EXCEPT !.subscribed = {}, !.root = t, !.status = "Loading"]

\* Every Ready asks for the tree anew and forgets what belongs to the session
\* before.
OnReady(s, t) ==
  [s EXCEPT !.subscribed = {}, !.poll = None, !.root = t, !.status = "Loading"]

OnUpdate(s, u, t) ==
  CASE u.k = "connecting" -> [s EXCEPT !.status = "Connecting"]
    [] u.k = "ready"      -> OnReady(s, t)
    [] u.k = "backingOff" -> [s EXCEPT !.status = "Reconnecting"]
    [] u.k = "values"     -> [s EXCEPT !.tree = PushAll(s.tree, u.values)]

\* Two Readys taken at once ask once here: the first one's reply is dropped
\* unread with its PendingReply.
SawReady == \E i \in DOMAIN updates : updates[i].k = "ready"

Drained(t) ==
  LET after[n \in 0..Len(updates)] ==
        IF n = 0 THEN ui ELSE OnUpdate(after[n - 1], updates[n], t)
  IN after[Len(updates)]

DrainUpdates ==
  /\ pc = "idle" /\ conn # "none"
  /\ SawReady => Free # {}
  /\ pc' = "rest"
  /\ updates' = <<>>
  /\ Becomes(Drained(Fresh), IF SawReady THEN <<Get(Fresh)>> ELSE <<>>, mail)
  /\ UNCHANGED <<conn, gen, pending, sock, val, used>>

\* Second part: the tree's reply, then the re-reads.

Exists(tree) == {p \in Paths : tree[p] # Absent}

\* HelperStore::subscribe: everything that exists and was not subscribed yet is
\* remembered as subscribed, whether or not the command could be sent.
SubscribeTo(s) == [s EXCEPT !.subscribed = @ \cup Exists(s.tree)]

TakeRoot(s) ==
  IF s.root = None \/ mail[s.root] = NoMail THEN s
  ELSE IF mail[s.root] = Error THEN [s EXCEPT !.root = None, !.status = "Failed"]
  ELSE SubscribeTo([s EXCEPT !.root = None, !.tree = mail[s.root].tree, !.status = "Live",
                             !.due = FALSE, !.from = mail[s.root].gen])

\* Seeded faults of TakePoll: a re-read that failed stays in flight; what appeared is shown and not subscribed.
TakePollStuck(s) ==
  IF s.poll = None \/ mail[s.poll] \in {NoMail, Error} THEN s
  ELSE SubscribeTo([s EXCEPT !.poll = None, !.from = mail[s.poll].gen,
                             !.tree = [p \in Paths |-> IF p \in Polled THEN mail[s.poll].tree[p]
                                                       ELSE @[p]]])
TakePollUnsubscribed(s) ==
  IF s.poll = None \/ mail[s.poll] = NoMail THEN s
  ELSE IF mail[s.poll] = Error THEN [s EXCEPT !.poll = None]
  ELSE [s EXCEPT !.poll = None, !.from = mail[s.poll].gen,
                 !.tree = [p \in Paths |-> IF p \in Polled THEN mail[s.poll].tree[p] ELSE @[p]]]

\* A re-read replaces its subtree; if that changed anything the store subscribes
\* what is new in it.
TakePoll(s) ==
  IF s.poll = None \/ mail[s.poll] = NoMail THEN s
  ELSE IF mail[s.poll] = Error THEN [s EXCEPT !.poll = None]
  ELSE LET t == [s EXCEPT !.poll = None, !.from = mail[s.poll].gen,
                          !.tree = [p \in Paths |-> IF p \in Polled THEN mail[s.poll].tree[p]
                                                    ELSE @[p]]]
       IN IF t.tree = s.tree THEN t ELSE SubscribeTo(t)

\* Re-reads are for a store that is live; one is asked for when it is due and no
\* other is in flight.
Reread(s) == IF s.status = "Live" THEN TakePoll(s) ELSE s
Asks(s) == s.status = "Live" /\ s.due /\ s.poll = None

\* One command for each property, in some order.
SubscribeEach(P) ==
  LET q == CHOOSE q \in [1..Cardinality(P) -> P] : \A p \in P : \E i \in DOMAIN q : q[i] = p
  IN [i \in DOMAIN q |-> Subscribe(q[i])]

DrainRest ==
  /\ pc = "rest"
  /\ pc' = "idle"
  /\ LET r == Reread(TakeRoot(ui))
         s == IF Asks(r) THEN [r EXCEPT !.due = FALSE, !.poll = Fresh] ELSE r
         asked == IF Asks(r) THEN <<Get(Fresh)>> ELSE <<>>
     IN /\ Asks(r) => Free # {}
        /\ Becomes(s, SubscribeEach(s.subscribed \ ui.subscribed) \o asked, mail)
  /\ UNCHANGED <<updates, conn, gen, pending, sock, val, used>>

\* The re-read interval has passed.
PollComesDue ==
  /\ ui.status = "Live" /\ ~ui.due
  /\ ui' = [ui EXCEPT !.due = TRUE]
  /\ UNCHANGED <<pc, updates, mail, net, sock, val, used>>

\* HelperStore::set: shown at once if the connection took the command.
Set(p, v) ==
  /\ pc = "idle" /\ Connected /\ p \in Writable /\ ui.tree[p] # Absent
  /\ Uses("doings", MaxDoings)
  /\ Becomes([ui EXCEPT !.tree[p] = v], <<SetTo(p, v)>>, mail)
  /\ UNCHANGED <<pc, updates, conn, gen, pending, sock, val>>

\* connect_with and disconnect: the old handle goes, and its channels with it.
Drops(status) ==
  /\ pc = "idle"
  /\ Uses("doings", MaxDoings)
  /\ ui' = [Closed(status, ui.tree, ui.from) EXCEPT !.due = ui.due]
  /\ mail' = [t \in Tickets |-> NoMail]
  /\ updates' = <<>> /\ tx' = <<>> /\ pending' = {} /\ up' = <<>> /\ down' = <<>> /\ subs' = {}
  /\ UNCHANGED <<pc, gen, val>>

Connect    == Drops("Connecting") /\ conn' = "backoff"
Disconnect == conn # "none" /\ Drops("Offline") /\ conn' = "none"

------------------------------------------------------------------------------
\* The network thread.

Dial ==
  /\ conn = "backoff"
  /\ conn' = "dialing"
  /\ updates' = Append(updates, News("connecting"))
  /\ UNCHANGED <<ui, pc, mail, gen, tx, pending, sock, val, used>>

DialFails ==
  /\ conn = "dialing"
  /\ Uses("faults", MaxFaults)
  /\ conn' = "backoff"
  /\ updates' = Append(updates, News("backingOff"))
  /\ UNCHANGED <<ui, pc, mail, gen, tx, pending, sock, val>>

DialSucceeds ==
  /\ conn = "dialing"
  /\ conn' = "ready" /\ gen' = gen + 1
  /\ pending' = {} /\ up' = <<>> /\ down' = <<>> /\ subs' = {}
  /\ updates' = Append(updates, News("ready"))
  /\ UNCHANGED <<ui, pc, mail, tx, val, used>>

Fails(m, ids) == [t \in Tickets |-> IF t \in ids \cap Held(ui) THEN Error ELSE m[t]]

\* The session is lost: who waited for an answer is told so.
Lost ==
  /\ conn = "ready"
  /\ Uses("faults", MaxFaults)
  /\ conn' = "backoff"
  /\ mail' = Fails(mail, pending)
  /\ pending' = {} /\ up' = <<>> /\ down' = <<>> /\ subs' = {}
  /\ updates' = Append(updates, News("backingOff"))
  /\ UNCHANGED <<ui, pc, gen, tx, val>>

Reject ==
  /\ conn = "backoff" /\ tx # <<>>
  /\ tx' = Tail(tx)
  /\ mail' = IF Head(tx).k = "get" THEN Fails(mail, {Head(tx).id}) ELSE mail
  /\ UNCHANGED <<ui, pc, updates, conn, gen, pending, sock, val, used>>

\* A get carries no generation; a command of an earlier session is dropped.
Take ==
  /\ conn = "ready" /\ tx # <<>>
  /\ tx' = Tail(tx)
  /\ LET c == Head(tx) IN
       IF c.k = "get" THEN up' = Append(up, c) /\ pending' = pending \cup {c.id}
       ELSE /\ up' = IF c.gen = gen THEN Append(up, c) ELSE up
            /\ UNCHANGED pending
  /\ UNCHANGED <<ui, pc, updates, mail, conn, gen, down, subs, val, used>>

Expire(t) ==
  /\ conn = "ready" /\ t \in pending
  /\ Uses("faults", MaxFaults)
  /\ pending' = pending \ {t}
  /\ mail' = Fails(mail, {t})
  /\ UNCHANGED <<ui, pc, updates, conn, gen, tx, sock, val>>

\* Task::ingest, a read of n frames: replies go to their channel, the values
\* pushed to the update channel at the end.
Answers(n) == {i \in 1..n : down[i].k \in {"reply", "refused"} /\ down[i].id \in pending}
PushedBy(n) ==
  LET pushed(p) == {i \in 1..n : down[i].k = "push" /\ down[i].p = p}
      last(p) == CHOOSE i \in pushed(p) : \A j \in pushed(p) : j <= i
  IN [p \in {q \in Paths : pushed(q) # {}} |-> down[last(p)].v]

Ingest(n) ==
  /\ conn = "ready" /\ n \in 1..Len(down)
  /\ down' = SubSeq(down, n + 1, Len(down))
  /\ pending' = pending \ {down[i].id : i \in Answers(n)}
  /\ mail' = [t \in Tickets |->
                IF \E i \in Answers(n) : down[i].id = t /\ t \in Held(ui)
                THEN LET f == down[CHOOSE i \in Answers(n) : down[i].id = t]
                     IN IF f.k = "reply" THEN Letter(f.tree, gen) ELSE Error
                ELSE mail[t]]
  /\ updates' = IF PushedBy(n) = <<>> THEN updates
                ELSE Append(updates, [k |-> "values", values |-> PushedBy(n)])
  /\ UNCHANGED <<ui, pc, conn, gen, tx, up, subs, val, used>>

------------------------------------------------------------------------------
\* The helper (src/mixer-engine/ua_mixer_daemon.py serves 4720 as well).

Push(p, v) == [k |-> "push", p |-> p, v |-> v]

Serve ==
  /\ conn = "ready" /\ up # <<>>
  /\ up' = Tail(up)
  /\ LET c == Head(up) IN
       \/ /\ c.k = "get"
          /\ down' = Append(down, [k |-> "reply", id |-> c.id, tree |-> val])
          /\ UNCHANGED <<val, subs>>
       \/ /\ c.k = "subscribe"
          /\ subs' = subs \cup {c.p}
          /\ down' = Append(down, Push(c.p, val[c.p]))
          /\ UNCHANGED val
       \/ /\ c.k = "set"
          /\ val' = [val EXCEPT ![c.p] = c.v]
          /\ down' = IF c.p \in subs /\ val[c.p] # c.v THEN Append(down, Push(c.p, c.v)) ELSE down
          /\ UNCHANGED subs
  /\ UNCHANGED <<ui, pc, updates, mail, net, used>>

Refuse ==
  /\ conn = "ready" /\ up # <<>> /\ Head(up).k = "get"
  /\ Uses("faults", MaxFaults)
  /\ up' = Tail(up)
  /\ down' = Append(down, [k |-> "refused", id |-> Head(up).id])
  /\ UNCHANGED <<ui, pc, updates, mail, net, subs, val>>

\* A value changes, or a node appears, which is not pushed.
Change(p, v) ==
  /\ Uses("doings", MaxDoings)
  /\ val[p] # v
  /\ val' = [val EXCEPT ![p] = v]
  /\ down' = IF p \in subs THEN Append(down, Push(p, v)) ELSE down
  /\ UNCHANGED <<ui, pc, updates, mail, net, up, subs>>

------------------------------------------------------------------------------
Drain   == DrainUpdates \/ DrainRest
Receive == \E n \in 1..Len(down) : Ingest(n)
Network == \/ Dial \/ DialFails \/ DialSucceeds \/ Lost \/ Reject \/ Take \/ Receive
           \/ \E t \in Tickets : Expire(t)
Owner   == \/ Connect \/ Disconnect \/ \E p \in Paths, v \in Values : Set(p, v)
Helper  == Serve \/ Refuse \/ \E p \in Paths, v \in Values : Change(p, v)

Next == Drain \/ PollComesDue \/ Owner \/ Network \/ Helper

Spec == Init /\ [][Next]_vars

\* The UI thread drains on every wake-up and when the next re-read is due, the
\* network thread keeps running and dialling, the helper serves its clients.
FairSpec ==
  /\ Spec
  /\ WF_vars(Drain) /\ WF_vars(PollComesDue)
  /\ WF_vars(Dial) /\ WF_vars(DialSucceeds) /\ WF_vars(Take) /\ WF_vars(Receive)
  /\ WF_vars(Serve)

------------------------------------------------------------------------------
\* Properties.

\* What the store, the connection and the helper hold.
TypeOK ==
  /\ ui.status \in Statuses /\ ui.tree \in [Paths -> Values \cup {Absent}]
  /\ {ui.root, ui.poll} \subseteq Tickets \cup {None} /\ ui.subscribed \subseteq Paths
  /\ ui.status = "Loading" => ui.root # None
  /\ ui.due \in BOOLEAN /\ ui.from \in 0..gen
  /\ pc \in {"idle", "rest"}
  /\ conn \in {"none", "backoff", "dialing", "ready"} /\ gen \in Nat
  /\ pending \subseteq Tickets /\ subs \subseteq Paths
  /\ \A t \in Tickets : mail[t].st \in {"none", "error", "reply"}

\* A store that is live on its connection shows what this connection has sent:
\* a reply that was asked for before the connection was lost is not put over
\* the tree the next session has sent.
ReadFromThisSession ==
  pc = "idle" /\ updates = <<>> /\ ui.status = "Live" /\ conn = "ready" => ui.from = gen

\* A store that is live on its connection, with nothing under way, has in force
\* a subscription for every property it shows, those that appeared included.
Quiet == /\ conn = "ready" /\ pc = "idle" /\ updates = <<>>
         /\ tx = <<>> /\ up = <<>> /\ down = <<>>
         /\ ui.root = None
SubscribedToAll == Quiet /\ ui.status = "Live" => Exists(ui.tree) \subseteq subs

\* With the helper at rest the store comes to show what the helper holds and
\* stays so, unless it has been disconnected or a `get /` has failed on a
\* connection that lasts (which is never tried again).
Converges == <>[](\/ conn = "none"
                  \/ ui.status = "Failed"
                  \/ conn = "ready" /\ ui.status = "Live" /\ ui.tree = val)
=============================================================================

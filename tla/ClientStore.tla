----------------------------- MODULE ClientStore -----------------------------
(***************************************************************************)
(* What the console shows, and whether it is what the engine holds.        *)
(*                                                                         *)
(* The store (src/console-rs/crates/ua-engine/src/store.rs) and its writer *)
(* (writer.rs) live on the UI thread; the network thread ingests frames in *)
(* batches (connection.rs); the engine is the mixer daemon's state tree    *)
(* (src/mixer-engine/ua_mixer_daemon.py, state_tree.py), which other       *)
(* clients and the hardware change too.                                    *)
(*                                                                         *)
(* A local edit shows at once and holds back the engine's pushes for its   *)
(* property; three kinds of reply (tree, node, value) travel beside the    *)
(* push stream and are read by the UI thread in its own time.  Timers are  *)
(* events that may happen at any moment.                                   *)
(*                                                                         *)
(* The code does not always end up with the engine's value.  The history   *)
(* fields of `ui` (no code reads them) record, at the steps that go wrong, *)
(* for which properties it did:                                            *)
(*   astray  the properties left with a value that is not the engine's     *)
(*           newest: an echo swallowed by a hold while something else is   *)
(*           on show (a tree or a node was installed over the hold); an    *)
(*           older reply, to a re-read or a refresh, put over a push; a    *)
(*           re-read that was due and not asked for, one being in flight.  *)
(*           The next push, tree or clean reply puts them right.           *)
(*   missed  a trigger changed while a refresh was in flight, which asks   *)
(*           for no second one.                                            *)
(***************************************************************************)
EXTENDS Integers, Sequences, FiniteSets, SequencesExt

CONSTANTS Paths,      \* properties, all of one node
          Natures,    \* what a property may be: sets of Traits
          Values,
          NoValue,    \* not a value
          MaxSets,    \* bound on the user's edits
          MaxOthers,  \* bound on changes from other clients and the hardware
          MaxLosses,  \* bound on lost connections
          MaxTroubles \* bound on the two together


Traits == {"trigger",    \* its change alters other metadata (METADATA_TRIGGERS)
           "slow",       \* a plug-in parameter (slow_echo)
           "refusable"}  \* the engine may refuse to set it

ASSUME StoreAssumption ==
  /\ Natures \subseteq SUBSET Traits /\ Natures # {}
  /\ Values # {} /\ NoValue \notin Values
  /\ {MaxSets, MaxOthers, MaxLosses, MaxTroubles} \subseteq Nat

VARIABLES ui,         \* the Store: see UiType
          pc,         \* where the UI thread is in Store::drain
          updates,    \* the channel of Updates from the network thread
          mail,       \* the reply channels of re-reads (by path) and of the refresh
          connected,  \* the connection state is Loading or Ready
          batch, acc, \* the network thread's ingest: frames left, values gathered
          up, down,   \* commands to the engine, frames from it
          val,        \* the engine's tree
          subscribed, \* this client is in the engine's subscriber lists
          nature,     \* what each property is; it stays that
          sets, others, losses   \* what has been used of the bounds

bounds == <<sets, others, losses>>
net    == <<batch, acc>>
engine == <<val, subscribed>>
vars   == <<ui, pc, updates, mail, connected, net, up, down, engine, nature, bounds>>

Having(trait) == {p \in Paths : trait \in nature[p]}
Triggers  == Having("trigger")
SlowPaths == Having("slow")
Refusable == Having("refusable")

------------------------------------------------------------------------------
\* The properties in the order the store and the engine go through them.
PathSeq == SetToSeq(Paths)

NoHold == [on |-> FALSE]
NoReread == [on |-> FALSE]
Node == "node"

\* A reply channel: nothing yet, an error (the request failed), or a reply.
NoMail == [st |-> "empty"]
Failure == [st |-> "failed"]
Letter(v) == [st |-> "reply", v |-> v]

Init ==
  /\ nature \in [Paths -> Natures]
  /\ val \in [Paths -> Values]
  /\ ui = [tree |-> val,                         \* Model.tree
           meta |-> [t \in Triggers |-> val[t]], \* metadata that depends on a trigger
           hold |-> [p \in Paths |-> NoHold],    \* Model.holds
           unchanged |-> Paths,                  \* paths without an entry in path_revs
           reread |-> [p \in Paths |-> NoReread],\* value_inflight
           wanted |-> FALSE,                     \* refresh_wanted
           due |-> "no",                         \* refresh_due: no, waiting, elapsed
           refreshing |-> FALSE,                 \* refresh_inflight
           pend |-> <<>>,                        \* Writer.pending in Writer.order
           flushDue |-> FALSE,                   \* the coalescing interval has passed
           live |-> TRUE,                        \* status Live, Model.live
           send |-> <<>>,                        \* commands of the current step
           \* History (see above), and what the engine was heard to say of
           \* each property since the refresh was asked for.
           astray |-> {}, missed |-> FALSE, heard |-> [p \in Paths |-> NoValue]]
  /\ pc = "idle" /\ updates = <<>>
  /\ mail = [x \in Paths \cup {Node} |-> NoMail]
  /\ connected = TRUE /\ batch = 0 /\ acc = <<>>
  /\ up = <<>> /\ down = <<>> /\ subscribed = TRUE
  /\ sets = 0 /\ others = 0 /\ losses = 0

------------------------------------------------------------------------------
\* The store's operations, as functions of its state `s`.

\* History: whether what is shown for a property is the newest it was told.
Judge(s, p, right) == [s EXCEPT !.astray = IF right THEN @ \ {p} ELSE @ \cup {p}]

\* Model::record: the path's revision moves on, so that a re-read asked for
\* before is older than what is shown.
Record(s, P) ==
  [s EXCEPT !.unchanged = @ \ P,
            !.reread = [p \in Paths |-> IF p \in P /\ @[p].on
                                        THEN [@[p] EXCEPT !.same = FALSE] ELSE @[p]]]

\* Seeded fault of SetValue: a changed trigger asks for no refresh.
SetValueUntriggered(s, p, v) ==
  IF s.tree[p] = v THEN s ELSE Record([s EXCEPT !.tree[p] = v], {p})

\* Model::set_value.
SetValue(s, p, v) ==
  IF s.tree[p] = v THEN s
  ELSE Record([s EXCEPT !.tree[p] = v, !.wanted = @ \/ (s.live /\ p \in Triggers)], {p})

\* Model::apply_local: the value shows at once; a hold replaces the one there
\* was and inherits the push it had kept.
ApplyLocal(s, p, v) ==
  LET latest == IF s.hold[p].on THEN s.hold[p].latest ELSE NoValue
  IN [SetValue(s, p, v) EXCEPT
        !.hold[p] = [on |-> TRUE, local |-> v, latest |-> latest,
                     echoed |-> FALSE, expired |-> FALSE, extended |-> FALSE]]

\* Writer::set: the newest value per path, in first-touched order.
Enqueue(s, p, v) ==
  IF \E i \in DOMAIN s.pend : s.pend[i].p = p
  THEN [s EXCEPT !.pend = [i \in DOMAIN @ |-> IF @[i].p = p THEN [@[i] EXCEPT !.v = v] ELSE @[i]]]
  ELSE [s EXCEPT !.pend = Append(@, [p |-> p, v |-> v])]

\* Writer::flush; a command that cannot be sent is only counted (suppressed).
Flush(s) ==
  [s EXCEPT !.pend = <<>>, !.flushDue = FALSE,
            !.send = @ \o [i \in DOMAIN s.pend |-> [k |-> "set", p |-> s.pend[i].p, v |-> s.pend[i].v]]]

\* Store::reread: one request per property at a time.  (`again`, `heard` are
\* history: one more was due; what the engine said since.)
Reread(s, p) ==
  IF ~s.live THEN s
  ELSE IF s.reread[p].on THEN [s EXCEPT !.reread[p].again = TRUE]
  ELSE [s EXCEPT !.reread[p] = [on |-> TRUE, same |-> TRUE, first |-> p \in s.unchanged,
                                again |-> FALSE, heard |-> NoValue],
                 !.send = Append(@, [k |-> "getValue", p |-> p])]

\* Seeded faults of ApplyPush: a push goes through the hold; a push that meets
\* a hold is forgotten.
ApplyPushThrough(s, p, v) == SetValue(s, p, v)
ApplyPushForgotten(s, p, v) ==
  IF s.hold[p].on /\ ~s.hold[p].expired THEN s ELSE SetValue(s, p, v)

\* Store::apply_push.
ApplyPush(s, p, v) ==
  LET h == s.hold[p] IN
  IF h.on /\ ~h.expired
  THEN IF v # h.local THEN [s EXCEPT !.hold[p].latest = v]
       ELSE IF p \in SlowPaths THEN SetValue([s EXCEPT !.hold[p] = NoHold], p, v)
       ELSE [s EXCEPT !.hold[p].latest = NoValue, !.hold[p].echoed = TRUE]
  ELSE SetValue(s, p, v)

\* ... and its history: the engine has spoken of the property.  A push that is
\* neither kept nor shown, the hold taking it for an echo, leaves it astray.
Hear(s, p, v) ==
  LET t == ApplyPush(s, p, v)
      kept == s.hold[p].on /\ ~s.hold[p].expired /\ v # s.hold[p].local
  IN Judge([t EXCEPT !.reread[p] = IF @.on THEN [@ EXCEPT !.heard = v] ELSE @,
                     !.heard[p] = IF s.refreshing THEN v ELSE @],
           p, IF kept THEN p \notin s.astray ELSE t.tree[p] = v)

\* Seeded fault of Refused: the property is not read again.
RefusedUnread(s, p) == [s EXCEPT !.hold[p] = NoHold]

\* Store::refused: the optimistic value must not stay.
Refused(s, p) ==
  LET h == s.hold[p]
      dropped == [s EXCEPT !.hold[p] = NoHold]
  IN Reread(IF h.on /\ h.latest # NoValue
            THEN Judge(SetValue(dropped, p, h.latest), p, TRUE) ELSE dropped, p)

\* Store::install: the change log and the revisions start again; holds, pending
\* writes and re-reads in flight stay.
Install(s, tree) ==
  [s EXCEPT !.tree = tree, !.meta = [t \in Triggers |-> tree[t]],
            !.unchanged = Paths, !.wanted = FALSE, !.astray = {}, !.missed = FALSE,
            !.reread = [p \in Paths |-> IF @[p].on THEN [@[p] EXCEPT !.same = s.reread[p].first] ELSE @[p]]]

\* Store::handle_update.
HandleUpdate(s, u) ==
  CASE u.k = "backingOff" -> [s EXCEPT !.live = FALSE]
    [] u.k = "loading"    -> [s EXCEPT !.live = FALSE]
    [] u.k = "tree"       -> [Install(s, u.tree) EXCEPT !.live = TRUE,
                                !.send = Append(@, [k |-> "subscribe"])]
    [] u.k = "values"     -> FoldLeft(LAMBDA t, x : Hear(t, x.p, x.v), s, u.values)
    [] u.k = "error"      -> Refused(s, u.p)

\* Store::release_holds for one path: an expired hold gives way to the push it
\* kept, and the engine is asked what it holds now.  A slow path whose echo has
\* not come is held on, once, up to the cap.
ReleaseHold(s, p) ==
  LET h == s.hold[p]
      released == [s EXCEPT !.hold[p] = NoHold]
  IN IF ~(h.on /\ h.expired) THEN s
     ELSE IF p \in SlowPaths /\ ~h.echoed /\ ~h.extended
          THEN [s EXCEPT !.hold[p].expired = FALSE, !.hold[p].extended = TRUE]
     ELSE IF h.latest # NoValue THEN Reread(Judge(SetValue(released, p, h.latest), p, TRUE), p)
     ELSE released

OverPaths(Op(_, _), s) == FoldLeft(Op, s, PathSeq)

ReleaseHolds(s) == OverPaths(ReleaseHold, s)

WriterPoll(s) == IF s.flushDue THEN Flush(s) ELSE s

\* Store::apply_subtree: the node's properties become what the reply says.
ApplySubtree(s, tree) ==
  LET changed == {p \in Paths : s.tree[p] # tree[p]}
  IN Record([s EXCEPT !.tree = tree, !.meta = [t \in Triggers |-> tree[t]],
                      !.astray = {p \in Paths : s.heard[p] \notin {NoValue, tree[p]}}],
            changed)

\* Store::poll_refresh: schedule, ask, and take the reply.
ScheduleRefresh(s) ==
  [s EXCEPT !.wanted = FALSE,
            !.missed = @ \/ (s.wanted /\ s.refreshing),
            !.due = IF s.wanted /\ ~s.refreshing /\ @ = "no" THEN "waiting" ELSE @]
AskRefresh(s) ==
  IF s.due # "elapsed" THEN s
  ELSE [s EXCEPT !.due = "no", !.refreshing = TRUE, !.send = Append(@, [k |-> "getNode"]),
                 !.missed = FALSE, !.heard = [p \in Paths |-> NoValue]]
TakeRefresh(s) ==
  IF ~s.refreshing \/ mail[Node] = NoMail THEN s
  ELSE LET t == [s EXCEPT !.refreshing = FALSE]
       IN IF mail[Node] = Failure THEN t ELSE ApplySubtree(t, mail[Node].v)
PollRefresh(s) ==
  IF s.live THEN TakeRefresh(AskRefresh(ScheduleRefresh(s))) ELSE ScheduleRefresh(s)

\* Store::poll_rereads for one path: the reply counts unless the property has
\* changed since it was asked for.
TakeReread(s, p) ==
  LET r == s.reread[p]
      t == [s EXCEPT !.reread[p] = NoReread]
  IN CASE ~r.on \/ mail[p] = NoMail -> s
       [] r.on /\ mail[p] = Failure -> t
       [] r.on /\ mail[p].st = "reply" /\ ~r.same ->
            Judge(t, p, p \notin s.astray /\ (r.again => r.heard = s.tree[p]))
       [] r.on /\ mail[p].st = "reply" /\ r.same ->
            Judge(SetValue([t EXCEPT !.hold[p] = NoHold], p, mail[p].v), p,
                  r.heard \in {NoValue, mail[p].v})
PollRereads(s) == OverPaths(TakeReread, s)

\* Mail that was on the table when the step began has been read.
Taken(s, t) == [x \in Paths \cup {Node} |->
                  IF x = Node THEN IF s.refreshing /\ ~t.refreshing THEN NoMail ELSE mail[x]
                  ELSE IF s.reread[x].on /\ ~t.reread[x].on THEN NoMail ELSE mail[x]]

\* A request made while disconnected fails at once.
Asks(x, cmds) == \E i \in DOMAIN cmds :
                   IF x = Node THEN cmds[i].k = "getNode"
                   ELSE cmds[i].k = "getValue" /\ cmds[i].p = x

\* The UI thread's step leaves state `s`: its commands go out, or are refused.
Becomes(s, m) ==
  /\ ui' = [s EXCEPT !.send = <<>>]
  /\ up' = IF connected THEN up \o s.send ELSE up
  /\ mail' = IF connected THEN m
             ELSE [x \in DOMAIN m |-> IF Asks(x, s.send) THEN Failure ELSE m[x]]

------------------------------------------------------------------------------
\* The UI thread.

\* Store::set: coalesced.  Store::commit: flushed before and after.
UserSet(p, v) ==
  /\ pc = "idle" /\ sets < MaxSets
  /\ sets' = sets + 1
  /\ \E s \in {ApplyLocal(ui, p, v)} : Becomes(Enqueue(s, p, v), mail)
  /\ UNCHANGED <<pc, updates, connected, net, down, engine, nature, others, losses>>

UserCommit(p, v) ==
  /\ pc = "idle" /\ sets < MaxSets
  /\ sets' = sets + 1
  /\ \E s \in {ApplyLocal(Flush(ui), p, v)} : Becomes(Flush(Enqueue(s, p, v)), mail)
  /\ UNCHANGED <<pc, updates, connected, net, down, engine, nature, others, losses>>

\* Store::drain, first half: everything on the update channel.
DrainUpdates ==
  /\ pc = "idle"
  /\ pc' = "rest"
  /\ \E s \in {FoldLeft(HandleUpdate, ui, updates)} : Becomes(s, mail)
  /\ updates' = <<>>
  /\ UNCHANGED <<connected, net, down, engine, nature, bounds>>

\* Second half: holds, writer, refresh, re-reads.
DrainRest ==
  /\ pc = "rest"
  /\ pc' = "idle"
  /\ \E shown \in {ReleaseHolds(ui)} :
       \E asked \in {PollRefresh(WriterPoll(shown))} :
         \E s \in {PollRereads(asked)} : Becomes(s, Taken(ui, s))
  /\ UNCHANGED <<updates, connected, net, down, engine, nature, bounds>>

\* Time: a hold runs out, the 16 ms of a pending write or the 100 ms before a
\* refresh are over.
HoldExpires(p) ==
  /\ ui.hold[p].on /\ ~ui.hold[p].expired
  /\ ui' = [ui EXCEPT !.hold[p].expired = TRUE]
  /\ UNCHANGED <<pc, updates, mail, connected, net, up, down, engine, nature, bounds>>

FlushComesDue ==
  /\ ui.pend # <<>> /\ ~ui.flushDue
  /\ ui' = [ui EXCEPT !.flushDue = TRUE]
  /\ UNCHANGED <<pc, updates, mail, connected, net, up, down, engine, nature, bounds>>

RefreshComesDue ==
  /\ ui.due = "waiting"
  /\ ui' = [ui EXCEPT !.due = "elapsed"]
  /\ UNCHANGED <<pc, updates, mail, connected, net, up, down, engine, nature, bounds>>

------------------------------------------------------------------------------
\* The network thread.

Read ==
  /\ connected /\ batch = 0 /\ down # <<>>
  /\ \E n \in 1..Len(down) : batch' = n
  /\ UNCHANGED <<ui, pc, updates, mail, connected, acc, up, down, engine, nature, bounds>>

\* Task::ingest, one frame: replies go to their channel, errors and the tree to
\* the update channel, values wait for the end of the batch.
IngestFrame ==
  /\ batch > 0
  /\ batch' = batch - 1
  /\ down' = Tail(down)
  /\ \E f \in {Head(down)} :
     LET values == IF f.k = "push" THEN Append(acc, [p |-> f.p, v |-> f.v]) ELSE acc
         told == IF f.k \in {"error", "tree"} THEN Append(updates, f) ELSE updates
     IN /\ mail' = CASE f.k = "value" -> [mail EXCEPT ![f.p] = Letter(f.v)]
                     [] f.k = "node"  -> [mail EXCEPT ![Node] = Letter(f.tree)]
                     [] OTHER         -> mail
        /\ IF batch = 1 /\ values # <<>>
           THEN /\ updates' = Append(told, [k |-> "values", values |-> values])
                /\ acc' = <<>>
           ELSE /\ updates' = told
                /\ acc' = values
  /\ UNCHANGED <<ui, pc, connected, up, engine, nature, bounds>>

\* The session is lost: what was under way is gone, and every request that was
\* waiting fails.
Lost ==
  /\ connected /\ batch = 0
  /\ losses < MaxLosses /\ others + losses < MaxTroubles
  /\ losses' = losses + 1
  /\ connected' = FALSE /\ subscribed' = FALSE
  /\ up' = <<>> /\ down' = <<>>
  /\ updates' = Append(updates, [k |-> "backingOff"])
  /\ mail' = [x \in DOMAIN mail |->
                IF mail[x] = NoMail /\ (IF x = Node THEN ui.refreshing ELSE ui.reread[x].on)
                THEN Failure ELSE mail[x]]
  /\ UNCHANGED <<ui, pc, net, val, nature, sets, others>>

\* After the back-off a new session opens with `get /`.
Reconnect ==
  /\ ~connected
  /\ connected' = TRUE
  /\ updates' = Append(updates, [k |-> "loading"])
  /\ up' = <<[k |-> "getTree"]>>
  /\ UNCHANGED <<ui, pc, mail, net, down, engine, nature, bounds>>

------------------------------------------------------------------------------
\* The engine.

Push(p, v) == [k |-> "push", p |-> p, v |-> v]
\* state_tree.set: subscribers hear of a change, the writer among them.
Notified(p, v) == IF subscribed /\ val[p] # v THEN <<Push(p, v)>> ELSE <<>>

ServeSet(c) ==
  /\ c.k = "set"
  /\ \/ /\ val' = [val EXCEPT ![c.p] = c.v]
        \* the reply echoes the command's value
        /\ down' = down \o Notified(c.p, c.v) \o <<Push(c.p, c.v)>>
     \/ /\ c.p \in Refusable
        /\ val' = val
        /\ down' = Append(down, [k |-> "error", p |-> c.p])
  /\ UNCHANGED subscribed

ServeSubscribe(c) ==
  /\ c.k = "subscribe"
  /\ subscribed' = TRUE
  /\ down' = down \o [i \in DOMAIN PathSeq |-> Push(PathSeq[i], val[PathSeq[i]])]
  /\ UNCHANGED val

ServeGet(c) ==
  /\ c.k \in {"getTree", "getNode", "getValue"}
  /\ down' = Append(down, CASE c.k = "getTree"  -> [k |-> "tree", tree |-> val]
                            [] c.k = "getNode"  -> [k |-> "node", tree |-> val]
                            [] c.k = "getValue" -> [k |-> "value", p |-> c.p, v |-> val[c.p]])
  /\ UNCHANGED <<val, subscribed>>

Serve ==
  /\ connected /\ up # <<>>
  /\ up' = Tail(up)
  /\ LET c == Head(up) IN ServeSet(c) \/ ServeSubscribe(c) \/ ServeGet(c)
  /\ UNCHANGED <<ui, pc, updates, mail, connected, net, nature, bounds>>

\* Another client's set, or a hardware readback.
OtherChange(p, v) ==
  /\ others < MaxOthers /\ others + losses < MaxTroubles /\ val[p] # v
  /\ others' = others + 1
  /\ val' = [val EXCEPT ![p] = v]
  /\ down' = down \o Notified(p, v)
  /\ UNCHANGED <<ui, pc, updates, mail, connected, net, up, subscribed, nature, sets, losses>>

------------------------------------------------------------------------------
Drain == DrainUpdates \/ DrainRest
Network == Read \/ IngestFrame
Timer == (\E p \in Paths : HoldExpires(p)) \/ FlushComesDue \/ RefreshComesDue
User == \E p \in Paths, v \in Values : UserSet(p, v) \/ UserCommit(p, v)

Next == \/ User \/ Drain \/ Timer \/ Network \/ Lost \/ Reconnect \/ Serve
        \/ \E p \in Paths, v \in Values : OtherChange(p, v)

Spec == Init /\ [][Next]_vars

\* The UI thread drains on every wake-up, the timers run, the network thread
\* keeps reading, the daemon serves its clients, and the back-off ends.
FairSpec == /\ Spec
            /\ WF_vars(Drain) /\ WF_vars(Timer)
            /\ WF_vars(Network) /\ WF_vars(Serve) /\ WF_vars(Reconnect)

------------------------------------------------------------------------------
\* Properties.

\* What the store holds; one pending write per path.
TypeOK ==
  /\ ui.tree \in [Paths -> Values] /\ ui.meta \in [Triggers -> Values]
  /\ \A p \in Paths : ui.hold[p].on =>
       ui.hold[p].local \in Values /\ ui.hold[p].latest \in Values \cup {NoValue}
  /\ ui.due \in {"no", "waiting", "elapsed"}
  /\ {ui.wanted, ui.refreshing, ui.live, ui.flushDue, connected, subscribed} \subseteq BOOLEAN
  /\ Len(ui.pend) <= Cardinality(Paths) /\ ui.send = <<>>
  /\ pc \in {"idle", "rest"} /\ batch \in Nat /\ batch <= Len(down)
  /\ val \in [Paths -> Values]

\* Nothing is under way between the console and the engine.
Settled ==
  /\ connected /\ ui.live /\ subscribed
  /\ updates = <<>> /\ batch = 0 /\ up = <<>> /\ down = <<>>
  /\ ui.pend = <<>> /\ ~ui.wanted /\ ui.due = "no" /\ ~ui.refreshing
  /\ \A p \in Paths : ~ui.hold[p].on /\ ~ui.reread[p].on

\* When nothing is under way the console shows what the engine holds, but for
\* the properties that one of the four mishaps of `astray` has left behind and
\* nothing has put right since: whatever else overlaps (edits, refusals, pushes
\* around a hold's end, reconnects, re-reads, refreshes) loses no value.
ShowsEngine == Settled => \A p \in Paths \ ui.astray : ui.tree[p] = val[p]

\* The metadata beside a trigger goes with the engine's value of it, unless the
\* trigger changed under a refresh in flight or was itself left astray.
ShowsMetadata ==
  Settled /\ ~ui.missed => \A t \in Triggers \ ui.astray : ui.meta[t] = val[t]

\* While a hold lasts nothing the engine says, and no timer, moves the control;
\* only the user's next edit does, and a tree or a node that replaces it.  (The
\* gap between a slow path's hold running out and its extension is not a hold:
\* see Store_slow.cfg.)
Held(p) == ui.hold[p].on /\ ~ui.hold[p].expired
HeldStays ==
  [][\A p \in Paths : Held(p) /\ Held(p)' =>
       \/ ui'.tree[p] \in {ui.tree[p], ui'.hold[p].local}
       \/ \E i \in DOMAIN updates : updates[i].k = "tree" /\ ui'.tree[p] = updates[i].tree[p]
       \/ ui.refreshing /\ mail[Node].st = "reply" /\ ui'.tree[p] = mail[Node].v[p]]_vars

\* With everyone at rest the console settles, for good, and on what the engine
\* holds but for what is astray: no refusal, lost connection, failed re-read or
\* failed refresh leaves it waiting.
Settles == <>[](Settled /\ ShowsEngine)

\* What the code's comments promise without those exceptions; the kept-aside
\* configurations Store_reconnect, Store_reread and Store_slow show where it
\* does not hold.
AlwaysShows == Settled => ui.tree = val
NeverMoves == \A p \in Paths : Held(p) => ui.tree[p] = ui.hold[p].local
=============================================================================

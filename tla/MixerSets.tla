------------------------------ MODULE MixerSets ------------------------------
(***************************************************************************)
(* How the mixer daemon takes its clients' SETs                            *)
(* (src/mixer-engine/ua_mixer_daemon.py, _handle_set and _native_run), and *)
(* the undo history the accepted ones make (console_history.py).           *)
(*                                                                         *)
(* A plug-in SET runs as a transaction on a worker thread when native      *)
(* hosting is on; until it ends every other SET waits in a list, where a   *)
(* newer value of a plug-in parameter takes the place of an older one.     *)
(* The list is run on the event loop when the transaction ends, whether or *)
(* not the clients that filled it are still there.                         *)
(***************************************************************************)
EXTENDS Integers, Sequences, FiniteSets

CONSTANTS Clients,
          Paths,       \* mixer controls
          Skipped,     \* those the history never records (UNDO_SKIP)
          Params,      \* parameters of native plug-ins
          Values, Start,  \* what a control may hold, and holds at first
          MaxEntries,  \* 50 in the code
          MaxSent      \* bound on SETs

ASSUME MixerAssumption ==
  /\ Skipped \subseteq Paths /\ Start \in Values
  /\ MaxEntries \in Nat \ {0} /\ MaxSent \in Nat

VARIABLES clients,   \* those connected; one that comes back is another client
          hosting,   \* _native_plugin_backend is there
          mixer,     \* the tree's values, the history, the transaction under way
          waiting,   \* _native_waiting
          sent,      \* SETs so far
          latest     \* parameter -> the newest SET of it

vars == <<clients, hosting, mixer, waiting, sent, latest>>

------------------------------------------------------------------------------
NoJob == [n |-> 0]
Empty == [p \in {} |-> 0]

\* `ran`, `runs`, `answered` and `torn` are history fields: the last SET and the
\* last SET of each parameter that was applied, those that were answered, and
\* the controls that were changed inside somebody else's open gesture about them.
Init ==
  /\ clients = Clients
  /\ hosting \in BOOLEAN
  /\ mixer = [val |-> [p \in Paths |-> Start], groups |-> Empty, entries |-> <<>>, current |-> 0,
              job |-> NoJob, ran |-> 0, runs |-> [p \in Params |-> 0], answered |-> {}, torn |-> {}]
  /\ waiting = <<>> /\ sent = 0 /\ latest = [p \in Params |-> 0]

------------------------------------------------------------------------------
\* The history.  A delta gives, of each path it changes, the values before and
\* after.

\* History.append: what was undone cannot be redone any more.
AppendStep(m, delta) ==
  LET changed == {p \in DOMAIN delta : delta[p].old # delta[p].new}
      kept    == Append(SubSeq(m.entries, 1, m.current), [p \in changed |-> delta[p]])
      steps   == IF Len(kept) > MaxEntries THEN Tail(kept) ELSE kept
  IN IF changed = {} THEN m ELSE [m EXCEPT !.entries = steps, !.current = Len(steps)]

\* Seeded fault of Merge: a gesture forgets where it began.
MergeLast(group, p, old, new) ==
  [q \in DOMAIN group \cup {p} |-> IF q = p THEN [old |-> old, new |-> new] ELSE group[q]]

\* A gesture keeps the first value before it and the last one after it.
Merge(group, p, old, new) ==
  [q \in DOMAIN group \cup {p} |->
     IF q # p THEN group[q]
     ELSE [old |-> IF p \in DOMAIN group THEN group[p].old ELSE old, new |-> new]]

\* Whose open gestures are about a control.
Holding(m, p) == {c \in DOMAIN m.groups : p \in DOMAIN m.groups[c]}
Torn(m, c, p) == IF Holding(m, p) \subseteq {c} THEN m.torn ELSE m.torn \cup {p}

\* StateTree.set and History.record.
Edit(m, c, p, v) ==
  LET old == m.val[p]
      t   == [m EXCEPT !.val[p] = v]
      u   == [t EXCEPT !.torn = Torn(m, c, p)]
  IN IF old = v \/ p \in Skipped THEN t
     ELSE IF c \in DOMAIN m.groups THEN [u EXCEPT !.groups[c] = Merge(@, p, old, v)]
     ELSE AppendStep(u, Merge(Empty, p, old, v))

\* History.bracket and History.disconnect.
OpenGroup(m, c) ==
  IF c \in DOMAIN m.groups THEN m
  ELSE [m EXCEPT !.groups = [d \in DOMAIN @ \cup {c} |-> IF d = c THEN Empty ELSE @[d]]]
CloseGroup(m, c) ==
  IF c \notin DOMAIN m.groups THEN m
  ELSE AppendStep([m EXCEPT !.groups = [d \in DOMAIN @ \ {c} |-> @[d]]], m.groups[c])

\* History.move, one step back or forward, while nobody has a gesture open.
CanMove(m, to) ==
  /\ m.groups = Empty
  /\ \/ to = m.current - 1 /\ to >= 0
     \/ to = m.current + 1 /\ to <= Len(m.entries)
Move(m, to) ==
  LET back  == to < m.current
      delta == m.entries[IF back THEN m.current ELSE to]
  IN [m EXCEPT !.current = to,
               !.val = [p \in Paths |-> IF p \notin DOMAIN delta THEN @[p]
                                        ELSE IF back THEN delta[p].old ELSE delta[p].new]]

------------------------------------------------------------------------------
\* _handle_set, when no transaction is under way.

Answer(m, n) == [m EXCEPT !.answered = @ \cup {n}]

\* A refused SET is answered too, with an error.
Done(m, r) ==
  LET s == r.set IN
  CASE s.k = "edit"    -> Edit(m, r.c, s.p, s.v)
    [] s.k = "bracket" -> IF s.on THEN OpenGroup(m, r.c) ELSE CloseGroup(m, r.c)
    [] s.k = "move"    -> IF ~hosting /\ CanMove(m, s.to) THEN Move(m, s.to) ELSE m
    [] s.k \in {"param", "load"} -> m

Ran(m, r) ==
  [m EXCEPT !.ran = r.n,
            !.runs = [p \in Params |-> IF r.set.k = "param" /\ r.set.p = p THEN r.n ELSE @[p]]]

Apply(m, r) ==
  IF hosting /\ r.set.k \in {"param", "load"} THEN [Ran(m, r) EXCEPT !.job = r]
  ELSE Answer(Done(Ran(m, r), r), r.n)

------------------------------------------------------------------------------
\* _handle_client, at its end.  What the client has waiting stays.
Disconnect(c) ==
  /\ c \in clients
  /\ clients' = clients \ {c}
  /\ mixer' = CloseGroup(mixer, c)
  /\ UNCHANGED <<hosting, waiting, sent, latest>>

\* r replaces q: it is a newer value of the same parameter.
Supersedes(r, q) == r.set.k = "param" /\ q.set.k = "param" /\ q.set.p = r.set.p

\* Seeded fault of Queued: the newer value takes the older one's place in the list.
QueuedInPlace(r) ==
  IF \E i \in DOMAIN waiting : Supersedes(r, waiting[i])
  THEN [i \in DOMAIN waiting |-> IF Supersedes(r, waiting[i]) THEN r ELSE waiting[i]]
  ELSE Append(waiting, r)

Queued(r) ==
  LET kept[n \in 0..Len(waiting)] ==
        IF n = 0 THEN <<>>
        ELSE IF Supersedes(r, waiting[n]) THEN kept[n - 1] ELSE Append(kept[n - 1], waiting[n])
  IN Append(kept[Len(waiting)], r)

\* Console tags every SET and does not wait: a superseded one is answered now.
Superseded(r) == {waiting[i].n : i \in {j \in DOMAIN waiting : Supersedes(r, waiting[j])}}

Sets ==
  [k : {"edit"}, p : Paths, v : Values] \cup [k : {"bracket"}, on : BOOLEAN]
    \cup [k : {"move"}, to : {mixer.current - 1, mixer.current + 1}]
    \cup [k : {"param"}, p : Params] \cup [k : {"load"}]

Set(c) ==
  /\ c \in clients /\ sent < MaxSent
  /\ sent' = sent + 1
  /\ \E s \in Sets : \E r \in {[c |-> c, n |-> sent + 1, set |-> s]} :
       /\ latest' = [p \in Params |-> IF s.k = "param" /\ s.p = p THEN r.n ELSE latest[p]]
       /\ \/ /\ mixer.job # NoJob
             /\ mixer' = [mixer EXCEPT !.answered = @ \cup Superseded(r)]
             /\ waiting' = Queued(r)
          \/ /\ mixer.job = NoJob
             /\ mixer' = Apply(mixer, r)
             /\ UNCHANGED waiting
  /\ UNCHANGED <<clients, hosting>>

\* Seeded fault of Drained: only the SET at the head of the list is run.
DrainedOne(m) == [m |-> Apply(m, Head(waiting)), rest |-> Tail(waiting)]

\* _native_run, finish: the waiting SETs run in order until one of them is a
\* transaction again.
Takes(t, r) ==
  IF t.m.job = NoJob THEN [t EXCEPT !.m = Apply(t.m, r)] ELSE [t EXCEPT !.rest = Append(@, r)]
Drained(m) ==
  LET after[n \in 0..Len(waiting)] ==
        IF n = 0 THEN [m |-> m, rest |-> <<>>] ELSE Takes(after[n - 1], waiting[n])
  IN after[Len(waiting)]

\* The transaction ends, committed or not (what the tree then shows of the
\* plug-in is not modelled here): its client is answered either way.
Finish ==
  /\ mixer.job # NoJob
  /\ \E m \in {[Answer(mixer, mixer.job.n) EXCEPT !.job = NoJob]} :
       \E t \in {IF waiting = <<>> THEN [m |-> m, rest |-> <<>>] ELSE Drained(m)} :
         mixer' = t.m /\ waiting' = t.rest
  /\ UNCHANGED <<clients, hosting, sent, latest>>

\* _native_pause, when nothing is loaded or under way; _native_hosting_try.
Pause ==
  /\ hosting /\ mixer.job = NoJob /\ waiting = <<>>
  /\ hosting' = FALSE
  /\ UNCHANGED <<clients, mixer, waiting, sent, latest>>
Attach ==
  /\ ~hosting /\ hosting' = TRUE
  /\ UNCHANGED <<clients, mixer, waiting, sent, latest>>

Next == (\E c \in Clients : Disconnect(c) \/ Set(c)) \/ Finish \/ Pause \/ Attach

Spec == Init /\ [][Next]_vars

------------------------------------------------------------------------------
\* Properties.

\* What the mixer and its history hold; a history is never longer than its limit.
TypeOK ==
  /\ clients \subseteq Clients /\ hosting \in BOOLEAN
  /\ mixer.val \in [Paths -> Values]
  /\ DOMAIN mixer.groups \subseteq Clients
  /\ Len(mixer.entries) <= MaxEntries /\ mixer.current \in 0..Len(mixer.entries)
  /\ \A i \in DOMAIN mixer.entries : DOMAIN mixer.entries[i] \subseteq Paths \ Skipped
  /\ mixer.answered \subseteq 1..sent /\ sent \in 0..MaxSent

\* Undo tells the truth.  Of every control, the history is one unbroken line of
\* values that meets the mixer's at the current step: a step's new value is the
\* next step's old one, what is undone goes back to a value that was there, what
\* is redone starts from the one that is there now, and an open gesture hangs on
\* to the end of the line.  Clients edit the same controls, in turn and in open
\* gestures, and disconnect; only a control that was changed inside another's
\* gesture about it is left out (groups are kept by client: console_history.py).
Mentions(e, p) == {i \in DOMAIN e : p \in DOMAIN e[i]}
Unbroken(e, current, now, p) ==
  LET at == Mentions(e, p) IN
  /\ \A i, j \in at : i < j /\ (\A k \in at : k <= i \/ k >= j) => e[i][p].new = e[j][p].old
  /\ \A i \in at :
       /\ i <= current /\ (\A k \in at : k <= i \/ k > current) => e[i][p].new = now
       /\ i > current /\ (\A k \in at : k >= i \/ k <= current) => e[i][p].old = now
Line(m, p) ==
  LET held == Holding(m, p)
      now  == IF held = {} THEN m.val[p] ELSE m.groups[CHOOSE c \in held : TRUE][p].old
  IN /\ Unbroken(m.entries, m.current, now, p)
     /\ \A c \in held : m.groups[c][p].new = m.val[p]
UndoTruthful == \A p \in Paths \ mixer.torn : Line(mixer, p)

\* Not so of the code: of every control.
AlwaysTruthful == \A p \in Paths : Line(mixer, p)

\* "Applied afterwards, in order", and "keep only the newest queued value": what
\* waits is newer than what was applied and stands in the order it came, and the
\* newest SET of a parameter is applied or waits.
InOrder ==
  /\ \A i, j \in DOMAIN waiting : i < j => waiting[i].n < waiting[j].n
  /\ \A i \in DOMAIN waiting : mixer.ran < waiting[i].n
  /\ \A p \in Params : \/ mixer.runs[p] = latest[p]
                       \/ \E i \in DOMAIN waiting : waiting[i].n = latest[p]

\* No SET is lost or stranded: each one is answered (applied, refused or
\* superseded), or waits, or is the transaction, and SETs wait only behind a
\* transaction, whose end runs them.
Waits == {waiting[i].n : i \in DOMAIN waiting}
NoneStranded ==
  /\ mixer.answered = (1..sent) \ (Waits \cup {mixer.job.n})
  /\ waiting # <<>> => mixer.job # NoJob

\* "disconnected-client group completion": a gesture that is open is that of a
\* client that is there.
GesturesOfClients == \A c \in DOMAIN mixer.groups : c \in clients
=============================================================================

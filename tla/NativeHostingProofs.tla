------------------------- MODULE NativeHostingProofs -------------------------
(***************************************************************************)
(* Proofs about NativeHosting, for any number of slots, effects, values,   *)
(* instances and ended sessions.                                           *)
(*                                                                         *)
(* NothingForgotten needs to know, at each step of a transaction, where    *)
(* the candidate and what it replaces are kept (Placed).  What the tree    *)
(* shows, and that a transaction does all or nothing, come from a second   *)
(* invariant above the first one, which says at each step what the slot    *)
(* shows and runs (Shown, Known), what may have been lost (Alive), and how *)
(* far things are from where the transaction began (Was).                  *)
(***************************************************************************)
EXTENDS NativeHosting, TLAPS

Staged == {"observe", "activate", "publish", "finalize", "rollback"}
Alone == {"prepare", "create", "retire", "clear", "cleared", "plan", "apply", "store", "stored", "restore"}

\* A transaction under way has a slot, and hosting stays while it is.
Serving ==
  /\ work.pc # "idle" => work.s \in Slots /\ hosting
  /\ work.pc \in {"prepare", "create"} => made < MaxMade

\* Where the candidate and what it replaces are: in the slot's two places while
\* they may both be on the device, and what was replaced is gone at the end.
Placed ==
  /\ work.pc \in Alone => work.prev = Nobody
  /\ work.pc = "create" => host.pending[work.s] = Nobody
  /\ work.pc \in Staged =>
       IF work.prev = Nobody
       THEN host.leases[work.s] = work.h /\ host.pending[work.s] = Nobody
       ELSE host.pending[work.s] = work.h /\ host.leases[work.s] \in {work.prev, work.h}
  /\ work.pc \in {"publish", "finalize"} => host.leases[work.s] = work.h
  /\ work.pc = "finalized" => work.prev \notin device.live

\* Hosting that was given up had nothing, and only a quarantine keeps tokens.
Released ==
  /\ ~hosting => \A s \in Slots : host.leases[s] = Nobody /\ host.pending[s] = Nobody
  /\ ~host.quarantined => host.unresolved = {}

Held(h) == \/ \E s \in Slots : h = host.leases[s] \/ h = host.pending[s]
           \/ h \in host.unresolved
           \/ work.pc # "idle" /\ h = work.prev
Covered == ~lapsed /\ ~host.quarantined => \A h \in device.live : Held(h)

IInv == TypeOK /\ Serving /\ Placed /\ Released /\ Covered
------------------------------------------------------------------------------
\* The parts of an action keep their types.

LEMMA JobTyped ==
  ASSUME HostingAssumption, TypeOK, NEW s \in Slots, NEW n \in Names \cup {NoName}, NEW v \in Values,
         NEW pc \in Pcs, NEW op \in Ops
  PROVE  Job(pc, op, s, n, v) \in Jobs
BY DEF Job, Jobs, TypeOK, Hosts, Instances, Answers

LEMMA AtTyped ==
  ASSUME TypeOK, NEW pc \in Pcs, At(pc)
  PROVE  /\ work' \in Jobs /\ work'.pc = pc /\ work'.s = work.s
         /\ work'.h = work.h /\ work'.prev = work.prev /\ work'.on = work.on
BY DEF TypeOK, At, Jobs

LEMMA AnswerTyped ==
  ASSUME TypeOK, NEW a \in Answers, Answer(a)
  PROVE  work' \in Jobs /\ work'.pc = "idle" /\ work'.prev = work.prev
<1>1. work \in Jobs /\ work' = [work EXCEPT !.pc = "idle", !.answer = a]
  BY DEF TypeOK, Answer
<1>2. "idle" \in Pcs
  BY DEF Pcs
<1>. QED BY <1>1, <1>2 DEF Jobs

LEMMA InvalidatedTyped ==
  ASSUME NEW b \in Hosts
  PROVE  /\ Invalidated(b) \in Hosts
         /\ Invalidated(b).leases = b.leases /\ Invalidated(b).pending = b.pending
         /\ Invalidated(b).quarantined = b.quarantined /\ Invalidated(b).unresolved = b.unresolved
BY DEF Invalidated, Hosts

LEMMA GiveUpTyped ==
  ASSUME TypeOK, NEW b \in Hosts, NEW tokens \in SUBSET Instances, GiveUp(b, tokens)
  PROVE  /\ host' \in Hosts /\ host'.quarantined
         /\ work' \in Jobs /\ work'.pc = "idle"
<1>1. "indeterminate" \in Answers
  BY DEF Answers
<1>2. work' \in Jobs /\ work'.pc = "idle"
  BY <1>1, AnswerTyped DEF GiveUp
<1>3. host' \in Hosts /\ host'.quarantined
  BY DEF GiveUp, Quarantined, Hosts
<1>. QED BY <1>2, <1>3

LEMMA DeviceTyped ==
  ASSUME NEW d \in Devices, NEW h \in Instances, NEW s \in Slots
  PROVE  /\ Without(d, h) \in Devices /\ Without(d, h).live = d.live \ {h}
         /\ Running(d, s, h) \in Devices /\ Running(d, s, h).live = d.live
BY DEF Without, Running, Devices, BySlot, Instances

------------------------------------------------------------------------------
\* How a step of the worker may end.

\* It gives up: nothing is claimed any more.
LEMMA GivesUp ==
  ASSUME IInv, work.pc # "idle", NEW b \in Hosts, NEW tokens \in SUBSET Instances, GiveUp(b, tokens),
         device' \in Devices, UNCHANGED <<tree, made, loop>>
  PROVE  IInv'
<1>1. host' \in Hosts /\ host'.quarantined /\ work' \in Jobs /\ work'.pc = "idle"
  BY GiveUpTyped DEF IInv
<1>2. TypeOK'
  BY <1>1 DEF IInv, TypeOK, loop
<1>3. Serving' /\ Placed'
  BY <1>1 DEF Serving, Placed, Alone, Staged
<1>4. Released' /\ Covered'
  BY <1>1 DEF IInv, Serving, Released, Covered, loop
<1>. QED BY <1>2, <1>3, <1>4 DEF IInv

\* It answers with the leases as they were, and nothing replaced.
LEMMA Ends ==
  ASSUME IInv, work.pc # "idle", work.prev \notin device'.live, NEW a \in Answers, Answer(a),
         host' \in Hosts, host'.leases = host.leases, host'.pending = host.pending,
         host'.quarantined = host.quarantined, host'.unresolved = host.unresolved,
         device' \in Devices, device'.live \subseteq device.live, UNCHANGED <<tree, made, loop>>
  PROVE  IInv'
<1>1. work' \in Jobs /\ work'.pc = "idle" /\ work'.prev = work.prev
  BY AnswerTyped DEF IInv
<1>2. TypeOK'
  BY <1>1 DEF IInv, TypeOK, loop
<1>3. Serving' /\ Placed'
  BY <1>1 DEF Serving, Placed, Alone, Staged
<1>4. Released'
  BY DEF IInv, Serving, Released, loop
<1>5. Covered'
  BY <1>1 DEF IInv, Covered, Held, loop
<1>. QED BY <1>2, <1>3, <1>4, <1>5 DEF IInv

\* It goes on, with the leases as they were.
LEMMA GoesOn ==
  ASSUME IInv, work.pc # "idle", NEW pc \in Pcs \ {"idle", "prepare", "create"}, At(pc),
         host' \in Hosts, host'.leases = host.leases, host'.pending = host.pending,
         host'.quarantined = host.quarantined, host'.unresolved = host.unresolved,
         device' \in Devices, device'.live \subseteq device.live,
         tree' \in Trees, UNCHANGED <<made, loop>>
  PROVE  /\ TypeOK' /\ Serving' /\ Released' /\ Covered'
         /\ work'.pc = pc /\ work'.s = work.s /\ work'.h = work.h /\ work'.prev = work.prev
<1>1. /\ work' \in Jobs /\ work'.pc = pc /\ work'.s = work.s
      /\ work'.h = work.h /\ work'.prev = work.prev
  BY AtTyped DEF IInv
<1>2. TypeOK'
  BY <1>1 DEF IInv, TypeOK, loop
<1>3. Serving'
  BY <1>1 DEF IInv, Serving, loop
<1>4. Released'
  BY DEF IInv, Serving, Released, loop
<1>5. Covered'
  BY <1>1 DEF IInv, Covered, Held, loop
<1>. QED BY <1>1, <1>2, <1>3, <1>4, <1>5

\* The last step of a transaction whose publication is done.
LEMMA Confirms ==
  ASSUME IInv, NEW pc \in Pcs \ {"idle"}, Confirm(pc), work.prev \notin device.live
  PROVE  IInv'
<1>1. work.pc # "idle" /\ host \in Hosts /\ device \in Devices /\ Token \subseteq Instances
  BY DEF Confirm, IInv, TypeOK, Jobs, Token
<1>2. CASE host.connected /\ Answer("committed") /\ UNCHANGED host
  <2>1. "committed" \in Answers
    BY DEF Answers
  <2>. QED BY <1>1, <1>2, <2>1, Ends DEF Confirm
<1>3. CASE ~host.connected /\ GiveUp(host, Token)
  BY <1>1, <1>3, GivesUp DEF Confirm
<1>. QED BY <1>2, <1>3 DEF Confirm

LEMMA NobodyRuns == ASSUME IInv PROVE Nobody \notin device.live
BY HostingAssumption DEF IInv, TypeOK, Devices, Handles, Nobody

------------------------------------------------------------------------------
\* The steps of a load.

LEMMA BeginStep ==
  ASSUME IInv, HostingAssumption, NEW s \in Slots, NEW n \in Names \cup {NoName}, NEW v \in Values,
         NEW pc \in {"prepare", "retire", "plan"}, NEW op \in Ops, Begin(Job(pc, op, s, n, v)),
         pc = "prepare" => made < MaxMade
  PROVE  IInv'
<1>1. pc \in Pcs /\ work' = Job(pc, op, s, n, v) /\ UNCHANGED <<tree, host, device, made, loop>>
  BY DEF Begin, Pcs
<1>2. work' \in Jobs /\ work'.pc = pc /\ work'.s = s /\ work'.prev = Nobody /\ pc # "idle"
  BY <1>1, JobTyped DEF Job, IInv
<1>3. TypeOK'
  BY <1>1, <1>2 DEF IInv, TypeOK, loop
<1>4. Serving'
  BY <1>1, <1>2 DEF IInv, Serving, Begin, loop
<1>5. Placed'
  BY <1>2 DEF Placed, Alone, Staged
<1>6. Released'
  BY <1>1 DEF IInv, Released, loop
<1>7. Covered'
  BY <1>1, <1>2 DEF IInv, Covered, Held, Begin, loop
<1>. QED BY <1>3, <1>4, <1>5, <1>6, <1>7 DEF IInv

LEMMA PrepareStep == ASSUME IInv, Prepare PROVE IInv'
<1>1. /\ work.pc = "prepare" /\ work.prev = Nobody /\ host \in Hosts /\ device \in Devices
      /\ UNCHANGED <<tree, device, made, loop>> /\ Nobody \notin device.live
  BY NobodyRuns DEF Prepare, IInv, TypeOK, Placed, Alone
<1>2. CASE Answer("failed") /\ (UNCHANGED host \/ host' = Invalidated(host))
  <2>1. "failed" \in Answers
    BY DEF Answers
  <2>2. /\ host' \in Hosts /\ host'.leases = host.leases /\ host'.pending = host.pending
        /\ host'.quarantined = host.quarantined /\ host'.unresolved = host.unresolved
    BY <1>1, <1>2, InvalidatedTyped
  <2>. QED BY <1>1, <1>2, <2>1, <2>2, Ends
<1>3. CASE ~Refused(work.s) /\ At("create") /\ UNCHANGED host
  <2>1. "create" \in Pcs
    BY DEF Pcs
  <2>2. work' \in Jobs /\ work'.pc = "create" /\ work'.s = work.s /\ work'.prev = Nobody
    BY <1>1, <1>3, <2>1, AtTyped DEF IInv
  <2>3. TypeOK' /\ Serving'
    BY <1>1, <1>3, <2>2 DEF IInv, TypeOK, Serving, loop
  <2>4. Placed' /\ Released'
    BY <1>1, <1>3, <2>2 DEF IInv, Placed, Released, Alone, Staged, Refused, loop
  <2>5. Covered'
    BY <1>1, <1>3, <2>2 DEF IInv, Covered, Held, loop
  <2>. QED BY <2>3, <2>4, <2>5 DEF IInv
<1>. QED BY <1>2, <1>3 DEF Prepare

LEMMA CreateStep == ASSUME IInv, Create PROVE IInv'
<1>1. /\ work.pc = "create" /\ work.s \in Slots /\ made < MaxMade /\ host.pending[work.s] = Nobody
      /\ host \in Hosts /\ device \in Devices /\ work \in Jobs /\ hosting
      /\ UNCHANGED <<tree, loop>>
  BY DEF Create, IInv, TypeOK, Serving, Placed
<1>2. made + 1 \in Handles /\ made + 1 # Nobody /\ made + 1 \in 0..MaxMade
  BY <1>1, HostingAssumption DEF IInv, TypeOK, Handles, Nobody
<1>3. CASE CreateFails
  <2>1. made' = made + 1 /\ device' \in Devices
    BY <1>1, <1>2, <1>3 DEF CreateFails, Devices
  <2>2. Invalidated(host) \in Hosts
    BY <1>1, InvalidatedTyped
  <2>3. host' \in Hosts /\ host'.quarantined /\ work' \in Jobs /\ work'.pc = "idle"
    BY <1>3, <2>2, GiveUpTyped DEF CreateFails, IInv
  <2>4. TypeOK'
    BY <1>1, <1>2, <2>1, <2>3 DEF IInv, TypeOK, loop
  <2>5. Serving' /\ Placed'
    BY <2>3 DEF Serving, Placed, Alone, Staged
  <2>6. Released' /\ Covered'
    BY <1>1, <2>3 DEF Released, Covered, loop
  <2>. QED BY <2>4, <2>5, <2>6 DEF IInv
<1>4. CASE CreateSucceeds
  <2>. DEFINE s == work.s
              prev == host.leases[s]
              h == made + 1
  <2>1. /\ made' = h /\ prev \in Instances
        /\ work' = [work EXCEPT !.pc = "observe", !.h = h, !.prev = prev]
    BY <1>1, <1>4 DEF CreateSucceeds, Hosts, BySlot
  <2>2. device' \in Devices /\ device'.live = device.live \cup {h}
    <3>. DEFINE there == [device EXCEPT !.live = @ \cup {h}]
    <3>1. there \in Devices /\ there.live = device.live \cup {h} /\ h \in Instances
      BY <1>1, <1>2 DEF Devices, Instances
    <3>2. device' = there \/ device' = Running(there, s, h)
      BY <1>4 DEF CreateSucceeds
    <3>. HIDE DEF there
    <3>. QED BY <1>1, <3>1, <3>2, DeviceTyped
  <2>3. host' = IF prev = Nobody THEN [host EXCEPT !.leases[s] = h] ELSE [host EXCEPT !.pending[s] = h]
    BY <1>4 DEF CreateSucceeds
  <2>4. work' \in Jobs /\ work'.pc = "observe" /\ work'.s = s /\ work'.h = h /\ work'.prev = prev
    <3>1. "observe" \in Pcs /\ h \in Instances
      BY <1>2 DEF Pcs, Instances
    <3>. QED BY <1>1, <2>1, <3>1 DEF Jobs
  <2>5. /\ host' \in Hosts /\ host'.quarantined = host.quarantined /\ host'.unresolved = host.unresolved
        /\ \A r \in Slots : /\ host'.leases[r] = IF r = s /\ prev = Nobody THEN h ELSE host.leases[r]
                            /\ host'.pending[r] = IF r = s /\ prev # Nobody THEN h ELSE host.pending[r]
    <3>1. h \in Instances
      BY <1>2 DEF Instances
    <3>. QED BY <1>1, <2>3, <3>1 DEF Hosts, BySlot
  <2>. HIDE DEF s, prev, h
  <2>6. TypeOK'
    BY <1>1, <1>2, <2>1, <2>2, <2>4, <2>5 DEF h, IInv, TypeOK, loop
  <2>7. Serving' /\ Released'
    BY <1>1, <2>4, <2>5 DEF s, IInv, Serving, Released, loop
  <2>8. Placed'
    BY <1>1, <1>2, <2>4, <2>5 DEF s, h, prev, Placed, Alone, Staged
  <2>9. Covered'
    <3>. SUFFICES ASSUME ~lapsed', ~host'.quarantined, NEW g \in device'.live PROVE Held(g)'
      BY DEF Covered
    <3>1. CASE g = h
      BY <1>1, <2>5, <3>1 DEF s, Held
    <3>2. CASE g \in device.live
      <4>1. Held(g) /\ work.prev = Nobody /\ g # Nobody
        BY <1>1, <2>5, <3>2, NobodyRuns DEF IInv, Covered, Placed, Alone, loop
      <4>2. \/ g \in host.unresolved
            \/ \E r \in Slots : g = host.leases[r] \/ g = host.pending[r]
        BY <1>1, <4>1 DEF Held
      <4>3. CASE g \in host.unresolved
        BY <2>5, <4>3 DEF Held
      <4>4. CASE \E r \in Slots : g = host.leases[r] \/ g = host.pending[r]
        <5>1. PICK r \in Slots : g = host.leases[r] \/ g = host.pending[r]
          BY <4>4
        <5>2. g = host'.leases[r] \/ g = host'.pending[r]
          BY <1>1, <2>5, <4>1, <5>1 DEF s, prev
        <5>. QED BY <5>2 DEF Held
      <4>. QED BY <4>2, <4>3, <4>4
    <3>. QED BY <2>2, <3>1, <3>2
  <2>. QED BY <2>6, <2>7, <2>8, <2>9 DEF IInv
<1>. QED BY <1>3, <1>4 DEF Create

\* An invalidated backend keeps its leases.
LEMMA Unmoved ==
  ASSUME TypeOK, host' \in {host, Invalidated(host)}
  PROVE  /\ host' \in Hosts /\ host'.leases = host.leases /\ host'.pending = host.pending
         /\ host'.quarantined = host.quarantined /\ host'.unresolved = host.unresolved
BY InvalidatedTyped DEF TypeOK

\* A load whose step failed is rolled back with everything where it was.
LEMMA GoesBack ==
  ASSUME IInv, work.pc \in Staged, At("rollback"), host' \in {host, Invalidated(host)},
         device' \in Devices, device'.live \subseteq device.live, UNCHANGED <<tree, made, loop>>
  PROVE  IInv'
<1>1. work.pc # "idle" /\ "rollback" \in Pcs \ {"idle", "prepare", "create"} /\ tree' \in Trees
  BY DEF Staged, Pcs, IInv, TypeOK
<1>2. /\ host' \in Hosts /\ host'.leases = host.leases /\ host'.pending = host.pending
      /\ host'.quarantined = host.quarantined /\ host'.unresolved = host.unresolved
  BY Unmoved DEF IInv
<1>3. /\ TypeOK' /\ Serving' /\ Released' /\ Covered' /\ work'.pc = "rollback"
      /\ work'.s = work.s /\ work'.h = work.h /\ work'.prev = work.prev
  BY <1>1, <1>2, GoesOn
<1>4. Placed'
  BY <1>2, <1>3 DEF IInv, Placed, Alone, Staged
<1>. QED BY <1>3, <1>4 DEF IInv

LEMMA ObserveStep == ASSUME IInv, Observe PROVE IInv'
<1>1. /\ work.pc = "observe" /\ work.pc \in Staged /\ device' \in Devices /\ device'.live \subseteq device.live
      /\ tree' \in Trees /\ UNCHANGED <<tree, device, made, loop>> /\ host \in Hosts
  BY DEF Observe, IInv, TypeOK, Staged
<1>2. CASE Observed /\ At("activate") /\ UNCHANGED host
  <2>1. "activate" \in Pcs \ {"idle", "prepare", "create"}
    BY DEF Pcs
  <2>2. /\ TypeOK' /\ Serving' /\ Released' /\ Covered' /\ work'.pc = "activate"
        /\ work'.s = work.s /\ work'.h = work.h /\ work'.prev = work.prev
    BY <1>1, <1>2, <2>1, GoesOn
  <2>3. Placed'
    BY <1>1, <1>2, <2>2 DEF IInv, Placed, Alone, Staged
  <2>. QED BY <2>2, <2>3 DEF IInv
<1>3. CASE Unobserved /\ At("rollback")
  BY <1>1, <1>3, GoesBack DEF Unobserved
<1>. QED BY <1>2, <1>3 DEF Observe

LEMMA ActivateStep == ASSUME IInv, Activate PROVE IInv'
<1>. DEFINE s == work.s
            swapped == Running(device, s, work.h)
<1>1. /\ work.pc = "activate" /\ work.pc \in Staged /\ s \in Slots /\ work.h \in Instances
      /\ work \in Jobs /\ host \in Hosts /\ device \in Devices /\ tree \in Trees
      /\ UNCHANGED <<tree, made, loop>>
  BY DEF Activate, IInv, TypeOK, Serving, Staged, Jobs
<1>2. swapped \in Devices /\ swapped.live = device.live
  BY <1>1, DeviceTyped
<1>3. "publish" \in Pcs \ {"idle", "prepare", "create"}
  BY DEF Pcs
<1>4. CASE At("rollback") /\ host' = Invalidated(host) /\ device' \in {device, swapped}
  BY <1>1, <1>2, <1>4, GoesBack
<1>5. CASE work.prev = Nobody /\ At("publish") /\ UNCHANGED <<host, device>>
  <2>1. /\ TypeOK' /\ Serving' /\ Released' /\ Covered' /\ work'.pc = "publish"
        /\ work'.s = work.s /\ work'.h = work.h /\ work'.prev = work.prev
    BY <1>1, <1>3, <1>5, GoesOn
  <2>2. Placed'
    BY <1>1, <1>5, <2>1 DEF IInv, Placed, Alone, Staged
  <2>. QED BY <2>1, <2>2 DEF IInv
<1>6. CASE /\ work.prev # Nobody /\ device' = swapped /\ host' = [host EXCEPT !.leases[s] = work.h]
           /\ work' = [work EXCEPT !.pc = "publish", !.on = TRUE]
  <2>1. /\ work' \in Jobs /\ work'.pc = "publish" /\ work'.s = s /\ work'.h = work.h /\ work'.prev = work.prev
    BY <1>1, <1>3, <1>6 DEF Jobs
  <2>2. /\ host' \in Hosts /\ host'.quarantined = host.quarantined /\ host'.unresolved = host.unresolved
        /\ host'.pending = host.pending
        /\ \A r \in Slots : host'.leases[r] = IF r = s THEN work.h ELSE host.leases[r]
    BY <1>1, <1>6 DEF Hosts, BySlot
  <2>. HIDE DEF s, swapped
  <2>3. TypeOK' /\ Serving' /\ Released'
    BY <1>1, <1>2, <1>6, <2>1, <2>2 DEF s, IInv, TypeOK, Serving, Released, loop
  <2>4. Placed'
    BY <1>1, <1>6, <2>1, <2>2 DEF s, IInv, Placed, Alone, Staged
  <2>5. Covered'
    <3>. SUFFICES ASSUME ~lapsed', ~host'.quarantined, NEW g \in device'.live PROVE Held(g)'
      BY DEF Covered
    <3>1. Held(g) /\ host.leases[s] \in {work.prev, work.h}
      BY <1>1, <1>2, <1>6, <2>2 DEF s, IInv, Covered, Placed, loop
    <3>2. CASE \E r \in Slots : g = host.leases[r] \/ g = host.pending[r]
      <4>1. PICK r \in Slots : g = host.leases[r] \/ g = host.pending[r]
        BY <3>2
      <4>2. g = host'.leases[r] \/ g = host'.pending[r] \/ g = work'.prev \/ g = host'.leases[s]
        BY <1>1, <2>1, <2>2, <3>1, <4>1
      <4>. QED BY <1>1, <2>1, <4>2 DEF Held
    <3>3. CASE g \in host.unresolved \/ g = work.prev
      BY <2>1, <2>2, <3>3 DEF Held
    <3>. QED BY <3>1, <3>2, <3>3 DEF Held
  <2>. QED BY <2>3, <2>4, <2>5 DEF IInv
<1>. QED BY <1>4, <1>5, <1>6 DEF Activate

LEMMA PublishStep == ASSUME IInv, Publish PROVE IInv'
<1>1. /\ work.pc = "publish" /\ work.pc \in Staged /\ work.s \in Slots /\ work.h \in Instances
      /\ work \in Jobs /\ host \in Hosts /\ device \in Devices /\ tree \in Trees
      /\ device' = device /\ UNCHANGED <<device, made, loop>>
  BY DEF Publish, IInv, TypeOK, Serving, Staged, Jobs
<1>2. CASE At("rollback") /\ UNCHANGED <<tree, host>>
  BY <1>1, <1>2, GoesBack
<1>3. CASE /\ tree' = [tree EXCEPT ![work.s] = [name |-> work.name, inst |-> work.h, val |-> First]]
           /\ host' = [host EXCEPT !.current[work.s] = work.h] /\ At("finalize")
  <2>1. "finalize" \in Pcs \ {"idle", "prepare", "create"}
    BY DEF Pcs
  <2>2. tree' \in Trees
    BY <1>1, <1>3, HostingAssumption DEF Trees, Jobs
  <2>3. /\ host' \in Hosts /\ host'.leases = host.leases /\ host'.pending = host.pending
        /\ host'.quarantined = host.quarantined /\ host'.unresolved = host.unresolved
    BY <1>1, <1>3 DEF Hosts, BySlot
  <2>4. /\ TypeOK' /\ Serving' /\ Released' /\ Covered' /\ work'.pc = "finalize"
        /\ work'.s = work.s /\ work'.h = work.h /\ work'.prev = work.prev
    BY <1>1, <1>3, <2>1, <2>2, <2>3, GoesOn
  <2>5. Placed'
    BY <1>1, <2>3, <2>4 DEF IInv, Placed, Alone, Staged
  <2>. QED BY <2>4, <2>5 DEF IInv
<1>. QED BY <1>2, <1>3 DEF Publish

\* What the worker has in hand are instances.
LEMMA InHand ==
  ASSUME IInv
  PROVE  /\ work \in Jobs /\ host \in Hosts /\ device \in Devices /\ tree \in Trees
         /\ work.h \in Instances /\ work.prev \in Instances /\ Token \in SUBSET Instances
         /\ Invalidated(host) \in Hosts
BY InvalidatedTyped DEF IInv, TypeOK, Jobs, Token

LEMMA FinalizeStep == ASSUME IInv, Finalize PROVE IInv'
<1>. DEFINE s == work.s
            gone == Without(device, work.prev)
<1>1. /\ work.pc = "finalize" /\ work.pc # "idle" /\ work.pc \in Staged /\ s \in Slots
      /\ tree' \in Trees /\ UNCHANGED <<tree, made, loop>>
  BY InHand DEF Finalize, IInv, Serving, Staged
<1>2. gone \in Devices /\ gone.live = device.live \ {work.prev}
  BY <1>1, InHand, DeviceTyped
<1>3. "finalized" \in Pcs \ {"idle", "prepare", "create"}
  BY DEF Pcs
<1>4. CASE GiveUp(Invalidated(host), Token) /\ device' \in {device, gone}
  BY <1>1, <1>2, <1>4, InHand, GivesUp
<1>5. CASE work.prev = Nobody /\ At("finalized") /\ UNCHANGED <<host, device>>
  <2>1. /\ TypeOK' /\ Serving' /\ Released' /\ Covered' /\ work'.pc = "finalized"
        /\ work'.s = work.s /\ work'.h = work.h /\ work'.prev = work.prev
    BY <1>1, <1>3, <1>5, InHand, GoesOn
  <2>2. Placed'
    BY <1>5, <2>1, NobodyRuns DEF Placed, Alone, Staged
  <2>. QED BY <2>1, <2>2 DEF IInv
<1>6. CASE /\ work.prev # Nobody /\ device' = gone /\ At("finalized")
           /\ host' = [host EXCEPT !.pending[s] = Nobody]
  <2>1. /\ work' \in Jobs /\ work'.pc = "finalized" /\ work'.s = s /\ work'.prev = work.prev
    BY <1>3, <1>6, AtTyped DEF IInv
  <2>2. /\ host' \in Hosts /\ host'.quarantined = host.quarantined /\ host'.unresolved = host.unresolved
        /\ host'.leases = host.leases
        /\ \A r \in Slots : host'.pending[r] = IF r = s THEN Nobody ELSE host.pending[r]
    BY <1>1, <1>6, InHand DEF Hosts, BySlot, Instances
  <2>. HIDE DEF s, gone
  <2>3. TypeOK' /\ Serving' /\ Released'
    BY <1>1, <1>2, <1>6, <2>1, <2>2 DEF s, IInv, TypeOK, Serving, Released, loop
  <2>4. Placed'
    BY <1>2, <1>6, <2>1 DEF Placed, Alone, Staged
  <2>5. Covered'
    <3>. SUFFICES ASSUME ~lapsed', ~host'.quarantined, NEW g \in device'.live PROVE Held(g)'
      BY DEF Covered
    <3>1. Held(g) /\ g # work.prev /\ host.leases[s] = work.h /\ host.pending[s] = work.h
      BY <1>1, <1>2, <1>6, <2>2 DEF s, IInv, Covered, Placed, loop
    <3>2. CASE \E r \in Slots : g = host.leases[r] \/ g = host.pending[r]
      <4>1. PICK r \in Slots : g = host.leases[r] \/ g = host.pending[r]
        BY <3>2
      <4>2. g = host'.leases[r] \/ g = host'.pending[r] \/ g = host'.leases[s]
        BY <1>1, <2>2, <3>1, <4>1
      <4>. QED BY <1>1, <4>2 DEF Held
    <3>3. CASE g \in host.unresolved
      BY <2>2, <3>3 DEF Held
    <3>. QED BY <3>1, <3>2, <3>3 DEF Held
  <2>. QED BY <2>3, <2>4, <2>5 DEF IInv
<1>. QED BY <1>4, <1>5, <1>6 DEF Finalize

LEMMA RollbackStep == ASSUME IInv, Rollback PROVE IInv'
<1>. DEFINE s == work.s
            back == RolledBack(s, work.h, work.prev)
            halfway == Running(device, s, IF work.on THEN work.prev ELSE device.runs[s])
<1>1. /\ work.pc = "rollback" /\ work.pc # "idle" /\ work.pc \in Staged /\ s \in Slots /\ hosting
      /\ UNCHANGED <<tree, made, loop>>
  BY DEF Rollback, IInv, Serving, Staged
<1>2. back \in Devices /\ back.live = device.live \ {work.h}
  BY <1>1, InHand, DeviceTyped DEF RolledBack
<1>3. halfway \in Devices
  <2>1. device.runs[s] \in Instances
    BY <1>1, InHand DEF Devices, BySlot
  <2>. QED BY <1>1, <2>1, InHand, DeviceTyped
<1>4. CASE device' \in {device, back, halfway} /\ GiveUp(Invalidated(host), Token)
  BY <1>1, <1>2, <1>3, <1>4, InHand, GivesUp
<1>5. CASE /\ device' = back /\ Answer("failed")
           /\ host' = [host EXCEPT !.leases[s] = work.prev, !.pending[s] = Nobody]
  <2>1. work' \in Jobs /\ work'.pc = "idle"
    <3>1. "failed" \in Answers
      BY DEF Answers
    <3>. QED BY <1>5, <3>1, AnswerTyped DEF IInv
  <2>2. /\ host' \in Hosts /\ host'.quarantined = host.quarantined /\ host'.unresolved = host.unresolved
        /\ \A r \in Slots : /\ host'.leases[r] = IF r = s THEN work.prev ELSE host.leases[r]
                            /\ host'.pending[r] = IF r = s THEN Nobody ELSE host.pending[r]
    BY <1>1, <1>5, InHand DEF Hosts, BySlot, Instances
  <2>. HIDE DEF s, back
  <2>3. TypeOK' /\ Serving' /\ Placed' /\ Released'
    BY <1>1, <1>2, <1>5, <2>1, <2>2 DEF IInv, TypeOK, Serving, Placed, Alone, Staged, Released, loop
  <2>4. Covered'
    <3>. SUFFICES ASSUME ~lapsed', ~host'.quarantined, NEW g \in device'.live PROVE Held(g)'
      BY DEF Covered
    <3>1. /\ Held(g) /\ g # work.h /\ g # Nobody
          /\ IF work.prev = Nobody
             THEN host.leases[s] = work.h /\ host.pending[s] = Nobody
             ELSE host.pending[s] = work.h /\ host.leases[s] \in {work.prev, work.h}
      BY <1>1, <1>2, <1>5, <2>2, NobodyRuns DEF s, IInv, Covered, Placed, loop
    <3>2. CASE \E r \in Slots : g = host.leases[r] \/ g = host.pending[r]
      <4>1. PICK r \in Slots : g = host.leases[r] \/ g = host.pending[r]
        BY <3>2
      <4>2. g = host'.leases[r] \/ g = host'.pending[r]
        BY <1>1, <2>2, <3>1, <4>1
      <4>. QED BY <4>2 DEF Held
    <3>3. CASE g \in host.unresolved
      BY <2>2, <3>3 DEF Held
    <3>4. CASE g = work.prev
      <4>1. g = host'.leases[s]
        BY <1>1, <2>2, <3>4
      <4>. QED BY <1>1, <4>1 DEF Held
    <3>. QED BY <3>1, <3>2, <3>3, <3>4 DEF Held
  <2>. QED BY <2>3, <2>4 DEF IInv
<1>. QED BY <1>4, <1>5 DEF Rollback

------------------------------------------------------------------------------
\* The steps of an unload.

LEMMA RetireStep == ASSUME IInv, Retire PROVE IInv'
<1>. DEFINE s == work.s
            h == tree[s].inst
            gone == Without(device, h)
<1>1. /\ work.pc = "retire" /\ work.pc # "idle" /\ s \in Slots /\ work.prev = Nobody /\ hosting
      /\ UNCHANGED <<tree, made, loop>>
  BY DEF Retire, IInv, Serving, Placed, Alone
<1>2. h \in Instances /\ {h} \in SUBSET Instances
  BY <1>1, InHand DEF Trees
<1>3. gone \in Devices /\ gone.live = device.live \ {h}
  BY <1>1, <1>2, InHand, DeviceTyped
<1>4. CASE (GiveUp(host, {h}) \/ GiveUp(Invalidated(host), {h})) /\ device' \in {device, gone}
  BY <1>1, <1>2, <1>3, <1>4, InHand, GivesUp
<1>5. CASE /\ host.leases[s] = h /\ device' = gone
           /\ host' = [host EXCEPT !.leases[s] = Nobody, !.current[s] = Nobody]
           /\ work' = [work EXCEPT !.pc = "clear", !.h = h]
  <2>1. work' \in Jobs /\ work'.pc = "clear" /\ work'.s = s /\ work'.prev = Nobody
    <3>1. "clear" \in Pcs
      BY DEF Pcs
    <3>. QED BY <1>1, <1>2, <1>5, <3>1, InHand DEF Jobs
  <2>2. /\ host' \in Hosts /\ host'.quarantined = host.quarantined /\ host'.unresolved = host.unresolved
        /\ host'.pending = host.pending
        /\ \A r \in Slots : host'.leases[r] = IF r = s THEN Nobody ELSE host.leases[r]
    BY <1>1, <1>5, InHand DEF Hosts, BySlot, Instances
  <2>. HIDE DEF s, h, gone
  <2>3. TypeOK' /\ Serving' /\ Placed' /\ Released'
    BY <1>1, <1>3, <1>5, <2>1, <2>2 DEF s, IInv, TypeOK, Serving, Placed, Alone, Staged, Released, loop
  <2>4. Covered'
    <3>. SUFFICES ASSUME ~lapsed', ~host'.quarantined, NEW g \in device'.live PROVE Held(g)'
      BY DEF Covered
    <3>1. Held(g) /\ g # h /\ g # Nobody
      BY <1>1, <1>3, <1>5, <2>2, NobodyRuns DEF IInv, Covered, loop
    <3>2. CASE \E r \in Slots : g = host.leases[r] \/ g = host.pending[r]
      <4>1. PICK r \in Slots : g = host.leases[r] \/ g = host.pending[r]
        BY <3>2
      <4>2. g = host'.leases[r] \/ g = host'.pending[r]
        BY <1>1, <1>5, <2>2, <3>1, <4>1
      <4>. QED BY <4>2 DEF Held
    <3>3. CASE g \in host.unresolved
      BY <2>2, <3>3 DEF Held
    <3>. QED BY <1>1, <3>1, <3>2, <3>3 DEF Held
  <2>. QED BY <2>3, <2>4 DEF IInv
<1>. QED BY <1>4, <1>5 DEF Retire

LEMMA ClearStep == ASSUME IInv, Clear PROVE IInv'
<1>1. /\ work.pc = "clear" /\ work.pc # "idle" /\ work.s \in Slots /\ work.prev = Nobody
      /\ UNCHANGED <<device, made, loop>>
  BY DEF Clear, IInv, Serving, Placed, Alone
<1>2. CASE GiveUp(host, Token) /\ UNCHANGED tree
  BY <1>1, <1>2, InHand, GivesUp
<1>3. CASE tree' = [tree EXCEPT ![work.s] = Empty] /\ At("cleared") /\ UNCHANGED host
  <2>1. "cleared" \in Pcs \ {"idle", "prepare", "create"}
    BY DEF Pcs
  <2>2. tree' \in Trees
    BY <1>1, <1>3, InHand, HostingAssumption DEF Trees, Empty, Instances
  <2>3. /\ TypeOK' /\ Serving' /\ Released' /\ Covered' /\ work'.pc = "cleared" /\ work'.prev = work.prev
    BY <1>1, <1>3, <2>1, <2>2, InHand, GoesOn
  <2>4. Placed'
    BY <1>1, <2>3 DEF Placed, Alone, Staged
  <2>. QED BY <2>3, <2>4 DEF IInv
<1>. QED BY <1>2, <1>3 DEF Clear

LEMMA ConfirmSteps == ASSUME IInv, Finalized \/ Cleared \/ Stored PROVE IInv'
<1>1. {"finalized", "cleared", "stored"} \subseteq Pcs \ {"idle"}
  BY DEF Pcs
<1>2. work.prev \notin device.live
  BY NobodyRuns DEF Finalized, Cleared, Stored, Confirm, IInv, Placed, Alone
<1>. QED BY <1>1, <1>2, Confirms DEF Finalized, Cleared, Stored

------------------------------------------------------------------------------
\* The steps of a control.

LEMMA PlanStep == ASSUME IInv, Plan PROVE IInv'
<1>. DEFINE h == host.leases[work.s]
<1>1. /\ work.pc = "plan" /\ work.pc # "idle" /\ work.s \in Slots /\ work.prev = Nobody
      /\ work.prev \notin device.live /\ h \in Instances
      /\ device' = device /\ UNCHANGED <<tree, device, made, loop>>
  BY InHand, NobodyRuns DEF Plan, IInv, Serving, Placed, Alone, Hosts, BySlot
<1>2. CASE Answer("failed") /\ host' \in {host, Invalidated(host)}
  <2>1. "failed" \in Answers
    BY DEF Answers
  <2>2. /\ host' \in Hosts /\ host'.leases = host.leases /\ host'.pending = host.pending
        /\ host'.quarantined = host.quarantined /\ host'.unresolved = host.unresolved
    BY <1>2, Unmoved DEF IInv
  <2>. QED BY <1>1, <1>2, <2>1, <2>2, InHand, Ends
<1>3. CASE work' = [work EXCEPT !.pc = "apply", !.h = h] /\ UNCHANGED host
  <2>1. work' \in Jobs /\ work'.pc = "apply" /\ work'.s = work.s /\ work'.prev = Nobody
    <3>1. "apply" \in Pcs
      BY DEF Pcs
    <3>. QED BY <1>1, <1>3, <3>1, InHand DEF Jobs
  <2>2. TypeOK' /\ Serving'
    BY <1>1, <1>3, <2>1 DEF IInv, TypeOK, Serving, loop
  <2>3. Placed' /\ Released'
    BY <1>1, <1>3, <2>1 DEF IInv, Placed, Alone, Staged, Released, loop
  <2>4. Covered'
    BY <1>1, <1>3, <2>1 DEF IInv, Covered, Held, loop
  <2>. QED BY <2>2, <2>3, <2>4 DEF IInv
<1>. QED BY <1>2, <1>3 DEF Plan, Unobserved

\* A write of the parameter moves no instance.
LEMMA WrittenTyped ==
  ASSUME IInv, NEW v \in Values
  PROVE  /\ Written(v) \in Devices /\ Written(v).live = device.live
         /\ LET b == [host EXCEPT !.model[work.h] = v] IN
            /\ b \in Hosts /\ b.leases = host.leases /\ b.pending = host.pending
            /\ b.quarantined = host.quarantined /\ b.unresolved = host.unresolved
<1>1. Written(v) \in Devices /\ Written(v).live = device.live
  BY InHand DEF Written, Devices
<1>. QED BY <1>1, InHand DEF Hosts

\* A control that goes on has nothing to replace.
LEMMA ControlGoesOn ==
  ASSUME IInv, work.pc \in Alone, NEW pc \in {"apply", "store", "stored", "restore"}, At(pc),
         host' \in Hosts, host'.leases = host.leases, host'.pending = host.pending,
         host'.quarantined = host.quarantined, host'.unresolved = host.unresolved,
         device' \in Devices, device'.live \subseteq device.live,
         tree' \in Trees, UNCHANGED <<made, loop>>
  PROVE  IInv'
<1>1. work.pc # "idle" /\ pc \in Pcs \ {"idle", "prepare", "create"}
  BY DEF Alone, Pcs
<1>2. /\ TypeOK' /\ Serving' /\ Released' /\ Covered' /\ work'.pc = pc /\ work'.prev = work.prev
  BY <1>1, GoesOn
<1>3. Placed'
  BY <1>2 DEF IInv, Placed, Alone, Staged
<1>. QED BY <1>2, <1>3 DEF IInv

LEMMA ApplyStep == ASSUME IInv, Apply PROVE IInv'
<1>1. /\ work.pc \in Alone /\ work.pc # "idle" /\ work.v \in Values /\ work.prev \notin device.live
      /\ tree' \in Trees /\ UNCHANGED <<tree, made, loop>>
  BY InHand, NobodyRuns DEF Apply, Alone, IInv, Placed, Jobs
<1>2. CASE Answer("failed") /\ UNCHANGED <<host, device>>
  <2>1. "failed" \in Answers
    BY DEF Answers
  <2>. QED BY <1>1, <1>2, <2>1, InHand, Ends
<1>3. CASE /\ host' \in {host, Invalidated(host)} /\ At("restore")
           /\ device' \in {device, Written(work.v)}
  <2>1. /\ host' \in Hosts /\ host'.leases = host.leases /\ host'.pending = host.pending
        /\ host'.quarantined = host.quarantined /\ host'.unresolved = host.unresolved
    BY <1>3, Unmoved DEF IInv
  <2>2. device' \in Devices /\ device'.live \subseteq device.live
    BY <1>1, <1>3, InHand, WrittenTyped
  <2>. QED BY <1>1, <1>3, <2>1, <2>2, ControlGoesOn
<1>4. CASE /\ device' = Written(work.v) /\ host' = [host EXCEPT !.model[work.h] = work.v]
           /\ At("store")
  <2>1. /\ host' \in Hosts /\ host'.leases = host.leases /\ host'.pending = host.pending
        /\ host'.quarantined = host.quarantined /\ host'.unresolved = host.unresolved
        /\ device' \in Devices /\ device'.live \subseteq device.live
    BY <1>1, <1>4, WrittenTyped
  <2>. QED BY <1>1, <1>4, <2>1, ControlGoesOn
<1>. QED BY <1>2, <1>3, <1>4 DEF Apply, WrittenTo, Unobserved

LEMMA StoreStep == ASSUME IInv, Store PROVE IInv'
<1>1. /\ work.pc \in Alone /\ work.s \in Slots /\ work.v \in Values
      /\ device' = device /\ UNCHANGED <<device, made, loop>>
  BY InHand DEF Store, Alone, IInv, Serving, Jobs
<1>2. CASE At("restore") /\ UNCHANGED <<tree, host>>
  BY <1>1, <1>2, InHand, ControlGoesOn
<1>3. CASE tree' = [tree EXCEPT ![work.s].val = work.v] /\ At("stored") /\ UNCHANGED host
  <2>1. tree' \in Trees
    BY <1>1, <1>3, InHand DEF Trees
  <2>. QED BY <1>1, <1>3, <2>1, InHand, ControlGoesOn
<1>. QED BY <1>2, <1>3 DEF Store

LEMMA RestoreStep == ASSUME IInv, Restore PROVE IInv'
<1>. DEFINE v == tree[work.s].val
<1>1. /\ work.pc # "idle" /\ work.prev \notin device.live /\ v \in Values
      /\ UNCHANGED <<tree, made, loop>>
  BY InHand, NobodyRuns DEF Restore, Alone, IInv, Placed, Serving, Trees
<1>2. CASE /\ device' = Written(v) /\ host' = [host EXCEPT !.model[work.h] = v] /\ Answer("failed")
  <2>1. "failed" \in Answers
    BY DEF Answers
  <2>2. /\ host' \in Hosts /\ host'.leases = host.leases /\ host'.pending = host.pending
        /\ host'.quarantined = host.quarantined /\ host'.unresolved = host.unresolved
        /\ device' \in Devices /\ device'.live \subseteq device.live
    BY <1>1, <1>2, WrittenTyped
  <2>3. work.prev \notin device'.live
    BY <1>1, <2>2
  <2>. QED BY <1>1, <1>2, <2>1, <2>2, <2>3, Ends
<1>3. CASE /\ device' \in {device, Written(v)}
           /\ \E b \in {host, Invalidated(host)} : GiveUp(b, Token)
  <2>1. device' \in Devices
    BY <1>1, <1>3, InHand, WrittenTyped
  <2>2. PICK b \in {host, Invalidated(host)} : GiveUp(b, Token)
    BY <1>3
  <2>. QED BY <1>1, <2>1, <2>2, InHand, GivesUp
<1>. QED BY <1>2, <1>3 DEF Restore, WrittenTo

------------------------------------------------------------------------------
\* The device and the event loop.

\* They move no lease, and end hosting only when nothing is loaded.
LEMMA Calm ==
  ASSUME IInv, TypeOK', work' = work, made' = made, lapsed' = lapsed,
         host' \in {host, Invalidated(host)}, device'.live \subseteq device.live,
         hosting' = hosting \/ NativeIdle
  PROVE  IInv'
<1>1. /\ host'.leases = host.leases /\ host'.pending = host.pending
      /\ host'.quarantined = host.quarantined /\ host'.unresolved = host.unresolved
  BY Unmoved DEF IInv
<1>2. Serving' /\ Released'
  BY <1>1 DEF IInv, Serving, Released, NativeIdle
<1>3. Placed'
  BY <1>1 DEF IInv, Placed
<1>4. Covered'
  BY <1>1 DEF IInv, Covered, Held
<1>. QED BY <1>2, <1>3, <1>4 DEF IInv

LEMMA DroppedTyped ==
  ASSUME IInv
  PROVE  LET d == [device EXCEPT !.live = {}, !.runs = [s \in Slots |-> Nobody]]
         IN  d \in Devices /\ d.live = {}
BY InHand DEF Devices, BySlot, Instances

LEMMA DeviceDropsStep == ASSUME IInv, DeviceDrops PROVE IInv'
<1>1. /\ drops < MaxDrops /\ drops' = drops + 1 /\ events' = events + 1
      /\ UNCHANGED <<tree, host, hosting, work, made, lapsed>>
  BY DEF DeviceDrops
<1>2. device' \in Devices /\ device'.live \subseteq device.live /\ session' \in BOOLEAN
  BY InHand, DroppedTyped DEF DeviceDrops, IInv, TypeOK
<1>3. drops' \in 0..MaxDrops /\ events' \in 0..drops'
  BY <1>1, HostingAssumption DEF IInv, TypeOK
<1>4. TypeOK'
  BY <1>1, <1>2, <1>3 DEF IInv, TypeOK
<1>. QED BY <1>1, <1>2, <1>4, Calm

LEMMA DriverEventStep == ASSUME IInv, DriverEvent PROVE IInv'
<1>1. /\ events > 0 /\ events' = events - 1 /\ device' = device
      /\ UNCHANGED <<tree, work, device, session, made, drops, lapsed>>
  BY DEF DriverEvent
<1>2. /\ host' \in {host, Invalidated(host)} /\ hosting' \in BOOLEAN
      /\ hosting' = hosting \/ NativeIdle
  BY DEF DriverEvent, Pause, IInv, TypeOK
<1>3. events' \in 0..drops /\ host' \in Hosts
  BY <1>1, <1>2, Unmoved DEF IInv, TypeOK
<1>4. TypeOK'
  BY <1>1, <1>2, <1>3 DEF IInv, TypeOK
<1>. QED BY <1>1, <1>2, <1>4, Calm

LEMMA DeviceLostStep == ASSUME IInv, DeviceLost PROVE IInv'
<1>1. /\ drops < MaxDrops /\ drops' = drops + 1 /\ session' = FALSE
      /\ host' \in {host, Invalidated(host)}
      /\ UNCHANGED <<tree, hosting, work, events, made, lapsed>>
  BY DEF DeviceLost
<1>2. device' \in Devices /\ device'.live \subseteq device.live /\ host' \in Hosts
  BY <1>1, DroppedTyped, Unmoved DEF DeviceLost, IInv
<1>3. drops' \in 0..MaxDrops /\ events' \in 0..drops'
  BY <1>1, HostingAssumption DEF IInv, TypeOK
<1>4. TypeOK'
  BY <1>1, <1>2, <1>3 DEF IInv, TypeOK
<1>. QED BY <1>1, <1>2, <1>4, Calm

LEMMA RateSetStep == ASSUME IInv, RateSet PROVE IInv'
<1>1. /\ NativeIdle /\ hosting' = FALSE /\ host' = Invalidated(host) /\ device' = device
      /\ UNCHANGED <<tree, work, device, session, events, made, drops, lapsed>>
  BY DEF RateSet, Pause
<1>2. host' \in Hosts
  BY <1>1, InHand
<1>3. TypeOK'
  BY <1>1, <1>2 DEF IInv, TypeOK
<1>. QED BY <1>1, <1>3, Calm

LEMMA AttachStep == ASSUME IInv, Attach PROVE IInv'
<1>1. /\ ~hosting /\ hosting' = TRUE /\ host' = Fresh /\ lapsed' = (lapsed \/ host.quarantined)
      /\ device' = device /\ UNCHANGED <<tree, work, device, session, events, made, drops>>
  BY DEF Attach
<1>2. /\ Fresh \in Hosts /\ Fresh.unresolved = {} /\ ~Fresh.quarantined
  BY HostingAssumption DEF Fresh, Hosts, BySlot, Instances
<1>3. work.pc = "idle"
  BY <1>1 DEF IInv, Serving
<1>4. TypeOK'
  BY <1>1, <1>2 DEF IInv, TypeOK
<1>5. Serving' /\ Placed' /\ Released'
  BY <1>1, <1>2, <1>3 DEF Serving, Placed, Alone, Staged, Released
<1>6. Covered'
  <2>. SUFFICES ASSUME ~lapsed', NEW g \in device.live PROVE FALSE
    BY <1>1 DEF Covered
  <2>1. Held(g) /\ host.unresolved = {} /\ g # Nobody
    BY <1>1, NobodyRuns DEF IInv, Covered, Released, TypeOK
  <2>2. \A s \in Slots : host.leases[s] = Nobody /\ host.pending[s] = Nobody
    BY <1>1 DEF IInv, Released
  <2>. QED BY <1>3, <2>1, <2>2 DEF Held
<1>. QED BY <1>4, <1>5, <1>6 DEF IInv

LEMMA RequestStep == ASSUME IInv, Request PROVE IInv'
<1>. PICK s \in Slots : \/ \E n \in Names : BeginLoad(s, n)
                        \/ BeginUnload(s)
                        \/ \E v \in Values : BeginControl(s, v)
  BY DEF Request
<1>1. {"load", "unload", "control"} \subseteq Ops /\ First \in Values
  BY HostingAssumption DEF Ops
<1>2. CASE \E n \in Names : BeginLoad(s, n)
  BY <1>1, <1>2, HostingAssumption, BeginStep DEF BeginLoad
<1>3. CASE BeginUnload(s)
  BY <1>1, <1>3, HostingAssumption, BeginStep DEF BeginUnload
<1>4. CASE \E v \in Values : BeginControl(s, v)
  BY <1>1, <1>4, HostingAssumption, BeginStep DEF BeginControl
<1>. QED BY <1>2, <1>3, <1>4

------------------------------------------------------------------------------
\* The invariant of the hosting, and what follows from it.

LEMMA InitIInv == Init => IInv
<1>. SUFFICES ASSUME Init PROVE IInv
  OBVIOUS
<1>1. tree \in Trees /\ host \in Hosts /\ device \in Devices
  BY HostingAssumption
     DEF Init, Empty, Fresh, Trees, Hosts, Devices, BySlot, Instances
<1>2. work \in Jobs /\ work.pc = "idle"
  BY <1>1, HostingAssumption
     DEF Init, Job, Jobs, Pcs, Ops, Answers, Instances, Hosts
<1>3. TypeOK
  <2>1. {hosting, session, lapsed} \subseteq BOOLEAN
    BY DEF Init
  <2>2. made = 0 /\ drops = 0 /\ events = 0
    BY DEF Init
  <2>3. made \in 0..MaxMade /\ drops \in 0..MaxDrops /\ events \in 0..drops
    BY <2>2, HostingAssumption
  <2>. QED BY <1>1, <1>2, <2>1, <2>3 DEF TypeOK
<1>4. Serving /\ Placed
  BY <1>2 DEF Serving, Placed, Alone, Staged
<1>5. Released /\ Covered
  BY DEF Init, Fresh, Released, Covered
<1>. QED BY <1>3, <1>4, <1>5 DEF IInv

LEMMA NextIInv == IInv /\ [Next]_vars => IInv'
<1>. SUFFICES ASSUME IInv, [Next]_vars PROVE IInv'
  OBVIOUS
<1>1. CASE Worker
  BY <1>1, PrepareStep, CreateStep, ObserveStep, ActivateStep, PublishStep, FinalizeStep, RollbackStep,
     RetireStep, ClearStep, ConfirmSteps, PlanStep, ApplyStep, StoreStep, RestoreStep DEF Worker
<1>2. CASE Request
  BY <1>2, RequestStep
<1>3. CASE DeviceDrops \/ DriverEvent \/ DeviceLost \/ RateSet \/ Attach
  BY <1>3, DeviceDropsStep, DriverEventStep, DeviceLostStep, RateSetStep, AttachStep
<1>4. CASE UNCHANGED vars
  <2>1. TypeOK'
    BY <1>4 DEF vars, loop, IInv, TypeOK
  <2>. QED BY <1>4, <2>1, Calm DEF vars, loop
<1>. QED BY <1>1, <1>2, <1>3, <1>4 DEF Next

LEMMA CoveredAccounted == TypeOK /\ Covered => NothingForgotten
<1>. SUFFICES ASSUME TypeOK, Covered, ~lapsed, ~host.quarantined, NEW h \in device.live
              PROVE  h \in Accounted
  BY DEF NothingForgotten
<1>1. Held(h)
  BY DEF Covered
<1>2. DOMAIN host.leases = Slots /\ DOMAIN host.pending = Slots
  BY DEF TypeOK, Hosts, BySlot
<1>. QED BY <1>1, <1>2 DEF Held, Accounted, Range

\* The tree, the backend, the worker's transaction and the device hold what
\* their code says they may (the attributes of plugin_native.py's
\* NativePluginBackend and of plugin_transactions.py's coordinator).
THEOREM TypeCorrect == Spec => []TypeOK
<1>1. Init => IInv
  BY InitIInv
<1>2. IInv /\ [Next]_vars => IInv'
  BY NextIInv
<1>3. IInv => TypeOK
  BY DEF IInv
<1>. QED BY <1>1, <1>2, <1>3, PTL DEF Spec

\* No instance on the device is silently forgotten: whatever calls fail and
\* sessions end, it is a lease of the backend, in the transaction's hands or kept
\* as unresolved, until the coordinator is quarantined (plugin_transactions.py,
\* _quarantine; plugin_native.py, prepare, activate, finalize, rollback, retire).
THEOREM NoneForgotten == Spec => []NothingForgotten
<1>1. Init => IInv
  BY InitIInv
<1>2. IInv /\ [Next]_vars => IInv'
  BY NextIInv
<1>3. IInv => NothingForgotten
  BY CoveredAccounted DEF IInv
<1>. QED BY <1>1, <1>2, <1>3, PTL DEF Spec

------------------------------------------------------------------------------
\* The tree tells the truth, and a transaction is all or nothing.

Unpublished == {"observe", "activate", "publish", "rollback"}
Controlling == {"apply", "store", "stored", "restore"}
Moving == Staged \cup {"finalized", "clear", "cleared"}

\* No instance is anywhere before it is made, and its parameter is the first.
Made ==
  /\ \A h \in device.live : h <= made
  /\ \A t \in Slots : host.leases[t] <= made /\ tree[t].inst <= made
  /\ work.pc # "idle" => work.h <= made /\ work.prev <= made
  /\ \A h \in Handles : h > made => device.val[h] = First /\ host.model[h] = First

\* A slot without a lease runs nothing.
Silent == \A t \in Slots : host.leases[t] = Nobody => device.runs[t] = Nobody

\* No two slots have one instance.
Apart ==
  /\ \A t, u \in Slots : host.leases[t] = host.leases[u] => t = u \/ host.leases[t] = Nobody
  /\ work.pc \in Staged =>
       /\ work.h # Nobody /\ work.h # work.prev
       /\ \A t \in Slots \ {work.s} :
            host.leases[t] # work.h /\ (host.leases[t] = work.prev => work.prev = Nobody)

\* A slot no transaction is changing.
Settled(t) ==
  /\ host.pending[t] = Nobody /\ host.current[t] = host.leases[t]
  /\ host.leases[t] # Nobody \/ ~lapsed => tree[t].inst = host.leases[t]

Shown ==
  ~host.quarantined =>
    /\ \A t \in Slots : t # work.s \/ work.pc \notin Moving => Settled(t)
    /\ work.pc \in {"prepare", "create"} => ~work.on
    /\ work.pc = "create" => tree[work.s].inst = host.leases[work.s]
    /\ work.pc \in Unpublished =>
         /\ host.current[work.s] = work.prev /\ tree[work.s].inst = work.prev
         /\ host.leases[work.s] = IF work.prev = Nobody \/ work.on THEN work.h ELSE work.prev
         /\ work.on => work.prev # Nobody
    /\ work.pc \in {"finalize", "finalized"} =>
         tree[work.s].inst = work.h /\ host.current[work.s] = work.h /\ host.leases[work.s] = work.h
    /\ work.pc = "finalized" => host.pending[work.s] = Nobody
    /\ work.pc \in {"clear", "cleared"} =>
         /\ host.leases[work.s] = Nobody /\ host.current[work.s] = Nobody
         /\ host.pending[work.s] = Nobody /\ work.h \notin device.live
    /\ work.pc = "clear" => tree[work.s].inst = work.h
    /\ work.pc = "cleared" => tree[work.s] = Empty
    /\ work.pc \in Controlling => host.leases[work.s] = work.h /\ work.h # Nobody

\* While the backend is in touch with the device it knows what runs there, and
\* with which value.
Routed ==
  \A t \in Slots : device.runs[t] = IF host.leases[t] \in device.live THEN host.leases[t] ELSE Nobody
Same(h, v) == h \in device.live => host.model[h] = v /\ device.val[h] = v
Known ==
  host.connected /\ ~host.quarantined =>
    /\ Routed
    /\ \A t \in Slots : t # work.s \/ work.pc \notin Staged \cup {"store", "restore"} =>
         Same(host.leases[t], tree[t].val)
    /\ work.pc \in Staged => Same(work.h, First)
    /\ work.pc \in Unpublished => Same(work.prev, tree[work.s].val)
    /\ work.pc = "finalize" => tree[work.s].val = First
    /\ work.pc = "store" => Same(work.h, work.v)

\* With no news of a loss waiting, nothing has been lost.
Alive ==
  hosting /\ host.connected /\ ~host.quarantined /\ events = 0 =>
    /\ \A t \in Slots : host.leases[t] # Nobody => host.leases[t] \in device.live
    /\ work.pc \in Staged => work.h \in device.live /\ (work.prev # Nobody => work.prev \in device.live)

\* How things are, against how they were when the transaction began.
Untouched == drops = work.drops
WasOp ==
  /\ work.pc \in {"prepare", "create", "finalized"} \cup Staged => work.op = "load"
  /\ work.pc \in {"retire", "clear", "cleared"} => work.op = "unload"
  /\ work.pc \in {"plan"} \cup Controlling => work.op = "control"
  /\ work.pc # "idle" => work.drops <= drops /\ ~host.quarantined
WasTree ==
  /\ work.pc \in {"prepare", "create", "retire", "plan", "apply", "store", "restore"} \cup Unpublished =>
       tree = work.was.tree
  /\ work.pc = "stored" => tree = [work.was.tree EXCEPT ![work.s].val = work.v]
WasLeases ==
  /\ work.pc \in {"prepare", "create", "retire", "plan"} \cup Controlling => host.leases = work.was.leases
  /\ work.pc \in Unpublished =>
       host.leases = [work.was.leases EXCEPT ![work.s] = host.leases[work.s]]
       /\ work.was.leases[work.s] = work.prev
WasDevice ==
  /\ work.pc \in {"store", "stored"} => device.val[work.h] = work.v
  /\ Untouched =>
    /\ work.pc \in {"prepare", "create", "retire", "plan", "apply"} => device = work.was.device
    /\ work.pc \in Staged \cup {"finalized"} => work.h \in device.live
    /\ host.connected /\ work.pc \in Unpublished =>
         /\ device.val = work.was.device.val
         /\ work.h \notin work.was.device.live /\ device.live = work.was.device.live \cup {work.h}
         /\ \A t \in Slots \ {work.s} : device.runs[t] = work.was.device.runs[t]
         /\ work.was.device.runs[work.s] = IF work.prev \in work.was.device.live THEN work.prev ELSE Nobody
    /\ work.pc \in Controlling =>
         /\ device = [work.was.device EXCEPT !.val[work.h] = device.val[work.h]]
         /\ host.connected => work.was.device.val[work.h] = work.was.tree[work.s].val
Was == WasOp /\ WasTree /\ WasLeases /\ WasDevice

ViewInv == Made /\ Silent /\ Apart /\ Shown /\ Known /\ Alive /\ Was

------------------------------------------------------------------------------
\* The types of what the worker and the backend have.
LEMMA Typed ==
  ASSUME IInv
  PROVE  /\ tree \in [Slots -> [name : Names \cup {NoName}, inst : Instances, val : Values]]
         /\ host \in Hosts /\ host.leases \in [Slots -> Instances] /\ host.pending \in [Slots -> Instances]
         /\ host.current \in [Slots -> Instances] /\ host.model \in [Handles -> Values]
         /\ host.connected \in BOOLEAN /\ host.quarantined \in BOOLEAN
         /\ device \in Devices /\ device.live \subseteq Handles /\ device.runs \in [Slots -> Instances]
         /\ device.val \in [Handles -> Values] /\ device = [live |-> device.live, runs |-> device.runs, val |-> device.val]
         /\ work \in Jobs /\ work.h \in Instances /\ work.prev \in Instances /\ work.v \in Values
         /\ work.on \in BOOLEAN /\ work.drops \in Nat /\ work.was.tree \in Trees
         /\ work.was.leases \in [Slots -> Instances] /\ work.was.device \in Devices
         /\ Nobody \notin Handles /\ Nobody = 0 /\ Instances = 0..MaxMade /\ Handles = 1..MaxMade /\ MaxMade \in Nat
         /\ made \in 0..MaxMade /\ drops \in Nat /\ events \in Nat
         /\ (work.pc # "idle" => work.s \in Slots /\ hosting)
<1>. USE HostingAssumption DEF IInv, TypeOK
<1>1. tree \in Trees /\ host \in Hosts /\ device \in Devices /\ work \in Jobs
  OBVIOUS
<1>2. Nobody \notin Handles /\ Nobody = 0 /\ Instances = 0..MaxMade /\ Handles = 1..MaxMade /\ MaxMade \in Nat
  BY DEF Handles, Nobody, Instances
<1>3. made \in 0..MaxMade /\ drops \in Nat /\ events \in Nat
  BY <1>2
<1>4. work.pc # "idle" => work.s \in Slots /\ hosting
  BY DEF Serving
<1>. QED BY <1>1, <1>2, <1>3, <1>4 DEF Trees, Hosts, Devices, Jobs, BySlot

\* A transaction is over, its slot settled: what was known is known.
LEMMA EndsSettled ==
  ASSUME IInv, IInv', ViewInv, work'.pc = "idle", work'.was = work.was,
         UNCHANGED <<tree, device, made, loop>>,
         host'.leases = host.leases, host'.pending = host.pending, host'.current = host.current,
         host'.model = host.model, host'.quarantined = host.quarantined, host'.connected => host.connected,
         work.pc # "idle", ~host.quarantined => Settled(work.s),
         host.connected /\ ~host.quarantined => Same(host.leases[work.s], tree[work.s].val)
  PROVE  ViewInv'
<1>1. Made' /\ Silent' /\ Apart'
  BY DEF ViewInv, Made, Silent, Apart, Staged
<1>2. Shown'
  BY DEF ViewInv, Shown, Settled, Moving, Unpublished, Staged, Controlling, loop
<1>3. Known'
  BY DEF ViewInv, Known, Routed, Same, Unpublished, Staged, loop
<1>4. Alive' /\ Was'
  BY DEF ViewInv, Alive, Was, WasOp, WasTree, WasLeases, WasDevice, Unpublished, Controlling, Staged, loop
<1>. QED BY <1>1, <1>2, <1>3, <1>4 DEF ViewInv

\* The worker gives up: the coordinator claims nothing any more.
LEMMA GaveUp ==
  ASSUME IInv, IInv', ViewInv, work'.pc = "idle", host'.quarantined,
         host'.leases = host.leases, host'.model = host.model, UNCHANGED <<tree, made, loop>>,
         device'.live \subseteq device.live,
         \A t \in Slots : device'.runs[t] = device.runs[t] \/ device'.runs[t] = Nobody \/ host.leases[t] # Nobody,
         \A h \in Handles : h > made => device'.val[h] = device.val[h]
  PROVE  ViewInv'
<1>1. Made' /\ Silent' /\ Apart'
  BY DEF ViewInv, Made, Silent, Apart, Staged
<1>2. Shown' /\ Known' /\ Alive' /\ Was'
  BY DEF Shown, Known, Alive, Was, WasOp, WasTree, WasLeases, WasDevice, Unpublished, Controlling, Staged
<1>. QED BY <1>1, <1>2 DEF ViewInv
------------------------------------------------------------------------------
\* Steps of the worker that change only where it is, or what it knows of the
\* session.

LEMMA AtKeeps ==
  ASSUME IInv, NEW pc, At(pc)
  PROVE  /\ work'.pc = pc /\ work'.op = work.op /\ work'.s = work.s /\ work'.v = work.v /\ work'.h = work.h
         /\ work'.prev = work.prev /\ work'.on = work.on /\ work'.drops = work.drops /\ work'.was = work.was
         /\ work'.name = work.name
BY DEF IInv, TypeOK, At, Jobs

LEMMA AnswerKeeps ==
  ASSUME IInv, NEW a, Answer(a)
  PROVE  work'.pc = "idle" /\ work'.was = work.was /\ work'.answer = a
BY DEF IInv, TypeOK, Answer, Jobs

\* What the worker may learn without anything else changing.
SameHost ==
  /\ host'.leases = host.leases /\ host'.pending = host.pending /\ host'.current = host.current
  /\ host'.model = host.model /\ host'.quarantined = host.quarantined /\ (host'.connected => host.connected)

LEMMA InvalidatedSame ==
  ASSUME IInv, host' = host \/ host' = Invalidated(host)
  PROVE  SameHost
BY DEF IInv, TypeOK, Hosts, Invalidated, SameHost

Turns == {<<"prepare", "create">>, <<"observe", "activate">>, <<"observe", "rollback">>,
          <<"activate", "publish">>, <<"activate", "rollback">>, <<"publish", "rollback">>,
          <<"finalize", "finalized">>, <<"apply", "restore">>, <<"store", "restore">>}

LEMMA Turned ==
  ASSUME IInv, IInv', ViewInv, NEW pc, At(pc), <<work.pc, pc>> \in Turns,
         SameHost, UNCHANGED <<tree, device, made, loop>>,
         pc = "create" => tree[work.s].inst = host.leases[work.s],
         pc = "finalized" => work.prev = Nobody
  PROVE  ViewInv'
<1>1. /\ work'.pc = pc /\ work'.op = work.op /\ work'.s = work.s /\ work'.v = work.v /\ work'.h = work.h
      /\ work'.prev = work.prev /\ work'.on = work.on /\ work'.drops = work.drops /\ work'.was = work.was
      /\ work.pc # "idle" /\ pc # "idle"
  BY AtKeeps DEF Turns
<1>2. Made' /\ Silent' /\ Apart'
  BY <1>1 DEF ViewInv, Made, Silent, Apart, Staged, SameHost, Turns
<1>3. Shown'
  <2>1. pc = "finalized" => host.pending[work.s] = Nobody
    BY DEF IInv, Placed, Staged, Turns
  <2>. QED BY <1>1, <2>1 DEF ViewInv, Shown, Settled, Moving, Unpublished, Staged, Controlling, loop, SameHost, Turns
<1>4. Known'
  BY <1>1 DEF ViewInv, Known, Routed, Same, Unpublished, Staged, loop, SameHost, Turns, Shown
<1>5. Alive'
  BY <1>1 DEF ViewInv, Alive, Staged, loop, SameHost, Turns
<1>6. WasOp' /\ WasTree' /\ WasLeases'
  BY <1>1 DEF ViewInv, Was, WasOp, WasTree, WasLeases, Unpublished, Controlling, Staged, loop, SameHost, Turns
<1>7. WasDevice'
  BY <1>1 DEF ViewInv, Was, WasDevice, Untouched, Unpublished, Controlling, Staged, loop, SameHost, Turns
<1>. QED BY <1>2, <1>3, <1>4, <1>5, <1>6, <1>7 DEF ViewInv, Was

LEMMA BeginView ==
  ASSUME IInv, IInv', ViewInv, NEW s \in Slots, NEW n, NEW v,
         NEW pc \in {"prepare", "retire", "plan"}, NEW op, Begin(Job(pc, op, s, n, v)),
         op = CASE pc = "prepare" -> "load" [] pc = "retire" -> "unload" [] pc = "plan" -> "control"
  PROVE  ViewInv'
<1>1. /\ work.pc = "idle" /\ UNCHANGED <<tree, host, device, made, loop>>
      /\ work'.pc = pc /\ work'.s = s /\ work'.prev = Nobody /\ work'.h = Nobody /\ work'.drops = drops
      /\ work'.op = op /\ work'.was.tree = tree /\ work'.was.leases = host.leases /\ work'.was.device = device
      /\ drops' = drops /\ ~work'.on
  BY DEF Begin, Job, loop
<1>2. Made' /\ Silent' /\ Apart'
  BY <1>1, Typed DEF ViewInv, Made, Silent, Apart, Staged
<1>3. Shown'
  BY <1>1 DEF ViewInv, Shown, Settled, Moving, Unpublished, Staged, Controlling, loop
<1>4. Known'
  BY <1>1 DEF ViewInv, Known, Routed, Same, Unpublished, Staged, loop
<1>5. Alive'
  BY <1>1 DEF ViewInv, Alive, Staged, loop
<1>6. WasOp'
  <2>1. drops \in Nat
    BY Typed
  <2>. QED BY <1>1, <2>1 DEF Begin, WasOp, Unpublished, Controlling, Staged
<1>7. WasTree' /\ WasLeases' /\ WasDevice'
  BY <1>1 DEF WasTree, WasLeases, WasDevice, Untouched, Unpublished, Controlling, Staged
<1>. QED BY <1>2, <1>3, <1>4, <1>5, <1>6, <1>7 DEF ViewInv, Was

LEMMA RequestView == ASSUME IInv, IInv', ViewInv, Request PROVE ViewInv'
<1>1. PICK s \in Slots : \/ \E n \in Names : BeginLoad(s, n)
                         \/ BeginUnload(s)
                         \/ \E v \in Values : BeginControl(s, v)
  BY DEF Request
<1>2. CASE \E n \in Names : BeginLoad(s, n)
  <2>1. PICK n \in Names : Begin(Job("prepare", "load", s, n, First))
    BY <1>2 DEF BeginLoad
  <2>. QED BY <2>1, BeginView
<1>3. CASE BeginUnload(s)
  <2>1. Begin(Job("retire", "unload", s, NoName, First))
    BY <1>3 DEF BeginUnload
  <2>. QED BY <2>1, BeginView
<1>4. CASE \E v \in Values : BeginControl(s, v)
  <2>1. PICK v \in Values : Begin(Job("plan", "control", s, NoName, v))
    BY <1>4 DEF BeginControl
  <2>. QED BY <2>1, BeginView
<1>. QED BY <1>1, <1>2, <1>3, <1>4

\* An answer for a transaction that left everything in its slot as it was.
LEMMA FailedAtOnce ==
  ASSUME IInv, IInv', ViewInv, NEW a, Answer(a), work.pc \in {"prepare", "plan", "apply"},
         SameHost, UNCHANGED <<tree, device, made, loop>>
  PROVE  ViewInv'
<1>1. work'.pc = "idle" /\ work'.was = work.was /\ work.pc # "idle"
  BY AnswerKeeps
<1>2. work.s \in Slots
  BY Typed, <1>1
<1>3. ~host.quarantined => Settled(work.s)
  BY <1>2 DEF ViewInv, Shown, Moving, Staged
<1>4. host.connected /\ ~host.quarantined => Same(host.leases[work.s], tree[work.s].val)
  BY <1>2 DEF ViewInv, Known, Staged
<1>. QED BY <1>1, <1>3, <1>4, EndsSettled DEF SameHost

LEMMA PrepareView == ASSUME IInv, IInv', ViewInv, Prepare PROVE ViewInv'
<1>1. work.pc = "prepare" /\ UNCHANGED <<tree, device, made, loop>>
  BY DEF Prepare
<1>2. CASE Answer("failed") /\ (UNCHANGED host \/ host' = Invalidated(host))
  BY <1>1, <1>2, FailedAtOnce, InvalidatedSame
<1>3. CASE ~Refused(work.s) /\ At("create") /\ UNCHANGED host
  <2>1. SameHost /\ <<work.pc, "create">> \in Turns
    BY <1>1, <1>3, InvalidatedSame DEF Turns
  <2>2. tree[work.s].inst = host.leases[work.s]
    BY <1>3 DEF Refused
  <2>. QED BY <1>1, <1>3, <2>1, <2>2, Turned
<1>. QED BY <1>2, <1>3 DEF Prepare

LEMMA ObserveView == ASSUME IInv, IInv', ViewInv, Observe PROVE ViewInv'
<1>1. work.pc = "observe" /\ UNCHANGED <<tree, device, made, loop>> /\ SameHost
  BY InvalidatedSame DEF Observe, Unobserved
<1>2. CASE At("activate")
  BY <1>1, <1>2, Turned DEF Turns
<1>3. CASE At("rollback")
  BY <1>1, <1>3, Turned DEF Turns
<1>. QED BY <1>2, <1>3 DEF Observe
------------------------------------------------------------------------------
\* The steps of a load.

LEMMA CreateFailsView == ASSUME IInv, IInv', ViewInv, Create, CreateFails PROVE ViewInv'
<1>1. /\ made' = made + 1 /\ UNCHANGED <<tree, loop>> /\ work'.pc = "idle"
      /\ host' = Quarantined(Invalidated(host), {})
      /\ device'.live \subseteq device.live \cup {made + 1} /\ device'.runs = device.runs /\ device'.val = device.val
  BY AnswerKeeps, Typed DEF Create, CreateFails, GiveUp
<1>2. host'.leases = host.leases /\ host'.model = host.model /\ host'.quarantined
  BY <1>1, Typed DEF Quarantined, Invalidated, Hosts
<1>3. Made'
  <2>1. made \in Nat /\ (\A t \in Slots : host.leases[t] \in Nat /\ tree[t].inst \in Nat)
        /\ (\A h \in Handles \cup device.live : h \in Nat)
    BY Typed
  <2>2. \A h \in device'.live : h <= made + 1
    BY <1>1, <2>1 DEF ViewInv, Made
  <2>3. \A t \in Slots : host.leases[t] <= made + 1 /\ tree[t].inst <= made + 1
    BY <2>1 DEF ViewInv, Made
  <2>4. \A h \in Handles : h > made + 1 => device.val[h] = First /\ host.model[h] = First
    BY <2>1 DEF ViewInv, Made
  <2>. QED BY <1>1, <1>2, <2>2, <2>3, <2>4 DEF Made
<1>5. Silent' /\ Apart'
  BY <1>1, <1>2 DEF ViewInv, Silent, Apart, Staged
<1>4. Shown' /\ Known' /\ Alive' /\ Was'
  BY <1>1, <1>2 DEF Shown, Known, Alive, Was, WasOp, WasTree, WasLeases, WasDevice, Unpublished, Controlling, Staged
<1>. QED BY <1>3, <1>4, <1>5 DEF ViewInv

LEMMA CreateSucceedsView == ASSUME IInv, IInv', ViewInv, Create, CreateSucceeds PROVE ViewInv'
<1>. DEFINE s == work.s
            h == made + 1
            prev == host.leases[s]
<1>1. /\ work.pc = "create" /\ s \in Slots /\ host.connected /\ made' = h /\ UNCHANGED <<tree, loop>> /\ hosting
      /\ host.pending[s] = Nobody
  BY Typed DEF Create, CreateSucceeds, IInv, Placed
<1>2. h \in Nat /\ h > made /\ h # Nobody /\ h \in Handles /\ prev \in Instances /\ prev <= made /\ prev # h
  <2>1. made' \in 0..MaxMade
    BY DEF IInv, TypeOK
  <2>2. prev \in Instances /\ prev <= made
    BY <1>1, Typed DEF ViewInv, Made
  <2>3. made \in Nat /\ h \in Nat /\ h <= MaxMade
    BY <1>1, <2>1, Typed
  <2>. QED BY <2>2, <2>3, Typed
<1>3. /\ work'.pc = "observe" /\ work'.op = work.op /\ work'.s = s /\ work'.v = work.v /\ work'.h = h
      /\ work'.prev = prev /\ work'.on = work.on /\ work'.drops = work.drops /\ work'.was = work.was
  BY <1>1, Typed DEF CreateSucceeds, Jobs
<1>4. /\ host'.current = host.current /\ host'.model = host.model /\ host'.connected = host.connected
      /\ host'.quarantined = host.quarantined
      /\ \A t \in Slots : /\ host'.leases[t] = IF t = s /\ prev = Nobody THEN h ELSE host.leases[t]
                          /\ host'.pending[t] = IF t = s /\ prev # Nobody THEN h ELSE host.pending[t]
      /\ prev # Nobody => host'.leases = host.leases
      /\ prev = Nobody => host'.leases = [host.leases EXCEPT ![s] = h]
  BY <1>1, Typed DEF CreateSucceeds, Hosts
<1>5. /\ device'.live = device.live \cup {h} /\ device'.val = device.val
      /\ \A t \in Slots : device'.runs[t] = IF t = s /\ prev = Nobody THEN h ELSE device.runs[t]
  BY <1>1, Typed DEF CreateSucceeds, Running, Devices
<1>6. (\A g \in device.live : g <= made) /\ h \notin device.live
  BY <1>2, Typed DEF ViewInv, Made
<1>7. \A t \in Slots : host.leases[t] # h /\ host.leases[t] <= made
  BY <1>2, Typed DEF ViewInv, Made
<1>. HIDE DEF s, h, prev
<1>8. Made'
  <2>1. h = made + 1 /\ made \in Nat
    BY Typed DEF h
  <2>2. \A t \in Slots : tree[t].inst \in Instances /\ tree[t].inst <= made /\ host.leases[t] \in Instances
    BY Typed DEF ViewInv, Made
  <2>3. \A g \in Handles : g > made => device.val[g] = First /\ host.model[g] = First
    BY DEF ViewInv, Made
  <2>4. \A g \in device'.live : g <= h
    BY <1>2, <1>5, <1>6, <2>1, Typed
  <2>5. \A t \in Slots : host'.leases[t] <= h /\ tree[t].inst <= h
    <3>. TAKE t \in Slots
    <3>1. host'.leases[t] = h \/ host'.leases[t] = host.leases[t]
      BY <1>4
    <3>2. host.leases[t] \in Nat /\ host.leases[t] <= made /\ tree[t].inst \in Nat /\ tree[t].inst <= made
      BY <2>2, <1>7, Typed
    <3>. QED BY <1>2, <2>1, <3>1, <3>2
  <2>6. h <= h /\ prev <= h
    BY <1>2, <2>1, Typed
  <2>7. \A g \in Handles : g > h => device'.val[g] = First /\ host'.model[g] = First
    BY <1>2, <1>4, <1>5, <2>1, <2>3, Typed, SMTT(30)
  <2>. QED BY <1>1, <1>3, <2>4, <2>5, <2>6, <2>7 DEF Made
<1>9. Silent'
  BY <1>2, <1>4, <1>5, <1>7, <1>1 DEF ViewInv, Silent, prev
<1>10. Apart'
  BY <1>1, <1>2, <1>3, <1>4, <1>7 DEF ViewInv, Apart, Staged, prev
<1>11. Shown'
  BY <1>1, <1>2, <1>3, <1>4 DEF ViewInv, Shown, Settled, Moving, Unpublished, Staged, Controlling, loop, prev, s
<1>12. Known'
  <2>. SUFFICES ASSUME ~host.quarantined PROVE Known'
    BY <1>4 DEF Known
  <2>1. Routed'
    BY <1>1, <1>2, <1>4, <1>5, <1>6, <1>7 DEF ViewInv, Known, Routed
  <2>2. h \in device'.live => host'.model[h] = First /\ device'.val[h] = First
    BY <1>2, <1>4, <1>5 DEF ViewInv, Made, Same
  <2>3. \A t \in Slots : Same(host.leases[t], tree[t].val)
    BY <1>1 DEF ViewInv, Known, Staged
  <2>4. \A t \in Slots : t # s => Same(host.leases[t], tree[t].val)'
    BY <1>1, <1>4, <1>5, <1>7, <2>3 DEF Same
  <2>5. prev \in device'.live => host'.model[prev] = tree[s].val /\ device'.val[prev] = tree[s].val
    BY <1>1, <1>2, <1>4, <1>5, <2>3 DEF Same, prev
  <2>. QED BY <1>1, <1>3, <2>1, <2>2, <2>4, <2>5 DEF Known, Same, Unpublished, Staged
<1>13. Alive'
  BY <1>1, <1>3, <1>4, <1>5 DEF ViewInv, Alive, Staged, loop, prev
<1>14. WasOp' /\ WasTree'
  BY <1>1, <1>3, <1>4 DEF ViewInv, Was, WasOp, WasTree, Unpublished, Controlling, Staged, loop
<1>15. WasLeases'
  <2>1. host.leases = work.was.leases
    BY <1>1 DEF ViewInv, Was, WasLeases
  <2>2. host'.leases = [host.leases EXCEPT ![s] = host'.leases[s]]
    BY <1>1, <1>4, Typed
  <2>. QED BY <1>3, <2>1, <2>2 DEF WasLeases, Unpublished, Controlling, Staged, prev
<1>16. WasDevice'
  <2>. SUFFICES ASSUME Untouched'
       PROVE  /\ h \in device'.live
              /\ host'.connected =>
                   /\ device'.val = work.was.device.val
                   /\ h \notin work.was.device.live /\ device'.live = work.was.device.live \cup {h}
                   /\ \A t \in Slots \ {s} : device'.runs[t] = work.was.device.runs[t]
                   /\ work.was.device.runs[s] = IF prev \in work.was.device.live THEN prev ELSE Nobody
    BY <1>3 DEF WasDevice, Unpublished, Controlling, Staged
  <2>1. device = work.was.device
    BY <1>1, <1>3 DEF ViewInv, Was, WasDevice, Untouched, loop
  <2>2. Routed
    BY <1>1 DEF ViewInv, Was, WasOp, Known
  <2>. QED BY <1>1, <1>2, <1>4, <1>5, <1>6, <2>1, <2>2 DEF Routed, prev
<1>. QED BY <1>8, <1>9, <1>10, <1>11, <1>12, <1>13, <1>14, <1>15, <1>16 DEF ViewInv, Was
LEMMA RunningIs ==
  ASSUME NEW d \in Devices, NEW s \in Slots, NEW h
  PROVE  /\ Running(d, s, h).live = d.live /\ Running(d, s, h).val = d.val
         /\ \A t \in Slots : Running(d, s, h).runs[t] = IF t = s THEN h ELSE d.runs[t]
BY DEF Running, Devices, BySlot

LEMMA WithoutIs ==
  ASSUME NEW d \in Devices, NEW h
  PROVE  /\ Without(d, h).live = d.live \ {h} /\ Without(d, h).val = d.val
         /\ \A t \in Slots : Without(d, h).runs[t] = IF d.runs[t] = h THEN Nobody ELSE d.runs[t]
BY DEF Without, Devices, BySlot

LEMMA SetTwice ==
  ASSUME NEW A, NEW B, NEW f \in [A -> B], NEW a \in A, NEW x, NEW y, NEW g, NEW h,
         g = [f EXCEPT ![a] = x], h = [g EXCEPT ![a] = y]
  PROVE  h = [f EXCEPT ![a] = y] /\ h[a] = y
OBVIOUS

LEMMA SwappedView ==
  ASSUME IInv, IInv', ViewInv, work.pc = "activate", work.prev # Nobody, host.connected,
         work.h \in device.live, work.prev \in device.live,
         device' = Running(device, work.s, work.h), host' = [host EXCEPT !.leases[work.s] = work.h],
         work' = [work EXCEPT !.pc = "publish", !.on = TRUE], UNCHANGED <<tree, made, loop>>
  PROVE  ViewInv'
<1>. DEFINE s == work.s
            h == work.h
            prev == work.prev
<1>1. /\ s \in Slots /\ hosting /\ device \in Devices /\ h \in Instances /\ prev \in Instances
      /\ host.leases[s] \in Instances /\ ~host.quarantined /\ h # Nobody /\ h # prev
  BY Typed DEF ViewInv, Was, WasOp, Apart, Staged
<1>2. /\ work'.pc = "publish" /\ work'.op = work.op /\ work'.s = s /\ work'.v = work.v /\ work'.h = h
      /\ work'.prev = prev /\ work'.on /\ work'.drops = work.drops /\ work'.was = work.was
  BY Typed DEF Jobs
<1>3. /\ host'.current = host.current /\ host'.model = host.model /\ host'.connected = host.connected
      /\ host'.quarantined = host.quarantined /\ host'.pending = host.pending
      /\ \A t \in Slots : host'.leases[t] = IF t = s THEN h ELSE host.leases[t]
      /\ host'.leases = [host.leases EXCEPT ![s] = h]
  BY <1>1, Typed DEF Hosts
<1>4. /\ device'.live = device.live /\ device'.val = device.val
      /\ \A t \in Slots : device'.runs[t] = IF t = s THEN h ELSE device.runs[t]
  BY <1>1, RunningIs
<1>. HIDE DEF s, h, prev
<1>5. \A t \in Slots : t # s => host.leases[t] # h /\ host.leases[t] # prev
  BY DEF ViewInv, Apart, Staged, s, h, prev
<1>6. Made' /\ Silent' /\ Apart'
  <2>1. h <= made
    BY DEF ViewInv, Made, h
  <2>2. Made'
    BY <1>2, <1>3, <1>4, <2>1 DEF ViewInv, Made, h, prev
  <2>3. Silent'
    BY <1>1, <1>3, <1>4 DEF ViewInv, Silent
  <2>4. Apart'
    BY <1>1, <1>2, <1>3, <1>5 DEF ViewInv, Apart, Staged
  <2>. QED BY <2>2, <2>3, <2>4
<1>7. Shown'
  BY <1>1, <1>2, <1>3 DEF ViewInv, Shown, Settled, Moving, Unpublished, Staged, Controlling, loop, prev, s, h
<1>8. Known'
  <2>1. Routed'
    <3>1. Routed /\ h \in device.live
      BY <1>1 DEF ViewInv, Known, h
    <3>. QED BY <1>3, <1>4, <3>1 DEF Routed
  <2>2. \A t \in Slots : t # s => Same(host.leases[t], tree[t].val)'
    BY <1>1, <1>3, <1>4 DEF ViewInv, Known, Same, s
  <2>3. /\ h \in device'.live => host'.model[h] = First /\ device'.val[h] = First
        /\ prev \in device'.live => host'.model[prev] = tree[s].val /\ device'.val[prev] = tree[s].val
    BY <1>1, <1>3, <1>4 DEF ViewInv, Known, Same, Staged, Unpublished, h, prev, s
  <2>. QED BY <1>2, <2>1, <2>2, <2>3 DEF Known, Same, Unpublished, Staged
<1>9. Alive'
  BY <1>1, <1>2, <1>3, <1>4 DEF ViewInv, Alive, Staged, loop, h, prev
<1>10. WasOp' /\ WasTree'
  BY <1>2, <1>3 DEF ViewInv, Was, WasOp, WasTree, Unpublished, Controlling, Staged, loop
<1>11. WasLeases'
  <2>1. host.leases = [work.was.leases EXCEPT ![s] = host.leases[s]] /\ work.was.leases[s] = prev
    BY DEF ViewInv, Was, WasLeases, Unpublished, s, prev
  <2>2. host'.leases = [work.was.leases EXCEPT ![s] = h] /\ host'.leases[s] = h
    <3>1. work.was.leases \in [Slots -> Instances]
      BY Typed
    <3>. QED BY <1>1, <1>3, <2>1, <3>1, SetTwice
  <2>. QED BY <1>2, <2>1, <2>2 DEF WasLeases, Unpublished, Controlling, Staged
<1>12. WasDevice'
  BY <1>2, <1>3, <1>4 DEF ViewInv, Was, WasDevice, Untouched, Unpublished, Controlling, Staged, loop, s, h, prev
<1>. QED BY <1>6, <1>7, <1>8, <1>9, <1>10, <1>11, <1>12 DEF ViewInv, Was

\* A swap whose outcome is not known.
LEMMA SwapLostView ==
  ASSUME IInv, IInv', ViewInv, work.pc = "activate", work.prev # Nobody,
         device' = Running(device, work.s, work.h), host' = Invalidated(host),
         At("rollback"), UNCHANGED <<tree, made, loop>>
  PROVE  ViewInv'
<1>1. work.s \in Slots /\ hosting /\ device \in Devices
  BY Typed
<1>2. /\ work'.pc = "rollback" /\ work'.op = work.op /\ work'.s = work.s /\ work'.v = work.v /\ work'.h = work.h
      /\ work'.prev = work.prev /\ work'.on = work.on /\ work'.drops = work.drops /\ work'.was = work.was
  BY AtKeeps
<1>3. SameHost /\ ~host'.connected
  BY InvalidatedSame, Typed DEF Invalidated, Hosts
<1>4. /\ device'.live = device.live /\ device'.val = device.val
      /\ \A t \in Slots : device'.runs[t] = IF t = work.s THEN work.h ELSE device.runs[t]
  BY <1>1, RunningIs
<1>5. host.leases[work.s] # Nobody
  BY <1>1 DEF ViewInv, Apart, Shown, Was, WasOp, Staged, Unpublished
<1>6. Made' /\ Silent' /\ Apart'
  BY <1>2, <1>3, <1>4, <1>5 DEF ViewInv, Made, Silent, Apart, Staged, SameHost
<1>7. Shown'
  BY <1>2, <1>3, <1>4 DEF ViewInv, Shown, Settled, Moving, Unpublished, Staged, Controlling, loop, SameHost
<1>8. Known' /\ Alive'
  BY <1>3 DEF Known, Alive
<1>9. WasOp' /\ WasTree' /\ WasLeases'
  BY <1>2, <1>3 DEF ViewInv, Was, WasOp, WasTree, WasLeases, Unpublished, Controlling, Staged, loop, SameHost
<1>10. WasDevice'
  BY <1>2, <1>3, <1>4 DEF ViewInv, Was, WasDevice, Untouched, Unpublished, Controlling, Staged, loop
<1>. QED BY <1>6, <1>7, <1>8, <1>9, <1>10 DEF ViewInv, Was

LEMMA ActivateView == ASSUME IInv, IInv', ViewInv, Activate PROVE ViewInv'
<1>1. work.pc = "activate" /\ UNCHANGED <<tree, made, loop>>
  BY DEF Activate
<1>2. CASE ~InSession /\ host' = Invalidated(host) /\ At("rollback") /\ UNCHANGED device
  BY <1>1, <1>2, Turned, InvalidatedSame DEF Turns
<1>3. CASE work.prev = Nobody /\ At("publish") /\ UNCHANGED <<host, device>>
  BY <1>1, <1>3, Turned, InvalidatedSame DEF Turns
<1>4. CASE /\ InSession /\ work.prev # Nobody /\ Callable(work.prev) /\ Callable(work.h)
           /\ device' = Running(device, work.s, work.h) /\ host' = [host EXCEPT !.leases[work.s] = work.h]
           /\ work' = [work EXCEPT !.pc = "publish", !.on = TRUE]
  BY <1>1, <1>4, SwappedView DEF Callable
<1>5. CASE /\ work.prev # Nobody /\ device' \in {device, Running(device, work.s, work.h)}
           /\ host' = Invalidated(host) /\ At("rollback")
  <2>1. CASE device' = device
    BY <1>1, <1>5, <2>1, Turned, InvalidatedSame DEF Turns
  <2>2. CASE device' = Running(device, work.s, work.h)
    BY <1>1, <1>5, <2>2, SwapLostView
  <2>. QED BY <1>5, <2>1, <2>2
<1>. QED BY <1>2, <1>3, <1>4, <1>5 DEF Activate

LEMMA PublishView == ASSUME IInv, IInv', ViewInv, Publish PROVE ViewInv'
<1>1. work.pc = "publish" /\ UNCHANGED <<device, made, loop>> /\ work.s \in Slots /\ work.h \in Instances /\ hosting
  BY Typed DEF Publish
<1>2. CASE At("rollback") /\ UNCHANGED <<tree, host>>
  BY <1>1, <1>2, Turned, InvalidatedSame DEF Turns
<1>3. CASE /\ tree' = [tree EXCEPT ![work.s] = [name |-> work.name, inst |-> work.h, val |-> First]]
           /\ host' = [host EXCEPT !.current[work.s] = work.h] /\ At("finalize")
  <2>1. /\ work'.pc = "finalize" /\ work'.op = work.op /\ work'.s = work.s /\ work'.v = work.v /\ work'.h = work.h
        /\ work'.prev = work.prev /\ work'.on = work.on /\ work'.drops = work.drops /\ work'.was = work.was
    BY <1>3, AtKeeps
  <2>2. /\ host'.leases = host.leases /\ host'.model = host.model /\ host'.connected = host.connected
        /\ host'.quarantined = host.quarantined /\ host'.pending = host.pending
        /\ \A t \in Slots : host'.current[t] = IF t = work.s THEN work.h ELSE host.current[t]
    BY <1>1, <1>3, Typed DEF Hosts
  <2>3. /\ \A t \in Slots \ {work.s} : tree'[t] = tree[t]
        /\ tree'[work.s].inst = work.h /\ tree'[work.s].val = First
    BY <1>1, <1>3, Typed
  <2>4. host.leases[work.s] = work.h /\ ~host.quarantined
    BY <1>1 DEF IInv, Placed, ViewInv, Was, WasOp
  <2>5. Made' /\ Silent' /\ Apart'
    <3>1. work.h <= made
      BY <1>1 DEF ViewInv, Made
    <3>. QED BY <1>1, <2>1, <2>2, <2>3, <3>1 DEF ViewInv, Made, Silent, Apart, Staged
  <2>6. Shown'
    BY <1>1, <2>1, <2>2, <2>3, <2>4 DEF ViewInv, Shown, Settled, Moving, Unpublished, Staged, Controlling, loop
  <2>7. Known'
    BY <1>1, <2>1, <2>2, <2>3, <2>4 DEF ViewInv, Known, Routed, Same, Unpublished, Staged
  <2>8. Alive'
    BY <1>1, <2>1, <2>2 DEF ViewInv, Alive, Staged, loop
  <2>9. WasOp' /\ WasTree' /\ WasLeases'
    BY <1>1, <2>1, <2>2 DEF ViewInv, Was, WasOp, WasTree, WasLeases, Unpublished, Controlling, Staged, loop
  <2>10. WasDevice'
    BY <1>1, <2>1 DEF ViewInv, Was, WasDevice, Untouched, Unpublished, Controlling, Staged, loop
  <2>. QED BY <2>5, <2>6, <2>7, <2>8, <2>9, <2>10 DEF ViewInv, Was
<1>. QED BY <1>2, <1>3 DEF Publish

\* What was replaced is retired.
LEMMA RetiredView ==
  ASSUME IInv, IInv', ViewInv, work.pc = "finalize", work.prev # Nobody,
         device' = Without(device, work.prev), host' = [host EXCEPT !.pending[work.s] = Nobody],
         At("finalized"), UNCHANGED <<tree, made, loop>>
  PROVE  ViewInv'
<1>1. work.s \in Slots /\ hosting /\ device \in Devices /\ ~host.quarantined
  BY Typed DEF ViewInv, Was, WasOp
<1>2. /\ work'.pc = "finalized" /\ work'.op = work.op /\ work'.s = work.s /\ work'.v = work.v /\ work'.h = work.h
      /\ work'.prev = work.prev /\ work'.on = work.on /\ work'.drops = work.drops /\ work'.was = work.was
  BY AtKeeps
<1>3. /\ host'.leases = host.leases /\ host'.model = host.model /\ host'.connected = host.connected
      /\ host'.quarantined = host.quarantined /\ host'.current = host.current
      /\ \A t \in Slots : host'.pending[t] = IF t = work.s THEN Nobody ELSE host.pending[t]
  BY <1>1, Typed DEF Hosts
<1>4. /\ device'.live = device.live \ {work.prev} /\ device'.val = device.val
      /\ \A t \in Slots : device'.runs[t] = IF device.runs[t] = work.prev THEN Nobody ELSE device.runs[t]
  BY <1>1, WithoutIs
<1>5. \A t \in Slots : host.leases[t] # work.prev
  BY <1>1 DEF ViewInv, Apart, Shown, Staged
<1>6. Made' /\ Silent' /\ Apart'
  BY <1>2, <1>3, <1>4 DEF ViewInv, Made, Silent, Apart, Staged
<1>7. Shown'
  BY <1>1, <1>2, <1>3 DEF ViewInv, Shown, Settled, Moving, Unpublished, Staged, Controlling, loop
<1>8. Known'
  <2>1. CASE host.connected
    <3>1. Routed'
      BY <1>1, <1>3, <1>4, <1>5, <2>1 DEF ViewInv, Known, Routed
    <3>2. \A t \in Slots : t # work.s => Same(host.leases[t], tree[t].val)'
      <4>1. \A t \in Slots : t # work.s => Same(host.leases[t], tree[t].val)
        BY <1>1, <2>1 DEF ViewInv, Known
      <4>. QED BY <1>2, <1>3, <1>4, <4>1 DEF Same
    <3>3. Same(host.leases[work.s], tree[work.s].val)'
      BY <1>1, <1>2, <1>3, <1>4, <2>1 DEF ViewInv, Known, Shown, Same, Staged
    <3>. QED BY <1>2, <3>1, <3>2, <3>3 DEF Known, Unpublished, Staged
  <2>. QED BY <1>3, <2>1 DEF Known
<1>9. Alive'
  BY <1>1, <1>2, <1>3, <1>4, <1>5 DEF ViewInv, Alive, Staged, loop
<1>10. WasOp' /\ WasTree' /\ WasLeases'
  BY <1>2, <1>3 DEF ViewInv, Was, WasOp, WasTree, WasLeases, Unpublished, Controlling, Staged, loop
<1>11. WasDevice'
  BY <1>1, <1>2, <1>4 DEF ViewInv, Was, WasDevice, Untouched, Unpublished, Controlling, Staged, loop, Apart
<1>. QED BY <1>6, <1>7, <1>8, <1>9, <1>10, <1>11 DEF ViewInv, Was

LEMMA GiveUpIs ==
  ASSUME IInv, NEW b \in {host, Invalidated(host)}, NEW tokens, GiveUp(b, tokens)
  PROVE  /\ work'.pc = "idle" /\ work'.answer = "indeterminate" /\ host'.quarantined
         /\ host'.leases = host.leases /\ host'.model = host.model
BY AnswerKeeps, Typed DEF GiveUp, Quarantined, Invalidated, Hosts

LEMMA FinalizeView == ASSUME IInv, IInv', ViewInv, Finalize PROVE ViewInv'
<1>1. work.pc = "finalize" /\ UNCHANGED <<tree, made, loop>> /\ device \in Devices
  BY Typed DEF Finalize
<1>2. CASE GiveUp(Invalidated(host), Token) /\ device' \in {device, Without(device, work.prev)}
  BY <1>1, <1>2, GiveUpIs, GaveUp, WithoutIs
<1>3. CASE work.prev = Nobody /\ At("finalized") /\ UNCHANGED <<host, device>>
  BY <1>1, <1>3, Turned, InvalidatedSame DEF Turns
<1>4. CASE /\ work.prev # Nobody /\ device' = Without(device, work.prev)
           /\ host' = [host EXCEPT !.pending[work.s] = Nobody] /\ At("finalized")
  BY <1>1, <1>4, RetiredView
<1>. QED BY <1>2, <1>3, <1>4 DEF Finalize

\* The end of a transaction whose publication is done.
LEMMA ConfirmView ==
  ASSUME IInv, IInv', ViewInv, NEW pc \in {"finalized", "cleared", "stored"}, Confirm(pc)
  PROVE  ViewInv'
<1>1. work.pc = pc /\ UNCHANGED <<tree, device, made, loop>> /\ work.s \in Slots
  BY Typed DEF Confirm
<1>2. CASE host.connected /\ Answer("committed") /\ UNCHANGED host
  <2>1. SameHost /\ work'.pc = "idle" /\ work'.was = work.was
    BY <1>2, InvalidatedSame, AnswerKeeps
  <2>2. ~host.quarantined => Settled(work.s)
    <3>1. CASE pc = "stored"
      BY <1>1, <3>1 DEF ViewInv, Shown, Moving, Staged
    <3>2. CASE pc = "finalized"
      BY <1>1, <3>2 DEF ViewInv, Shown, Settled
    <3>3. CASE pc = "cleared"
      BY <1>1, <3>3 DEF ViewInv, Shown, Settled, Empty
    <3>. QED BY <3>1, <3>2, <3>3
  <2>3. host.connected /\ ~host.quarantined => Same(host.leases[work.s], tree[work.s].val)
    BY <1>1 DEF ViewInv, Known, Staged
  <2>. QED BY <1>1, <2>1, <2>2, <2>3, EndsSettled DEF SameHost
<1>3. CASE GiveUp(host, Token)
  BY <1>1, <1>3, GiveUpIs, GaveUp
<1>. QED BY <1>2, <1>3 DEF Confirm

\* The candidate is taken back: the slot has what it had.
LEMMA TakenBackView ==
  ASSUME IInv, IInv', ViewInv, work.pc = "rollback", Callable(work.h), work.on => Callable(work.prev),
         device' = RolledBack(work.s, work.h, work.prev),
         host' = [host EXCEPT !.leases[work.s] = work.prev, !.pending[work.s] = Nobody],
         Answer("failed"), UNCHANGED <<tree, made, loop>>
  PROVE  ViewInv'
<1>. DEFINE s == work.s
            h == work.h
            prev == work.prev
<1>1. /\ s \in Slots /\ hosting /\ device \in Devices /\ ~host.quarantined /\ host.connected /\ h \in device.live
      /\ prev \in Instances /\ h # Nobody /\ h # prev /\ (work.on => prev \in device.live)
      /\ Nobody \notin device.live
  BY Typed DEF ViewInv, Was, WasOp, Callable, Apart, Staged
<1>2. work'.pc = "idle" /\ work'.was = work.was
  BY AnswerKeeps
<1>3. /\ host'.current = host.current /\ host'.model = host.model /\ host'.connected = host.connected
      /\ host'.quarantined = host.quarantined
      /\ \A t \in Slots : /\ host'.leases[t] = IF t = s THEN prev ELSE host.leases[t]
                          /\ host'.pending[t] = IF t = s THEN Nobody ELSE host.pending[t]
  BY <1>1, Typed DEF Hosts
<1>4. /\ device'.live = device.live \ {h} /\ device'.val = device.val
      /\ \A t \in Slots : device'.runs[t] = LET r == IF work.on /\ t = s THEN prev ELSE device.runs[t]
                                            IN IF r = h THEN Nobody ELSE r
  <2>. DEFINE d == IF work.on THEN Running(device, s, prev) ELSE device
  <2>1. d \in Devices
    BY <1>1, DeviceTyped
  <2>2. /\ d.live = device.live /\ d.val = device.val
        /\ \A t \in Slots : d.runs[t] = IF work.on /\ t = s THEN prev ELSE device.runs[t]
    BY <1>1, RunningIs
  <2>3. device' = Without(d, h)
    BY DEF RolledBack
  <2>. HIDE DEF d
  <2>. QED BY <2>1, <2>2, <2>3, WithoutIs
<1>5. \A t \in Slots : t # s => host.leases[t] # h /\ (host.leases[t] = prev => prev = Nobody)
  BY DEF ViewInv, Apart, Staged
<1>6. /\ host.current[s] = prev /\ tree[s].inst = prev
      /\ host.leases[s] = IF prev = Nobody \/ work.on THEN h ELSE prev
      /\ work.on => prev # Nobody
  BY <1>1 DEF ViewInv, Shown, Unpublished
<1>7. Routed
  BY <1>1 DEF ViewInv, Known
<1>. HIDE DEF s, h, prev
<1>8. \A t \in Slots : device'.runs[t] = IF host'.leases[t] \in device'.live THEN host'.leases[t] ELSE Nobody
  <2>. TAKE t \in Slots
  <2>1. device.runs[t] = IF host.leases[t] \in device.live THEN host.leases[t] ELSE Nobody
    BY <1>7 DEF Routed
  <2>2. CASE t # s
    BY <1>1, <1>3, <1>4, <1>5, <2>1, <2>2
  <2>3. CASE t = s
    BY <1>1, <1>3, <1>4, <1>6, <2>1, <2>3
  <2>. QED BY <2>2, <2>3
<1>9. Made'
  BY <1>1, <1>2, <1>3, <1>4 DEF ViewInv, Made, prev
<1>10. Silent'
  BY <1>1, <1>3, <1>4, <1>8 DEF Silent
<1>11. Apart'
  BY <1>2, <1>3, <1>5 DEF ViewInv, Apart, Staged
<1>12. Shown'
  BY <1>1, <1>2, <1>3, <1>6 DEF ViewInv, Shown, Settled, Moving, Unpublished, Staged, Controlling, loop, s
<1>13. Known'
  <2>1. \A t \in Slots : Same(host.leases[t], tree[t].val)'
    <3>. TAKE t \in Slots
    <3>1. CASE t # s
      <4>1. Same(host.leases[t], tree[t].val)
        BY <1>1, <3>1 DEF ViewInv, Known, s
      <4>. QED BY <1>3, <1>4, <3>1, <4>1 DEF Same
    <3>2. CASE t = s
      <4>1. prev \in device.live => host.model[prev] = tree[s].val /\ device.val[prev] = tree[s].val
        BY <1>1 DEF ViewInv, Known, Unpublished, Same, s, prev
      <4>. QED BY <1>3, <1>4, <3>2, <4>1 DEF Same
    <3>. QED BY <3>1, <3>2
  <2>. QED BY <1>2, <1>8, <2>1 DEF Known, Routed, Unpublished, Staged
<1>14. Alive'
  <2>. SUFFICES ASSUME events = 0, NEW t \in Slots, host'.leases[t] # Nobody PROVE host'.leases[t] \in device'.live
    BY <1>2 DEF Alive, Staged, loop
  <2>1. /\ \A r \in Slots : host.leases[r] # Nobody => host.leases[r] \in device.live
        /\ prev # Nobody => prev \in device.live
    BY <1>1 DEF ViewInv, Alive, Staged, prev
  <2>. QED BY <1>1, <1>3, <1>4, <1>5, <2>1
<1>15. Was'
  BY <1>2 DEF Was, WasOp, WasTree, WasLeases, WasDevice, Unpublished, Controlling, Staged
<1>. QED BY <1>9, <1>10, <1>11, <1>12, <1>13, <1>14, <1>15 DEF ViewInv

LEMMA RollbackView == ASSUME IInv, IInv', ViewInv, Rollback PROVE ViewInv'
<1>. DEFINE s == work.s
            back == RolledBack(s, work.h, work.prev)
            other == Running(device, s, IF work.on THEN work.prev ELSE device.runs[s])
<1>1. /\ work.pc = "rollback" /\ UNCHANGED <<tree, made, loop>> /\ device \in Devices /\ s \in Slots
      /\ ~host.quarantined
  BY Typed DEF Rollback, ViewInv, Was, WasOp
<1>2. CASE /\ Callable(work.h) /\ (work.on => Callable(work.prev))
           /\ device' = back
           /\ host' = [host EXCEPT !.leases[s] = work.prev, !.pending[s] = Nobody]
           /\ Answer("failed")
  BY <1>1, <1>2, TakenBackView
<1>3. CASE GiveUp(Invalidated(host), Token) /\ device' \in {device, back, other}
  <2>1. work.on => host.leases[s] # Nobody
    BY <1>1 DEF ViewInv, Shown, Unpublished, Apart, Staged
  <2>2. /\ other.live = device.live /\ other.val = device.val
        /\ \A t \in Slots : other.runs[t] = device.runs[t] \/ host.leases[t] # Nobody
    BY <1>1, <2>1, RunningIs
  <2>3. /\ back.live \subseteq device.live /\ back.val = device.val
        /\ \A t \in Slots : back.runs[t] = device.runs[t] \/ back.runs[t] = Nobody \/ host.leases[t] # Nobody
    <3>. DEFINE d == IF work.on THEN Running(device, s, work.prev) ELSE device
    <3>1. d \in Devices /\ work.prev \in Instances
      BY <1>1, DeviceTyped, Typed
    <3>2. /\ d.live = device.live /\ d.val = device.val
          /\ \A t \in Slots : d.runs[t] = device.runs[t] \/ host.leases[t] # Nobody
      BY <1>1, <2>1, RunningIs
    <3>3. back = Without(d, work.h)
      BY DEF RolledBack
    <3>. HIDE DEF d, back
    <3>. QED BY <3>1, <3>2, <3>3, WithoutIs
  <2>4. /\ work'.pc = "idle" /\ host'.quarantined /\ host'.leases = host.leases /\ host'.model = host.model
    BY <1>3, GiveUpIs
  <2>. HIDE DEF back, other
  <2>5. /\ device'.live \subseteq device.live /\ device'.val = device.val
        /\ \A t \in Slots : device'.runs[t] = device.runs[t] \/ device'.runs[t] = Nobody \/ host.leases[t] # Nobody
    BY <1>3, <2>2, <2>3
  <2>. QED BY <1>1, <2>4, <2>5, GaveUp
<1>. QED BY <1>2, <1>3 DEF Rollback

------------------------------------------------------------------------------
\* The steps of an unload.

LEMMA UnloadedView ==
  ASSUME IInv, IInv', ViewInv, work.pc = "retire", host.connected,
         host.leases[work.s] = tree[work.s].inst, tree[work.s].inst \in device.live,
         device' = Without(device, tree[work.s].inst),
         host' = [host EXCEPT !.leases[work.s] = Nobody, !.current[work.s] = Nobody],
         work' = [work EXCEPT !.pc = "clear", !.h = tree[work.s].inst], UNCHANGED <<tree, made, loop>>
  PROVE  ViewInv'
<1>. DEFINE s == work.s
            h == tree[s].inst
<1>1. /\ s \in Slots /\ hosting /\ device \in Devices /\ ~host.quarantined /\ h \in Instances /\ h # Nobody
      /\ h <= made
  BY Typed DEF ViewInv, Was, WasOp, Made
<1>2. /\ work'.pc = "clear" /\ work'.op = work.op /\ work'.s = s /\ work'.v = work.v /\ work'.h = h
      /\ work'.prev = work.prev /\ work'.on = work.on /\ work'.drops = work.drops /\ work'.was = work.was
  BY Typed DEF Jobs
<1>3. /\ host'.pending = host.pending /\ host'.model = host.model /\ host'.connected = host.connected
      /\ host'.quarantined = host.quarantined
      /\ \A t \in Slots : /\ host'.leases[t] = IF t = s THEN Nobody ELSE host.leases[t]
                          /\ host'.current[t] = IF t = s THEN Nobody ELSE host.current[t]
  BY <1>1, Typed DEF Hosts
<1>4. /\ device'.live = device.live \ {h} /\ device'.val = device.val
      /\ \A t \in Slots : device'.runs[t] = IF device.runs[t] = h THEN Nobody ELSE device.runs[t]
  BY <1>1, WithoutIs
<1>5. \A t \in Slots : t # s => host.leases[t] # h
  BY <1>1 DEF ViewInv, Apart
<1>6. Settled(s)
  BY <1>1 DEF ViewInv, Shown, Moving, Staged
<1>7. Routed /\ \A t \in Slots : Same(host.leases[t], tree[t].val)
  BY <1>1 DEF ViewInv, Known, Staged
<1>8. Nobody \notin device.live
  BY Typed
<1>. HIDE DEF h
<1>9. Made'
  BY <1>1, <1>2, <1>3, <1>4, Typed DEF ViewInv, Made
<1>10. \A t \in Slots : device'.runs[t] = IF host'.leases[t] \in device'.live THEN host'.leases[t] ELSE Nobody
  <2>. TAKE t \in Slots
  <2>1. device.runs[t] = IF host.leases[t] \in device.live THEN host.leases[t] ELSE Nobody
    BY <1>7 DEF Routed
  <2>2. CASE t # s
    BY <1>1, <1>3, <1>4, <1>5, <2>1, <2>2
  <2>3. CASE t = s
    BY <1>1, <1>3, <1>4, <1>8, <2>1, <2>3 DEF h
  <2>. QED BY <2>2, <2>3
<1>11. Silent' /\ Apart'
  BY <1>1, <1>2, <1>3, <1>4, <1>8, <1>10 DEF ViewInv, Silent, Apart, Staged
<1>12. Shown'
  <2>1. \A t \in Slots : t # s => Settled(t)'
    BY <1>1, <1>3 DEF ViewInv, Shown, Settled, Moving, Staged, loop
  <2>. QED BY <1>1, <1>2, <1>3, <1>4, <1>6, <2>1 DEF Shown, Settled, Unpublished, Staged, Controlling, Moving, h
<1>13. Known'
  <2>1. \A t \in Slots : Same(host.leases[t], tree[t].val)'
    BY <1>1, <1>3, <1>4, <1>7, <1>8 DEF Same
  <2>. QED BY <1>2, <1>10, <2>1 DEF Known, Routed, Unpublished, Staged
<1>14. Alive'
  BY <1>1, <1>2, <1>3, <1>4, <1>5 DEF ViewInv, Alive, Staged, loop
<1>15. Was'
  BY <1>1, <1>2, <1>3 DEF ViewInv, Was, WasOp, WasTree, WasLeases, WasDevice, Untouched, Unpublished, Controlling, Staged, loop
<1>. QED BY <1>9, <1>11, <1>12, <1>13, <1>14, <1>15 DEF ViewInv

LEMMA RetireView == ASSUME IInv, IInv', ViewInv, Retire PROVE ViewInv'
<1>. DEFINE h == tree[work.s].inst
            gone == Without(device, h)
<1>1. work.pc = "retire" /\ UNCHANGED <<tree, made, loop>> /\ device \in Devices
  BY Typed DEF Retire
<1>2. CASE \E b \in {host, Invalidated(host)} : GiveUp(b, {h}) /\ device' \in {device, gone}
  BY <1>1, <1>2, GiveUpIs, GaveUp, WithoutIs
<1>3. CASE /\ InSession /\ host.leases[work.s] = h /\ Callable(h) /\ device' = gone
           /\ host' = [host EXCEPT !.leases[work.s] = Nobody, !.current[work.s] = Nobody]
           /\ work' = [work EXCEPT !.pc = "clear", !.h = h]
  BY <1>1, <1>3, UnloadedView DEF Callable
<1>. QED BY <1>2, <1>3 DEF Retire

LEMMA ClearView == ASSUME IInv, IInv', ViewInv, Clear PROVE ViewInv'
<1>1. work.pc = "clear" /\ UNCHANGED <<device, made, loop>> /\ work.s \in Slots
  BY Typed DEF Clear
<1>2. CASE GiveUp(host, Token) /\ UNCHANGED tree
  BY <1>1, <1>2, GiveUpIs, GaveUp
<1>3. CASE tree' = [tree EXCEPT ![work.s] = Empty] /\ At("cleared") /\ UNCHANGED host
  <2>1. /\ work'.pc = "cleared" /\ work'.op = work.op /\ work'.s = work.s /\ work'.v = work.v /\ work'.h = work.h
        /\ work'.prev = work.prev /\ work'.on = work.on /\ work'.drops = work.drops /\ work'.was = work.was
    BY <1>3, AtKeeps
  <2>2. /\ \A t \in Slots \ {work.s} : tree'[t] = tree[t]
        /\ tree'[work.s] = Empty /\ Empty.inst = Nobody
    BY <1>1, <1>3, Typed DEF Empty
  <2>3. Made' /\ Silent' /\ Apart'
    BY <1>1, <1>3, <2>1, <2>2, Typed DEF ViewInv, Made, Silent, Apart, Staged
  <2>4. Shown'
    BY <1>1, <1>3, <2>1, <2>2 DEF ViewInv, Shown, Settled, Moving, Unpublished, Staged, Controlling, loop
  <2>5. Known'
    <3>1. ~host.quarantined => host.leases[work.s] = Nobody /\ Nobody \notin device.live
      BY <1>1, Typed DEF ViewInv, Shown
    <3>. QED BY <1>1, <1>3, <2>1, <2>2, <3>1 DEF ViewInv, Known, Routed, Same, Unpublished, Staged
  <2>6. Alive'
    BY <1>1, <1>3, <2>1 DEF ViewInv, Alive, Staged, loop
  <2>7. Was'
    BY <1>1, <1>3, <2>1 DEF ViewInv, Was, WasOp, WasTree, WasLeases, WasDevice, Untouched, Unpublished, Controlling, Staged, loop
  <2>. QED BY <2>3, <2>4, <2>5, <2>6, <2>7 DEF ViewInv
<1>. QED BY <1>2, <1>3 DEF Clear

------------------------------------------------------------------------------
\* The steps of a control.

LEMMA WrittenIs ==
  ASSUME IInv, work.h \in Handles, NEW v \in Values
  PROVE  /\ Written(v).live = device.live /\ Written(v).runs = device.runs
         /\ \A g \in Handles : Written(v).val[g] = IF g = work.h THEN v ELSE device.val[g]
BY Typed DEF Written

\* What was written over what is written does not count.
LEMMA WrittenOver ==
  ASSUME NEW d \in Devices, NEW h \in Handles, NEW e \in Devices, NEW x, NEW y,
         e = [d EXCEPT !.val[h] = x]
  PROVE  /\ [e EXCEPT !.val[h] = y] = [d EXCEPT !.val[h] = y]
         /\ [e EXCEPT !.val[h] = d.val[h]] = d
BY DEF Devices

LEMMA WrittenBack ==
  ASSUME NEW d \in Devices, NEW h \in Handles
  PROVE  d = [d EXCEPT !.val[h] = d.val[h]]
BY DEF Devices

LEMMA PlannedView ==
  ASSUME IInv, IInv', ViewInv, work.pc = "plan", host.connected,
         host.current[work.s] = host.leases[work.s], host.leases[work.s] \in device.live,
         work' = [work EXCEPT !.pc = "apply", !.h = host.leases[work.s]], UNCHANGED <<tree, host, device, made, loop>>
  PROVE  ViewInv'
<1>. DEFINE h == host.leases[work.s]
<1>1. /\ work.s \in Slots /\ hosting /\ device \in Devices /\ ~host.quarantined /\ h \in Handles /\ h # Nobody
      /\ h <= made
  BY Typed DEF ViewInv, Was, WasOp, Made
<1>2. /\ work'.pc = "apply" /\ work'.op = work.op /\ work'.s = work.s /\ work'.v = work.v /\ work'.h = h
      /\ work'.prev = work.prev /\ work'.on = work.on /\ work'.drops = work.drops /\ work'.was = work.was
  BY Typed DEF Jobs
<1>3. Made' /\ Silent' /\ Apart'
  BY <1>1, <1>2 DEF ViewInv, Made, Silent, Apart, Staged
<1>4. Shown'
  BY <1>1, <1>2 DEF ViewInv, Shown, Settled, Moving, Unpublished, Staged, Controlling, loop
<1>5. Known' /\ Alive'
  BY <1>1, <1>2 DEF ViewInv, Known, Alive, Routed, Same, Unpublished, Staged, loop
<1>6. WasOp' /\ WasTree' /\ WasLeases'
  BY <1>1, <1>2 DEF ViewInv, Was, WasOp, WasTree, WasLeases, Unpublished, Controlling, Staged, loop
<1>7. WasDevice'
  <2>1. Same(h, tree[work.s].val) /\ tree = work.was.tree
    BY <1>1 DEF ViewInv, Known, Was, WasTree, Staged
  <2>2. Untouched => device = work.was.device
    BY DEF ViewInv, Was, WasDevice
  <2>3. device = [device EXCEPT !.val[h] = device.val[h]]
    BY <1>1, WrittenBack
  <2>. QED BY <1>1, <1>2, <2>1, <2>2, <2>3 DEF WasDevice, Same, Untouched, Unpublished, Controlling, Staged, loop
<1>. QED BY <1>3, <1>4, <1>5, <1>6, <1>7 DEF ViewInv, Was

LEMMA PlanView == ASSUME IInv, IInv', ViewInv, Plan PROVE ViewInv'
<1>1. work.pc = "plan" /\ UNCHANGED <<tree, device, made, loop>>
  BY DEF Plan
<1>2. CASE Answer("failed") /\ (host' = host \/ host' = Invalidated(host))
  BY <1>1, <1>2, FailedAtOnce, InvalidatedSame
<1>3. CASE /\ InSession /\ host.current[work.s] = host.leases[work.s] /\ Callable(host.leases[work.s])
           /\ work' = [work EXCEPT !.pc = "apply", !.h = host.leases[work.s]] /\ UNCHANGED host
  BY <1>1, <1>3, PlannedView DEF Callable
<1>. QED BY <1>2, <1>3 DEF Plan, Unobserved

\* A value is written: known to the provider (pc is "store"), or perhaps.
LEMMA AppliedView ==
  ASSUME IInv, IInv', ViewInv, work.pc = "apply", NEW pc \in {"store", "restore"}, At(pc),
         device' = Written(work.v),
         \/ pc = "store" /\ host' = [host EXCEPT !.model[work.h] = work.v]
         \/ pc = "restore" /\ SameHost,
         UNCHANGED <<tree, made, loop>>
  PROVE  ViewInv'
<1>1. /\ work.s \in Slots /\ hosting /\ device \in Devices /\ ~host.quarantined
      /\ host.leases[work.s] = work.h /\ work.h \in Handles /\ work.h # Nobody /\ work.h <= made /\ work.v \in Values
      /\ work.was.device \in Devices
  BY Typed DEF ViewInv, Was, WasOp, Made, Shown, Controlling
<1>2. /\ work'.pc = pc /\ work'.op = work.op /\ work'.s = work.s /\ work'.v = work.v /\ work'.h = work.h
      /\ work'.prev = work.prev /\ work'.on = work.on /\ work'.drops = work.drops /\ work'.was = work.was
  BY AtKeeps
<1>3. /\ host'.leases = host.leases /\ host'.pending = host.pending /\ host'.current = host.current
      /\ host'.quarantined = host.quarantined /\ (host'.connected => host.connected)
      /\ \A g \in Handles : g # work.h => host'.model[g] = host.model[g]
      /\ pc = "store" => host'.model[work.h] = work.v
  BY <1>1, Typed DEF Hosts, SameHost
<1>4. /\ device'.live = device.live /\ device'.runs = device.runs
      /\ \A g \in Handles : device'.val[g] = IF g = work.h THEN work.v ELSE device.val[g]
  BY <1>1, WrittenIs
<1>5. \A t \in Slots : t # work.s => host.leases[t] # work.h
  BY <1>1 DEF ViewInv, Apart
<1>6. Made'
  <2>1. \A g \in Handles : g > made => g # work.h
    BY <1>1, Typed
  <2>. QED BY <1>1, <1>2, <1>3, <1>4, <2>1 DEF ViewInv, Made
<1>7. Silent' /\ Apart'
  BY <1>1, <1>2, <1>3, <1>4 DEF ViewInv, Silent, Apart, Staged
<1>8. Shown'
  BY <1>1, <1>2, <1>3 DEF ViewInv, Shown, Settled, Moving, Unpublished, Staged, Controlling, loop
<1>9. Known'
  <2>. SUFFICES ASSUME host'.connected PROVE Known'
    BY DEF Known
  <2>1. \A t \in Slots : t # work.s => Same(host.leases[t], tree[t].val)'
    <3>1. \A t \in Slots : Same(host.leases[t], tree[t].val)
      BY <1>1, <1>3 DEF ViewInv, Known, Staged
    <3>2. device.live \subseteq Handles
      BY Typed
    <3>. QED BY <1>1, <1>3, <1>4, <1>5, <3>1, <3>2 DEF Same
  <2>2. pc = "store" => Same(work.h, work.v)'
    BY <1>1, <1>2, <1>3, <1>4 DEF Same
  <2>3. Routed'
    BY <1>1, <1>3, <1>4 DEF ViewInv, Known, Routed
  <2>. QED BY <1>2, <2>1, <2>2, <2>3 DEF Known, Unpublished, Staged
<1>10. Alive'
  BY <1>1, <1>2, <1>3, <1>4 DEF ViewInv, Alive, Staged, loop
<1>11. WasOp' /\ WasTree' /\ WasLeases'
  BY <1>1, <1>2, <1>3 DEF ViewInv, Was, WasOp, WasTree, WasLeases, Unpublished, Controlling, Staged, loop
<1>12. WasDevice'
  <2>1. device'.val[work.h] = work.v
    BY <1>1, <1>4
  <2>2. Untouched => /\ device = [work.was.device EXCEPT !.val[work.h] = device.val[work.h]]
                     /\ host.connected => work.was.device.val[work.h] = work.was.tree[work.s].val
    BY DEF ViewInv, Was, WasDevice, Controlling
  <2>3. Untouched => device' = [work.was.device EXCEPT !.val[work.h] = work.v]
    BY <1>1, <2>2, WrittenOver DEF Written
  <2>. QED BY <1>2, <1>3, <2>1, <2>2, <2>3 DEF WasDevice, Untouched, Unpublished, Controlling, Staged, loop
<1>. QED BY <1>6, <1>7, <1>8, <1>9, <1>10, <1>11, <1>12 DEF ViewInv, Was

LEMMA ApplyView == ASSUME IInv, IInv', ViewInv, Apply PROVE ViewInv'
<1>1. work.pc = "apply" /\ UNCHANGED <<tree, made, loop>>
  BY DEF Apply
<1>2. CASE Answer("failed") /\ UNCHANGED <<host, device>>
  BY <1>1, <1>2, FailedAtOnce, InvalidatedSame
<1>3. CASE At("restore") /\ (host' = host \/ host' = Invalidated(host)) /\ UNCHANGED device
  BY <1>1, <1>3, InvalidatedSame, Turned DEF Turns
<1>4. CASE WrittenTo(work.v, At("store"))
  BY <1>1, <1>4, AppliedView DEF WrittenTo
<1>5. CASE At("restore") /\ (host' = host \/ host' = Invalidated(host)) /\ device' = Written(work.v)
  BY <1>1, <1>5, InvalidatedSame, AppliedView
<1>. QED BY <1>2, <1>3, <1>4, <1>5 DEF Apply, Unobserved

LEMMA StoreView == ASSUME IInv, IInv', ViewInv, Store PROVE ViewInv'
<1>1. work.pc = "store" /\ UNCHANGED <<device, made, loop>> /\ work.s \in Slots /\ work.v \in Values
  BY Typed DEF Store
<1>2. CASE At("restore") /\ UNCHANGED <<tree, host>>
  BY <1>1, <1>2, Turned, InvalidatedSame DEF Turns
<1>3. CASE tree' = [tree EXCEPT ![work.s].val = work.v] /\ At("stored") /\ UNCHANGED host
  <2>1. /\ work'.pc = "stored" /\ work'.op = work.op /\ work'.s = work.s /\ work'.v = work.v /\ work'.h = work.h
        /\ work'.prev = work.prev /\ work'.on = work.on /\ work'.drops = work.drops /\ work'.was = work.was
    BY <1>3, AtKeeps
  <2>2. /\ \A t \in Slots : tree'[t].inst = tree[t].inst /\ (t # work.s => tree'[t] = tree[t])
        /\ tree'[work.s].val = work.v
    BY <1>1, <1>3, Typed
  <2>3. Made' /\ Silent' /\ Apart'
    BY <1>1, <1>3, <2>1, <2>2 DEF ViewInv, Made, Silent, Apart, Staged
  <2>4. Shown'
    BY <1>1, <1>3, <2>1, <2>2 DEF ViewInv, Shown, Settled, Moving, Unpublished, Staged, Controlling, loop
  <2>5. Known'
    <3>1. ~host.quarantined => host.leases[work.s] = work.h
      BY <1>1 DEF ViewInv, Shown, Controlling
    <3>. QED BY <1>1, <1>3, <2>1, <2>2, <3>1 DEF ViewInv, Known, Routed, Same, Unpublished, Staged
  <2>6. Alive'
    BY <1>1, <1>3, <2>1 DEF ViewInv, Alive, Staged, loop
  <2>7. Was'
    BY <1>1, <1>3, <2>1 DEF ViewInv, Was, WasOp, WasTree, WasLeases, WasDevice, Untouched, Unpublished, Controlling, Staged, loop
  <2>. QED BY <2>3, <2>4, <2>5, <2>6, <2>7 DEF ViewInv
<1>. QED BY <1>2, <1>3 DEF Store

LEMMA RestoredView ==
  ASSUME IInv, IInv', ViewInv, work.pc = "restore", host.connected, device' = Written(tree[work.s].val),
         host' = [host EXCEPT !.model[work.h] = tree[work.s].val], Answer("failed"),
         UNCHANGED <<tree, made, loop>>
  PROVE  ViewInv'
<1>. DEFINE v == tree[work.s].val
<1>1. /\ work.s \in Slots /\ hosting /\ device \in Devices /\ ~host.quarantined /\ v \in Values
      /\ host.leases[work.s] = work.h /\ work.h \in Handles /\ work.h # Nobody /\ work.h <= made
  BY Typed DEF ViewInv, Was, WasOp, Made, Shown, Controlling
<1>2. work'.pc = "idle" /\ work'.was = work.was
  BY AnswerKeeps
<1>3. /\ host'.leases = host.leases /\ host'.pending = host.pending /\ host'.current = host.current
      /\ host'.quarantined = host.quarantined /\ host'.connected = host.connected
      /\ \A g \in Handles : host'.model[g] = IF g = work.h THEN v ELSE host.model[g]
  BY <1>1, Typed DEF Hosts
<1>4. /\ device'.live = device.live /\ device'.runs = device.runs
      /\ \A g \in Handles : device'.val[g] = IF g = work.h THEN v ELSE device.val[g]
  BY <1>1, WrittenIs
<1>5. \A t \in Slots : t # work.s => host.leases[t] # work.h
  BY <1>1 DEF ViewInv, Apart
<1>6. Made'
  <2>1. \A g \in Handles : g > made => g # work.h
    BY <1>1, Typed
  <2>. QED BY <1>1, <1>2, <1>3, <1>4, <2>1 DEF ViewInv, Made
<1>7. Silent' /\ Apart'
  BY <1>1, <1>2, <1>3, <1>4 DEF ViewInv, Silent, Apart, Staged
<1>8. Shown'
  BY <1>1, <1>2, <1>3 DEF ViewInv, Shown, Settled, Moving, Unpublished, Staged, Controlling, loop
<1>9. Known'
  <2>1. \A t \in Slots : Same(host.leases[t], tree[t].val)'
    <3>. TAKE t \in Slots
    <3>1. t # work.s => Same(host.leases[t], tree[t].val)
      BY <1>1 DEF ViewInv, Known
    <3>2. device.live \subseteq Handles
      BY Typed
    <3>. QED BY <1>1, <1>3, <1>4, <1>5, <3>1, <3>2 DEF Same
  <2>2. Routed'
    BY <1>1, <1>3, <1>4 DEF ViewInv, Known, Routed
  <2>. QED BY <1>2, <2>1, <2>2 DEF Known, Unpublished, Staged
<1>10. Alive'
  BY <1>1, <1>2, <1>3, <1>4 DEF ViewInv, Alive, Staged, loop
<1>11. Was'
  BY <1>2 DEF Was, WasOp, WasTree, WasLeases, WasDevice, Unpublished, Controlling, Staged
<1>. QED BY <1>6, <1>7, <1>8, <1>9, <1>10, <1>11 DEF ViewInv

LEMMA RestoreView == ASSUME IInv, IInv', ViewInv, Restore PROVE ViewInv'
<1>1. work.pc = "restore" /\ UNCHANGED <<tree, made, loop>> /\ work.s \in Slots
  BY Typed DEF Restore
<1>2. CASE WrittenTo(tree[work.s].val, Answer("failed"))
  BY <1>1, <1>2, RestoredView DEF WrittenTo, Callable
<1>3. CASE /\ device' \in {device, Written(tree[work.s].val)}
           /\ \E b \in {host, Invalidated(host)} : GiveUp(b, Token)
  <2>1. /\ work.h \in Handles /\ work.h <= made /\ tree[work.s].val \in Values
    BY <1>1, Typed DEF ViewInv, Was, WasOp, Made, Shown, Controlling
  <2>2. \A g \in Handles : g > made => g # work.h
    BY <2>1, Typed
  <2>3. /\ device'.live = device.live /\ device'.runs = device.runs
        /\ \A g \in Handles : g > made => device'.val[g] = device.val[g]
    BY <1>3, <2>1, <2>2, WrittenIs
  <2>4. /\ work'.pc = "idle" /\ host'.quarantined /\ host'.leases = host.leases /\ host'.model = host.model
    BY <1>3, GiveUpIs
  <2>. QED BY <1>1, <2>3, <2>4, GaveUp
<1>. QED BY <1>2, <1>3 DEF Restore

------------------------------------------------------------------------------
\* The device and the event loop.

\* Nothing but the host's knowledge of the session and what waits changes.
LEMMA CalmView ==
  ASSUME IInv, IInv', ViewInv, UNCHANGED <<tree, work, made, lapsed>>, SameHost,
         \/ device' = device
         \/ device'.live = {} /\ device'.val = device.val /\ \A s \in Slots : device'.runs[s] = Nobody,
         \/ drops' = drops /\ device' = device
         \/ drops' = drops + 1,
         hosting' /\ host'.connected /\ events' = 0 => hosting /\ events = 0 /\ device' = device
  PROVE  ViewInv'
<1>1. Made' /\ Silent' /\ Apart'
  BY DEF ViewInv, Made, Silent, Apart, Staged, SameHost
<1>2. Shown'
  BY DEF ViewInv, Shown, Settled, SameHost
<1>3. Known'
  BY DEF ViewInv, Known, Routed, Same, SameHost
<1>4. Alive'
  BY DEF ViewInv, Alive, SameHost
<1>5. work.pc # "idle" => /\ work.drops <= drops' /\ (Untouched' => Untouched /\ device' = device)
  BY Typed, SMTT(30) DEF ViewInv, Was, WasOp, Untouched
<1>6. WasOp' /\ WasTree' /\ WasLeases'
  BY <1>5 DEF ViewInv, Was, WasOp, WasTree, WasLeases, SameHost
<1>7. WasDevice'
  BY <1>5 DEF ViewInv, Was, WasDevice, SameHost, Controlling, Staged, Unpublished
<1>. QED BY <1>1, <1>2, <1>3, <1>4, <1>6, <1>7 DEF ViewInv, Was

LEMMA InvalidatedNow ==
  ASSUME IInv, host' = Invalidated(host)
  PROVE  SameHost /\ ~host'.connected
BY InvalidatedSame, Typed DEF Invalidated, Hosts

LEMMA DropsView == ASSUME IInv, IInv', ViewInv, DeviceDrops \/ DeviceLost PROVE ViewInv'
<1>1. [device EXCEPT !.live = {}, !.runs = [s \in Slots |-> Nobody]].live = {}
  BY Typed DEF Devices
<1>2. /\ [device EXCEPT !.live = {}, !.runs = [s \in Slots |-> Nobody]].val = device.val
      /\ \A s \in Slots : [device EXCEPT !.live = {}, !.runs = [t \in Slots |-> Nobody]].runs[s] = Nobody
  BY Typed DEF Devices
<1>3. events + 1 # 0
  BY Typed
<1>4. CASE DeviceDrops
  BY <1>1, <1>2, <1>3, <1>4, CalmView, InvalidatedSame DEF DeviceDrops
<1>5. CASE DeviceLost
  <2>1. SameHost /\ ~(hosting' /\ host'.connected)
    BY <1>5, InvalidatedNow, InvalidatedSame DEF DeviceLost
  <2>. QED BY <1>1, <1>2, <1>5, <2>1, CalmView DEF DeviceLost
<1>. QED BY <1>4, <1>5

LEMMA LoopView == ASSUME IInv, IInv', ViewInv, DriverEvent \/ RateSet PROVE ViewInv'
<1>1. UNCHANGED <<tree, work, device, made, drops, lapsed>>
  BY DEF DriverEvent, RateSet
<1>2. CASE hosting' = FALSE /\ host' = Invalidated(host)
  BY <1>1, <1>2, InvalidatedNow, CalmView
<1>3. CASE host' = Invalidated(host) /\ UNCHANGED hosting
  BY <1>1, <1>3, InvalidatedNow, CalmView
<1>4. CASE ~hosting /\ UNCHANGED <<host, hosting>>
  BY <1>1, <1>4, InvalidatedSame, CalmView
<1>. QED BY <1>2, <1>3, <1>4 DEF DriverEvent, RateSet, Pause

\* Hosting is started on a device that has nothing the tree does not show, or
\* over a quarantine.
LEMMA AttachView == ASSUME IInv, IInv', ViewInv, Attach PROVE ViewInv'
<1>1. /\ ~hosting /\ host' = Fresh /\ UNCHANGED <<tree, work, device, events, made, drops>>
      /\ lapsed' = (lapsed \/ host.quarantined) /\ work.pc = "idle"
  BY Typed DEF Attach
<1>2. \A s \in Slots : host.leases[s] = Nobody /\ device.runs[s] = Nobody
  BY <1>1 DEF IInv, Released, ViewInv, Silent
<1>3. /\ \A s \in Slots : /\ host'.leases[s] = Nobody /\ host'.pending[s] = Nobody /\ host'.current[s] = Nobody
      /\ host'.quarantined = FALSE /\ \A h \in Handles : host'.model[h] = First
  BY <1>1 DEF Fresh
<1>4. ~lapsed' => \A s \in Slots : tree[s].inst = Nobody
  BY <1>1, <1>2, Typed DEF ViewInv, Shown, Settled, Moving, Staged
<1>5. Nobody \notin device.live /\ made \in Nat /\ Nobody = 0
  BY Typed
<1>6. Made' /\ Silent' /\ Apart'
  BY <1>1, <1>2, <1>3, <1>5 DEF ViewInv, Made, Silent, Apart, Staged
<1>7. Shown'
  BY <1>1, <1>3, <1>4 DEF Shown, Settled, Moving, Unpublished, Staged, Controlling
<1>8. Known' /\ Alive'
  BY <1>1, <1>2, <1>3, <1>5 DEF Known, Alive, Routed, Same, Unpublished, Staged
<1>9. Was'
  BY <1>1 DEF Was, WasOp, WasTree, WasLeases, WasDevice, Unpublished, Controlling, Staged
<1>. QED BY <1>6, <1>7, <1>8, <1>9 DEF ViewInv

------------------------------------------------------------------------------
LEMMA InitView == Init => ViewInv
<1>. SUFFICES ASSUME Init PROVE ViewInv
  OBVIOUS
<1>1. /\ work.pc = "idle" /\ made = 0 /\ Nobody = 0 /\ hosting /\ events = 0
      /\ device.live = {} /\ \A h \in Handles : device.val[h] = First /\ host.model[h] = First
      /\ \A s \in Slots : /\ host.leases[s] = Nobody /\ host.pending[s] = Nobody /\ host.current[s] = Nobody
                          /\ tree[s].inst = Nobody /\ device.runs[s] = Nobody
  BY DEF Init, Fresh, Job, Empty, Nobody
<1>2. Made /\ Silent /\ Apart
  BY <1>1 DEF Made, Silent, Apart, Staged
<1>3. Shown
  BY <1>1 DEF Shown, Settled, Moving, Unpublished, Staged, Controlling
<1>4. Known /\ Alive
  BY <1>1 DEF Known, Alive, Routed, Same, Unpublished, Staged
<1>5. Was
  BY <1>1 DEF Was, WasOp, WasTree, WasLeases, WasDevice, Unpublished, Controlling, Staged
<1>. QED BY <1>2, <1>3, <1>4, <1>5 DEF ViewInv

LEMMA NextView == IInv /\ ViewInv /\ [Next]_vars => IInv' /\ ViewInv'
<1>. SUFFICES ASSUME IInv, ViewInv, [Next]_vars PROVE ViewInv' /\ IInv'
  OBVIOUS
<1>0. IInv'
  BY NextIInv
<1>1. CASE Worker
  <2>1. CASE Create
    BY <1>0, <2>1, CreateFailsView, CreateSucceedsView DEF Create
  <2>2. CASE Finalized \/ Cleared \/ Stored
    BY <1>0, <2>2, ConfirmView DEF Finalized, Cleared, Stored
  <2>. QED BY <1>0, <1>1, <2>1, <2>2, PrepareView, ObserveView, ActivateView, PublishView, FinalizeView, RollbackView,
              RetireView, ClearView, PlanView, ApplyView, StoreView, RestoreView DEF Worker
<1>2. CASE Request
  BY <1>0, <1>2, RequestView
<1>3. CASE DeviceDrops \/ DriverEvent \/ DeviceLost \/ RateSet \/ Attach
  BY <1>0, <1>3, DropsView, LoopView, AttachView
<1>4. CASE UNCHANGED vars
  BY <1>0, <1>4, CalmView, InvalidatedSame DEF vars, loop
<1>. QED BY <1>0, <1>1, <1>2, <1>3, <1>4 DEF Next

------------------------------------------------------------------------------
\* What follows.

LEMMA ViewHolds == IInv /\ ViewInv => ViewTruthful
<1>. SUFFICES ASSUME IInv, ViewInv, hosting, work.pc = "idle", host.connected, ~host.quarantined, ~lapsed, events = 0
              PROVE  /\ \A s \in Slots :
                          LET h == tree[s].inst IN
                          /\ host.leases[s] = h /\ host.current[s] = h /\ device.runs[s] = h
                          /\ host.pending[s] = Nobody
                          /\ h # Nobody => h \in device.live /\ {host.model[h], device.val[h]} = {tree[s].val}
                     /\ device.live = {tree[s].inst : s \in Slots} \ {Nobody}
  BY DEF ViewTruthful
<1>1. \A s \in Slots : /\ host.leases[s] = tree[s].inst /\ host.current[s] = tree[s].inst
                       /\ host.pending[s] = Nobody
  BY DEF ViewInv, Shown, Settled, Moving, Staged
<1>2. \A s \in Slots : tree[s].inst # Nobody => tree[s].inst \in device.live
  BY <1>1 DEF ViewInv, Alive
<1>3. Nobody \notin device.live
  BY Typed
<1>4. \A s \in Slots : device.runs[s] = tree[s].inst
  BY <1>1, <1>2, <1>3 DEF ViewInv, Known, Routed
<1>5. \A s \in Slots : tree[s].inst # Nobody =>
        host.model[tree[s].inst] = tree[s].val /\ device.val[tree[s].inst] = tree[s].val
  BY <1>1, <1>2 DEF ViewInv, Known, Same, Staged
<1>6. ASSUME NEW h \in device.live PROVE \E s \in Slots : h = tree[s].inst
  BY <1>1, <1>3 DEF IInv, Covered, Held, Released
<1>. QED BY <1>1, <1>2, <1>3, <1>4, <1>5, <1>6

\* The end of a transaction, as AllOrNothing has it.
Outcome ==
  CASE work'.answer = "failed" -> Kept
    [] work'.answer = "committed" -> Achieved
    [] work'.answer = "indeterminate" -> host'.quarantined

LEMMA Gives ==
  ASSUME IInv, \E b \in {host, Invalidated(host)}, tokens \in SUBSET Instances : GiveUp(b, tokens)
  PROVE  Outcome
<1>1. work'.answer = "indeterminate" /\ host'.quarantined
  BY GiveUpIs
<1>. QED BY <1>1 DEF Outcome

LEMMA Fails ==
  ASSUME IInv, Answer("failed"), Kept
  PROVE  Outcome
<1>1. work'.answer = "failed"
  BY AnswerKeeps
<1>. QED BY <1>1 DEF Outcome

\* Refused, or nothing written.
LEMMA FailedKept ==
  ASSUME IInv, ViewInv, Answer("failed"), work.pc \in {"prepare", "plan", "apply"}, SameHost,
         UNCHANGED <<tree, device, made, loop>>
  PROVE  Outcome
<1>1. Kept
  BY DEF Kept, ViewInv, Was, WasTree, WasLeases, WasDevice, Untouched, Controlling, SameHost
<1>. QED BY <1>1, Fails

LEMMA RolledBackKept ==
  ASSUME IInv, ViewInv, work.pc = "rollback", Callable(work.h), work.on => Callable(work.prev),
         device' \in Devices, device' = RolledBack(work.s, work.h, work.prev),
         host' = [host EXCEPT !.leases[work.s] = work.prev, !.pending[work.s] = Nobody],
         UNCHANGED <<tree, made, loop>>
  PROVE  Kept
<1>. DEFINE s == work.s
            h == work.h
            prev == work.prev
            was == work.was
<1>1. /\ s \in Slots /\ device \in Devices /\ ~host.quarantined /\ host.connected /\ h \in device.live
      /\ prev \in Instances /\ h # Nobody /\ h # prev /\ (work.on => prev \in device.live)
      /\ Nobody \notin device.live /\ was.device \in Devices /\ was.leases \in [Slots -> Instances]
  BY Typed DEF ViewInv, Was, WasOp, Callable, Apart, Staged
<1>2. host'.leases = [host.leases EXCEPT ![s] = prev]
  BY <1>1, Typed DEF Hosts
<1>3. host.leases = [was.leases EXCEPT ![s] = host.leases[s]] /\ was.leases[s] = prev /\ tree = was.tree
  BY DEF ViewInv, Was, WasLeases, WasTree, Unpublished
<1>4. host'.leases = was.leases
  <2>1. host'.leases = [was.leases EXCEPT ![s] = prev]
    BY <1>1, <1>2, <1>3, SetTwice
  <2>. QED BY <1>1, <1>3, <2>1
<1>5. ASSUME Untouched PROVE device' = was.device
  <2>1. /\ device.val = was.device.val
        /\ h \notin was.device.live /\ device.live = was.device.live \cup {h}
        /\ \A t \in Slots \ {s} : device.runs[t] = was.device.runs[t]
        /\ was.device.runs[s] = IF prev \in was.device.live THEN prev ELSE Nobody
    BY <1>1, <1>5 DEF ViewInv, Was, WasDevice, Unpublished
  <2>2. \A t \in Slots : device.runs[t] = IF host.leases[t] \in device.live THEN host.leases[t] ELSE Nobody
    BY <1>1 DEF ViewInv, Known, Routed
  <2>3. host.leases[s] = (IF prev = Nobody \/ work.on THEN h ELSE prev) /\ (work.on => prev # Nobody)
    BY <1>1 DEF ViewInv, Shown, Unpublished
  <2>4. \A t \in Slots : t # s => host.leases[t] # h
    BY DEF ViewInv, Apart, Staged
  <2>5. /\ device'.live = device.live \ {h} /\ device'.val = device.val
        /\ \A t \in Slots : device'.runs[t] = LET r == IF work.on /\ t = s THEN prev ELSE device.runs[t]
                                              IN IF r = h THEN Nobody ELSE r
    <3>. DEFINE d == IF work.on THEN Running(device, s, prev) ELSE device
    <3>1. d \in Devices
      BY <1>1, DeviceTyped
    <3>2. /\ d.live = device.live /\ d.val = device.val
          /\ \A t \in Slots : d.runs[t] = IF work.on /\ t = s THEN prev ELSE device.runs[t]
      BY <1>1, RunningIs
    <3>3. device' = Without(d, h)
      BY DEF RolledBack
    <3>. HIDE DEF d
    <3>. QED BY <3>1, <3>2, <3>3, WithoutIs
  <2>. HIDE DEF s, h, prev, was
  <2>6. device'.live = was.device.live /\ device'.val = was.device.val
    BY <2>1, <2>5
  <2>7. \A t \in Slots : device'.runs[t] = was.device.runs[t]
    <3>. TAKE t \in Slots
    <3>1. CASE t # s
      BY <1>1, <2>1, <2>2, <2>4, <2>5, <3>1
    <3>2. CASE t = s
      BY <1>1, <2>1, <2>2, <2>3, <2>5, <3>2
    <3>. QED BY <3>1, <3>2
  <2>. QED BY <1>1, <2>6, <2>7 DEF Devices, BySlot
<1>. QED BY <1>3, <1>4, <1>5 DEF Kept, Untouched

LEMMA RestoredKept ==
  ASSUME IInv, ViewInv, work.pc = "restore", host.connected,
         device' = Written(tree[work.s].val), host'.leases = host.leases, UNCHANGED <<tree, made, loop>>
  PROVE  Kept
<1>1. work.h \in Handles /\ device \in Devices /\ work.was.device \in Devices
  BY Typed DEF ViewInv, Was, WasOp, Shown, Controlling
<1>2. tree = work.was.tree /\ host.leases = work.was.leases
  BY DEF ViewInv, Was, WasTree, WasLeases, Controlling
<1>3. Untouched => /\ device = [work.was.device EXCEPT !.val[work.h] = device.val[work.h]]
                   /\ work.was.device.val[work.h] = work.was.tree[work.s].val
  BY DEF ViewInv, Was, WasDevice, Controlling
<1>4. Untouched => device' = work.was.device
  <2>. SUFFICES ASSUME Untouched PROVE device' = work.was.device
    OBVIOUS
  <2>1. device' = [device EXCEPT !.val[work.h] = work.was.device.val[work.h]]
    BY <1>2, <1>3 DEF Written
  <2>. DEFINE d == work.was.device
              h == work.h
              x == device.val[h]
  <2>2. d \in Devices /\ h \in Handles /\ device \in Devices /\ device = [d EXCEPT !.val[h] = x]
        /\ device' = [device EXCEPT !.val[h] = d.val[h]]
    BY <1>1, <1>3, <2>1
  <2>. HIDE DEF d, h, x
  <2>3. device' = d
    BY <2>2, WrittenOver
  <2>. QED BY <2>3 DEF d
<1>. QED BY <1>2, <1>4 DEF Kept, Untouched

LEMMA ConfirmAchieved ==
  ASSUME IInv, ViewInv, NEW pc \in {"finalized", "cleared", "stored"}, Confirm(pc)
  PROVE  Outcome
<1>1. /\ work.pc = pc /\ UNCHANGED <<tree, device, made, loop>> /\ work.s \in Slots /\ ~host.quarantined
      /\ Token \in SUBSET Instances /\ Nobody \notin device.live /\ work.was.tree \in Trees /\ work.v \in Values
  BY Typed, InHand DEF Confirm, ViewInv, Was, WasOp
<1>2. CASE GiveUp(host, Token)
  BY <1>1, <1>2, Gives
<1>3. CASE host.connected /\ Answer("committed") /\ UNCHANGED host
  <2>1. work'.answer = "committed"
    BY <1>3, AnswerKeeps
  <2>2. CASE pc = "finalized"
    <3>1. /\ work.op = "load" /\ tree[work.s].inst = work.h /\ host.leases[work.s] = work.h
          /\ host.current[work.s] = work.h /\ work.prev \notin device.live
      BY <1>1, <2>2 DEF IInv, Placed, ViewInv, Was, WasOp, Shown
    <3>2. Untouched => device.runs[work.s] = work.h
      BY <1>1, <1>3, <2>2, <3>1 DEF ViewInv, Was, WasDevice, Known, Routed
    <3>. QED BY <1>1, <1>3, <2>1, <3>1, <3>2 DEF Outcome, Achieved, Untouched
  <2>3. CASE pc = "cleared"
    <3>1. /\ work.op = "unload" /\ tree[work.s] = Empty /\ host.leases[work.s] = Nobody
          /\ work.h \notin device.live
      BY <1>1, <2>3 DEF ViewInv, Was, WasOp, Shown
    <3>. QED BY <1>1, <1>3, <2>1, <3>1 DEF Outcome, Achieved
  <2>4. CASE pc = "stored"
    <3>1. /\ work.op = "control" /\ tree = [work.was.tree EXCEPT ![work.s].val = work.v]
          /\ device.val[work.h] = work.v
      BY <1>1, <2>4 DEF ViewInv, Was, WasOp, WasTree, WasDevice, Controlling
    <3>2. tree[work.s] = [work.was.tree[work.s] EXCEPT !.val = work.v]
      BY <1>1, <3>1 DEF Trees
    <3>. QED BY <1>1, <1>3, <2>1, <3>1, <3>2 DEF Outcome, Achieved
  <2>. QED BY <2>2, <2>3, <2>4
<1>. QED BY <1>2, <1>3 DEF Confirm

LEMMA StepOutcome ==
  ASSUME IInv, ViewInv, IInv', [Next]_vars, work.pc # "idle", work'.pc = "idle"
  PROVE  Outcome
<1>1. Token \in SUBSET Instances /\ tree[work.s].inst \in Instances /\ device' \in Devices
  BY Typed, InHand DEF IInv, TypeOK
<1>2. CASE Prepare \/ Plan
  <2>1. /\ work.pc \in {"prepare", "plan"} /\ UNCHANGED <<tree, device, made, loop>>
        /\ At("create") \/ work'.pc = "apply" \/ (Answer("failed") /\ SameHost)
    BY <1>2, InvalidatedSame, Typed DEF Prepare, Plan, Unobserved, Jobs
  <2>2. Answer("failed") /\ SameHost
    BY <2>1, AtKeeps
  <2>. QED BY <2>1, <2>2, FailedKept
<1>3. CASE Create
  <2>1. ~CreateSucceeds
    <3>. SUFFICES ASSUME CreateSucceeds PROVE FALSE
      OBVIOUS
    <3>1. work' = [work EXCEPT !.pc = "observe", !.h = made', !.prev = host.leases[work.s]]
      BY DEF CreateSucceeds
    <3>. QED BY <3>1, Typed DEF Jobs
  <2>2. GiveUp(Invalidated(host), {}) /\ {} \in SUBSET Instances
    BY <1>3, <2>1 DEF Create, CreateFails
  <2>3. \E b \in {host, Invalidated(host)}, tokens \in SUBSET Instances : GiveUp(b, tokens)
    <3>. DEFINE b == Invalidated(host)
    <3>1. b \in {host, Invalidated(host)} /\ GiveUp(b, {})
      BY <2>2
    <3>. HIDE DEF b
    <3>. QED BY <2>2, <3>1
  <2>. QED BY <2>3, Gives
<1>4. CASE Observe \/ Activate \/ Publish \/ Store
  <2>1. work'.pc # "idle"
    <3>1. \A pc : At(pc) => work'.pc = pc
      BY AtKeeps
    <3>2. work' = [work EXCEPT !.pc = "publish", !.on = TRUE] => work'.pc = "publish"
      BY Typed DEF Jobs
    <3>. QED BY <1>4, <3>1, <3>2 DEF Observe, Activate, Publish, Store
  <2>. QED BY <2>1
<1>5. CASE Finalize
  <2>1. ~At("finalized")
    BY AtKeeps
  <2>. QED BY <1>1, <1>5, <2>1, Gives DEF Finalize
<1>6. CASE Rollback
  <2>1. CASE \E tokens \in SUBSET Instances : GiveUp(Invalidated(host), tokens)
    BY <2>1, Gives
  <2>2. CASE /\ Callable(work.h) /\ (work.on => Callable(work.prev))
             /\ device' = RolledBack(work.s, work.h, work.prev)
             /\ host' = [host EXCEPT !.leases[work.s] = work.prev, !.pending[work.s] = Nobody]
             /\ Answer("failed")
    <3>1. Kept
      BY <1>1, <1>6, <2>2, RolledBackKept DEF Rollback
    <3>. QED BY <2>2, <3>1, Fails
  <2>. QED BY <1>1, <1>6, <2>1, <2>2 DEF Rollback
<1>7. CASE Finalized \/ Cleared \/ Stored
  BY <1>7, ConfirmAchieved DEF Finalized, Cleared, Stored
<1>8. CASE Retire
  <2>1. work' # [work EXCEPT !.pc = "clear", !.h = tree[work.s].inst]
    BY Typed DEF Jobs
  <2>. QED BY <1>1, <1>8, <2>1, Gives DEF Retire
<1>9. CASE Clear
  <2>1. ~At("cleared")
    BY AtKeeps
  <2>. QED BY <1>1, <1>9, <2>1, Gives DEF Clear
<1>10. CASE Apply
  <2>1. ~At("restore") /\ ~At("store")
    BY AtKeeps
  <2>2. Answer("failed") /\ UNCHANGED <<host, device, tree, made, loop>> /\ work.pc = "apply"
    BY <1>10, <2>1 DEF Apply, WrittenTo
  <2>. QED BY <2>2, FailedKept, InvalidatedSame
<1>11. CASE Restore
  <2>1. CASE \E b \in {host, Invalidated(host)} : GiveUp(b, Token)
    BY <1>1, <2>1, Gives
  <2>2. CASE WrittenTo(tree[work.s].val, Answer("failed"))
    <3>1. host'.leases = host.leases
      BY <2>2, Typed DEF WrittenTo, Hosts
    <3>2. Kept
      BY <1>11, <2>2, <3>1, RestoredKept DEF Restore, WrittenTo, Callable
    <3>. QED BY <2>2, <3>2, Fails DEF WrittenTo
  <2>. QED BY <1>11, <2>1, <2>2 DEF Restore
<1>12. CASE Request \/ DeviceDrops \/ DriverEvent \/ DeviceLost \/ RateSet \/ Attach \/ UNCHANGED vars
  BY <1>12 DEF Request, BeginLoad, BeginUnload, BeginControl, Begin, DeviceDrops, DriverEvent, DeviceLost, RateSet,
               Attach, vars
<1>. QED BY <1>2, <1>3, <1>4, <1>5, <1>6, <1>7, <1>8, <1>9, <1>10, <1>11, <1>12 DEF Next, Worker

LEMMA Reached == Spec => [](IInv /\ ViewInv)
<1>1. Init => IInv /\ ViewInv
  BY InitIInv, InitView
<1>2. (IInv /\ ViewInv) /\ [Next]_vars => (IInv /\ ViewInv)'
  BY NextView
<1>. QED BY <1>1, <1>2, PTL DEF Spec

\* Between transactions, while the session holds, the tree shows what the DSP
\* runs: in every slot the tree, the backend's lease, the coordinator's and the
\* route name one live instance or none, its parameter has one value, and
\* nothing else is left on the device (plugin_native.py, _observe and the leases;
\* plugin_publication.py, stage, commit and commit_control).
THEOREM TreeTellsTheTruth == Spec => []ViewTruthful
<1>1. IInv /\ ViewInv => ViewTruthful
  BY ViewHolds
<1>. QED BY <1>1, Reached, PTL

\* A transaction that answers "failed" has put everything back as it was, one
\* that answers "committed" has done all it was asked, and any other has
\* quarantined the coordinator (plugin_transactions.py, execute and _quarantine;
\* plugin_native.py, rollback, finalize, retire and restore_control).
THEOREM TransactionsAtomic == Spec => AllOrNothing
<1>1. (IInv /\ ViewInv) /\ (IInv /\ ViewInv)' /\ [Next]_vars =>
        [work.pc # "idle" /\ work'.pc = "idle" =>
           CASE work'.answer = "failed" -> Kept
             [] work'.answer = "committed" -> Achieved
             [] work'.answer = "indeterminate" -> host'.quarantined]_vars
  BY StepOutcome DEF Outcome
<1>. QED BY <1>1, Reached, PTL DEF Spec, AllOrNothing
=============================================================================

------------------------------- MODULE DspXact -------------------------------
(***************************************************************************)
(* The plug-in host's transactions on one DSP's two rings                  *)
(* (src/driver/ua_dsp_xact.c, and the ring half of src/driver/ua_dsp.c).   *)
(*                                                                         *)
(* A transaction is a batch of command entries and reply descriptors that  *)
(* point into one DMA buffer.  From its publication the buffer is the      *)
(* device's until both rings have provably passed the entries, whatever    *)
(* the caller does meanwhile; the proof is by indices that wrap, and by    *)
(* generations, because any other user of the DSP may resync a ring and    *)
(* abandon what is queued on it.  An engine that fetches ahead still has   *)
(* descriptors the resync took back.                                       *)
(*                                                                         *)
(* A slot holds the transaction whose buffer it points into, or Other, an  *)
(* entry of another user of the ring (its buffers are not modelled).       *)
(***************************************************************************)
EXTENDS Integers, FiniteSets, SequencesExt

CONSTANTS
  Xacts,       \* the transactions built
  Shapes,      \* the numbers of command entries and of replies they have
  Other,       \* the owner of everybody else's entries
  Bursts,      \* the numbers of entries others queue at once
  Cap,         \* ring->capacity, a power of two
  Start,       \* POSITION when the rings were programmed
  Ahead,       \* descriptors the engine may have fetched ahead
  RetainMax,   \* UA_XACT_RETAIN_MAX
  MaxOthers,   \* bound: times other users queue entries
  MaxResyncs,  \* bound: generations of a ring
  MaxEpoch     \* bound: host epochs

ASSUME CapAssumption == Cap \in Nat \ {0} /\ Start \in 0..(Cap - 1)
ASSUME BoundAssumption == {Ahead, RetainMax, MaxOthers, MaxResyncs, MaxEpoch} \subseteq Nat
ASSUME ShapeAssumption == Shapes \subseteq (1..(Cap \div 4)) \X (0..(Cap \div 4))
ASSUME BurstAssumption == Bursts \subseteq 1..(Cap - 1)
ASSUME OtherAssumption == Other \notin Xacts

Rings == {"cmd", "resp"}

VARIABLES
  ring,     \* POSITION, what is queued from it on, the descriptors already
            \* fetched, and the generation of its indices
  xact,     \* struct ua_xact, and whether its buffer is still allocated
  waiting,  \* h->xact_waiting
  epoch,    \* h->epoch
  phase,    \* "up", "shutdown", "quiesced", "finished"
  others    \* times other users have queued entries

vars == <<ring, xact, waiting, epoch, phase, others>>

NoRef == [on |-> FALSE, gen |-> 0, end |-> 0, start |-> 0, need |-> 0, abandoned |-> FALSE]
NoRefs == [r \in Rings |-> NoRef]
Unbuilt == [state |-> "none", n |-> 0, rx |-> 0, epoch |-> 0, ref |-> NoRefs, waiting |-> FALSE,
            released |-> FALSE, detached |-> FALSE, buf |-> "none", lost |-> FALSE]

\* Ring indices are masked: the way from one to another, going forward.
Way(from, to) == (to - from) % Cap
Pending(q) == Len(q.queue)
FreeSlots(q) == Cap - 1 - Pending(q)
WritePtr(q) == (q.pos + Pending(q)) % Cap

\* A mutant: an end index at the write pointer counts as consumed.
PassedAtEnd(q, end) == Way(q.pos, end) = 0 \/ Way(q.pos, end) >= Pending(q)

\* An end index that is no longer ahead of POSITION has been consumed.
Passed(q, end) == Way(q.pos, end) = 0 \/ Way(q.pos, end) > Pending(q)
Proven(q, f) == Way(f.start, q.pos) >= f.need

\* live: POSITION can be read, which it cannot once the shutdown flag is up.
RefDone(q, f, live) ==
  \/ ~f.on
  \/ live /\ q.gen = f.gen /\ IF f.abandoned THEN Proven(q, f) ELSE Passed(q, f.end)

Settle(t, q) ==
  [t EXCEPT !.ref = [r \in Rings |-> IF RefDone(q[r], @[r], phase = "up") THEN NoRef ELSE @[r]]]
Idle(t) == \A r \in Rings : ~t.ref[r].on
Unwait(t) == [t EXCEPT !.waiting = FALSE]
Waits(t) == IF t.waiting THEN 1 ELSE 0
Freed(t) == [t EXCEPT !.state = "gone", !.buf = "freed"]

\* Published and not taken off h->xacts yet.
Listed(xs) == {x \in Xacts : xs[x].state \in {"published", "retired"} /\ ~xs[x].detached}

\* Every released transaction the rings are past is freed.
Reclaim(xs, q) ==
  [x \in Xacts |->
     IF x \notin Listed(xs) \/ ~xs[x].released THEN xs[x]
     ELSE LET t == Settle(xs[x], q) IN IF Idle(t) THEN Freed(t) ELSE t]

\* What a resync of q does to a reference: consumed already, proven since the
\* last resync, held for good, or to be proven by as many entries as it lost.
Abandon(f, q) ==
  CASE ~f.on \/ f.gen # q.gen -> f
    [] f.on /\ f.gen = q.gen /\ f.abandoned -> IF Proven(q, f) THEN NoRef ELSE f
    [] OTHER -> IF Passed(q, f.end) THEN NoRef
                ELSE [f EXCEPT !.abandoned = TRUE, !.start = q.pos,
                               !.need = Way(q.pos, f.end), !.gen = q.gen + 1]

\* ring r, with entries still queued, is resynced to POSITION.  (lost is ours:
\* a resync took entries of this transaction back.)
RingAbandon(xs, r, q) ==
  [x \in Xacts |->
     IF x \notin Listed(xs) THEN xs[x]
     ELSE LET f == Abandon(xs[x].ref[r], q)
          IN  [xs[x] EXCEPT !.ref[r] = f,
                            !.lost = @ \/ (f.abandoned /\ ~xs[x].ref[r].abandoned)]]

Resync(q) == IF q.queue = <<>> THEN q ELSE [q EXCEPT !.queue = <<>>, !.gen = @ + 1]
Resettle(xs, r, q) == IF q.queue = <<>> THEN xs ELSE RingAbandon(xs, r, q)

Put(q, who, k) == [q EXCEPT !.queue = @ \o [i \in 1..k |-> who]]
Ref(q, k) == IF k = 0 THEN NoRef ELSE [NoRef EXCEPT !.on = TRUE, !.gen = q.gen, !.end = WritePtr(q)]

-----------------------------------------------------------------------------
Init ==
  /\ ring = [r \in Rings |-> [pos |-> Start, queue |-> <<>>, fetched |-> <<>>, gen |-> 0]]
  /\ xact = [x \in Xacts |-> Unbuilt]
  /\ waiting = 0
  /\ epoch = 0
  /\ phase = "up"
  /\ others = 0

\* A transaction is laid out and its buffer mapped, for the epoch of now.
Map(x) ==
  /\ xact[x].state = "none" /\ phase = "up"
  /\ \E shape \in Shapes :
       xact' = [xact EXCEPT ![x] = [Unbuilt EXCEPT !.state = "mapped", !.n = shape[1],
                                                   !.rx = shape[2], !.epoch = epoch,
                                                   !.buf = "held"]]
  /\ UNCHANGED <<ring, waiting, epoch, phase, others>>

\* ua_xact_submit() up to the first refusal that changes something: the
\* reclaim is kept, whatever comes after it.
Submittable(x) == xact[x].state = "mapped" /\ phase = "up" /\ xact[x].epoch = epoch

\* The reply descriptors go to an empty response ring: one somebody left
\* there is abandoned first.
Room(t, q) ==
  /\ FreeSlots(q.cmd) >= t.n
  /\ t.rx > 0 => waiting = 0 /\ Pending(q.cmd) = 0

SubmitRefused(x) ==
  /\ Submittable(x)
  /\ LET left == Reclaim(xact, ring)
     IN  /\ Cardinality(Listed(left)) >= RetainMax \/ ~Room(xact[x], ring)
         /\ xact' = left
  /\ UNCHANGED <<ring, waiting, epoch, phase, others>>

Submit(x) ==
  /\ Submittable(x)
  /\ LET t == xact[x]
         left == Reclaim(xact, ring)
         cleared == IF t.rx = 0 THEN ring ELSE [ring EXCEPT !["resp"] = Resync(@)]
         queued == [cleared EXCEPT !["resp"] = Put(@, x, t.rx), !["cmd"] = Put(@, x, t.n)]
         settled == IF t.rx = 0 THEN left ELSE Resettle(left, "resp", ring["resp"])
     IN  /\ Cardinality(Listed(left)) < RetainMax /\ Room(t, ring)
         /\ cleared["resp"].gen <= MaxResyncs
         /\ ring' = queued
         /\ xact' = [settled EXCEPT ![x] =
                       [t EXCEPT !.state = "published", !.waiting = t.rx > 0,
                                 !.ref = [r \in Rings |-> Ref(queued[r], IF r = "cmd" THEN t.n ELSE t.rx)]]]
         /\ waiting' = waiting + IF t.rx > 0 THEN 1 ELSE 0
  /\ UNCHANGED <<epoch, phase, others>>

\* Never published: freed at once.
Discard(x) ==
  /\ xact[x].state = "mapped"
  /\ xact' = [xact EXCEPT ![x] = Freed(@)]
  /\ UNCHANGED <<ring, waiting, epoch, phase, others>>

\* The poll that looks: no entry of ours is known to be abandoned and the
\* epoch is still ours.  Every other poll answers an error and changes nothing.
Poll(x) ==
  /\ xact[x].state = "published" /\ ~xact[x].released /\ phase = "up"
  /\ \A r \in Rings : xact[x].ref[r].on =>
       ~xact[x].ref[r].abandoned /\ xact[x].ref[r].gen = ring[r].gen
  /\ xact[x].epoch = epoch
  /\ LET t == Settle(xact[x], ring)
     IN  IF Idle(t)
         THEN /\ xact' = [xact EXCEPT ![x] = [Unwait(t) EXCEPT !.state = "retired"]]
              /\ waiting' = waiting - Waits(t)
         ELSE /\ xact' = [xact EXCEPT ![x] = t]
              /\ UNCHANGED waiting
  /\ UNCHANGED <<ring, epoch, phase, others>>

\* A mutant: a caller that gives up forgets that it was waited for.
DoneWaiting(x) ==
  /\ xact[x].state \in {"published", "retired"} /\ ~xact[x].released
  /\ LET t == Settle([xact[x] EXCEPT !.released = TRUE], ring)
     IN  xact' = [xact EXCEPT ![x] = IF Idle(t) THEN Freed(t) ELSE t]
  /\ UNCHANGED <<waiting, ring, epoch, phase, others>>

\* The caller is done with it: it has its replies, gave up or timed out.
Done(x) ==
  /\ xact[x].state \in {"published", "retired"} /\ ~xact[x].released
  /\ IF xact[x].detached
     THEN /\ xact' = [xact EXCEPT ![x].state = "gone"]
          /\ UNCHANGED waiting
     ELSE LET t == Settle([Unwait(xact[x]) EXCEPT !.released = TRUE], ring)
          IN  /\ xact' = [xact EXCEPT ![x] = IF Idle(t) THEN Freed(t) ELSE t]
              /\ waiting' = waiting - Waits(xact[x])
  /\ UNCHANGED <<ring, epoch, phase, others>>

-----------------------------------------------------------------------------
\* Another user of the DSP queues entries of its own.
OtherPuts(r) ==
  /\ phase = "up" /\ others < MaxOthers
  /\ \E k \in Bursts : k <= FreeSlots(ring[r]) /\ ring' = [ring EXCEPT ![r] = Put(@, Other, k)]
  /\ others' = others + 1
  /\ UNCHANGED <<xact, waiting, epoch, phase>>

\* Another user resyncs a ring that still has entries queued.
OtherResyncs(r) ==
  /\ phase = "up" /\ ring[r].queue # <<>> /\ ring[r].gen < MaxResyncs
  /\ ring' = [ring EXCEPT ![r] = Resync(@)]
  /\ xact' = Resettle(xact, r, ring[r])
  /\ UNCHANGED <<waiting, epoch, phase, others>>

\* The device was restarted: no transaction of before may be believed.
NewEpoch ==
  /\ phase = "up" /\ epoch < MaxEpoch
  /\ epoch' = epoch + 1
  /\ UNCHANGED <<ring, xact, waiting, phase, others>>

\* The device fails (a PCIe error, or it is found gone): the flag goes up over
\* whatever is queued, and POSITION cannot be read from here on.
Shutdown ==
  /\ phase = "up"
  /\ phase' = "shutdown"
  /\ UNCHANGED <<ring, xact, waiting, epoch, others>>

\* The orderly end: both rings are resynced, then the flag goes up, in one hold
\* of the lock.
Quiesce ==
  /\ phase = "up"
  /\ ring' = [r \in Rings |-> Resync(ring[r])]
  /\ xact' = Resettle(Resettle(xact, "cmd", ring["cmd"]), "resp", ring["resp"])
  /\ phase' = "quiesced"
  /\ UNCHANGED <<waiting, epoch, others>>

\* The rings are freed.  quiet: the device can no longer read or write
\* anywhere, so what is queued or fetched is of no use to it.
Fini(quiet) ==
  /\ phase \in {"shutdown", "quiesced"}
  /\ phase' = "finished"
  /\ ring' = [r \in Rings |-> IF quiet THEN [ring[r] EXCEPT !.queue = <<>>, !.fetched = <<>>]
                             ELSE ring[r]]
  /\ xact' = [x \in Xacts |->
                LET t == xact[x]
                    safe == quiet \/ Idle(t)
                IN  CASE x \notin Listed(xact) -> t
                      [] x \in Listed(xact) /\ t.released /\ safe -> Freed(t)
                      [] OTHER -> [t EXCEPT !.detached = TRUE,
                                            !.buf = IF safe THEN "freed" ELSE "leaked",
                                            !.state = IF t.released THEN "gone" ELSE @]]
  /\ waiting' = 0
  /\ UNCHANGED <<epoch, others>>

-----------------------------------------------------------------------------
(* The engine behind one ring *)

\* It reads a descriptor before it gets to it.
Fetch(r) ==
  /\ Len(ring[r].fetched) < Ahead /\ Len(ring[r].fetched) < Pending(ring[r])
  /\ ring' = [ring EXCEPT ![r].fetched = Append(@, ring[r].queue[Len(@) + 1])]
  /\ UNCHANGED <<xact, waiting, epoch, phase, others>>

\* It works on the entry at POSITION: the descriptor it has fetched for it, or
\* the slot.  (A reply descriptor is filled by any answer the DSP owes.)
Consume(r) ==
  /\ ring[r].queue # <<>>
  /\ ring' = [ring EXCEPT ![r].pos = (@ + 1) % Cap, ![r].queue = Tail(@),
                          ![r].fetched = IF @ = <<>> THEN @ ELSE Tail(@)]
  /\ UNCHANGED <<xact, waiting, epoch, phase, others>>

Engine == \E r \in Rings : Fetch(r) \/ Consume(r)

Next ==
  \/ \E x \in Xacts : Map(x) \/ SubmitRefused(x) \/ Submit(x) \/ Discard(x) \/ Poll(x) \/ Done(x)
  \/ \E r \in Rings : OtherPuts(r) \/ OtherResyncs(r)
  \/ NewEpoch \/ Shutdown \/ Quiesce
  \/ \E quiet \in BOOLEAN : Fini(quiet)
  \/ Engine

Spec == Init /\ [][Next]_vars

-----------------------------------------------------------------------------
(* What has to be right *)

Slots == Xacts \cup {Other}
Positions == 0..(Cap - 1)
RefOf == [on : BOOLEAN, gen : Nat, end : Positions, start : Positions, need : Positions,
          abandoned : BOOLEAN]
States == {"none", "mapped", "published", "retired", "gone"}
XactOf == [state : States, n : 0..(Cap \div 4), rx : 0..(Cap \div 4), epoch : 0..MaxEpoch,
           ref : [Rings -> RefOf], waiting : BOOLEAN, released : BOOLEAN, detached : BOOLEAN,
           buf : {"none", "held", "freed", "leaked"}, lost : BOOLEAN]
RingOf == [pos : Positions, queue : Seq(Slots), fetched : Seq(Slots), gen : Nat]

\* Every index is inside its ring, no ring holds more than its capacity and the
\* engine has fetched no more than it may.
TypeOK ==
  /\ ring \in [Rings -> RingOf]
  /\ \A r \in Rings : Pending(ring[r]) < Cap /\ Len(ring[r].fetched) <= Ahead
  /\ xact \in [Xacts -> XactOf]
  /\ waiting \in Int /\ epoch \in 0..MaxEpoch /\ others \in 0..MaxOthers
  /\ phase \in {"up", "shutdown", "quiesced", "finished"}

\* The descriptors the engine can still work on: what is queued on the ring, and
\* what it fetched before a resync took it back.
Reachable(r) == Range(ring[r].queue) \cup Range(ring[r].fetched)

\* A buffer is never freed while the device can still read or write it: not by
\* a caller that gave up, not across resyncs that abandon its entries, not by a
\* caller that is done with a transaction whose indices have wrapped, and not at
\* the end (ua_xact_ref_done(), ua_xact_ring_abandon(), ua_xact_fini()).
NoTouchAfterFree ==
  \A x \in Xacts : xact[x].buf = "freed" => \A r \in Rings : x \notin Reachable(r)

\* Only one transaction at a time waits for replies, and the counter that
\* refuses a second one knows of it: it is never left counting a waiter that
\* retired, gave up or was released, which would refuse every later reply
\* transaction on the device (h->xact_waiting, ua_xact_unwait()).
OneWaiter ==
  LET waiters == {x \in Xacts : xact[x].waiting}
  IN  phase # "finished" =>
        /\ waiting = Cardinality(waiters) /\ waiting <= 1
        /\ \A x \in waiters : xact[x].state = "published" /\ ~xact[x].released

\* "1 when both rings are past it (its replies are then complete and readable)
\* [...] -ESTALE when a resync abandoned part of it" (ua_xact_poll()): a
\* transaction retires only when the device was given all of its entries.
RetiredWhole == \A x \in Xacts : xact[x].state = "retired" => ~xact[x].lost

=============================================================================

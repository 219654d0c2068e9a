------------------------- MODULE EventChannelProofs -------------------------
(***************************************************************************)
(* Proofs about EventChannel, for any number of files and producers, any   *)
(* queue and batch length and any room in the user's buffer.               *)
(*                                                                         *)
(* TypeOK holds because a read that can still pop has room for a record    *)
(* (Calls).  GapsReported needs that only a batch which is being copied    *)
(* stands between the queue and the reader, and that a file which is not   *)
(* open has nothing (Calls).  GoneOnlyWhenDrained needs, on top of both,   *)
(* that an empty queue has no lost events left to tell (Announced), and    *)
(* that the flag follows the event (Ends).                                 *)
(***************************************************************************)
EXTENDS EventChannel, SequenceTheorems, TLAPS

Callers == [pc : Pcs, call : {"none", "read", "poll"}, want : Nat, done : Nat, block : BOOLEAN]
Batches == [lost : Nat, events : Seq(Nat)]

\* What a call under way and a file that is not open look like.
Calls ==
  \A f \in Files :
    /\ At(f, "pop") \/ At(f, "copy") => reader[f].call = "read"
    /\ reader[f].call = "read" => reader[f].done < reader[f].want
    /\ ~At(f, "copy") => batch[f] = NoBatch
    /\ ~IsOpen(f) => At(f, "out") /\ queue[f] = <<>> /\ lost[f] = 0 /\ missed[f] = 0

\* The times a producer carries are times.
Producing == producer \in [Producers -> [pc : {"idle", "read", "swap", "post", "wake"},
                                         now : Nat, last : Nat]]

Inv == TypeOK /\ Calls /\ Producing /\ GapsReported

------------------------------------------------------------------------------
LEMMA MinOfTwo ==
  ASSUME NEW a \in Int, NEW b \in Int
  PROVE  Min({a, b}) \in {a, b} /\ Min({a, b}) <= a /\ Min({a, b}) <= b
<1>1. \E x \in {a, b} : \A y \in {a, b} : x <= y
  OBVIOUS
<1>. QED BY <1>1 DEF Min

\* What ua_event_pop takes: a front part of the queue that fits, behind the
\* whole count of the events that were lost.
LEMMA PoppedIs ==
  ASSUME NEW f \in Files, queue[f] \in Seq(Nat), lost[f] \in Nat, NEW max \in Nat \ {0}
  PROVE  /\ Popped(f, max) \in Batches
         /\ Records(Popped(f, max)) <= max
         /\ Records(Popped(f, max)) > 0 => Popped(f, max).lost = lost[f]
         /\ Len(Popped(f, max).events) <= Len(queue[f])
         /\ \A i \in DOMAIN Popped(f, max).events : Popped(f, max).events[i] = queue[f][i]
<1>. DEFINE q == queue[f]
            counted == IF queue[f] # <<>> THEN lost[f] ELSE 0
            room == IF counted > 0 THEN max - 1 ELSE max
            n == Min({room, Len(queue[f])})
            ev == SubSeq(queue[f], 1, n)
<1>1. counted \in Nat /\ room \in Nat /\ Len(q) \in Nat
  OBVIOUS
<1>2. n \in Nat /\ n <= room /\ n <= Len(q)
  <2>. DEFINE len == Len(queue[f])
  <2>. HIDE DEF room, len
  <2>1. room \in Int /\ len \in Int
    BY <1>1 DEF len
  <2>2. Min({room, len}) \in {room, len} /\ Min({room, len}) <= room /\ Min({room, len}) <= len
    BY <2>1, MinOfTwo
  <2>3. n = Min({room, len})
    BY DEF len
  <2>. HIDE DEF n
  <2>. QED BY <1>1, <2>2, <2>3 DEF len
<1>3. ev \in Seq(Nat) /\ Len(ev) = n /\ \A i \in 1..n : ev[i] = q[i]
  <2>. HIDE DEF n
  <2>1. \A i \in 1..n : q[i] \in Nat
    BY <1>2
  <2>. QED BY <1>2, <2>1, SubSeqProperties
<1>4. Popped(f, max) = [lost |-> counted, events |-> ev]
  BY DEF Popped
<1>5. (q = <<>> => n = 0) /\ (q # <<>> => counted = lost[f])
      /\ room = IF counted > 0 THEN max - 1 ELSE max
  BY <1>2
<1>. HIDE DEF n, ev, counted, room
<1>6. Popped(f, max).lost = counted /\ Popped(f, max).events = ev
  BY <1>4
<1>7. Records(Popped(f, max)) = n + (IF counted > 0 THEN 1 ELSE 0)
  BY <1>3, <1>6 DEF Records
<1>8. Popped(f, max) \in Batches
  BY <1>1, <1>3, <1>4 DEF Batches
<1>9. n + (IF counted > 0 THEN 1 ELSE 0) <= max
  BY <1>1, <1>2, <1>5
<1>10. n + (IF counted > 0 THEN 1 ELSE 0) > 0 => counted = lost[f]
  <2>1. CASE q = <<>>
    <3>1. counted = 0
      BY <2>1 DEF counted
    <3>. QED BY <2>1, <3>1, <1>5
  <2>. QED BY <2>1, <1>5
<1>11. DOMAIN ev = 1..n
  BY <1>3
<1>. QED BY <1>2, <1>3, <1>6, <1>7, <1>8, <1>9, <1>10, <1>11

\* The queue after an event was put on it.
LEMMA QueuedIs ==
  ASSUME NEW s \in Seq(Nat), Len(s) <= QueueLen, NEW no \in Nat
  PROVE  /\ Queued(s, no) \in Seq(Nat) /\ Len(Queued(s, no)) <= QueueLen
         /\ LostBy(s) \in Nat
         /\ Len(Queued(s, no)) = Len(s) + 1 - LostBy(s)
         /\ \A i \in 1..(Len(s) - LostBy(s)) : Queued(s, no)[i] = s[i + LostBy(s)]
         /\ Queued(s, no)[Len(s) + 1 - LostBy(s)] = no
<1>. DEFINE t == IF Len(s) = QueueLen THEN Tail(s) ELSE s
<1>1. QueueLen \in Nat /\ QueueLen > 0
  BY ChannelAssumption
<1>2. LostBy(s) \in {0, 1} /\ (LostBy(s) = 1 <=> Len(s) = QueueLen)
  BY DEF LostBy
<1>3. t \in Seq(Nat) /\ Len(t) = Len(s) - LostBy(s)
      /\ \A i \in 1..(Len(s) - LostBy(s)) : t[i] = s[i + LostBy(s)]
  <2>1. CASE Len(s) = QueueLen
    <3>1. s # <<>>
      BY <1>1, <2>1
    <3>2. /\ Tail(s) \in Seq(Nat) /\ Len(Tail(s)) = Len(s) - 1
          /\ \A i \in 1..Len(Tail(s)) : Tail(s)[i] = s[i + 1]
      BY <3>1, HeadTailProperties
    <3>. QED BY <1>2, <2>1, <3>2
  <2>2. CASE Len(s) # QueueLen
    BY <1>2, <2>2
  <2>. QED BY <2>1, <2>2
<1>4. Queued(s, no) = Append(t, no)
  BY DEF Queued
<1>. HIDE DEF t
<1>5. /\ Append(t, no) \in Seq(Nat) /\ Len(Append(t, no)) = Len(t) + 1
      /\ \A i \in 1..Len(t) : Append(t, no)[i] = t[i]
      /\ Append(t, no)[Len(t) + 1] = no
  BY <1>3, AppendProperties
<1>. QED BY <1>1, <1>2, <1>3, <1>4, <1>5

------------------------------------------------------------------------------
\* Steps of a file's thread that move nothing.

LEMMA GapsStay ==
  ASSUME GapsReported, UNCHANGED <<queue, lost, file, posted, batch, told, missed>>
  PROVE  GapsReported'
BY DEF GapsReported, InOrder, Passed, Behind, Counts, IsOpen

LEMMA ThreadMoves ==
  ASSUME Inv, UNCHANGED <<channel, batch, told, missed, driver>>, woken' \in [Files -> BOOLEAN],
         NEW f \in Files, NEW r \in Callers, reader' = [reader EXCEPT ![f] = r],
         ~At(f, "copy"), r.pc # "copy", IsOpen(f) \/ r.pc = "out",
         r.pc = "pop" => r.call = "read", r.call = "read" => r.done < r.want
  PROVE  Inv'
<1>. USE DEF channel, driver, errors
<1>1. reader \in [Files -> Callers]
  BY DEF Inv, TypeOK, Callers
<1>2. /\ reader' \in [Files -> Callers] /\ reader'[f] = r
      /\ \A g \in Files : g # f => reader'[g] = reader[g]
  BY <1>1
<1>3. TypeOK'
  <2>1. \A g \in Files : At(g, "copy")' => g # f /\ At(g, "copy")
    BY <1>2 DEF At
  <2>2. \A g \in Files : At(g, "copy")' =>
          reader'[g].done + Records(batch'[g]) <= reader'[g].want
    BY <1>2, <2>1 DEF Inv, TypeOK, Records
  <2>. QED BY <1>2, <2>2 DEF Inv, TypeOK, Callers
<1>4. Calls'
  <2>. SUFFICES ASSUME NEW g \in Files
                PROVE  /\ At(g, "pop")' \/ At(g, "copy")' => reader'[g].call = "read"
                       /\ reader'[g].call = "read" => reader'[g].done < reader'[g].want
                       /\ ~At(g, "copy")' => batch'[g] = NoBatch
                       /\ ~IsOpen(g)' => At(g, "out")' /\ queue'[g] = <<>> /\ lost'[g] = 0 /\ missed'[g] = 0
    BY DEF Calls, NoBatch
  <2>1. CASE g = f
    BY <1>2, <2>1 DEF Inv, Calls, At, IsOpen
  <2>2. CASE g # f
    BY <1>2, <2>2 DEF Inv, Calls, At, IsOpen
  <2>. QED BY <2>1, <2>2
<1>5. Producing'
  BY DEF Inv, Producing
<1>6. GapsReported'
  BY GapsStay DEF Inv
<1>. QED BY <1>3, <1>4, <1>5, <1>6 DEF Inv

\* A thread that goes on in the same call.
LEMMA GoesIs ==
  ASSUME NEW f \in Files, reader \in [Files -> Callers], NEW pc \in Pcs, Goes(f, pc)
  PROVE  \E r \in Callers : /\ reader' = [reader EXCEPT ![f] = r]
                            /\ r.pc = pc /\ r.call = reader[f].call
                            /\ r.want = reader[f].want /\ r.done = reader[f].done
<1>. DEFINE a == reader[f]
            r == [a EXCEPT !.pc = pc]
<1>1. a \in Callers
  OBVIOUS
<1>2. reader' = [reader EXCEPT ![f] = r]
  BY DEF Goes
<1>3. r \in Callers /\ r.pc = pc /\ r.call = a.call /\ r.want = a.want /\ r.done = a.done
  <2>. HIDE DEF a
  <2>. QED BY <1>1 DEF Callers
<1>. HIDE DEF r
<1>. QED BY <1>2, <1>3

LEMMA OutIs == Out \in Callers /\ Out.pc = "out" /\ Out.call = "none"
BY DEF Out, Callers, Pcs

\* A call that returns, and one that goes on.
LEMMA ThreadReturns ==
  ASSUME Inv, UNCHANGED <<channel, batch, told, missed, woken, driver>>,
         NEW f \in Files, NEW what, Returns(f, what), ~At(f, "copy")
  PROVE  Inv'
<1>1. woken' \in [Files -> BOOLEAN]
  BY DEF Inv, TypeOK
<1>. QED BY <1>1, OutIs, ThreadMoves DEF Returns

LEMMA ThreadGoes ==
  ASSUME Inv, UNCHANGED <<channel, batch, told, missed, driver>>, woken' \in [Files -> BOOLEAN],
         NEW f \in Files, NEW pc \in Pcs \ {"copy", "out"}, Goes(f, pc),
         ~At(f, "copy"), ~At(f, "out"), pc = "pop" => reader[f].call = "read"
  PROVE  Inv'
<1>1. reader \in [Files -> Callers]
  BY DEF Inv, TypeOK, Callers
<1>2. PICK r \in Callers : /\ reader' = [reader EXCEPT ![f] = r]
                           /\ r.pc = pc /\ r.call = reader[f].call
                           /\ r.want = reader[f].want /\ r.done = reader[f].done
  BY <1>1, GoesIs
<1>3. IsOpen(f) /\ (r.call = "read" => r.done < r.want)
  BY <1>2 DEF Inv, Calls
<1>. QED BY <1>2, <1>3, ThreadMoves

LEMMA ReadsKeeps ==
  ASSUME Inv, NEW f \in Files, NEW n \in Wants, NEW block \in BOOLEAN, Reads(f, n, block)
  PROVE  Inv'
<1>. DEFINE r == [pc |-> "pop", call |-> "read", want |-> n, done |-> 0, block |-> block]
<1>1. n \in Nat /\ n > 0
  BY ChannelAssumption
<1>2. r \in Callers /\ r.pc = "pop" /\ r.call = "read" /\ r.done < r.want
  BY <1>1 DEF Callers, Pcs
<1>3. reader' = [reader EXCEPT ![f] = r] /\ ~At(f, "copy") /\ IsOpen(f)
      /\ UNCHANGED <<channel, batch, told, missed, driver>> /\ woken' = woken
  BY DEF Reads, At
<1>4. woken' \in [Files -> BOOLEAN]
  BY <1>3 DEF Inv, TypeOK
<1>. HIDE DEF r
<1>. QED BY <1>2, <1>3, <1>4, ThreadMoves

LEMMA PollsKeeps ==
  ASSUME Inv, NEW f \in Files, Polls(f)
  PROVE  Inv'
<1>. DEFINE r == [Out EXCEPT !.pc = "prepare", !.call = "poll"]
<1>2. r \in Callers /\ r.pc = "prepare" /\ r.call = "poll"
  BY DEF Callers, Pcs, Out
<1>3. reader' = [reader EXCEPT ![f] = r] /\ ~At(f, "copy") /\ IsOpen(f)
      /\ UNCHANGED <<channel, batch, told, missed, driver>> /\ woken' = woken
  BY DEF Polls, At
<1>4. woken' \in [Files -> BOOLEAN]
  BY <1>3 DEF Inv, TypeOK
<1>. HIDE DEF r
<1>. QED BY <1>2, <1>3, <1>4, ThreadMoves

LEMMA WaitsKeep ==
  ASSUME Inv, NEW f \in Files,
         Finds(f) \/ Prepares(f) \/ Looks(f) \/ Rises(f) \/ Interrupted(f)
  PROVE  Inv'
<1>. DEFINE same == UNCHANGED <<channel, batch, told, missed, driver>>
<1>1. ~At(f, "copy") /\ ~At(f, "out") /\ same
  BY DEF Finds, Prepares, Looks, Rises, Interrupted, At
<1>2. woken' \in [Files -> BOOLEAN]
  <2>1. woken \in [Files -> BOOLEAN]
    BY DEF Inv, TypeOK
  <2>2. woken' = woken \/ woken' = [woken EXCEPT ![f] = FALSE]
    BY DEF Finds, Prepares, Looks, Rises, Interrupted
  <2>. QED BY <2>1, <2>2
<1>3. CASE woken' = woken /\ \E what \in {"events", "ENODEV", "EAGAIN", "IN", "HUP", "ERESTARTSYS"} :
             Returns(f, what)
  BY <1>1, <1>3, ThreadReturns
<1>4. CASE \E pc \in {"prepare", "look", "sleep"} : Goes(f, pc)
  <2>1. PICK pc \in {"prepare", "look", "sleep"} : Goes(f, pc)
    BY <1>4
  <2>2. pc \in Pcs \ {"copy", "out"} /\ pc # "pop"
    BY DEF Pcs
  <2>. QED BY <1>1, <1>2, <2>1, <2>2, ThreadGoes
<1>5. CASE Goes(f, "pop") /\ reader[f].call = "read"
  <2>1. "pop" \in Pcs \ {"copy", "out"}
    BY DEF Pcs
  <2>. QED BY <1>1, <1>2, <1>5, <2>1, ThreadGoes
<1>6. \/ woken' = woken /\ \E what \in {"events", "ENODEV", "EAGAIN", "IN", "HUP", "ERESTARTSYS"} :
             Returns(f, what)
      \/ \E pc \in {"prepare", "look", "sleep"} : Goes(f, pc)
      \/ Goes(f, "pop") /\ reader[f].call = "read"
  <2>1. CASE Finds(f)
    BY <2>1, Zenon DEF Finds
  <2>2. CASE Prepares(f)
    BY <2>2 DEF Prepares
  <2>3. CASE Looks(f)
    BY <2>3, Zenon DEF Looks
  <2>4. CASE Rises(f)
    BY <2>4 DEF Rises
  <2>5. CASE Interrupted(f)
    BY <2>5 DEF Interrupted
  <2>. QED BY <2>1, <2>2, <2>3, <2>4, <2>5
<1>. QED BY <1>3, <1>4, <1>5, <1>6

------------------------------------------------------------------------------
\* Steps that move events.

\* An event is put on the queue of every open file.
LEMMA PostKeeps ==
  ASSUME Inv, Post, UNCHANGED <<user, woken, clock, lastEvent>>, Producing'
  PROVE  Inv'
<1>1. /\ queue \in [Files -> Seq(Nat)] /\ \A f \in Files : Len(queue[f]) <= QueueLen
      /\ lost \in [Files -> Nat] /\ posted \in Nat
  BY DEF Inv, TypeOK
<1>2. /\ posted' = posted + 1
      /\ queue' = [f \in Files |-> IF IsOpen(f) THEN Queued(queue[f], posted + 1) ELSE queue[f]]
      /\ lost' = [f \in Files |-> IF IsOpen(f) THEN lost[f] + LostBy(queue[f]) ELSE lost[f]]
      /\ file' = file /\ offline' = offline
  BY DEF Post
<1>3. reader' = reader /\ batch' = batch /\ told' = told /\ missed' = missed /\ woken' = woken
      /\ clock' = clock /\ lastEvent' = lastEvent
  BY DEF user
<1>4. ASSUME NEW f \in Files, IsOpen(f)
      PROVE  /\ queue'[f] \in Seq(Nat) /\ Len(queue'[f]) <= QueueLen
             /\ LostBy(queue[f]) \in Nat /\ lost'[f] = lost[f] + LostBy(queue[f])
             /\ Len(queue'[f]) = Len(queue[f]) + 1 - LostBy(queue[f])
             /\ \A i \in 1..(Len(queue[f]) - LostBy(queue[f])) : queue'[f][i] = queue[f][i + LostBy(queue[f])]
             /\ queue'[f][Len(queue[f]) + 1 - LostBy(queue[f])] = posted + 1
  <2>1. queue[f] \in Seq(Nat) /\ Len(queue[f]) <= QueueLen /\ posted + 1 \in Nat
    BY <1>1
  <2>2. queue'[f] = Queued(queue[f], posted + 1)
    BY <1>2, <1>4
  <2>. QED BY <1>2, <1>4, <2>1, <2>2, QueuedIs
<1>5. ASSUME NEW f \in Files, ~IsOpen(f)
      PROVE  queue'[f] = queue[f] /\ lost'[f] = lost[f]
  BY <1>2, <1>5
<1>6. TypeOK'
  <2>1. \A f \in Files : queue'[f] \in Seq(Nat) /\ Len(queue'[f]) <= QueueLen /\ lost'[f] \in Nat
    BY <1>1, <1>4, <1>5
  <2>2. queue' \in [Files -> Seq(Nat)] /\ lost' \in [Files -> Nat]
    <3>1. DOMAIN queue' = Files /\ DOMAIN lost' = Files
      BY <1>2
    <3>. QED BY <1>2, <2>1
  <2>3. \A f \in Files : At(f, "copy")' => reader'[f].done + Records(batch'[f]) <= reader'[f].want
    BY <1>3 DEF Inv, TypeOK, At, Records
  <2>. QED BY <1>2, <1>3, <2>1, <2>2, <2>3 DEF Inv, TypeOK
<1>7. Calls'
  BY <1>2, <1>3, <1>5 DEF Inv, Calls, At, IsOpen, NoBatch
<1>8. GapsReported'
  <2>. SUFFICES ASSUME NEW f \in Files, IsOpen(f)
                PROVE  InOrder(f)'
    BY <1>2 DEF GapsReported, IsOpen
  <2>. DEFINE q == queue[f]
              k == LostBy(q)
              P == Passed(f)
  <2>1. InOrder(f)
    BY DEF Inv, GapsReported
  <2>2. Passed(f)' = P + k /\ Behind(f)' = Behind(f)
    <3>1. /\ lost[f] \in Nat /\ k \in Nat /\ lost'[f] = lost[f] + k
          /\ Behind(f) \in Nat /\ Counts(batch[f]) \in Nat
      <4>1. lost[f] \in Nat /\ k \in Nat /\ lost'[f] = lost[f] + k
        BY <1>4 DEF Inv, TypeOK
      <4>2. told[f] \in Nat /\ missed[f] \in Nat
        BY DEF Inv, TypeOK
      <4>3. batch[f].lost \in Nat /\ Len(batch[f].events) \in Nat
        BY DEF Inv, TypeOK, Batches
      <4>4. Behind(f) \in Nat
        BY <4>2 DEF Behind
      <4>5. Counts(batch[f]) \in Nat
        BY <4>3 DEF Counts
      <4>. QED BY <4>1, <4>4, <4>5
    <3>2. Behind(f)' = Behind(f) /\ Counts(batch'[f]) = Counts(batch[f])
      BY <1>3 DEF Behind, Counts
    <3>. HIDE DEF k
    <3>. QED BY <3>1, <3>2 DEF Passed
  <2>3. P \in Nat /\ Len(q) \in Nat /\ k \in Nat
    <3>1. told[f] \in Nat /\ missed[f] \in Nat /\ lost[f] \in Nat /\ q \in Seq(Nat)
      BY DEF Inv, TypeOK
    <3>2. batch[f].lost \in Nat /\ Len(batch[f].events) \in Nat
      BY DEF Inv, TypeOK, Batches
    <3>3. k \in Nat
      BY <1>4
    <3>4. P \in Nat
      <4>1. Behind(f) \in Nat
        BY <3>1 DEF Behind
      <4>2. Counts(batch[f]) \in Nat
        BY <3>2 DEF Counts
      <4>. QED BY <3>1, <4>1, <4>2 DEF Passed
    <3>. QED BY <3>1, <3>3, <3>4
  <2>4. posted = P + Len(q) /\ \A i \in 1..Len(q) : q[i] = P + i
    BY <1>1, <2>1 DEF InOrder
  <2>5. /\ Len(queue'[f]) = Len(q) + 1 - k
        /\ \A i \in 1..(Len(q) - k) : queue'[f][i] = q[i + k]
        /\ queue'[f][Len(q) + 1 - k] = posted + 1
        /\ queue'[f] \in Seq(Nat)
    BY <1>4
  <2>. HIDE DEF k, P, q
  <2>6. \A i \in 1..Len(queue'[f]) : queue'[f][i] = P + k + i
    <3>. SUFFICES ASSUME NEW i \in 1..(Len(q) + 1 - k)
                  PROVE  queue'[f][i] = P + k + i
      BY <2>5
    <3>1. CASE i = Len(q) + 1 - k
      BY <2>3, <2>4, <2>5, <3>1
    <3>2. CASE i < Len(q) + 1 - k
      <4>1. i \in 1..(Len(q) - k) /\ i + k \in 1..Len(q)
        BY <2>3, <3>2
      <4>. QED BY <2>3, <2>4, <2>5, <4>1
    <3>. QED BY <2>3, <3>1, <3>2
  <2>7. posted' = (P + k) + Len(queue'[f])
    BY <1>2, <2>3, <2>4, <2>5
  <2>8. \A i \in DOMAIN batch'[f].events : batch'[f].events[i] = Behind(f) + batch'[f].lost + i
    BY <1>3, <2>1 DEF InOrder
  <2>. QED BY <2>2, <2>5, <2>6, <2>7, <2>8 DEF InOrder
<1>. QED BY <1>6, <1>7, <1>8 DEF Inv

\* A file other than the one that a step is about is as it was.
LEMMA OthersStay ==
  ASSUME Inv, NEW g \in Files,
         queue'[g] = queue[g], lost'[g] = lost[g], file'[g] = file[g], posted' = posted,
         batch'[g] = batch[g], told'[g] = told[g], missed'[g] = missed[g]
  PROVE  (IsOpen(g) => InOrder(g))'
BY DEF Inv, GapsReported, InOrder, Passed, Behind, Counts, IsOpen

\* A batch leaves the queue.
LEMMA PopsKeeps ==
  ASSUME Inv, NEW f \in Files, Pops(f)
  PROVE  Inv'
<1>. DEFINE max == Min({ReadBatch, reader[f].want - reader[f].done})
            b == Popped(f, max)
            n == Len(b.events)
            q == queue[f]
<1>1. /\ queue \in [Files -> Seq(Nat)] /\ lost \in [Files -> Nat] /\ batch \in [Files -> Batches]
      /\ reader \in [Files -> Callers] /\ Len(q) <= QueueLen /\ posted \in Nat
      /\ told \in [Files -> Nat] /\ missed \in [Files -> Nat]
  BY DEF Inv, TypeOK, Batches, Callers
<1>2. /\ At(f, "pop") /\ Records(b) > 0
      /\ batch' = [batch EXCEPT ![f] = b]
      /\ queue' = [queue EXCEPT ![f] = SubSeq(@, n + 1, Len(@))]
      /\ lost' = [lost EXCEPT ![f] = @ - b.lost]
      /\ Goes(f, "copy")
      /\ UNCHANGED <<file, offline, posted, result, told, missed, woken, driver>>
  BY Zenon DEF Pops
<1>3. IsOpen(f) /\ batch[f] = NoBatch /\ reader[f].call = "read" /\ reader[f].done < reader[f].want
  BY <1>2 DEF Inv, Calls, At
<1>4. max \in Nat \ {0} /\ max <= reader[f].want - reader[f].done
  <2>. DEFINE room == reader[f].want - reader[f].done
  <2>1. ReadBatch \in Nat \ {0} /\ room \in Nat \ {0}
    BY <1>1, <1>3, ChannelAssumption DEF Callers
  <2>. HIDE DEF room
  <2>2. ReadBatch \in Int /\ room \in Int
    BY <2>1
  <2>3. Min({ReadBatch, room}) \in {ReadBatch, room} /\ Min({ReadBatch, room}) <= room
    BY <2>2, MinOfTwo
  <2>. QED BY <2>1, <2>3 DEF room
<1>5. /\ b \in Batches /\ Records(b) <= max
      /\ Records(b) > 0 => b.lost = lost[f]
      /\ Len(b.events) <= Len(queue[f])
      /\ \A i \in DOMAIN b.events : b.events[i] = queue[f][i]
  <2>1. queue[f] \in Seq(Nat) /\ lost[f] \in Nat
    BY <1>1
  <2>. HIDE DEF max
  <2>. QED BY <1>4, <2>1, PoppedIs
<1>. HIDE DEF max, b
<1>6. b.lost = lost[f] /\ n \in Nat /\ n <= Len(q) /\ Len(q) \in Nat /\ q \in Seq(Nat)
  BY <1>1, <1>2, <1>5 DEF Batches
<1>7. /\ queue'[f] \in Seq(Nat) /\ Len(queue'[f]) = Len(q) - n
      /\ \A i \in 1..(Len(q) - n) : queue'[f][i] = q[n + i]
  <2>. DEFINE len == Len(q)
  <2>1. queue'[f] = SubSeq(q, n + 1, len)
    BY <1>1, <1>2
  <2>2. n + 1 \in Int /\ len \in Int /\ \A i \in (n + 1)..len : q[i] \in Nat
    BY <1>6
  <2>. HIDE DEF n, len, q
  <2>3. /\ SubSeq(q, n + 1, len) \in Seq(Nat)
        /\ Len(SubSeq(q, n + 1, len)) = IF n + 1 <= len THEN len - (n + 1) + 1 ELSE 0
        /\ \A i \in 1..(len - (n + 1) + 1) : SubSeq(q, n + 1, len)[i] = q[n + 1 + i - 1]
    BY <2>2, SubSeqProperties
  <2>4. n \in Nat /\ len \in Nat /\ n <= len
    BY <1>6 DEF len
  <2>5. \A i \in 1..(len - n) : i \in 1..(len - (n + 1) + 1) /\ n + 1 + i - 1 = n + i
    BY <2>4
  <2>. QED BY <2>1, <2>3, <2>4, <2>5 DEF len
<1>8. PICK r \in Callers : /\ reader' = [reader EXCEPT ![f] = r]
                           /\ r.pc = "copy" /\ r.call = reader[f].call
                           /\ r.want = reader[f].want /\ r.done = reader[f].done
  <2>1. "copy" \in Pcs
    BY DEF Pcs
  <2>. QED BY <1>1, <1>2, <2>1, GoesIs
<1>9. /\ reader' \in [Files -> Callers] /\ reader'[f] = r
      /\ queue' \in [Files -> Seq(Nat)]
      /\ lost' \in [Files -> Nat] /\ lost'[f] = 0
      /\ batch' \in [Files -> Batches] /\ batch'[f] = b
  <2>1. lost[f] - b.lost = 0
    BY <1>1, <1>6
  <2>2. queue' \in [Files -> Seq(Nat)]
    <3>. DEFINE s == SubSeq(q, n + 1, Len(q))
    <3>1. queue' = [queue EXCEPT ![f] = s] /\ queue'[f] = s
      BY <1>1, <1>2
    <3>2. s \in Seq(Nat)
      BY <1>7, <3>1
    <3>. HIDE DEF s
    <3>. QED BY <1>1, <3>1, <3>2
  <2>. QED BY <1>1, <1>2, <1>5, <1>8, <2>1, <2>2
<1>10. \A g \in Files : g # f => /\ reader'[g] = reader[g] /\ queue'[g] = queue[g]
                                 /\ lost'[g] = lost[g] /\ batch'[g] = batch[g]
  BY <1>1, <1>2, <1>8
<1>11. TypeOK'
  <2>1. \A g \in Files : Len(queue'[g]) <= QueueLen
    <3>. SUFFICES ASSUME NEW g \in Files PROVE Len(queue'[g]) <= QueueLen
      OBVIOUS
    <3>1. CASE g = f
      <4>1. QueueLen \in Nat /\ Len(q) <= QueueLen
        BY <1>1, ChannelAssumption
      <4>2. Len(queue'[f]) = Len(q) - n /\ n \in Nat /\ Len(q) \in Nat
        BY <1>6, <1>7
      <4>. HIDE DEF n, q
      <4>. QED BY <3>1, <4>1, <4>2
    <3>2. CASE g # f
      BY <1>10, <3>2 DEF Inv, TypeOK
    <3>. QED BY <3>1, <3>2
  <2>2. \A g \in Files : At(g, "copy")' => reader'[g].done + Records(batch'[g]) <= reader'[g].want
    <3>. SUFFICES ASSUME NEW g \in Files, At(g, "copy")'
                  PROVE  reader'[g].done + Records(batch'[g]) <= reader'[g].want
      OBVIOUS
    <3>1. CASE g = f
      <4>1. /\ r.done \in Nat /\ r.want \in Nat /\ Records(b) <= max
            /\ max <= r.want - r.done /\ max \in Nat
        BY <1>4, <1>5, <1>8 DEF Callers
      <4>2. Records(b) \in Nat
        BY <1>5, <1>6 DEF Records, Batches
      <4>. QED BY <1>9, <3>1, <4>1, <4>2
    <3>2. CASE g # f
      BY <1>10, <3>2 DEF Inv, TypeOK, At
    <3>. QED BY <3>1, <3>2
  <2>. QED BY <1>2, <1>9, <2>1, <2>2 DEF Inv, TypeOK, Batches, Callers, driver, errors
<1>12. Calls'
  <2>. SUFFICES ASSUME NEW g \in Files
                PROVE  /\ At(g, "pop")' \/ At(g, "copy")' => reader'[g].call = "read"
                       /\ reader'[g].call = "read" => reader'[g].done < reader'[g].want
                       /\ ~At(g, "copy")' => batch'[g] = NoBatch
                       /\ ~IsOpen(g)' => At(g, "out")' /\ queue'[g] = <<>> /\ lost'[g] = 0 /\ missed'[g] = 0
    BY DEF Calls, NoBatch
  <2>1. CASE g = f
    BY <1>2, <1>3, <1>8, <1>9, <2>1 DEF At, IsOpen
  <2>2. CASE g # f
    BY <1>2, <1>10, <2>2 DEF Inv, Calls, At, IsOpen
  <2>. QED BY <2>1, <2>2
<1>13. GapsReported'
  <2>. SUFFICES ASSUME NEW g \in Files PROVE (IsOpen(g) => InOrder(g))'
    BY DEF GapsReported
  <2>1. CASE g # f
    BY <1>2, <1>10, <2>1, OthersStay
  <2>2. CASE g = f
    <3>. DEFINE B == Behind(f)
                l == lost[f]
    <3>1. InOrder(f) /\ Counts(batch[f]) = 0
      BY <1>3 DEF Inv, GapsReported, Counts, NoBatch
    <3>2. B \in Nat /\ l \in Nat /\ Behind(f)' = B
      BY <1>1, <1>2 DEF Behind
    <3>3. Passed(f) = B + l
      BY <3>1, <3>2 DEF Passed
    <3>4. Passed(f)' = B + (l + n) + 0
      BY <1>6, <1>9, <3>2 DEF Passed, Counts
    <3>5. posted' = B + l + Len(q) /\ \A i \in 1..Len(q) : q[i] = B + l + i
      BY <1>2, <1>6, <3>1, <3>3 DEF InOrder
    <3>6. DOMAIN b.events = 1..n /\ \A i \in 1..n : b.events[i] = q[i]
      BY <1>5 DEF Batches
    <3>. HIDE DEF B, l, n, q
    <3>7. \A i \in 1..n : b.events[i] = B + l + i
      BY <1>6, <3>2, <3>5, <3>6
    <3>8. \A i \in 1..(Len(q) - n) : queue'[f][i] = (B + (l + n) + 0) + i
      <4>. SUFFICES ASSUME NEW i \in 1..(Len(q) - n) PROVE queue'[f][i] = (B + (l + n) + 0) + i
        OBVIOUS
      <4>1. n + i \in 1..Len(q)
        BY <1>6
      <4>2. queue'[f][i] = B + l + (n + i)
        BY <1>7, <3>5, <4>1
      <4>. QED BY <1>6, <3>2, <4>2
    <3>9. posted' = (B + (l + n) + 0) + Len(queue'[f])
      BY <1>6, <1>7, <3>2, <3>5
    <3>10. DOMAIN queue'[f] = 1..(Len(q) - n)
      BY <1>7
    <3>11. b.lost = l
      BY <1>6 DEF l
    <3>. QED BY <1>9, <2>2, <3>2, <3>4, <3>6, <3>7, <3>8, <3>9, <3>10, <3>11 DEF InOrder
  <2>. QED BY <2>1, <2>2
<1>14. Producing'
  BY <1>2 DEF Inv, Producing, driver
<1>. QED BY <1>11, <1>12, <1>13, <1>14 DEF Inv

LEMMA BatchCounts ==
  /\ \A b \in Batches : Counts(b) \in Nat /\ Records(b) \in Nat
  /\ Counts(NoBatch) = 0
<1>1. ASSUME NEW b \in Batches PROVE Counts(b) \in Nat /\ Records(b) \in Nat
  <2>1. b.lost \in Nat /\ b.events \in Seq(Nat)
    BY DEF Batches
  <2>2. Len(b.events) \in Nat
    BY <2>1
  <2>. DEFINE l == b.lost
              n == Len(b.events)
  <2>3. Counts(b) = l + n /\ Records(b) = n + (IF l > 0 THEN 1 ELSE 0)
    BY DEF Counts, Records
  <2>4. l \in Nat /\ n \in Nat
    BY <2>1, <2>2
  <2>. HIDE DEF l, n
  <2>. QED BY <2>3, <2>4
<1>2. Counts(NoBatch) = 0
  BY DEF Counts, NoBatch
<1>. QED BY <1>1, <1>2

\* A batch reaches the user, or is gone with a copy that faults: `d` is what
\* the reader was given by it and `m` what it missed.
LEMMA BatchLeaves ==
  ASSUME Inv, NEW f \in Files, At(f, "copy"), NEW r \in Callers,
         NEW d \in Nat, NEW m \in Nat, d + m = Counts(batch[f]),
         told' = [told EXCEPT ![f] = told[f] + d], missed' = [missed EXCEPT ![f] = missed[f] + m],
         batch' = [batch EXCEPT ![f] = NoBatch], reader' = [reader EXCEPT ![f] = r],
         r.pc \in {"pop", "out"}, r.pc = "pop" => r.call = "read",
         r.call = "read" => r.done < r.want,
         UNCHANGED <<channel, woken, driver>>
  PROVE  Inv'
<1>1. /\ batch \in [Files -> Batches] /\ reader \in [Files -> Callers]
      /\ told \in [Files -> Nat] /\ missed \in [Files -> Nat] /\ NoBatch \in Batches
  BY SMTT(30) DEF Inv, TypeOK, Batches, Callers, NoBatch
<1>2. /\ batch' \in [Files -> Batches] /\ reader' \in [Files -> Callers]
      /\ told' \in [Files -> Nat] /\ missed' \in [Files -> Nat]
      /\ batch'[f] = NoBatch /\ reader'[f] = r
      /\ told'[f] = told[f] + d /\ missed'[f] = missed[f] + m
  BY <1>1
<1>3. \A g \in Files : g # f => /\ reader'[g] = reader[g] /\ batch'[g] = batch[g]
                                /\ told'[g] = told[g] /\ missed'[g] = missed[g]
  BY <1>1
<1>4. /\ queue' = queue /\ lost' = lost /\ file' = file /\ offline' = offline /\ posted' = posted
      /\ woken' = woken /\ producer' = producer /\ clock' = clock /\ lastEvent' = lastEvent
  BY DEF channel, driver, errors
<1>5. IsOpen(f)
  BY DEF Inv, Calls, At
<1>6. TypeOK'
  <2>1. \A g \in Files : At(g, "copy")' => g # f /\ At(g, "copy")
    BY <1>2, <1>3 DEF At
  <2>2. \A g \in Files : At(g, "copy")' => reader'[g].done + Records(batch'[g]) <= reader'[g].want
    BY <1>3, <2>1 DEF Inv, TypeOK
  <2>. QED BY <1>2, <1>4, <2>2 DEF Inv, TypeOK, Batches, Callers
<1>7. Calls'
  <2>. SUFFICES ASSUME NEW g \in Files
                PROVE  /\ At(g, "pop")' \/ At(g, "copy")' => reader'[g].call = "read"
                       /\ reader'[g].call = "read" => reader'[g].done < reader'[g].want
                       /\ ~At(g, "copy")' => batch'[g] = NoBatch
                       /\ ~IsOpen(g)' => At(g, "out")' /\ queue'[g] = <<>> /\ lost'[g] = 0 /\ missed'[g] = 0
    BY DEF Calls, NoBatch
  <2>1. CASE g = f
    BY <1>2, <1>4, <1>5, <2>1 DEF At, IsOpen
  <2>2. CASE g # f
    BY <1>3, <1>4, <2>2 DEF Inv, Calls, At, IsOpen
  <2>. QED BY <2>1, <2>2
<1>8. GapsReported'
  <2>. SUFFICES ASSUME NEW g \in Files PROVE (IsOpen(g) => InOrder(g))'
    BY DEF GapsReported
  <2>1. CASE g # f
    BY <1>3, <1>4, <2>1, OthersStay
  <2>2. CASE g = f
    <3>1. InOrder(f)
      BY <1>5 DEF Inv, GapsReported
    <3>2. Counts(batch[f]) \in Nat /\ Counts(batch'[f]) = 0 /\ lost[f] \in Nat
      <4>1. batch[f] \in Batches /\ batch'[f] = NoBatch /\ lost[f] \in Nat
        BY <1>1, <1>2 DEF Inv, TypeOK
      <4>. QED BY <4>1, BatchCounts
    <3>3. Behind(f) \in Nat /\ Behind(f)' = Behind(f) + Counts(batch[f])
      BY <1>1, <1>2 DEF Behind
    <3>4. Passed(f)' = Passed(f)
      BY <1>4, <3>2, <3>3 DEF Passed
    <3>5. DOMAIN batch'[f].events = {}
      BY <1>2 DEF NoBatch
    <3>. QED BY <1>4, <2>2, <3>1, <3>4, <3>5 DEF InOrder
  <2>. QED BY <2>1, <2>2
<1>9. Producing'
  BY <1>4 DEF Inv, Producing
<1>. QED BY <1>6, <1>7, <1>8, <1>9 DEF Inv

LEMMA CopyTypes ==
  ASSUME Inv, NEW f \in Files, At(f, "copy")
  PROVE  /\ Counts(batch[f]) \in Nat /\ Records(batch[f]) \in Nat
         /\ told[f] \in Nat /\ missed[f] \in Nat /\ told \in [Files -> Nat] /\ missed \in [Files -> Nat]
         /\ reader \in [Files -> Callers] /\ reader[f].call = "read"
         /\ reader[f].done \in Nat /\ reader[f].want \in Nat
<1>1. batch[f] \in Batches
  BY DEF Inv, TypeOK, Batches
<1>2. /\ told[f] \in Nat /\ missed[f] \in Nat /\ told \in [Files -> Nat] /\ missed \in [Files -> Nat]
      /\ reader \in [Files -> Callers] /\ reader[f].call = "read"
  BY DEF Inv, TypeOK, Calls, Callers
<1>3. reader[f].done \in Nat /\ reader[f].want \in Nat
  BY <1>2 DEF Callers
<1>. QED BY <1>1, <1>2, <1>3, BatchCounts

LEMMA CopiesKeeps ==
  ASSUME Inv, NEW f \in Files, Copies(f)
  PROVE  Inv'
<1>. DEFINE c == Counts(batch[f])
            e == reader[f]
            done == e.done + Records(batch[f])
<1>1. /\ At(f, "copy")
      /\ told' = [told EXCEPT ![f] = told[f] + c]
      /\ batch' = [batch EXCEPT ![f] = NoBatch]
      /\ \/ done < e.want /\ reader' = [reader EXCEPT ![f].pc = "pop", ![f].done = done]
         \/ Returns(f, "events")
      /\ UNCHANGED <<channel, woken, driver>> /\ missed' = missed
  BY DEF Copies
<1>2. /\ c \in Nat /\ done \in Nat /\ e \in Callers /\ e.call = "read" /\ reader \in [Files -> Callers]
      /\ missed[f] \in Nat /\ missed \in [Files -> Nat]
  BY <1>1, CopyTypes
<1>3. missed' = [missed EXCEPT ![f] = missed[f] + 0] /\ c + 0 = c
  BY <1>1, <1>2
<1>4. \E r \in Callers : /\ reader' = [reader EXCEPT ![f] = r] /\ r.pc \in {"pop", "out"}
                         /\ r.pc = "pop" => r.call = "read"
                         /\ r.call = "read" => r.done < r.want
  <2>1. CASE done < e.want /\ reader' = [reader EXCEPT ![f].pc = "pop", ![f].done = done]
    <3>. DEFINE r == [e EXCEPT !.pc = "pop", !.done = done]
    <3>1. reader' = [reader EXCEPT ![f] = r]
      BY <1>2, <2>1
    <3>2. "pop" \in Pcs
      BY DEF Pcs
    <3>. HIDE DEF e, done
    <3>3. r \in Callers /\ r.pc = "pop" /\ r.call = "read" /\ r.done = done /\ r.want = e.want
      BY <1>2, <3>2 DEF Callers
    <3>. HIDE DEF r
    <3>. QED BY <2>1, <3>1, <3>3
  <2>2. CASE Returns(f, "events")
    BY <2>2, OutIs DEF Returns
  <2>. QED BY <1>1, <2>1, <2>2
<1>. HIDE DEF c, done, e
<1>5. c + 0 = Counts(batch[f])
  BY <1>3 DEF c
<1>6. told' = [told EXCEPT ![f] = told[f] + c]
  BY <1>1
<1>7. PICK r \in Callers : /\ reader' = [reader EXCEPT ![f] = r] /\ r.pc \in {"pop", "out"}
                           /\ r.pc = "pop" => r.call = "read"
                           /\ r.call = "read" => r.done < r.want
  BY <1>4
<1>. QED BY <1>1, <1>2, <1>3, <1>5, <1>6, <1>7, BatchLeaves

LEMMA FaultsKeeps ==
  ASSUME Inv, NEW f \in Files, Faults(f)
  PROVE  Inv'
<1>. DEFINE c == Counts(batch[f])
<1>1. /\ At(f, "copy")
      /\ missed' = [missed EXCEPT ![f] = missed[f] + c]
      /\ batch' = [batch EXCEPT ![f] = NoBatch]
      /\ reader' = [reader EXCEPT ![f] = Out]
      /\ UNCHANGED <<channel, woken, driver>> /\ told' = told
  BY DEF Faults, Returns
<1>2. c \in Nat /\ told[f] \in Nat /\ told \in [Files -> Nat]
  BY <1>1, CopyTypes
<1>3. told' = [told EXCEPT ![f] = told[f] + 0] /\ 0 + c = Counts(batch[f])
  BY <1>1, <1>2
<1>. HIDE DEF c
<1>. QED BY <1>1, <1>2, <1>3, OutIs, BatchLeaves

\* A file that is opened has nothing yet, and counts from the last event.
LEMMA OpenKeeps ==
  ASSUME Inv, NEW f \in Files, Open(f)
  PROVE  Inv'
<1>1. /\ file \in [Files -> {"new", "open", "closed"}] /\ told \in [Files -> Nat]
      /\ posted \in Nat /\ missed \in [Files -> Nat]
  BY DEF Inv, TypeOK
<1>2. /\ file' = [file EXCEPT ![f] = "open"] /\ told' = [told EXCEPT ![f] = posted]
      /\ UNCHANGED <<queue, lost, offline, posted, reader, batch, result, missed, woken, driver>>
      /\ file[f] = "new"
  BY DEF Open
<1>3. ~IsOpen(f) /\ At(f, "out") /\ queue[f] = <<>> /\ lost[f] = 0 /\ missed[f] = 0 /\ batch[f] = NoBatch
  <2>1. ~IsOpen(f)
    BY <1>2 DEF IsOpen
  <2>. QED BY <2>1 DEF Inv, Calls, At
<1>4. /\ file' \in [Files -> {"new", "open", "closed"}] /\ told' \in [Files -> Nat]
      /\ file'[f] = "open" /\ told'[f] = posted
      /\ \A g \in Files : g # f => file'[g] = file[g] /\ told'[g] = told[g]
  BY <1>1, <1>2
<1>5. TypeOK'
  BY <1>2, <1>4 DEF Inv, TypeOK, At, driver, errors, Records
<1>6. Calls'
  <2>1. \A g \in Files : ~IsOpen(g)' => ~IsOpen(g)
    BY <1>4 DEF IsOpen
  <2>. QED BY <1>2, <2>1 DEF Inv, Calls, At, NoBatch
<1>7. GapsReported'
  <2>. SUFFICES ASSUME NEW g \in Files PROVE (IsOpen(g) => InOrder(g))'
    BY DEF GapsReported
  <2>1. CASE g # f
    BY <1>2, <1>4, <2>1, OthersStay
  <2>2. CASE g = f
    <3>1. Counts(batch'[f]) = 0 /\ DOMAIN batch'[f].events = {}
      BY <1>2, <1>3, BatchCounts DEF NoBatch
    <3>2. Behind(f)' = posted
      BY <1>1, <1>2, <1>3, <1>4 DEF Behind
    <3>3. Passed(f)' = posted
      BY <1>1, <1>2, <1>3, <3>1, <3>2 DEF Passed
    <3>4. Len(queue'[f]) = 0 /\ DOMAIN queue'[f] = {} /\ posted' = posted
      BY <1>2, <1>3
    <3>. QED BY <1>1, <2>2, <3>1, <3>3, <3>4 DEF InOrder
  <2>. QED BY <2>1, <2>2
<1>8. Producing'
  BY <1>2 DEF Inv, Producing, driver
<1>. QED BY <1>5, <1>6, <1>7, <1>8 DEF Inv

LEMMA CloseKeeps ==
  ASSUME Inv, NEW f \in Files, Close(f)
  PROVE  Inv'
<1>1. /\ file \in [Files -> {"new", "open", "closed"}] /\ told \in [Files -> Nat]
      /\ missed \in [Files -> Nat] /\ lost \in [Files -> Nat] /\ queue \in [Files -> Seq(Nat)]
  BY DEF Inv, TypeOK
<1>2. /\ file' = [file EXCEPT ![f] = "closed"]
      /\ queue' = [queue EXCEPT ![f] = <<>>] /\ lost' = [lost EXCEPT ![f] = 0]
      /\ told' = [told EXCEPT ![f] = 0] /\ missed' = [missed EXCEPT ![f] = 0]
      /\ UNCHANGED <<offline, posted, reader, batch, woken, driver>> /\ At(f, "out")
  BY DEF Close
<1>3. /\ file' \in [Files -> {"new", "open", "closed"}] /\ told' \in [Files -> Nat]
      /\ missed' \in [Files -> Nat] /\ lost' \in [Files -> Nat] /\ queue' \in [Files -> Seq(Nat)]
      /\ file'[f] = "closed" /\ queue'[f] = <<>> /\ lost'[f] = 0 /\ missed'[f] = 0
      /\ \A g \in Files : g # f =>
           /\ file'[g] = file[g] /\ told'[g] = told[g] /\ missed'[g] = missed[g]
           /\ lost'[g] = lost[g] /\ queue'[g] = queue[g]
  BY <1>1, <1>2
<1>4. TypeOK'
  <2>1. \A g \in Files : Len(queue'[g]) <= QueueLen
    <3>. SUFFICES ASSUME NEW g \in Files PROVE Len(queue'[g]) <= QueueLen
      OBVIOUS
    <3>1. CASE g = f
      BY <1>3, <3>1, ChannelAssumption
    <3>2. CASE g # f
      BY <1>3, <3>2 DEF Inv, TypeOK
    <3>. QED BY <3>1, <3>2
  <2>. QED BY <1>2, <1>3, <2>1 DEF Inv, TypeOK, At, driver, errors, Records
<1>5. Calls'
  <2>. SUFFICES ASSUME NEW g \in Files
                PROVE  /\ At(g, "pop")' \/ At(g, "copy")' => reader'[g].call = "read"
                       /\ reader'[g].call = "read" => reader'[g].done < reader'[g].want
                       /\ ~At(g, "copy")' => batch'[g] = NoBatch
                       /\ ~IsOpen(g)' => At(g, "out")' /\ queue'[g] = <<>> /\ lost'[g] = 0 /\ missed'[g] = 0
    BY DEF Calls, NoBatch
  <2>1. CASE g = f
    BY <1>2, <1>3, <2>1 DEF Inv, Calls, At
  <2>2. CASE g # f
    BY <1>2, <1>3, <2>2 DEF Inv, Calls, At, IsOpen
  <2>. QED BY <2>1, <2>2
<1>6. GapsReported'
  <2>. SUFFICES ASSUME NEW g \in Files PROVE (IsOpen(g) => InOrder(g))'
    BY DEF GapsReported
  <2>1. CASE g # f
    BY <1>2, <1>3, <2>1, OthersStay
  <2>2. CASE g = f
    BY <1>3, <2>2 DEF IsOpen
  <2>. QED BY <2>1, <2>2
<1>7. Producing'
  BY <1>2 DEF Inv, Producing, driver
<1>. QED BY <1>4, <1>5, <1>6, <1>7 DEF Inv

------------------------------------------------------------------------------
\* Steps that leave the queues and the readers alone.

LEMMA DriverKeeps ==
  ASSUME Inv, UNCHANGED <<queue, lost, file, posted, user>>, offline' \in BOOLEAN,
         woken' \in [Files -> BOOLEAN], clock' \in Nat, lastEvent' \in Nat, Producing'
  PROVE  Inv'
<1>1. TypeOK'
  BY DEF Inv, TypeOK, At, user, Records
<1>2. Calls'
  BY DEF Inv, Calls, At, IsOpen, user, NoBatch
<1>3. GapsReported'
  BY GapsStay DEF Inv, user
<1>. QED BY <1>1, <1>2, <1>3 DEF Inv

LEMMA IdleIs == Idle \in [pc : {"idle", "read", "swap", "post", "wake"}, now : Nat, last : Nat]
BY DEF Idle

\* A producer that is given a typed state.
LEMMA ProducesTyped ==
  ASSUME Producing, NEW p \in Producers,
         NEW x \in [pc : {"idle", "read", "swap", "post", "wake"}, now : Nat, last : Nat],
         producer' = [producer EXCEPT ![p] = x]
  PROVE  Producing'
BY DEF Producing

LEMMA ProducesNext ==
  ASSUME Producing, NEW p \in Producers, NEW pc \in {"idle", "read", "swap", "post", "wake"},
         producer' = [producer EXCEPT ![p].pc = pc]
  PROVE  Producing'
<1>. DEFINE a == producer[p]
            x == [a EXCEPT !.pc = pc]
            T == [pc : {"idle", "read", "swap", "post", "wake"}, now : Nat, last : Nat]
<1>1. a \in T /\ producer' = [producer EXCEPT ![p] = x]
  BY DEF Producing
<1>2. x \in T
  <2>. HIDE DEF a
  <2>. QED BY <1>1
<1>. HIDE DEF x
<1>. QED BY <1>1, <1>2, ProducesTyped

LEMMA ProducerKeeps ==
  ASSUME Inv, NEW p \in Producers,
         Posts(p) \/ CountsError(p) \/ Wakes(p) \/ ReadsLast(p) \/ SwapsLast(p) \/ PostsError(p)
  PROVE  Inv'
<1>. DEFINE T == [pc : {"idle", "read", "swap", "post", "wake"}, now : Nat, last : Nat]
<1>0. /\ Producing /\ producer[p] \in T /\ producer[p].now \in Nat
      /\ clock \in Nat /\ lastEvent \in Nat /\ offline \in BOOLEAN /\ woken \in [Files -> BOOLEAN]
  BY DEF Inv, Producing, TypeOK
<1>1. CASE Posts(p)
  <2>1. Producing'
    BY <1>0, <1>1, ProducesNext DEF Posts
  <2>. QED BY <1>1, <2>1, PostKeeps DEF Posts, errors
<1>2. CASE CountsError(p)
  <2>. DEFINE x == [pc |-> "read", now |-> clock, last |-> 0]
  <2>1. x \in T /\ producer' = [producer EXCEPT ![p] = x]
    BY <1>0, <1>2 DEF CountsError
  <2>. HIDE DEF x
  <2>2. Producing'
    BY <1>0, <2>1, ProducesTyped
  <2>. QED BY <1>0, <1>2, <2>2, DriverKeeps DEF CountsError, channel, errors
<1>3. CASE Wakes(p)
  <2>1. Producing'
    BY <1>0, <1>3, IdleIs, ProducesTyped DEF Wakes
  <2>2. woken' \in [Files -> BOOLEAN]
    BY <1>3 DEF Wakes, WakeUp
  <2>. QED BY <1>0, <1>3, <2>1, <2>2, DriverKeeps DEF Wakes, channel, errors
<1>4. CASE ReadsLast(p)
  <2>. DEFINE x == [pc |-> "swap", now |-> producer[p].now, last |-> lastEvent]
  <2>1. x \in T
    BY <1>0
  <2>2. producer' = [producer EXCEPT ![p] = Idle] \/ producer' = [producer EXCEPT ![p] = x]
    BY <1>4, Zenon DEF ReadsLast
  <2>. HIDE DEF x
  <2>3. Producing'
    BY <1>0, <2>1, <2>2, IdleIs, ProducesTyped
  <2>. QED BY <1>0, <1>4, <2>3, DriverKeeps DEF ReadsLast, channel, errors
<1>5. CASE SwapsLast(p)
  <2>1. \/ producer' = [producer EXCEPT ![p].pc = "post"] /\ lastEvent' = producer[p].now
        \/ producer' = [producer EXCEPT ![p] = Idle] /\ lastEvent' = lastEvent
    BY <1>5, Zenon DEF SwapsLast
  <2>2. Producing' /\ lastEvent' \in Nat
    BY <1>0, <2>1, IdleIs, ProducesTyped, ProducesNext
  <2>. QED BY <1>0, <1>5, <2>2, DriverKeeps DEF SwapsLast, channel
<1>6. CASE PostsError(p)
  <2>1. Producing'
    BY <1>0, <1>6, ProducesNext DEF PostsError
  <2>. QED BY <1>6, <2>1, PostKeeps DEF PostsError
<1>. QED BY <1>1, <1>2, <1>3, <1>4, <1>5, <1>6

LEMMA RemovalKeeps ==
  ASSUME Inv, Removal \/ Tick
  PROVE  Inv'
<1>0. /\ Producing /\ clock \in Nat /\ lastEvent \in Nat /\ offline \in BOOLEAN
      /\ woken \in [Files -> BOOLEAN]
  BY DEF Inv, TypeOK
<1>1. CASE RemovalPosts
  <2>1. Producing'
    BY <1>0, <1>1 DEF RemovalPosts, Producing
  <2>. QED BY <1>1, <2>1, PostKeeps DEF RemovalPosts, errors
<1>2. CASE RemovalWakes \/ RemovalWakesAll
  <2>1. UNCHANGED <<queue, lost, file, posted, user, offline, producer, lastEvent, clock>>
    BY <1>2 DEF RemovalWakes, RemovalWakesAll, channel, errors
  <2>2. woken' \in [Files -> BOOLEAN]
    BY <1>2 DEF RemovalWakes, RemovalWakesAll, WakeUp
  <2>3. Producing'
    BY <1>0, <2>1 DEF Producing
  <2>. QED BY <1>0, <2>1, <2>2, <2>3, DriverKeeps
<1>3. CASE RemovalFlags
  <2>1. Producing'
    BY <1>0, <1>3 DEF RemovalFlags, Producing
  <2>. QED BY <1>0, <1>3, <2>1, DriverKeeps DEF RemovalFlags, errors
<1>4. CASE RemovalStops
  <2>1. Producing'
    BY <1>0, <1>4 DEF RemovalStops, Producing
  <2>. QED BY <1>0, <1>4, <2>1, DriverKeeps DEF RemovalStops, channel, errors
<1>5. CASE Tick
  <2>1. Producing'
    BY <1>0, <1>5 DEF Tick, Producing
  <2>. QED BY <1>0, <1>5, <2>1, DriverKeeps DEF Tick, channel
<1>. QED BY <1>1, <1>2, <1>3, <1>4, <1>5 DEF Removal

------------------------------------------------------------------------------
LEMMA InitInv == Init => Inv
<1>. SUFFICES ASSUME Init PROVE Inv
  OBVIOUS
<1>1. TypeOK
  <2>1. /\ queue \in [Files -> Seq(Nat)] /\ \A f \in Files : Len(queue[f]) <= QueueLen
        /\ lost \in [Files -> Nat] /\ told \in [Files -> Nat] /\ missed \in [Files -> Nat]
    BY ChannelAssumption DEF Init
  <2>2. file \in [Files -> {"new", "open", "closed"}] /\ offline \in BOOLEAN /\ woken \in [Files -> BOOLEAN]
    BY DEF Init
  <2>3. reader \in [Files -> Callers] /\ \A f \in Files : ~At(f, "copy")
    BY OutIs DEF Init, At
  <2>4. batch \in [Files -> Batches]
    BY DEF Init, NoBatch, Batches
  <2>5. posted \in Nat /\ clock \in Nat /\ lastEvent \in Nat
    BY DEF Init
  <2>. QED BY <2>1, <2>2, <2>3, <2>4, <2>5 DEF TypeOK, Callers, Batches
<1>2. Calls
  BY DEF Init, Calls, At, Out, IsOpen
<1>3. Producing
  BY IdleIs DEF Init, Producing
<1>4. GapsReported
  BY DEF Init, GapsReported, IsOpen
<1>. QED BY <1>1, <1>2, <1>3, <1>4 DEF Inv

LEMMA NextInv ==
  ASSUME Inv, [Next]_vars
  PROVE  Inv'
<1>1. CASE UNCHANGED vars
  <2>1. Inv /\ woken \in [Files -> BOOLEAN] /\ clock \in Nat /\ lastEvent \in Nat /\ offline \in BOOLEAN
    BY DEF Inv, TypeOK
  <2>2. Producing'
    BY <1>1 DEF Inv, Producing, vars, driver
  <2>. QED BY <1>1, <2>1, <2>2, DriverKeeps DEF vars, channel, driver, errors
<1>2. ASSUME NEW p \in Producers, Posts(p) \/ CountsError(p) \/ Works(p)
      PROVE  Inv'
  BY <1>2, ProducerKeeps DEF Works
<1>3. CASE Removal \/ Tick
  BY <1>3, RemovalKeeps
<1>4. ASSUME NEW f \in Files,
             \/ Open(f) \/ Close(f) \/ Polls(f) \/ Runs(f) \/ Faults(f) \/ Interrupted(f)
             \/ \E n \in Wants, block \in BOOLEAN : Reads(f, n, block)
      PROVE  Inv'
  BY <1>4, OpenKeeps, CloseKeeps, PollsKeeps, PopsKeeps, CopiesKeeps, FaultsKeeps, WaitsKeep,
     ReadsKeeps DEF Runs
<1>. QED BY <1>1, <1>2, <1>3, <1>4 DEF Next

LEMMA AlwaysInv == Spec => []Inv
<1>1. Init => Inv
  BY InitInv
<1>2. Inv /\ [Next]_vars => Inv'
  BY NextInv
<1>. QED BY <1>1, <1>2, PTL DEF Spec

\* Type correctness: no queue is longer than its ring, and a batch with the
\* record of what was lost before it never exceeds the room the user's buffer
\* has left, whatever is posted between the batches of a read.
THEOREM TypeCorrect == Spec => []TypeOK
<1>1. Inv => TypeOK
  BY DEF Inv
<1>. QED BY <1>1, AlwaysInv, PTL

\* Every gap in what a reader gets is announced in front of the event behind it:
\* given, announced, in a batch or queued, no posted event is unaccounted for.
THEOREM NoGapUnreported == Spec => []GapsReported
<1>1. Inv => GapsReported
  BY DEF Inv
<1>. QED BY <1>1, AlwaysInv, PTL
------------------------------------------------------------------------------
\* What the end of the device is known from.

\* Lost events are counted only while there is an event to announce them in
\* front of: an empty queue has nothing left to tell.
Announced == \A f \in Files : queue[f] = <<>> => lost[f] = 0

Results == {"none", "events", "ENODEV", "EAGAIN", "EFAULT", "IN", "HUP", "ERESTARTSYS"}
Ends ==
  /\ result \in [Files -> Results]
  /\ offlineNo \in Nat /\ offlineNo <= posted
  /\ removal = "no" <=> offlineNo = 0
  /\ offline => offlineNo # 0
  /\ \A f \in Files : ~IsOpen(f) => result[f] = "none"
  /\ GoneOnlyWhenDrained

LEMMA PostAnnounces ==
  ASSUME Inv, Announced, Post
  PROVE  Announced'
<1>. SUFFICES ASSUME NEW f \in Files, queue'[f] = <<>> PROVE lost'[f] = 0
  BY DEF Announced
<1>1. queue[f] \in Seq(Nat) /\ Len(queue[f]) <= QueueLen /\ posted + 1 \in Nat
  BY DEF Inv, TypeOK
<1>2. CASE IsOpen(f)
  <2>1. Len(queue'[f]) = Len(queue[f]) + 1 - LostBy(queue[f])
    <3>1. queue'[f] = Queued(queue[f], posted + 1)
      BY <1>2 DEF Post
    <3>. QED BY <1>1, <3>1, QueuedIs
  <2>2. LostBy(queue[f]) = IF Len(queue[f]) = QueueLen THEN 1 ELSE 0
    BY DEF LostBy
  <2>3. Len(queue'[f]) > 0
    BY <1>1, <2>1, <2>2, ChannelAssumption
  <2>. QED BY <2>3
<1>3. CASE ~IsOpen(f)
  BY <1>3 DEF Post, Announced
<1>. QED BY <1>2, <1>3

\* A batch announces all that was lost before it.
LEMMA PopAnnounces ==
  ASSUME Inv, Announced, NEW f \in Files, Pops(f)
  PROVE  Announced'
<1>. DEFINE room == reader[f].want - reader[f].done
            max == Min({ReadBatch, room})
            b == Popped(f, max)
<1>1. /\ At(f, "pop") /\ Records(b) > 0
      /\ queue' = [queue EXCEPT ![f] = SubSeq(@, Len(b.events) + 1, Len(@))]
      /\ lost' = [lost EXCEPT ![f] = @ - b.lost]
  BY Zenon DEF Pops
<1>2. /\ queue \in [Files -> Seq(Nat)] /\ lost \in [Files -> Nat]
      /\ reader \in [Files -> Callers]
  BY DEF Inv, TypeOK, Callers
<1>3. ReadBatch \in Nat \ {0} /\ room \in Nat \ {0}
  <2>1. reader[f].call = "read" /\ reader[f].done < reader[f].want
    BY <1>1 DEF Inv, Calls
  <2>. QED BY <1>2, <2>1, ChannelAssumption DEF Callers
<1>4. max \in Nat \ {0}
  <2>. HIDE DEF room
  <2>1. ReadBatch \in Int /\ room \in Int
    BY <1>3
  <2>2. Min({ReadBatch, room}) \in {ReadBatch, room}
    BY <2>1, MinOfTwo
  <2>. QED BY <1>3, <2>2
<1>5. b.lost = lost[f]
  <2>1. queue[f] \in Seq(Nat) /\ lost[f] \in Nat
    BY <1>2
  <2>. HIDE DEF max
  <2>. QED BY <1>1, <1>4, <2>1, PoppedIs
<1>. HIDE DEF b
<1>6. lost'[f] = 0
  BY <1>1, <1>2, <1>5
<1>7. \A g \in Files : g # f => queue'[g] = queue[g] /\ lost'[g] = lost[g]
  BY <1>1, <1>2
<1>. QED BY <1>6, <1>7 DEF Announced

LEMMA CloseAnnounces ==
  ASSUME Inv, Announced, NEW f \in Files, Close(f)
  PROVE  Announced'
<1>1. queue \in [Files -> Seq(Nat)] /\ lost \in [Files -> Nat]
  BY DEF Inv, TypeOK
<1>. QED BY <1>1 DEF Close, Announced

LEMMA NextAnnounces ==
  ASSUME Inv, Announced, [Next]_vars
  PROVE  Announced'
<1>1. ASSUME UNCHANGED <<queue, lost>> PROVE Announced'
  BY <1>1 DEF Announced
<1>2. CASE UNCHANGED vars
  BY <1>1, <1>2 DEF vars, channel
<1>3. ASSUME NEW p \in Producers, Posts(p) \/ CountsError(p) \/ Works(p)
      PROVE  Announced'
  <2>1. Post \/ UNCHANGED <<queue, lost>>
    BY <1>3 DEF Posts, CountsError, Works, Wakes, ReadsLast, SwapsLast, PostsError, channel
  <2>. QED BY <1>1, <2>1, PostAnnounces
<1>4. CASE Removal \/ Tick
  <2>1. Post \/ UNCHANGED <<queue, lost>>
    BY <1>4 DEF Removal, RemovalPosts, RemovalWakes, RemovalFlags, RemovalWakesAll, RemovalStops,
                Tick, channel
  <2>. QED BY <1>1, <2>1, PostAnnounces
<1>5. ASSUME NEW f \in Files,
             \/ Open(f) \/ Close(f) \/ Polls(f) \/ Runs(f) \/ Faults(f) \/ Interrupted(f)
             \/ \E n \in Wants, block \in BOOLEAN : Reads(f, n, block)
      PROVE  Announced'
  <2>1. Close(f) \/ Pops(f) \/ UNCHANGED <<queue, lost>>
    BY <1>5, Zenon DEF Open, Polls, Runs, Finds, Copies, Prepares, Looks, Rises, Faults,
                       Interrupted, Reads, channel
  <2>. QED BY <1>1, <2>1, CloseAnnounces, PopAnnounces
<1>. QED BY <1>2, <1>3, <1>4, <1>5 DEF Next

\* A step of one file's thread: what it leaves as its result is the end of the
\* device only if the reader is past the event that says so.
LEMMA FileEnds ==
  ASSUME Inv, Ends, NEW f \in Files, NEW x \in Results,
         result' = [result EXCEPT ![f] = x],
         UNCHANGED <<offline, posted, removal, offlineNo>>,
         \A g \in Files : g # f => file'[g] = file[g] /\ told'[g] = told[g] /\ missed'[g] = missed[g],
         ~IsOpen(f)' => x = "none",
         x \in {"ENODEV", "HUP"} => offlineNo # 0 /\ Behind(f)' >= offlineNo
  PROVE  Ends'
<1>1. /\ result' \in [Files -> Results] /\ result'[f] = x
      /\ \A g \in Files : g # f => result'[g] = result[g]
  BY DEF Ends
<1>2. \A g \in Files : ~IsOpen(g)' => result'[g] = "none"
  BY <1>1 DEF Ends, IsOpen
<1>3. GoneOnlyWhenDrained'
  <2>1. \A g \in Files : g # f => Behind(g)' = Behind(g)
    BY DEF Behind
  <2>. QED BY <1>1, <2>1 DEF Ends, GoneOnlyWhenDrained
<1>. QED BY <1>1, <1>2, <1>3 DEF Ends
\* A reader whose queue is empty is past everything that was posted.
LEMMA EmptyIsDrained ==
  ASSUME Inv, Announced, NEW f \in Files, IsOpen(f), ~At(f, "copy"), queue[f] = <<>>
  PROVE  Behind(f) = posted
<1>1. batch[f] = NoBatch /\ lost[f] = 0 /\ InOrder(f)
  BY DEF Inv, Calls, Announced, GapsReported
<1>2. Counts(batch[f]) = 0
  BY <1>1, BatchCounts
<1>3. told[f] \in Nat /\ missed[f] \in Nat
  BY DEF Inv, TypeOK
<1>. QED BY <1>1, <1>2, <1>3 DEF InOrder, Passed, Behind

\* Steps at which a file's thread learns nothing: its result stays as it was, or
\* is none that speaks of the end.
LEMMA PlainEnds ==
  ASSUME Inv, Ends, NEW f \in Files, UNCHANGED <<offline, posted, removal, offlineNo, told, missed, file>>,
         NEW x \in Results \ {"ENODEV", "HUP"}, IsOpen(f),
         result' = result \/ result' = [result EXCEPT ![f] = x]
  PROVE  Ends'
<1>1. CASE result' = result
  BY <1>1 DEF Ends, GoneOnlyWhenDrained, Behind, IsOpen
<1>2. CASE result' = [result EXCEPT ![f] = x]
  BY <1>2, FileEnds DEF IsOpen
<1>. QED BY <1>1, <1>2

LEMMA GoneEnds ==
  ASSUME Inv, Announced, Ends, NEW f \in Files, offline, queue[f] = <<>>, IsOpen(f), ~At(f, "copy"),
         UNCHANGED <<offline, posted, removal, offlineNo, told, missed, file>>,
         NEW x \in {"ENODEV", "HUP"}, result' = [result EXCEPT ![f] = x]
  PROVE  Ends'
<1>1. Behind(f)' = posted /\ offlineNo # 0 /\ posted >= offlineNo
  <2>1. Behind(f) = posted
    BY EmptyIsDrained
  <2>2. posted \in Nat
    BY DEF Inv, TypeOK
  <2>. QED BY <2>1, <2>2 DEF Behind, Ends
<1>2. x \in Results /\ IsOpen(f)'
  BY DEF Results, IsOpen
<1>. QED BY <1>1, <1>2, FileEnds

LEMMA CallEnds ==
  ASSUME Inv, Announced, Ends, NEW f \in Files,
         \/ Polls(f) \/ Pops(f) \/ Finds(f) \/ Prepares(f) \/ Looks(f) \/ Rises(f) \/ Interrupted(f)
         \/ \E n \in Wants, block \in BOOLEAN : Reads(f, n, block)
  PROVE  Ends'
<1>1. UNCHANGED <<offline, posted, removal, offlineNo, told, missed, file>>
  BY Zenon DEF Polls, Pops, Finds, Prepares, Looks, Rises, Interrupted, Reads, channel, driver
<1>2. IsOpen(f) /\ ~At(f, "copy")
  <2>1. \/ IsOpen(f) /\ At(f, "out")
        \/ \E pc \in {"pop", "prepare", "look", "sleep"} : At(f, pc)
    BY Zenon DEF Polls, Pops, Finds, Prepares, Looks, Rises, Interrupted, Reads
  <2>. QED BY <2>1 DEF Inv, Calls, At
<1>3. \/ result' = result
      \/ \E x \in {"none", "events", "EAGAIN", "IN", "ERESTARTSYS"} : result' = [result EXCEPT ![f] = x]
      \/ \E x \in {"ENODEV", "HUP"} : /\ offline /\ queue[f] = <<>>
                                      /\ result' = [result EXCEPT ![f] = x]
  <2>1. CASE Finds(f)
    BY <2>1, Zenon DEF Finds, Returns
  <2>2. CASE Looks(f)
    BY <2>2, Zenon DEF Looks, Returns
  <2>3. CASE Pops(f)
    BY <2>3, Zenon DEF Pops
  <2>4. CASE \/ Polls(f) \/ Prepares(f) \/ Rises(f) \/ Interrupted(f)
             \/ \E n \in Wants, block \in BOOLEAN : Reads(f, n, block)
    BY <2>4, Zenon DEF Polls, Prepares, Rises, Interrupted, Reads, Returns
  <2>. QED BY <2>1, <2>2, <2>3, <2>4
<1>4. {"none", "events", "EAGAIN", "IN", "ERESTARTSYS"} \subseteq Results \ {"ENODEV", "HUP"}
  BY DEF Results
<1>5. CASE result' = result
  BY <1>1, <1>2, <1>4, <1>5, PlainEnds
<1>6. CASE \E x \in {"none", "events", "EAGAIN", "IN", "ERESTARTSYS"} : result' = [result EXCEPT ![f] = x]
  BY <1>1, <1>2, <1>4, <1>6, PlainEnds
<1>7. CASE \E x \in {"ENODEV", "HUP"} : /\ offline /\ queue[f] = <<>>
                                        /\ result' = [result EXCEPT ![f] = x]
  BY <1>1, <1>2, <1>7, GoneEnds
<1>. QED BY <1>3, <1>5, <1>6, <1>7

\* A copy, done or faulted, only takes the reader further.
LEMMA CopyEnds ==
  ASSUME Inv, Ends, NEW f \in Files, Copies(f) \/ Faults(f)
  PROVE  Ends'
<1>. DEFINE c == Counts(batch[f])
<1>1. /\ At(f, "copy")
      /\ UNCHANGED <<offline, posted, removal, offlineNo, file>>
      /\ \/ told' = [told EXCEPT ![f] = @ + c] /\ missed' = missed
         \/ missed' = [missed EXCEPT ![f] = @ + c] /\ told' = told
  BY Zenon DEF Copies, Faults, channel, driver
<1>2. result' = result \/ \E x \in {"events", "EFAULT"} : result' = [result EXCEPT ![f] = x]
  BY Zenon DEF Copies, Faults, Returns
<1>3. /\ c \in Nat /\ told \in [Files -> Nat] /\ missed \in [Files -> Nat]
      /\ result \in [Files -> Results] /\ offlineNo \in Nat
  BY <1>1, CopyTypes DEF Ends
<1>. HIDE DEF c
<1>4. /\ \A g \in Files : g # f => told'[g] = told[g] /\ missed'[g] = missed[g]
      /\ Behind(f) \in Nat /\ Behind(f)' \in Nat /\ Behind(f)' >= Behind(f)
  BY <1>1, <1>3 DEF Behind
<1>5. IsOpen(f) /\ IsOpen(f)'
  BY <1>1 DEF Inv, Calls, At, IsOpen
<1>6. CASE result' = result
  <2>. DEFINE x == result[f]
  <2>1. x \in Results /\ result' = [result EXCEPT ![f] = x]
    BY <1>3, <1>6
  <2>2. x \in {"ENODEV", "HUP"} => offlineNo # 0 /\ Behind(f)' >= offlineNo
    BY <1>3, <1>4 DEF Ends, GoneOnlyWhenDrained
  <2>. HIDE DEF x
  <2>. QED BY <1>1, <1>4, <1>5, <2>1, <2>2, FileEnds
<1>7. CASE \E x \in {"events", "EFAULT"} : result' = [result EXCEPT ![f] = x]
  <2>1. PICK x \in {"events", "EFAULT"} : result' = [result EXCEPT ![f] = x]
    BY <1>7
  <2>2. x \in Results /\ x \notin {"ENODEV", "HUP"}
    BY DEF Results
  <2>. QED BY <1>1, <1>4, <1>5, <2>1, <2>2, FileEnds
<1>. QED BY <1>2, <1>6, <1>7

LEMMA OpenCloseEnds ==
  ASSUME Inv, Ends, NEW f \in Files, Open(f) \/ Close(f)
  PROVE  Ends'
<1>1. /\ told \in [Files -> Nat] /\ missed \in [Files -> Nat] /\ result \in [Files -> Results]
      /\ file \in [Files -> {"new", "open", "closed"}]
  BY DEF Inv, TypeOK, Ends
<1>2. UNCHANGED <<offline, posted, removal, offlineNo>>
  BY DEF Open, Close, driver
<1>3. \A g \in Files : g # f => file'[g] = file[g] /\ told'[g] = told[g] /\ missed'[g] = missed[g]
  BY <1>1 DEF Open, Close
<1>4. result' = [result EXCEPT ![f] = "none"]
  <2>1. CASE Open(f)
    <3>1. result' = result /\ result[f] = "none"
      BY <2>1 DEF Open, Ends, IsOpen
    <3>. QED BY <1>1, <3>1
  <2>. QED BY <2>1 DEF Close
<1>5. "none" \in Results
  BY DEF Results
<1>. QED BY <1>2, <1>3, <1>4, <1>5, FileEnds

\* Steps of the driver: events are only added, and the removal begins with one.
LEMMA DriverEnds ==
  ASSUME Inv, Ends, UNCHANGED <<user, file>>, Post \/ UNCHANGED <<posted, offline>>,
         UNCHANGED <<removal, offlineNo>>
  PROVE  Ends'
<1>1. posted \in Nat /\ posted' \in Nat /\ posted' >= posted /\ offline' = offline
  BY DEF Inv, TypeOK, Post
<1>. QED BY <1>1 DEF Ends, GoneOnlyWhenDrained, Behind, IsOpen, user

LEMMA RemovalEnds ==
  ASSUME Inv, Ends, Removal
  PROVE  Ends'
<1>0. posted \in Nat
  BY DEF Inv, TypeOK
<1>1. CASE RemovalPosts
  <2>1. /\ removal = "no" /\ removal' = "posted" /\ offlineNo' = posted + 1 /\ posted' = posted + 1
        /\ UNCHANGED <<result, told, missed, file, offline>>
    BY <1>1 DEF RemovalPosts, Post, user
  <2>2. \A f \in Files : result[f] \notin {"ENODEV", "HUP"}
    BY <2>1 DEF Ends, GoneOnlyWhenDrained
  <2>3. offlineNo' \in Nat /\ offlineNo' <= posted' /\ offlineNo' # 0 /\ removal' # "no"
    BY <1>0, <2>1
  <2>4. /\ result' \in [Files -> Results] /\ ~offline'
        /\ \A f \in Files : ~IsOpen(f)' => result'[f] = "none"
    BY <2>1 DEF Ends, IsOpen
  <2>5. GoneOnlyWhenDrained'
    BY <2>1, <2>2 DEF GoneOnlyWhenDrained
  <2>. QED BY <2>3, <2>4, <2>5 DEF Ends
<1>2. CASE RemovalWakes \/ RemovalFlags \/ RemovalWakesAll \/ RemovalStops
  <2>1. /\ removal # "no" /\ removal' # "no"
        /\ UNCHANGED <<result, told, missed, file, posted, offlineNo>>
        /\ offline' = offline \/ offline' = TRUE
    BY <1>2 DEF RemovalWakes, RemovalFlags, RemovalWakesAll, RemovalStops, user, channel
  <2>. QED BY <2>1 DEF Ends, GoneOnlyWhenDrained, Behind, IsOpen
<1>. QED BY <1>1, <1>2 DEF Removal

LEMMA NextEnds ==
  ASSUME Inv, Announced, Ends, [Next]_vars
  PROVE  Ends'
<1>1. CASE UNCHANGED vars
  BY <1>1, DriverEnds DEF vars, user, channel, driver
<1>2. ASSUME NEW p \in Producers, Posts(p) \/ CountsError(p) \/ Works(p)
      PROVE  Ends'
  <2>1. UNCHANGED <<user, file, removal, offlineNo>> /\ (Post \/ UNCHANGED <<posted, offline>>)
    BY <1>2 DEF Posts, CountsError, Works, Wakes, ReadsLast, SwapsLast, PostsError, Post, channel
  <2>. QED BY <2>1, DriverEnds
<1>3. CASE Removal
  BY <1>3, RemovalEnds
<1>4. CASE Tick
  BY <1>4, DriverEnds DEF Tick, channel
<1>5. ASSUME NEW f \in Files,
             \/ Open(f) \/ Close(f) \/ Polls(f) \/ Runs(f) \/ Faults(f) \/ Interrupted(f)
             \/ \E n \in Wants, block \in BOOLEAN : Reads(f, n, block)
      PROVE  Ends'
  BY <1>5, OpenCloseEnds, CallEnds, CopyEnds DEF Runs
<1>. QED BY <1>1, <1>2, <1>3, <1>4, <1>5 DEF Next

\* A file learns that the device is gone only when DEVICE_OFFLINE and all that
\* was posted before it has left its queue: a read or a poll that reports the
\* end found the queue empty after the flag was set, which follows the event.
THEOREM GoneWhenDrained == Spec => []GoneOnlyWhenDrained
<1>1. Init => Announced /\ Ends
  <2>1. Init => Announced
    BY DEF Init, Announced
  <2>2. Init => Ends
    <3>1. Init => result \in [Files -> Results] /\ \A f \in Files : result[f] = "none"
      BY DEF Init, Results
    <3>2. Init => removal = "no" /\ offlineNo = 0 /\ posted = 0 /\ offline = FALSE
      BY DEF Init
    <3>. QED BY <3>1, <3>2 DEF Ends, GoneOnlyWhenDrained
  <2>. QED BY <2>1, <2>2
<1>2. Inv /\ (Announced /\ Ends) /\ [Next]_vars => (Announced /\ Ends)'
  BY NextAnnounces, NextEnds
<1>3. Ends => GoneOnlyWhenDrained
  BY DEF Ends
<1>. QED BY <1>1, <1>2, <1>3, AlwaysInv, PTL DEF Spec
=============================================================================

---------------------------- MODULE DspXactProofs ----------------------------
(***************************************************************************)
(* Proofs about DspXact, for rings of any size, an engine that reads ahead *)
(* as far as it likes, and any number of transactions and resyncs.         *)
(*                                                                         *)
(* NoTouchAfterFree follows from what a reference knows of the descriptors *)
(* the engine can still reach (Awaits): how far POSITION has to go before  *)
(* the last of them, counted from the reference's end or, once a resync    *)
(* took them back, from where it did.                                      *)
(***************************************************************************)
EXTENDS DspXact, SequenceTheorems, FiniteSetTheorems, TLAPS

\* The engine's i-th descriptor from here is one of x's.
Reaches(q, x, i) ==
  \/ i \in 1..Len(q.queue) /\ q.queue[i] = x
  \/ i \in 1..Len(q.fetched) /\ q.fetched[i] = x

\* The reference is not done before the engine is past its i-th descriptor.
Awaits(q, f, i) ==
  /\ f.on /\ f.gen <= q.gen
  /\ f.gen = q.gen => IF f.abandoned THEN Way(f.start, q.pos) + i <= f.need
                      ELSE i <= Way(q.pos, f.end) /\ Way(q.pos, f.end) <= Pending(q)

Guarded(q, f, x) == \A i \in Nat \ {0} : Reaches(q, x, i) => Awaits(q, f, i)
Unreached(q, x) == \A i \in Nat \ {0} : ~Reaches(q, x, i)

\* What the record of a transaction must be, of which the engine can still reach
\* a descriptor.
Kept(t, ph) ==
  /\ t.buf # "freed" /\ t.state \notin {"none", "mapped"}
  /\ ph # "finished" => t.state = "published"

Safe(x, t, q, ph) ==
  /\ t \in XactOf
  /\ t.detached => ph = "finished"
  /\ t.state = "mapped" => t.buf = "held"
  /\ \A r \in Rings : Guarded(q[r], t.ref[r], x)
  /\ \A r \in Rings : Unreached(q[r], x) \/ Kept(t, ph)

IInv == TypeOK /\ \A x \in Xacts : Safe(x, xact[x], ring, phase)
------------------------------------------------------------------------------
\* Ways around a ring.

LEMMA WayIs ==
  ASSUME NEW a \in Positions, NEW b \in Positions
  PROVE  /\ Way(a, b) = IF b >= a THEN b - a ELSE b - a + Cap
         /\ Way(a, b) \in Positions
BY CapAssumption DEF Way, Positions

LEMMA WayOn ==
  ASSUME NEW a \in Positions, NEW b \in Positions
  PROVE  /\ (b + 1) % Cap \in Positions
         /\ Way(a, b) < Cap - 1 => Way(a, (b + 1) % Cap) = Way(a, b) + 1
         /\ Way(b, a) >= 1 => Way((b + 1) % Cap, a) = Way(b, a) - 1
<1>1. (b + 1) % Cap = IF b + 1 = Cap THEN 0 ELSE b + 1
  BY CapAssumption DEF Positions
<1>. DEFINE c == (b + 1) % Cap
<1>2. c \in Positions
  BY <1>1, CapAssumption DEF Positions
<1>. HIDE DEF c
<1>3. /\ Way(a, b) = IF b >= a THEN b - a ELSE b - a + Cap
      /\ Way(b, a) = IF a >= b THEN a - b ELSE a - b + Cap
      /\ Way(a, c) = IF c >= a THEN c - a ELSE c - a + Cap
      /\ Way(c, a) = IF a >= c THEN a - c ELSE a - c + Cap
  BY <1>2, WayIs
<1>4. /\ Way(a, b) < Cap - 1 => Way(a, c) = Way(a, b) + 1
      /\ Way(b, a) >= 1 => Way(c, a) = Way(b, a) - 1
  BY <1>1, <1>3, CapAssumption DEF Positions, c
<1>. QED BY <1>2, <1>4 DEF c

LEMMA WayAhead ==
  ASSUME NEW a \in Positions, NEW k \in Positions
  PROVE  (a + k) % Cap \in Positions /\ Way(a, (a + k) % Cap) = k
<1>1. (a + k) % Cap = IF a + k >= Cap THEN a + k - Cap ELSE a + k
  BY CapAssumption DEF Positions
<1>. DEFINE c == (a + k) % Cap
<1>2. c \in Positions
  BY <1>1, CapAssumption DEF Positions
<1>. HIDE DEF c
<1>3. Way(a, c) = IF c >= a THEN c - a ELSE c - a + Cap
  BY <1>2, WayIs
<1>4. Way(a, c) = k
  BY <1>1, <1>3, CapAssumption DEF Positions, c
<1>. QED BY <1>2, <1>4 DEF c

------------------------------------------------------------------------------
\* What a reference still waits for is not done.

LEMMA NotDone ==
  ASSUME NEW q \in RingOf, NEW f \in RefOf, NEW i \in Nat \ {0}, NEW live \in BOOLEAN, Awaits(q, f, i)
  PROVE  ~RefDone(q, f, live)
<1>1. /\ q.pos \in Positions /\ f.start \in Positions /\ f.end \in Positions /\ Pending(q) \in Nat
      /\ f.need \in Positions
  BY DEF RingOf, RefOf, Pending
<1>2. Way(f.start, q.pos) \in Positions /\ Way(q.pos, f.end) \in Positions
  BY <1>1, WayIs
<1>3. CASE f.gen = q.gen /\ f.abandoned
  BY <1>1, <1>2, <1>3, CapAssumption DEF Awaits, RefDone, Proven, Positions
<1>4. CASE f.gen = q.gen /\ ~f.abandoned
  BY <1>1, <1>2, <1>4, CapAssumption DEF Awaits, RefDone, Passed, Positions
<1>5. CASE f.gen # q.gen
  BY <1>5 DEF Awaits, RefDone
<1>. QED BY <1>3, <1>4, <1>5

LEMMA NoRefTyped == NoRef \in RefOf
BY CapAssumption DEF NoRef, RefOf, Positions

LEMMA UnreachedGuarded ==
  ASSUME NEW q, NEW f, NEW x, Unreached(q, x)
  PROVE  Guarded(q, f, x)
BY DEF Unreached, Guarded

\* A guarded reference that is off, or done, guards nothing.
LEMMA DoneUnreached ==
  ASSUME NEW q \in RingOf, NEW f \in RefOf, NEW x, NEW live \in BOOLEAN,
         Guarded(q, f, x), RefDone(q, f, live)
  PROVE  Unreached(q, x)
BY NotDone DEF Guarded, Unreached

LEMMA SettledGuards ==
  ASSUME NEW q \in RingOf, NEW f \in RefOf, NEW x, NEW live \in BOOLEAN, Guarded(q, f, x)
  PROVE  LET g == IF RefDone(q, f, live) THEN NoRef ELSE f
         IN  g \in RefOf /\ Guarded(q, g, x) /\ (~g.on => Unreached(q, x))
<1>1. CASE RefDone(q, f, live)
  BY <1>1, DoneUnreached, UnreachedGuarded, NoRefTyped
<1>2. CASE ~RefDone(q, f, live)
  BY <1>2 DEF RefDone
<1>. QED BY <1>1, <1>2

------------------------------------------------------------------------------
\* What happens to a ring keeps its references guarded.

\* A resync: what was queued and not fetched is gone, what was fetched is not.
LEMMA ResyncTyped ==
  ASSUME NEW q \in RingOf
  PROVE  /\ Resync(q) \in RingOf /\ Resync(q).pos = q.pos /\ Resync(q).fetched = q.fetched
         /\ Len(Resync(q).queue) = 0 /\ Pending(Resync(q)) = 0
         /\ Resync(q).gen = IF q.queue = <<>> THEN q.gen ELSE q.gen + 1
<1>1. CASE q.queue = <<>>
  BY <1>1 DEF Resync, RingOf, Pending
<1>2. CASE q.queue # <<>>
  <2>. DEFINE e == <<>>
              n == q.gen + 1
              r == [q EXCEPT !.queue = e, !.gen = n]
  <2>1. e \in Seq(Slots) /\ Len(e) = 0 /\ n \in Nat
    BY EmptySeq DEF RingOf
  <2>2. Resync(q) = r
    BY <1>2 DEF Resync
  <2>. HIDE DEF e, n
  <2>3. r \in RingOf /\ r.pos = q.pos /\ r.fetched = q.fetched /\ r.queue = e /\ r.gen = n
    BY <2>1 DEF RingOf
  <2>. HIDE DEF r
  <2>4. Resync(q).gen = q.gen + 1
    BY <2>2, <2>3 DEF n
  <2>. QED BY <1>2, <2>1, <2>2, <2>3, <2>4 DEF Pending
<1>. QED BY <1>1, <1>2

LEMMA AbandonTyped ==
  ASSUME NEW q \in RingOf, NEW f \in RefOf
  PROVE  Abandon(f, q) \in RefOf
<1>1. q.pos \in Positions /\ q.gen + 1 \in Nat /\ Way(q.pos, f.end) \in Positions
  BY WayIs DEF RingOf, RefOf
<1>. DEFINE g == [f EXCEPT !.abandoned = TRUE, !.start = q.pos, !.need = Way(q.pos, f.end),
                           !.gen = q.gen + 1]
<1>2. g \in RefOf
  BY <1>1 DEF RefOf
<1>. HIDE DEF g
<1>3. Abandon(f, q) \in {f, NoRef, g}
  BY DEF Abandon, g
<1>. QED BY <1>2, <1>3, NoRefTyped

LEMMA AbandonGuards ==
  ASSUME NEW q \in RingOf, q.queue # <<>>, NEW f \in RefOf, NEW x, Guarded(q, f, x)
  PROVE  Guarded(Resync(q), Abandon(f, q), x)
<1>. SUFFICES ASSUME NEW i \in Nat \ {0}, Reaches(Resync(q), x, i)
              PROVE  Awaits(Resync(q), Abandon(f, q), i)
  BY DEF Guarded
<1>1. /\ Resync(q) \in RingOf /\ Resync(q).pos = q.pos /\ Resync(q).gen = q.gen + 1
      /\ q.gen \in Nat /\ f.gen \in Nat /\ q.pos \in Positions /\ f.end \in Positions
  BY ResyncTyped DEF RingOf, RefOf
<1>2. Reaches(q, x, i)
  BY ResyncTyped DEF Reaches
<1>3. Awaits(q, f, i)
  BY <1>2 DEF Guarded
<1>4. ~RefDone(q, f, TRUE)
  BY <1>3, NotDone
<1>5. CASE f.gen # q.gen
  BY <1>1, <1>3, <1>5 DEF Abandon, Awaits
<1>6. CASE f.gen = q.gen /\ f.abandoned
  BY <1>1, <1>3, <1>4, <1>6 DEF Abandon, Awaits, RefDone
<1>7. CASE f.gen = q.gen /\ ~f.abandoned
  <2>. DEFINE g == [f EXCEPT !.abandoned = TRUE, !.start = q.pos, !.need = Way(q.pos, f.end),
                             !.gen = q.gen + 1]
  <2>1. Abandon(f, q) = g
    BY <1>3, <1>4, <1>7 DEF Abandon, Awaits, RefDone
  <2>2. /\ g.on /\ g.gen = q.gen + 1 /\ g.abandoned /\ g.start = q.pos /\ g.need = Way(q.pos, f.end)
    BY <1>3 DEF Awaits, RefOf
  <2>. HIDE DEF g
  <2>3. Way(q.pos, q.pos) = 0 /\ i <= Way(q.pos, f.end)
    <3>1. Way(q.pos, q.pos) = IF q.pos >= q.pos THEN q.pos - q.pos ELSE q.pos - q.pos + Cap
      BY <1>1, WayIs
    <3>2. q.pos \in Int
      BY <1>1, CapAssumption DEF Positions
    <3>. QED BY <1>3, <1>7, <3>1, <3>2 DEF Awaits
  <2>. QED BY <1>1, <2>1, <2>2, <2>3 DEF Awaits
<1>. QED BY <1>5, <1>6, <1>7

\* Entries are queued.
LEMMA PutTyped ==
  ASSUME NEW q \in RingOf, NEW who \in Slots, NEW k \in Nat
  PROVE  /\ Put(q, who, k) \in RingOf /\ Put(q, who, k).pos = q.pos
         /\ Put(q, who, k).gen = q.gen /\ Put(q, who, k).fetched = q.fetched
         /\ Pending(Put(q, who, k)) = Pending(q) + k
         /\ \A i \in 1..(Pending(q) + k) :
              Put(q, who, k).queue[i] = IF i <= Pending(q) THEN q.queue[i] ELSE who
<1>. DEFINE e == [i \in 1..k |-> who]
<1>1. e \in Seq(Slots) /\ Len(e) = k /\ \A i \in 1..k : e[i] = who
  OBVIOUS
<1>2. q.queue \in Seq(Slots) /\ Len(q.queue) \in Nat
  BY DEF RingOf
<1>. HIDE DEF e
<1>3. /\ q.queue \o e \in Seq(Slots) /\ Len(q.queue \o e) = Len(q.queue) + k
      /\ \A i \in 1..(Len(q.queue) + k) :
           (q.queue \o e)[i] = IF i <= Len(q.queue) THEN q.queue[i] ELSE e[i - Len(q.queue)]
  BY <1>1, <1>2, ConcatProperties
<1>4. Put(q, who, k) = [q EXCEPT !.queue = q.queue \o e]
  BY DEF Put, e
<1>5. /\ Put(q, who, k) \in RingOf /\ Put(q, who, k).pos = q.pos
      /\ Put(q, who, k).gen = q.gen /\ Put(q, who, k).fetched = q.fetched
      /\ Put(q, who, k).queue = q.queue \o e
  BY <1>3, <1>4 DEF RingOf
<1>6. \A i \in 1..(Len(q.queue) + k) :
        (q.queue \o e)[i] = IF i <= Len(q.queue) THEN q.queue[i] ELSE who
  BY <1>1, <1>2, <1>3
<1>. QED BY <1>3, <1>5, <1>6 DEF Pending

LEMMA PutGuards ==
  ASSUME NEW q \in RingOf, NEW f \in RefOf, NEW x, NEW who \in Slots \ {x}, NEW k \in Nat, Guarded(q, f, x)
  PROVE  Guarded(Put(q, who, k), f, x)
<1>. DEFINE p == Put(q, who, k)
<1>. SUFFICES ASSUME NEW i \in Nat \ {0}, Reaches(p, x, i) PROVE Awaits(p, f, i)
  BY DEF Guarded
<1>1. /\ p.pos = q.pos /\ p.gen = q.gen /\ p.fetched = q.fetched /\ Len(p.queue) = Len(q.queue) + k
      /\ \A j \in 1..(Len(q.queue) + k) : p.queue[j] = IF j <= Len(q.queue) THEN q.queue[j] ELSE who
  BY PutTyped DEF Pending
<1>. HIDE DEF p
<1>2. Len(q.queue) \in Nat /\ q.pos \in Positions /\ f.end \in Positions
  BY DEF RingOf, RefOf
<1>3. Reaches(q, x, i)
  BY <1>1, <1>2 DEF Reaches
<1>4. Awaits(q, f, i)
  BY <1>3 DEF Guarded
<1>5. Way(q.pos, f.end) \in Positions
  BY <1>2, WayIs
<1>. QED BY <1>1, <1>2, <1>4, <1>5, CapAssumption DEF Awaits, Pending, Positions

\* The new entries' own reference ends at the write pointer.
LEMMA RefTyped ==
  ASSUME NEW q \in RingOf, Pending(q) < Cap, NEW k \in Nat
  PROVE  Ref(q, k) \in RefOf
<1>1. q.pos \in Positions /\ q.gen \in Nat /\ Pending(q) \in Positions
  BY CapAssumption DEF RingOf, Pending, Positions
<1>2. WritePtr(q) \in Positions
  BY <1>1, WayAhead DEF WritePtr
<1>. QED BY <1>1, <1>2, NoRefTyped DEF Ref, RefOf

LEMMA RefGuards ==
  ASSUME NEW q \in RingOf, NEW x \in Slots, NEW k \in Nat, Pending(q) + k < Cap, Unreached(q, x)
  PROVE  Guarded(Put(q, x, k), Ref(Put(q, x, k), k), x)
<1>. DEFINE p == Put(q, x, k)
<1>. SUFFICES ASSUME NEW i \in Nat \ {0}, Reaches(p, x, i) PROVE Awaits(p, Ref(p, k), i)
  BY DEF Guarded
<1>1. /\ p \in RingOf /\ p.pos = q.pos /\ p.gen = q.gen /\ p.fetched = q.fetched
      /\ Len(p.queue) = Len(q.queue) + k
      /\ \A j \in 1..(Len(q.queue) + k) : p.queue[j] = IF j <= Len(q.queue) THEN q.queue[j] ELSE x
  BY PutTyped DEF Pending
<1>. HIDE DEF p
<1>2. Len(q.queue) \in Nat /\ p.pos \in Positions /\ p.gen \in Nat /\ Len(p.queue) \in Positions
  BY <1>1, CapAssumption DEF RingOf, Pending, Positions
<1>3. i <= Len(p.queue) /\ k # 0
  BY <1>1, <1>2 DEF Reaches, Unreached
<1>4. Way(p.pos, WritePtr(p)) = Len(p.queue)
  BY <1>2, WayAhead DEF WritePtr, Pending
<1>5. /\ Ref(p, k).on /\ Ref(p, k).gen = p.gen /\ ~Ref(p, k).abandoned /\ Ref(p, k).end = WritePtr(p)
  BY <1>3 DEF Ref, NoRef
<1>. QED BY <1>2, <1>3, <1>4, <1>5 DEF Awaits, Pending, Positions

\* The engine reads ahead.
LEMMA FetchGuards ==
  ASSUME NEW q \in RingOf, NEW p, Len(q.fetched) < Len(q.queue),
         p = [q EXCEPT !.fetched = Append(@, q.queue[Len(@) + 1])]
  PROVE  /\ p \in RingOf /\ p.queue = q.queue /\ Len(p.fetched) = Len(q.fetched) + 1
         /\ \A x : Unreached(q, x) => Unreached(p, x)
         /\ \A x, f : Guarded(q, f, x) => Guarded(p, f, x)
<1>1. /\ q.queue \in Seq(Slots) /\ q.fetched \in Seq(Slots)
      /\ Len(q.queue) \in Nat /\ Len(q.fetched) \in Nat
  BY DEF RingOf
<1>. DEFINE e == q.queue[Len(q.fetched) + 1]
<1>2. e \in Slots
  BY <1>1, ElementOfSeq
<1>. HIDE DEF e
<1>3. /\ Append(q.fetched, e) \in Seq(Slots) /\ Len(Append(q.fetched, e)) = Len(q.fetched) + 1
      /\ \A i \in 1..Len(q.fetched) : Append(q.fetched, e)[i] = q.fetched[i]
      /\ Append(q.fetched, e)[Len(q.fetched) + 1] = e
  BY <1>1, <1>2, AppendProperties
<1>4. /\ p \in RingOf /\ p.queue = q.queue /\ p.pos = q.pos /\ p.gen = q.gen
      /\ p.fetched = Append(q.fetched, e)
  BY <1>3 DEF RingOf, e
<1>5. ASSUME NEW x, NEW i \in Nat \ {0}, Reaches(p, x, i) PROVE Reaches(q, x, i)
  <2>1. CASE i \in 1..Len(p.queue) /\ p.queue[i] = x
    BY <1>4, <2>1 DEF Reaches
  <2>2. CASE i \in 1..Len(p.fetched) /\ p.fetched[i] = x
    <3>1. CASE i <= Len(q.fetched)
      BY <1>1, <1>3, <1>4, <2>2, <3>1 DEF Reaches
    <3>2. CASE i = Len(q.fetched) + 1
      <4>1. i \in 1..Len(q.queue) /\ q.queue[i] = x
        BY <1>1, <1>3, <1>4, <2>2, <3>2 DEF e
      <4>. QED BY <4>1 DEF Reaches
    <3>. QED BY <1>1, <1>3, <1>4, <2>2, <3>1, <3>2
  <2>. QED BY <1>5, <2>1, <2>2 DEF Reaches
<1>6. \A x : Unreached(q, x) => Unreached(p, x)
  BY <1>5 DEF Unreached
<1>7. \A x, f : Guarded(q, f, x) => Guarded(p, f, x)
  BY <1>4, <1>5 DEF Guarded, Awaits, Pending
<1>. QED BY <1>3, <1>4, <1>6, <1>7

\* The engine works on the descriptor at POSITION (Consume).
Consumed(q) == [q EXCEPT !.pos = (@ + 1) % Cap, !.queue = Tail(@),
                         !.fetched = IF @ = <<>> THEN @ ELSE Tail(@)]

LEMMA ConsumeGuards ==
  ASSUME NEW q \in RingOf, NEW p, q.queue # <<>>, p = Consumed(q)
  PROVE  /\ p \in RingOf /\ Len(p.queue) = Len(q.queue) - 1 /\ Len(p.fetched) <= Len(q.fetched)
         /\ \A x : Unreached(q, x) => Unreached(p, x)
         /\ \A x : \A f \in RefOf : Guarded(q, f, x) => Guarded(p, f, x)
<1>1. /\ q.queue \in Seq(Slots) /\ q.fetched \in Seq(Slots) /\ q.gen \in Nat
      /\ Len(q.queue) \in Nat /\ Len(q.fetched) \in Nat /\ q.pos \in Positions
  BY DEF RingOf
<1>. DEFINE t == IF q.fetched = <<>> THEN q.fetched ELSE Tail(q.fetched)
<1>2. /\ Tail(q.queue) \in Seq(Slots) /\ Len(Tail(q.queue)) = Len(q.queue) - 1
      /\ \A i \in 1..Len(Tail(q.queue)) : Tail(q.queue)[i] = q.queue[i + 1]
  BY <1>1, HeadTailProperties
<1>3. /\ t \in Seq(Slots) /\ Len(t) \in Nat
      /\ IF q.fetched = <<>> THEN Len(t) = 0 ELSE Len(t) = Len(q.fetched) - 1
      /\ \A i \in 1..Len(t) : t[i] = q.fetched[i + 1]
  <2>1. CASE q.fetched = <<>>
    BY <1>1, <2>1
  <2>2. CASE q.fetched # <<>>
    BY <1>1, <2>2, HeadTailProperties
  <2>. QED BY <2>1, <2>2
<1>. HIDE DEF t
<1>4. (q.pos + 1) % Cap \in Positions
  BY <1>1, WayOn
<1>5. /\ p \in RingOf /\ p.queue = Tail(q.queue) /\ p.fetched = t /\ p.gen = q.gen
      /\ p.pos = (q.pos + 1) % Cap
  BY <1>2, <1>3, <1>4 DEF RingOf, t, Consumed
<1>6. Len(p.fetched) <= Len(q.fetched) /\ (p.fetched # <<>> => Len(p.fetched) = Len(q.fetched) - 1)
  BY <1>1, <1>3, <1>5
<1>7. ASSUME NEW x, NEW i \in Nat \ {0}, Reaches(p, x, i) PROVE Reaches(q, x, i + 1)
  <2>1. CASE i \in 1..Len(p.queue) /\ p.queue[i] = x
    BY <1>1, <1>2, <1>5, <2>1 DEF Reaches
  <2>2. CASE i \in 1..Len(p.fetched) /\ p.fetched[i] = x
    <3>1. Len(t) = Len(q.fetched) - 1
      BY <1>3, <1>5, <2>2
    <3>. QED BY <1>1, <1>3, <1>5, <2>2, <3>1 DEF Reaches
  <2>. QED BY <1>7, <2>1, <2>2 DEF Reaches
<1>8. ASSUME NEW f \in RefOf, NEW i \in Nat \ {0}, Awaits(q, f, i + 1) PROVE Awaits(p, f, i)
  <2>. f.start \in Positions /\ f.end \in Positions /\ f.need \in Positions /\ f.gen \in Nat
    BY DEF RefOf
  <2>1. Way(f.start, q.pos) \in Positions /\ Way(q.pos, f.end) \in Positions
    BY <1>1, WayIs
  <2>2. /\ Way(f.start, q.pos) < Cap - 1 => Way(f.start, p.pos) = Way(f.start, q.pos) + 1
        /\ Way(q.pos, f.end) >= 1 => Way(p.pos, f.end) = Way(q.pos, f.end) - 1
    BY <1>1, <1>5, WayOn
  <2>3. CASE f.gen = q.gen /\ f.abandoned
    <3>1. Way(f.start, q.pos) + (i + 1) <= f.need
      BY <1>8, <2>3 DEF Awaits
    <3>2. Way(f.start, p.pos) + i <= f.need
      BY <1>1, <2>1, <2>2, <3>1, CapAssumption DEF Positions
    <3>. QED BY <1>5, <1>8, <2>3, <3>2 DEF Awaits
  <2>4. CASE f.gen = q.gen /\ ~f.abandoned
    <3>1. i + 1 <= Way(q.pos, f.end) /\ Way(q.pos, f.end) <= Len(q.queue)
      BY <1>8, <2>4 DEF Awaits, Pending
    <3>2. /\ Way(q.pos, f.end) \in Nat /\ Len(q.queue) \in Nat /\ Len(p.queue) = Len(q.queue) - 1
          /\ Way(q.pos, f.end) >= 1 => Way(p.pos, f.end) = Way(q.pos, f.end) - 1
      BY <1>1, <1>2, <1>5, <2>1, <2>2, CapAssumption DEF Positions
    <3>3. i <= Way(p.pos, f.end) /\ Way(p.pos, f.end) <= Len(p.queue)
      BY <3>1, <3>2
    <3>. QED BY <1>5, <1>8, <2>4, <3>3 DEF Awaits, Pending
  <2>5. CASE f.gen # q.gen
    BY <1>5, <1>8, <2>5 DEF Awaits
  <2>. QED BY <2>3, <2>4, <2>5
<1>9. \A x : Unreached(q, x) => Unreached(p, x)
  BY <1>7 DEF Unreached
<1>10. \A x : \A f \in RefOf : Guarded(q, f, x) => Guarded(p, f, x)
  BY <1>7, <1>8 DEF Guarded
<1>. QED BY <1>2, <1>5, <1>6, <1>9, <1>10

------------------------------------------------------------------------------
\* What is done to the transactions keeps them safe.

\* Its caller's bookkeeping is of no account.
LEMMA CallerSafe ==
  ASSUME NEW x, NEW t, NEW q, NEW ph, Safe(x, t, q, ph), NEW u \in XactOf,
         u.detached = t.detached, u.state = t.state, u.buf = t.buf, u.ref = t.ref
  PROVE  Safe(x, u, q, ph)
BY DEF Safe, Kept

LEMMA SettleSafe ==
  ASSUME ring \in [Rings -> RingOf], NEW x, NEW t, Safe(x, t, ring, phase)
  PROVE  /\ Safe(x, Settle(t, ring), ring, phase)
         /\ Idle(Settle(t, ring)) => \A r \in Rings : Unreached(ring[r], x)
         /\ Settle(t, ring).state = t.state /\ Settle(t, ring).released = t.released
         /\ Settle(t, ring).waiting = t.waiting /\ Settle(t, ring).detached = t.detached
<1>. DEFINE g(r) == IF RefDone(ring[r], t.ref[r], phase = "up") THEN NoRef ELSE t.ref[r]
            u == Settle(t, ring)
<1>1. t \in XactOf /\ t.ref \in [Rings -> RefOf]
  BY DEF Safe, XactOf
<1>2. ASSUME NEW r \in Rings
      PROVE  g(r) \in RefOf /\ Guarded(ring[r], g(r), x) /\ (~g(r).on => Unreached(ring[r], x))
  <2>1. (phase = "up") \in BOOLEAN /\ Guarded(ring[r], t.ref[r], x)
    BY DEF Safe
  <2>. QED BY <1>1, <2>1, SettledGuards
<1>3. u = [t EXCEPT !.ref = [r \in Rings |-> g(r)]]
  BY DEF Settle
<1>. HIDE DEF u, g
<1>4. /\ u \in XactOf /\ u.ref = [r \in Rings |-> g(r)]
      /\ u.detached = t.detached /\ u.state = t.state /\ u.buf = t.buf
      /\ u.released = t.released /\ u.waiting = t.waiting
  BY <1>1, <1>2, <1>3 DEF XactOf
<1>5. \A r \in Rings : Guarded(ring[r], u.ref[r], x) /\ (~u.ref[r].on => Unreached(ring[r], x))
  BY <1>2, <1>4
<1>6. Safe(x, u, ring, phase)
  BY <1>4, <1>5 DEF Safe, Kept
<1>7. Idle(u) => \A r \in Rings : Unreached(ring[r], x)
  BY <1>5 DEF Idle
<1>. QED BY <1>4, <1>6, <1>7 DEF u

LEMMA FreedSafe ==
  ASSUME NEW x, NEW t, NEW q, NEW ph, Safe(x, t, q, ph), \A r \in Rings : Unreached(q[r], x)
  PROVE  Safe(x, Freed(t), q, ph)
<1>. DEFINE u == Freed(t)
<1>1. /\ u \in XactOf /\ u.state = "gone" /\ u.detached = t.detached /\ u.ref = t.ref
  BY DEF Freed, Safe, XactOf, States
<1>. HIDE DEF u
<1>2. Safe(x, u, q, ph)
  BY <1>1 DEF Safe
<1>. QED BY <1>2 DEF u

LEMMA ReclaimSafe ==
  ASSUME IInv
  PROVE  /\ Reclaim(xact, ring) \in [Xacts -> XactOf]
         /\ \A x \in Xacts : /\ Safe(x, Reclaim(xact, ring)[x], ring, phase)
                             /\ x \notin Listed(xact) => Reclaim(xact, ring)[x] = xact[x]
<1>1. ASSUME NEW x \in Xacts
      PROVE  /\ Safe(x, Reclaim(xact, ring)[x], ring, phase)
             /\ x \notin Listed(xact) => Reclaim(xact, ring)[x] = xact[x]
  <2>. DEFINE t == Settle(xact[x], ring)
  <2>1. Safe(x, xact[x], ring, phase) /\ ring \in [Rings -> RingOf]
    BY DEF IInv, TypeOK
  <2>2. Safe(x, t, ring, phase) /\ (Idle(t) => Safe(x, Freed(t), ring, phase))
    BY <2>1, SettleSafe, FreedSafe
  <2>3. Reclaim(xact, ring)[x] = IF x \notin Listed(xact) \/ ~xact[x].released THEN xact[x]
                                 ELSE IF Idle(t) THEN Freed(t) ELSE t
    BY DEF Reclaim
  <2>. HIDE DEF t
  <2>. QED BY <2>1, <2>2, <2>3
<1>2. \A x \in Xacts : Reclaim(xact, ring)[x] \in XactOf
  BY <1>1 DEF Safe
<1>. QED BY <1>1, <1>2 DEF Reclaim

LEMMA ResyncUnreached ==
  ASSUME NEW q \in RingOf, NEW x, Unreached(q, x)
  PROVE  Unreached(Resync(q), x)
BY ResyncTyped DEF Unreached, Reaches

LEMMA RingAbandonSafe ==
  ASSUME NEW q \in [Rings -> RingOf], NEW xs \in [Xacts -> XactOf], NEW ph, ph # "finished", NEW r \in Rings,
         \A x \in Xacts : Safe(x, xs[x], q, ph)
  PROVE  /\ Resettle(xs, r, q[r]) \in [Xacts -> XactOf]
         /\ \A x \in Xacts : /\ Safe(x, Resettle(xs, r, q[r])[x], [q EXCEPT ![r] = Resync(@)], ph)
                             /\ x \notin Listed(xs) => Resettle(xs, r, q[r])[x] = xs[x]
                             /\ Resettle(xs, r, q[r])[x].waiting = xs[x].waiting
                             /\ Resettle(xs, r, q[r])[x].state = xs[x].state
                             /\ Resettle(xs, r, q[r])[x].released = xs[x].released
<1>. DEFINE p == [q EXCEPT ![r] = Resync(@)]
            ys == Resettle(xs, r, q[r])
<1>1. p \in [Rings -> RingOf] /\ p[r] = Resync(q[r]) /\ \A o \in Rings \ {r} : p[o] = q[o]
  BY ResyncTyped
<1>2. CASE q[r].queue = <<>>
  <2>1. p = q /\ ys = xs
    BY <1>2 DEF Resync, Resettle
  <2>. QED BY <2>1
<1>3. CASE q[r].queue # <<>>
  <2>1. ys = RingAbandon(xs, r, q[r])
    BY <1>3 DEF Resettle
  <2>. HIDE DEF p, ys
  <2>2. ASSUME NEW x \in Xacts
        PROVE  /\ Safe(x, ys[x], p, ph)
               /\ x \notin Listed(xs) => ys[x] = xs[x]
               /\ ys[x].waiting = xs[x].waiting /\ ys[x].state = xs[x].state
               /\ ys[x].released = xs[x].released
    <3>. DEFINE t == xs[x]
    <3>1. Safe(x, t, q, ph) /\ t \in XactOf /\ t.ref \in [Rings -> RefOf]
      BY DEF Safe, XactOf
    <3>2. CASE x \notin Listed(xs)
      <4>1. ys[x] = t
        BY <2>1, <3>2 DEF RingAbandon
      <4>2. \A o \in Rings : Unreached(q[o], x)
        BY <3>1, <3>2 DEF Listed, Safe, Kept
      <4>3. \A o \in Rings : Unreached(p[o], x)
        BY <1>1, <4>2, ResyncUnreached
      <4>4. Safe(x, t, p, ph)
        BY <3>1, <4>3, UnreachedGuarded DEF Safe
      <4>. QED BY <4>1, <4>4
    <3>3. CASE x \in Listed(xs)
      <4>. DEFINE f == Abandon(t.ref[r], q[r])
                  lost == t.lost \/ (f.abandoned /\ ~t.ref[r].abandoned)
                  u == [t EXCEPT !.ref[r] = f, !.lost = lost]
      <4>1. ys[x] = u
        BY <2>1, <3>3 DEF RingAbandon
      <4>2. f \in RefOf /\ Guarded(p[r], f, x)
        BY <1>1, <1>3, <3>1, AbandonTyped, AbandonGuards DEF Safe
      <4>3. lost \in BOOLEAN
        BY <3>1, <4>2 DEF XactOf, RefOf
      <4>. HIDE DEF f, lost
      <4>4. /\ u \in XactOf /\ u.ref[r] = f /\ \A o \in Rings \ {r} : u.ref[o] = t.ref[o]
            /\ u.detached = t.detached /\ u.state = t.state /\ u.buf = t.buf
            /\ u.waiting = t.waiting /\ u.released = t.released
        BY <3>1, <4>2, <4>3 DEF XactOf
      <4>. HIDE DEF u
      <4>5. \A o \in Rings : Guarded(p[o], u.ref[o], x)
        BY <1>1, <3>1, <4>2, <4>4 DEF Safe
      <4>6. \A o \in Rings : Unreached(p[o], x) \/ Kept(u, ph)
        BY <1>1, <3>1, <4>4, ResyncUnreached DEF Safe, Kept
      <4>7. Safe(x, u, p, ph)
        BY <3>1, <4>4, <4>5, <4>6 DEF Safe
      <4>. QED BY <3>3, <4>1, <4>4, <4>7
    <3>. QED BY <3>2, <3>3
  <2>3. ys \in [Xacts -> XactOf]
    <3>1. \A x \in Xacts : ys[x] \in XactOf
      BY <2>2 DEF Safe
    <3>. QED BY <2>1, <3>1 DEF RingAbandon
  <2>. QED BY <2>2, <2>3 DEF p, ys
<1>. QED BY <1>2, <1>3

------------------------------------------------------------------------------
\* The steps of a transaction.

LEMMA OneSafe ==
  ASSUME IInv, NEW x \in Xacts, NEW u, Safe(x, u, ring, phase), xact' = [xact EXCEPT ![x] = u],
         waiting' \in Int, UNCHANGED <<ring, epoch, phase, others>>
  PROVE  IInv'
<1>1. u \in XactOf /\ xact \in [Xacts -> XactOf]
  BY DEF Safe, IInv, TypeOK
<1>2. xact' \in [Xacts -> XactOf] /\ \A y \in Xacts : xact'[y] = IF y = x THEN u ELSE xact[y]
  BY <1>1
<1>3. TypeOK'
  BY <1>2 DEF IInv, TypeOK, Pending
<1>4. \A y \in Xacts : Safe(y, xact'[y], ring', phase')
  BY <1>2 DEF IInv
<1>. QED BY <1>3, <1>4 DEF IInv

LEMMA Known ==
  ASSUME IInv, NEW x \in Xacts
  PROVE  /\ xact[x] \in XactOf /\ Safe(x, xact[x], ring, phase)
         /\ ring \in [Rings -> RingOf] /\ waiting \in Int
         /\ xact[x].state \in {"none", "mapped"} => \A r \in Rings : Unreached(ring[r], x)
BY DEF IInv, TypeOK, Safe, Kept

LEMMA MapStep == ASSUME IInv, NEW x \in Xacts, Map(x) PROVE IInv'
<1>1. PICK shape \in Shapes :
        xact' = [xact EXCEPT ![x] = [Unbuilt EXCEPT !.state = "mapped", !.n = shape[1], !.rx = shape[2],
                                                    !.epoch = epoch, !.buf = "held"]]
  BY DEF Map
<1>. DEFINE u == [Unbuilt EXCEPT !.state = "mapped", !.n = shape[1], !.rx = shape[2],
                                 !.epoch = epoch, !.buf = "held"]
<1>2. shape[1] \in 0..(Cap \div 4) /\ shape[2] \in 0..(Cap \div 4) /\ epoch \in 0..MaxEpoch
  BY ShapeAssumption, CapAssumption DEF IInv, TypeOK
<1>3. NoRefs \in [Rings -> RefOf]
  BY NoRefTyped DEF NoRefs
<1>4. u \in XactOf /\ ~u.detached /\ u.state = "mapped" /\ u.buf = "held"
  BY <1>2, <1>3 DEF Unbuilt, XactOf, States
<1>. HIDE DEF u
<1>5. \A r \in Rings : Unreached(ring[r], x)
  BY Known DEF Map
<1>6. Safe(x, u, ring, phase)
  BY <1>4, <1>5, UnreachedGuarded DEF Safe
<1>. QED BY <1>1, <1>6, OneSafe, Known DEF Map, u

LEMMA SubmitRefusedStep == ASSUME IInv, NEW x \in Xacts, SubmitRefused(x) PROVE IInv'
<1>1. xact' = Reclaim(xact, ring) /\ UNCHANGED <<ring, waiting, epoch, phase, others>>
  BY DEF SubmitRefused
<1>2. xact' \in [Xacts -> XactOf] /\ \A y \in Xacts : Safe(y, xact'[y], ring', phase')
  BY <1>1, ReclaimSafe
<1>. QED BY <1>1, <1>2 DEF IInv, TypeOK, Pending

LEMMA SubmitStep == ASSUME IInv, NEW x \in Xacts, Submit(x) PROVE IInv'
<1>. DEFINE t == xact[x]
            left == Reclaim(xact, ring)
            cleared == IF t.rx = 0 THEN ring ELSE [ring EXCEPT !["resp"] = Resync(@)]
            settled == IF t.rx = 0 THEN left ELSE Resettle(left, "resp", ring["resp"])
            count(r) == IF r = "cmd" THEN t.n ELSE t.rx
            queued == [cleared EXCEPT !["resp"] = Put(@, x, t.rx), !["cmd"] = Put(@, x, t.n)]
            ref == [r \in Rings |-> Ref(queued[r], count(r))]
            waits == t.rx > 0
            u == [t EXCEPT !.state = "published", !.waiting = waits, !.ref = ref]
<1>1. /\ t \in XactOf /\ Safe(x, t, ring, phase) /\ ring \in [Rings -> RingOf] /\ waiting \in Int
      /\ t.state = "mapped" /\ phase = "up" /\ t.buf = "held"
      /\ \A r \in Rings : Unreached(ring[r], x)
  BY Known DEF Submit, Submittable, Safe
<1>2. /\ ring' = queued /\ xact' = [settled EXCEPT ![x] = u]
      /\ waiting' = waiting + IF t.rx > 0 THEN 1 ELSE 0
      /\ UNCHANGED <<epoch, phase, others>> /\ FreeSlots(ring["cmd"]) >= t.n
  BY DEF Submit, Room
<1>3. /\ left \in [Xacts -> XactOf] /\ \A y \in Xacts : Safe(y, left[y], ring, phase)
  BY ReclaimSafe
<1>4. /\ cleared \in [Rings -> RingOf] /\ cleared["cmd"] = ring["cmd"]
      /\ cleared["resp"] = IF t.rx = 0 THEN ring["resp"] ELSE Resync(ring["resp"])
  BY <1>1, ResyncTyped DEF Rings
<1>5. /\ settled \in [Xacts -> XactOf] /\ \A y \in Xacts : Safe(y, settled[y], cleared, phase)
  <2>. HIDE DEF left
  <2>1. "resp" \in Rings /\ phase # "finished"
    BY <1>1 DEF Rings
  <2>. QED BY <1>1, <1>3, <2>1, RingAbandonSafe
<1>6. \A r \in Rings : Unreached(cleared[r], x)
  BY <1>1, <1>4, ResyncUnreached DEF Rings
<1>7. \A r \in Rings : count(r) \in Nat /\ Pending(cleared[r]) + count(r) < Cap
  <2>1. t.n \in Nat /\ t.rx \in Nat /\ t.rx < Cap
    BY <1>1, CapAssumption DEF XactOf
  <2>2. Pending(ring["cmd"]) \in Nat /\ Pending(ring["resp"]) \in Nat /\ Pending(ring["resp"]) < Cap
    BY <1>1 DEF IInv, TypeOK, RingOf, Pending, Rings
  <2>3. Pending(cleared["cmd"]) + t.n < Cap
    BY <1>2, <1>4, <2>1, <2>2, CapAssumption DEF FreeSlots
  <2>4. Pending(cleared["resp"]) + t.rx < Cap
    <3>1. CASE t.rx = 0
      BY <1>4, <2>2, <3>1
    <3>2. CASE t.rx # 0
      <4>1. Pending(cleared["resp"]) = 0
        BY <1>1, <1>4, <3>2, ResyncTyped DEF Rings
      <4>. QED BY <2>1, <4>1
    <3>. QED BY <3>1, <3>2
  <2>. HIDE DEF cleared
  <2>. QED BY <2>1, <2>3, <2>4 DEF Rings
<1>. HIDE DEF t, left, cleared, settled, count
<1>8. /\ queued \in [Rings -> RingOf]
      /\ \A r \in Rings : /\ queued[r] = Put(cleared[r], x, count(r))
                          /\ queued[r].fetched = cleared[r].fetched
                          /\ Pending(queued[r]) = Pending(cleared[r]) + count(r)
  <2>1. \A r \in Rings : queued[r] = Put(cleared[r], x, count(r))
    BY <1>4 DEF Rings, count
  <2>2. x \in Slots
    BY DEF Slots
  <2>3. \A r \in Rings : /\ Put(cleared[r], x, count(r)) \in RingOf
                         /\ Put(cleared[r], x, count(r)).fetched = cleared[r].fetched
                         /\ Pending(Put(cleared[r], x, count(r))) = Pending(cleared[r]) + count(r)
    BY <1>4, <1>7, <2>2, PutTyped
  <2>4. DOMAIN queued = Rings
    BY <1>4
  <2>5. queued = [r \in Rings |-> Put(cleared[r], x, count(r))]
    BY <1>4 DEF Rings, count
  <2>. HIDE DEF queued
  <2>. QED BY <2>1, <2>3, <2>5
<1>. HIDE DEF queued
<1>9. ref \in [Rings -> RefOf] /\ \A r \in Rings : Guarded(queued[r], ref[r], x)
  <2>1. ASSUME NEW r \in Rings
        PROVE  Ref(queued[r], count(r)) \in RefOf /\ Guarded(queued[r], Ref(queued[r], count(r)), x)
    <3>1. x \in Slots /\ cleared[r] \in RingOf /\ queued[r] \in RingOf /\ Pending(queued[r]) < Cap
      BY <1>4, <1>7, <1>8 DEF Slots
    <3>2. Ref(queued[r], count(r)) \in RefOf
      BY <1>7, <3>1, RefTyped
    <3>3. Guarded(queued[r], Ref(queued[r], count(r)), x)
      BY <1>6, <1>7, <1>8, <3>1, RefGuards
    <3>. QED BY <3>2, <3>3
  <2>. QED BY <2>1
<1>. HIDE DEF ref
<1>10. Safe(x, u, queued, phase)
  <2>1. /\ u \in XactOf /\ u.state = "published" /\ u.buf = "held" /\ u.ref = ref
        /\ u.detached = t.detached
    <3>1. waits \in BOOLEAN /\ t \in XactOf
      BY <1>1
    <3>. HIDE DEF waits
    <3>. QED BY <1>1, <1>9, <3>1 DEF XactOf, States
  <2>2. t.detached => phase = "finished"
    BY <1>1 DEF Safe
  <2>. HIDE DEF u
  <2>. QED BY <1>9, <2>1, <2>2 DEF Safe, Kept
<1>. HIDE DEF u
<1>11. ASSUME NEW y \in Xacts \ {x} PROVE Safe(y, settled[y], queued, phase)
  <2>1. Safe(y, settled[y], cleared, phase) /\ x \in Slots \ {y}
    BY <1>5 DEF Slots
  <2>2. settled[y] \in XactOf /\ settled[y].ref \in [Rings -> RefOf]
    BY <1>5 DEF XactOf
  <2>3. \A r \in Rings : Guarded(queued[r], settled[y].ref[r], y)
    BY <1>4, <1>7, <1>8, <2>1, <2>2, PutGuards DEF Safe
  <2>4. ASSUME NEW r \in Rings, Unreached(cleared[r], y) PROVE Unreached(queued[r], y)
    <3>1. Guarded(cleared[r], NoRef, y)
      BY <2>4, UnreachedGuarded
    <3>2. Guarded(queued[r], NoRef, y)
      BY <1>4, <1>7, <1>8, <2>1, <3>1, PutGuards, NoRefTyped, SMTT(30)
    <3>. QED BY <3>2 DEF Guarded, Awaits, Unreached, NoRef
  <2>. QED BY <2>1, <2>3, <2>4 DEF Safe
<1>12. xact' \in [Xacts -> XactOf] /\ \A y \in Xacts : xact'[y] = IF y = x THEN u ELSE settled[y]
  <2>1. u \in XactOf
    BY <1>10 DEF Safe
  <2>. QED BY <1>2, <1>5, <2>1 DEF t, left, cleared, settled, count, queued, ref, u
<1>13. TypeOK'
  <2>1. waiting' \in Int
    BY <1>1, <1>2 DEF t
  <2>2. ring' \in [Rings -> RingOf]
    BY <1>2, <1>8 DEF t, cleared, queued
  <2>3. \A r \in Rings : Pending(ring'[r]) < Cap /\ Len(ring'[r].fetched) <= Ahead
    <3>1. ring' = queued
      BY <1>2 DEF t, cleared, queued
    <3>2. \A r \in Rings : Len(cleared[r].fetched) <= Ahead
      BY <1>1, <1>4, ResyncTyped DEF IInv, TypeOK, Rings
    <3>. QED BY <1>7, <1>8, <3>1, <3>2
  <2>. QED BY <1>2, <1>12, <2>1, <2>2, <2>3 DEF IInv, TypeOK, Pending
<1>14. \A y \in Xacts : Safe(y, xact'[y], ring', phase')
  <2>1. ring' = queued /\ phase' = phase
    BY <1>2 DEF t, cleared, queued
  <2>. QED BY <1>10, <1>11, <1>12, <2>1
<1>. QED BY <1>13, <1>14 DEF IInv

LEMMA DiscardStep == ASSUME IInv, NEW x \in Xacts, Discard(x) PROVE IInv'
<1>1. Safe(x, Freed(xact[x]), ring, phase)
  BY Known, FreedSafe DEF Discard
<1>2. xact' = [xact EXCEPT ![x] = Freed(xact[x])]
  BY DEF Discard
<1>. QED BY <1>1, <1>2, OneSafe, Known DEF Discard

LEMMA PollStep == ASSUME IInv, NEW x \in Xacts, Poll(x) PROVE IInv'
<1>. DEFINE t == Settle(xact[x], ring)
            u == [Unwait(t) EXCEPT !.state = "retired"]
<1>1. Safe(x, t, ring, phase) /\ (Idle(t) => \A r \in Rings : Unreached(ring[r], x))
  BY Known, SettleSafe
<1>2. waiting' \in Int
  BY Known DEF Poll, Waits
<1>3. CASE Idle(t) /\ xact' = [xact EXCEPT ![x] = u]
  <2>. HIDE DEF t
  <2>1. t \in XactOf
    BY <1>1 DEF Safe
  <2>2. /\ u \in XactOf /\ u.state = "retired" /\ u.detached = t.detached /\ u.buf = t.buf
        /\ u.ref = t.ref
    BY <2>1 DEF Unwait, XactOf, States
  <2>. HIDE DEF u
  <2>3. Safe(x, u, ring, phase)
    BY <1>1, <1>3, <2>2 DEF Safe
  <2>. QED BY <1>2, <1>3, <2>3, OneSafe DEF Poll
<1>4. CASE xact' = [xact EXCEPT ![x] = t]
  BY <1>1, <1>2, <1>4, OneSafe DEF Poll
<1>. QED BY <1>3, <1>4 DEF Poll

LEMMA DoneStep == ASSUME IInv, NEW x \in Xacts, Done(x) PROVE IInv'
<1>1. waiting' \in Int
  BY Known DEF Done, Waits
<1>2. CASE xact[x].detached /\ xact' = [xact EXCEPT ![x].state = "gone"]
  <2>. DEFINE u == [xact[x] EXCEPT !.state = "gone"]
  <2>1. /\ u \in XactOf /\ u.state = "gone" /\ u.detached /\ u.buf = xact[x].buf /\ u.ref = xact[x].ref
    BY <1>2, Known DEF XactOf, States
  <2>2. xact' = [xact EXCEPT ![x] = u]
    BY <1>2
  <2>. HIDE DEF u
  <2>3. Safe(x, u, ring, phase)
    BY <1>2, <2>1, Known DEF Safe, Kept
  <2>. QED BY <1>1, <2>2, <2>3, OneSafe DEF Done
<1>3. CASE ~xact[x].detached
  <2>. DEFINE v == [Unwait(xact[x]) EXCEPT !.released = TRUE]
              t == Settle(v, ring)
  <2>1. /\ v \in XactOf /\ v.detached = xact[x].detached /\ v.state = xact[x].state
        /\ v.buf = xact[x].buf /\ v.ref = xact[x].ref
    BY Known DEF Unwait, XactOf
  <2>. HIDE DEF v
  <2>2. Safe(x, v, ring, phase)
    BY <2>1, Known, CallerSafe
  <2>3. Safe(x, t, ring, phase) /\ (Idle(t) => Safe(x, Freed(t), ring, phase))
    BY <2>2, Known, SettleSafe, FreedSafe
  <2>4. xact' = [xact EXCEPT ![x] = IF Idle(t) THEN Freed(t) ELSE t]
    BY <1>3 DEF Done, v
  <2>. HIDE DEF t
  <2>5. Safe(x, IF Idle(t) THEN Freed(t) ELSE t, ring, phase)
    BY <2>3
  <2>. QED BY <1>1, <2>4, <2>5, OneSafe DEF Done
<1>. QED BY <1>2, <1>3 DEF Done

------------------------------------------------------------------------------
\* The steps of other users, of the device and of the driver's end.

\* One ring changes as the lemmas on rings say.
LEMMA RingMoves ==
  ASSUME IInv, NEW r \in Rings, NEW p \in RingOf, Pending(p) < Cap, Len(p.fetched) <= Ahead,
         ring' = [ring EXCEPT ![r] = p],
         \A x \in Xacts : /\ Guarded(p, xact[x].ref[r], x)
                          /\ Unreached(ring[r], x) => Unreached(p, x),
         others' \in 0..MaxOthers, UNCHANGED <<xact, waiting, epoch, phase>>
  PROVE  IInv'
<1>1. /\ ring' \in [Rings -> RingOf] /\ \A o \in Rings : ring'[o] = IF o = r THEN p ELSE ring[o]
  BY DEF IInv, TypeOK
<1>2. TypeOK'
  BY <1>1 DEF IInv, TypeOK, Pending
<1>3. ASSUME NEW x \in Xacts PROVE Safe(x, xact'[x], ring', phase')
  BY <1>1 DEF IInv, Safe
<1>. QED BY <1>2, <1>3 DEF IInv

LEMMA OtherPutsStep == ASSUME IInv, NEW r \in Rings, OtherPuts(r) PROVE IInv'
<1>1. PICK k \in Bursts : k <= FreeSlots(ring[r]) /\ ring' = [ring EXCEPT ![r] = Put(ring[r], Other, k)]
  BY DEF OtherPuts
<1>. DEFINE q == ring[r]
            p == Put(q, Other, k)
<1>2. q \in RingOf /\ Pending(q) \in Nat /\ Len(q.fetched) <= Ahead /\ Other \in Slots
  BY DEF IInv, TypeOK, RingOf, Pending, Slots
<1>3. k \in Nat
  BY BurstAssumption, CapAssumption
<1>4. /\ p \in RingOf /\ Pending(p) = Pending(q) + k /\ p.fetched = q.fetched
  BY <1>2, <1>3, PutTyped
<1>5. Pending(p) < Cap
  BY <1>1, <1>2, <1>3, <1>4, CapAssumption DEF FreeSlots
<1>. HIDE DEF p
<1>6. ASSUME NEW x \in Xacts
      PROVE  Guarded(p, xact[x].ref[r], x) /\ (Unreached(q, x) => Unreached(p, x))
  <2>1. /\ Other \in Slots \ {x} /\ xact[x].ref[r] \in RefOf /\ Guarded(q, xact[x].ref[r], x)
    BY <1>2, OtherAssumption, Known DEF Safe, XactOf
  <2>2. Guarded(p, xact[x].ref[r], x)
    BY <1>2, <1>3, <2>1, PutGuards DEF p
  <2>3. ASSUME Unreached(q, x) PROVE Unreached(p, x)
    <3>1. Guarded(p, NoRef, x)
      BY <1>2, <1>3, <2>1, <2>3, NoRefTyped, UnreachedGuarded, PutGuards DEF p
    <3>. QED BY <3>1 DEF Guarded, Awaits, Unreached, NoRef
  <2>. QED BY <2>2, <2>3
<1>7. others' \in 0..MaxOthers
  BY BoundAssumption DEF OtherPuts, IInv, TypeOK
<1>8. ring' = [ring EXCEPT ![r] = p] /\ Len(p.fetched) <= Ahead
  BY <1>1, <1>2, <1>4 DEF p
<1>. QED BY <1>4, <1>5, <1>6, <1>7, <1>8, RingMoves DEF OtherPuts

\* A resync leaves no more than there was.
LEMMA ResyncFits ==
  ASSUME IInv, NEW r \in Rings
  PROVE  Pending(Resync(ring[r])) < Cap /\ Len(Resync(ring[r]).fetched) <= Ahead
BY ResyncTyped, CapAssumption DEF IInv, TypeOK

LEMMA OtherResyncsStep == ASSUME IInv, NEW r \in Rings, OtherResyncs(r) PROVE IInv'
<1>1. /\ ring' = [ring EXCEPT ![r] = Resync(@)] /\ xact' = Resettle(xact, r, ring[r])
      /\ phase # "finished" /\ UNCHANGED <<waiting, epoch, phase, others>>
  BY DEF OtherResyncs
<1>2. ring \in [Rings -> RingOf] /\ xact \in [Xacts -> XactOf]
  BY DEF IInv, TypeOK
<1>3. /\ xact' \in [Xacts -> XactOf] /\ \A x \in Xacts : Safe(x, xact'[x], ring', phase')
  <2>1. \A x \in Xacts : Safe(x, xact[x], ring, phase)
    BY DEF IInv
  <2>. QED BY <1>1, <1>2, <2>1, RingAbandonSafe
<1>4. /\ ring' \in [Rings -> RingOf]
      /\ \A o \in Rings : Pending(ring'[o]) < Cap /\ Len(ring'[o].fetched) <= Ahead
  BY <1>1, <1>2, ResyncTyped, ResyncFits DEF IInv, TypeOK
<1>5. TypeOK'
  BY <1>1, <1>3, <1>4 DEF IInv, TypeOK, Pending
<1>. QED BY <1>3, <1>5 DEF IInv

LEMMA QuiesceStep == ASSUME IInv, Quiesce PROVE IInv'
<1>. DEFINE half == Resettle(xact, "cmd", ring["cmd"])
            mid == [ring EXCEPT !["cmd"] = Resync(@)]
<1>1. /\ ring' = [r \in Rings |-> Resync(ring[r])] /\ xact' = Resettle(half, "resp", ring["resp"])
      /\ phase = "up" /\ phase' = "quiesced" /\ UNCHANGED <<waiting, epoch, others>>
  BY DEF Quiesce
<1>2. /\ ring \in [Rings -> RingOf] /\ xact \in [Xacts -> XactOf]
      /\ \A x \in Xacts : Safe(x, xact[x], ring, phase)
      /\ "cmd" \in Rings /\ "resp" \in Rings
  BY DEF IInv, TypeOK, Rings
<1>3. half \in [Xacts -> XactOf] /\ \A x \in Xacts : Safe(x, half[x], mid, phase)
  BY <1>1, <1>2, RingAbandonSafe
<1>4. /\ mid \in [Rings -> RingOf] /\ mid["resp"] = ring["resp"]
      /\ ring' = [mid EXCEPT !["resp"] = Resync(@)]
  <2>1. mid \in [Rings -> RingOf] /\ mid["resp"] = ring["resp"] /\ mid["cmd"] = Resync(ring["cmd"])
    BY <1>2, ResyncTyped
  <2>2. \A r \in Rings : ring'[r] = [mid EXCEPT !["resp"] = Resync(@)][r]
    BY <1>1, <1>2, <2>1 DEF Rings
  <2>. QED BY <1>1, <2>1, <2>2
<1>5. xact' = Resettle(half, "resp", mid["resp"]) /\ phase # "finished"
  BY <1>1, <1>4
<1>. HIDE DEF half, mid
<1>6. xact' \in [Xacts -> XactOf] /\ \A x \in Xacts : Safe(x, xact'[x], ring', phase)
  BY <1>2, <1>3, <1>4, <1>5, RingAbandonSafe
<1>7. \A x \in Xacts : Safe(x, xact'[x], ring', phase')
  BY <1>1, <1>6 DEF Safe, Kept
<1>8. /\ ring' \in [Rings -> RingOf]
      /\ \A r \in Rings : Pending(ring'[r]) < Cap /\ Len(ring'[r].fetched) <= Ahead
  BY <1>1, <1>2, ResyncTyped, ResyncFits
<1>9. TypeOK'
  BY <1>1, <1>6, <1>8 DEF IInv, TypeOK, Pending
<1>. QED BY <1>7, <1>9 DEF IInv

LEMMA FlagSteps == ASSUME IInv, NewEpoch \/ Shutdown PROVE IInv'
<1>1. /\ UNCHANGED <<ring, xact, waiting, others>> /\ phase # "finished" /\ phase' # "finished"
      /\ phase' \in {phase, "shutdown"}
  BY DEF NewEpoch, Shutdown
<1>2. epoch' \in 0..MaxEpoch
  BY BoundAssumption DEF NewEpoch, Shutdown, IInv, TypeOK
<1>3. TypeOK'
  BY <1>1, <1>2 DEF IInv, TypeOK, Pending
<1>4. \A x \in Xacts : Safe(x, xact'[x], ring', phase')
  BY <1>1 DEF IInv, Safe, Kept
<1>. QED BY <1>3, <1>4 DEF IInv

LEMMA FiniStep == ASSUME IInv, NEW quiet \in BOOLEAN, Fini(quiet) PROVE IInv'
<1>1. /\ phase # "finished" /\ phase' = "finished" /\ waiting' = 0 /\ UNCHANGED <<epoch, others>>
      /\ ring' = [r \in Rings |-> IF quiet THEN [ring[r] EXCEPT !.queue = <<>>, !.fetched = <<>>]
                                 ELSE ring[r]]
  BY DEF Fini
<1>2. ASSUME NEW r \in Rings
      PROVE  /\ ring'[r] \in RingOf /\ Pending(ring'[r]) < Cap /\ Len(ring'[r].fetched) <= Ahead
             /\ \A x : quiet => Unreached(ring'[r], x)
             /\ ~quiet => ring'[r] = ring[r]
  <2>1. ring[r] \in RingOf /\ Pending(ring[r]) < Cap /\ Len(ring[r].fetched) <= Ahead
    BY DEF IInv, TypeOK
  <2>2. CASE ~quiet
    BY <1>1, <2>1, <2>2
  <2>3. CASE quiet
    <3>. DEFINE e == <<>>
    <3>1. e \in Seq(Slots) /\ Len(e) = 0
      BY EmptySeq
    <3>2. ring'[r] = [ring[r] EXCEPT !.queue = e, !.fetched = e]
      BY <1>1, <2>3
    <3>. HIDE DEF e
    <3>3. ring'[r] \in RingOf /\ ring'[r].queue = e /\ ring'[r].fetched = e
      BY <2>1, <3>1, <3>2 DEF RingOf
    <3>4. Pending(ring'[r]) < Cap /\ Len(ring'[r].fetched) <= Ahead
      BY <3>1, <3>3, CapAssumption, BoundAssumption DEF Pending
    <3>. QED BY <2>3, <3>1, <3>3, <3>4 DEF Unreached, Reaches
  <2>. QED BY <2>2, <2>3
<1>3. ASSUME NEW x \in Xacts PROVE Safe(x, xact'[x], ring', phase')
  <2>. DEFINE t == xact[x]
              safe == quiet \/ Idle(t)
              d == [t EXCEPT !.detached = TRUE, !.buf = IF safe THEN "freed" ELSE "leaked",
                             !.state = IF t.released THEN "gone" ELSE @]
  <2>1. t \in XactOf /\ Safe(x, t, ring, phase) /\ ring \in [Rings -> RingOf]
    BY Known
  <2>2. ASSUME NEW r \in Rings, Unreached(ring[r], x) PROVE Unreached(ring'[r], x)
    BY <1>2, <2>2
  <2>3. \A r \in Rings : Guarded(ring'[r], t.ref[r], x)
    BY <1>2, <2>1, UnreachedGuarded DEF Safe
  <2>4. Safe(x, t, ring', phase')
    BY <1>1, <2>1, <2>2, <2>3 DEF Safe, Kept
  <2>5. ASSUME safe, NEW r \in Rings PROVE Unreached(ring'[r], x)
    <3>1. CASE quiet
      BY <1>2, <3>1
    <3>2. CASE Idle(t)
      BY <2>3, <3>2 DEF Idle, Guarded, Awaits, Unreached
    <3>. QED BY <2>5, <3>1, <3>2
  <2>6. CASE xact'[x] = t
    BY <2>4, <2>6
  <2>7. CASE safe /\ xact'[x] = Freed(t)
    BY <2>4, <2>5, <2>7, FreedSafe
  <2>8. CASE x \in Listed(xact) /\ xact'[x] = d
    <3>1. /\ d \in XactOf /\ d.detached /\ d.ref = t.ref /\ d.state \notin {"none", "mapped"}
          /\ d.buf = IF safe THEN "freed" ELSE "leaked"
      BY <2>1, <2>8 DEF Listed, XactOf, States
    <3>2. \A r \in Rings : Unreached(ring'[r], x) \/ d.buf # "freed"
      BY <2>5, <3>1
    <3>. HIDE DEF d
    <3>3. Safe(x, d, ring', phase')
      BY <1>1, <2>3, <3>1, <3>2 DEF Safe, Kept
    <3>. QED BY <2>8, <3>3
  <2>9. xact'[x] = CASE x \notin Listed(xact) -> t
                     [] x \in Listed(xact) /\ t.released /\ safe -> Freed(t)
                     [] OTHER -> d
    BY DEF Fini
  <2>. HIDE DEF t, d, safe
  <2>. QED BY <2>6, <2>7, <2>8, <2>9
<1>4. xact' \in [Xacts -> XactOf]
  <2>1. \A x \in Xacts : xact'[x] \in XactOf
    BY <1>3 DEF Safe
  <2>. QED BY <2>1 DEF Fini
<1>5. ring' \in [Rings -> RingOf] /\ \A r \in Rings : Pending(ring'[r]) < Cap /\ Len(ring'[r].fetched) <= Ahead
  BY <1>1, <1>2
<1>6. phase' = "finished" /\ waiting' = 0 /\ epoch' = epoch /\ others' = others
  BY <1>1
<1>7. TypeOK'
  BY <1>4, <1>5, <1>6 DEF IInv, TypeOK, Pending
<1>. QED BY <1>3, <1>7 DEF IInv

LEMMA EngineStep == ASSUME IInv, NEW r \in Rings, Fetch(r) \/ Consume(r) PROVE IInv'
<1>. DEFINE q == ring[r]
<1>1. /\ q \in RingOf /\ Pending(q) < Cap /\ Len(q.fetched) <= Ahead
      /\ Len(q.fetched) \in Nat /\ Pending(q) \in Nat /\ others \in 0..MaxOthers
      /\ \A x \in Xacts : xact[x].ref[r] \in RefOf /\ Guarded(q, xact[x].ref[r], x)
  BY Known DEF IInv, TypeOK, Pending, RingOf, Safe, XactOf
<1>2. CASE Fetch(r)
  <2>. DEFINE p == [q EXCEPT !.fetched = Append(@, q.queue[Len(@) + 1])]
  <2>1. /\ ring' = [ring EXCEPT ![r] = p] /\ Len(q.fetched) < Ahead /\ Len(q.fetched) < Len(q.queue)
        /\ UNCHANGED <<xact, waiting, epoch, phase, others>>
    BY <1>2 DEF Fetch, Pending
  <2>2. /\ p \in RingOf /\ p.queue = q.queue /\ Len(p.fetched) = Len(q.fetched) + 1
        /\ \A x : Unreached(q, x) => Unreached(p, x)
        /\ \A x, f : Guarded(q, f, x) => Guarded(p, f, x)
    BY <1>1, <2>1, FetchGuards
  <2>. HIDE DEF p
  <2>3. Pending(p) < Cap /\ Len(p.fetched) <= Ahead
    BY <1>1, <2>1, <2>2, BoundAssumption DEF Pending
  <2>. QED BY <1>1, <2>1, <2>2, <2>3, RingMoves
<1>3. CASE Consume(r)
  <2>. DEFINE p == Consumed(q)
  <2>1. /\ ring' = [ring EXCEPT ![r] = p] /\ q.queue # <<>>
        /\ UNCHANGED <<xact, waiting, epoch, phase, others>>
    BY <1>3 DEF Consume, Consumed
  <2>2. /\ p \in RingOf /\ Len(p.queue) = Len(q.queue) - 1 /\ Len(p.fetched) <= Len(q.fetched)
        /\ \A x : Unreached(q, x) => Unreached(p, x)
        /\ \A x : \A f \in RefOf : Guarded(q, f, x) => Guarded(p, f, x)
    BY <1>1, <2>1, ConsumeGuards
  <2>3. Len(p.fetched) \in Nat
    BY <2>2 DEF RingOf
  <2>4. Pending(p) < Cap /\ Len(p.fetched) <= Ahead
    BY <1>1, <2>2, <2>3, BoundAssumption, CapAssumption, SMTT(30) DEF Pending
  <2>. QED BY <1>1, <2>1, <2>2, <2>4, RingMoves
<1>. QED BY <1>2, <1>3

------------------------------------------------------------------------------
\* The invariant, and what follows from it.

LEMMA InitIInv == Init => IInv
<1>. SUFFICES ASSUME Init PROVE IInv
  OBVIOUS
<1>. DEFINE e == <<>>
            q == [pos |-> Start, queue |-> e, fetched |-> e, gen |-> 0]
<1>1. e \in Seq(Slots) /\ Len(e) = 0
  BY EmptySeq
<1>2. ring = [r \in Rings |-> q]
  BY DEF Init
<1>. HIDE DEF e
<1>3. q \in RingOf /\ Pending(q) < Cap /\ Len(q.fetched) <= Ahead
  BY <1>1, CapAssumption, BoundAssumption DEF RingOf, Positions, Pending
<1>4. \A x : Unreached(q, x)
  BY <1>1 DEF Unreached, Reaches
<1>. HIDE DEF q
<1>5. NoRefs \in [Rings -> RefOf]
  BY NoRefTyped DEF NoRefs
<1>6. /\ Unbuilt \in XactOf /\ ~Unbuilt.detached /\ Unbuilt.state = "none"
  BY <1>5, CapAssumption, BoundAssumption DEF Unbuilt, XactOf, States
<1>7. xact = [x \in Xacts |-> Unbuilt]
  BY DEF Init
<1>8. TypeOK
  BY <1>2, <1>3, <1>6, <1>7, BoundAssumption DEF Init, TypeOK
<1>9. ASSUME NEW x \in Xacts PROVE Safe(x, xact[x], ring, phase)
  BY <1>2, <1>4, <1>6, <1>7, UnreachedGuarded DEF Safe
<1>. QED BY <1>8, <1>9 DEF IInv

LEMMA NextIInv == IInv /\ [Next]_vars => IInv'
<1>. SUFFICES ASSUME IInv, [Next]_vars PROVE IInv'
  OBVIOUS
<1>1. CASE \E x \in Xacts : Map(x) \/ SubmitRefused(x) \/ Submit(x) \/ Discard(x) \/ Poll(x) \/ Done(x)
  BY <1>1, MapStep, SubmitRefusedStep, SubmitStep, DiscardStep, PollStep, DoneStep
<1>2. CASE \E r \in Rings : OtherPuts(r) \/ OtherResyncs(r)
  BY <1>2, OtherPutsStep, OtherResyncsStep
<1>3. CASE NewEpoch \/ Shutdown \/ Quiesce
  BY <1>3, FlagSteps, QuiesceStep
<1>4. CASE \E quiet \in BOOLEAN : Fini(quiet)
  BY <1>4, FiniStep
<1>5. CASE Engine
  BY <1>5, EngineStep DEF Engine
<1>6. CASE UNCHANGED vars
  BY <1>6 DEF vars, IInv, TypeOK, Pending
<1>. QED BY <1>1, <1>2, <1>3, <1>4, <1>5, <1>6 DEF Next

LEMMA SafeUntouched == IInv => NoTouchAfterFree
<1>. SUFFICES ASSUME IInv, NEW x \in Xacts, NEW r \in Rings, x \in Reachable(r)
              PROVE  xact[x].buf # "freed"
  BY DEF NoTouchAfterFree
<1>1. ring[r].queue \in Seq(Slots) /\ ring[r].fetched \in Seq(Slots)
  BY Known DEF RingOf
<1>2. PICK i \in Nat \ {0} : Reaches(ring[r], x, i)
  <2>1. CASE x \in Range(ring[r].queue)
    BY <1>1, <2>1, LenProperties DEF Range, Reaches
  <2>2. CASE x \in Range(ring[r].fetched)
    BY <1>1, <2>2, LenProperties DEF Range, Reaches
  <2>. QED BY <2>1, <2>2 DEF Reachable
<1>. QED BY <1>2, Known DEF Safe, Kept, Unreached

------------------------------------------------------------------------------
\* Who waits for replies.

\* A waiter is published and not released; the counter says whether there is one.
Patient(xs, w) ==
  /\ \A x \in Xacts : /\ xs[x].waiting => xs[x].state = "published" /\ ~xs[x].released /\ w = 1
                      /\ xs[x].state \in {"none", "mapped"} => ~xs[x].released
  /\ \A x, y \in Xacts : xs[x].waiting /\ xs[y].waiting => x = y
  /\ w = 0 \/ (w = 1 /\ \E x \in Xacts : xs[x].waiting)

Waited == phase # "finished" => Patient(xact, waiting)

\* Steps that let every waiter wait on.
LEMMA WaitsOn ==
  ASSUME NEW xs, NEW ys, NEW w, Patient(xs, w),
         \A x \in Xacts :
           /\ ys[x].waiting = xs[x].waiting
           /\ xs[x].waiting => ys[x].state = xs[x].state /\ ys[x].released = xs[x].released
           /\ ys[x].state \in {"none", "mapped"} => ~ys[x].released
  PROVE  Patient(ys, w)
BY DEF Patient

LEMMA ReclaimWaits ==
  ASSUME IInv, Patient(xact, waiting)
  PROVE  Patient(Reclaim(xact, ring), waiting)
<1>. DEFINE ys == Reclaim(xact, ring)
<1>1. ASSUME NEW x \in Xacts
      PROVE  /\ ys[x].waiting = xact[x].waiting
             /\ xact[x].waiting => ys[x].state = xact[x].state /\ ys[x].released = xact[x].released
             /\ ys[x].state \in {"none", "mapped"} => ~ys[x].released
  <2>. DEFINE t == Settle(xact[x], ring)
  <2>1. ys[x] = IF x \notin Listed(xact) \/ ~xact[x].released THEN xact[x]
                ELSE IF Idle(t) THEN Freed(t) ELSE t
    BY DEF Reclaim
  <2>2. /\ t.state = xact[x].state /\ t.released = xact[x].released /\ t.waiting = xact[x].waiting
        /\ t \in XactOf
    BY Known, SettleSafe DEF Safe
  <2>. HIDE DEF t, ys
  <2>3. /\ Freed(t).waiting = t.waiting /\ Freed(t).state = "gone"
    BY <2>2 DEF Freed, XactOf
  <2>4. CASE x \notin Listed(xact) \/ ~xact[x].released
    BY <2>1, <2>4 DEF Patient
  <2>5. CASE x \in Listed(xact) /\ xact[x].released
    <3>1. ~xact[x].waiting /\ xact[x].state \notin {"none", "mapped"}
      BY <2>5 DEF Patient
    <3>. QED BY <2>1, <2>2, <2>3, <2>5, <3>1
  <2>. QED BY <2>4, <2>5
<1>. HIDE DEF ys
<1>2. Patient(ys, waiting)
  BY <1>1, WaitsOn
<1>. QED BY <1>2 DEF ys

LEMMA ResettleWaits ==
  ASSUME NEW q \in [Rings -> RingOf], NEW xs \in [Xacts -> XactOf], NEW ph, ph # "finished", NEW r \in Rings,
         \A x \in Xacts : Safe(x, xs[x], q, ph), NEW w, Patient(xs, w)
  PROVE  Patient(Resettle(xs, r, q[r]), w)
<1>1. \A x \in Xacts : /\ Resettle(xs, r, q[r])[x].waiting = xs[x].waiting
                       /\ Resettle(xs, r, q[r])[x].state = xs[x].state
                       /\ Resettle(xs, r, q[r])[x].released = xs[x].released
  BY RingAbandonSafe
<1>. QED BY <1>1, WaitsOn DEF Patient

\* One transaction changes and was not, and is not, waited for.
LEMMA OneUnwaited ==
  ASSUME IInv, Patient(xact, waiting), NEW x \in Xacts, NEW u, xact' = [xact EXCEPT ![x] = u],
         ~xact[x].waiting, ~u.waiting, u.state \in {"none", "mapped"} => ~u.released
  PROVE  Patient(xact', waiting)
BY DEF Patient, IInv, TypeOK

\* One transaction stops waiting, if it was.
LEMMA StopsWaiting ==
  ASSUME IInv, Patient(xact, waiting), NEW x \in Xacts, NEW u, xact' = [xact EXCEPT ![x] = u],
         ~u.waiting, u.state \notin {"none", "mapped"}
  PROVE  Patient(xact', waiting - Waits(xact[x]))
<1>1. \A y \in Xacts : xact'[y] = IF y = x THEN u ELSE xact[y]
  BY DEF IInv, TypeOK
<1>2. CASE xact[x].waiting
  <2>1. waiting = 1 /\ waiting - Waits(xact[x]) = 0 /\ \A y \in Xacts : ~xact'[y].waiting
    BY <1>1, <1>2 DEF Patient, Waits
  <2>. QED BY <1>1, <2>1 DEF Patient
<1>3. CASE ~xact[x].waiting
  <2>1. waiting - Waits(xact[x]) = waiting
    BY <1>3, Known DEF Waits
  <2>. QED BY <1>3, <2>1, OneUnwaited
<1>. QED BY <1>2, <1>3

LEMMA SubmitWaits == ASSUME IInv, Patient(xact, waiting), NEW x \in Xacts, Submit(x) PROVE Patient(xact', waiting')
<1>. DEFINE t == xact[x]
            left == Reclaim(xact, ring)
            settled == IF t.rx = 0 THEN left ELSE Resettle(left, "resp", ring["resp"])
<1>1. PICK ref : /\ xact' = [settled EXCEPT ![x] = [t EXCEPT !.state = "published", !.waiting = t.rx > 0,
                                                            !.ref = ref]]
                 /\ waiting' = waiting + IF t.rx > 0 THEN 1 ELSE 0
                 /\ t.rx > 0 => waiting = 0
                 /\ t.state = "mapped" /\ phase = "up"
  BY DEF Submit, Submittable, Room
<1>2. left \in [Xacts -> XactOf] /\ \A y \in Xacts : Safe(y, left[y], ring, phase)
  BY ReclaimSafe
<1>3. Patient(left, waiting)
  BY ReclaimWaits
<1>4. t \in XactOf /\ waiting \in Int /\ ~t.waiting /\ ~t.released
  BY <1>1, Known DEF Patient
<1>. HIDE DEF left
<1>5. settled \in [Xacts -> XactOf] /\ Patient(settled, waiting)
  <2>1. "resp" \in Rings /\ phase # "finished" /\ ring \in [Rings -> RingOf]
    BY <1>1, Known DEF Rings
  <2>. QED BY <1>2, <1>3, <2>1, RingAbandonSafe, ResettleWaits
<1>6. ~settled[x].waiting
  <2>1. left[x].waiting = t.waiting
    <3>1. x \notin Listed(xact)
      BY <1>1 DEF Listed
    <3>. QED BY <3>1, ReclaimSafe DEF left
  <2>2. t.rx # 0 => settled[x].waiting = left[x].waiting
    <3>1. "resp" \in Rings /\ phase # "finished" /\ ring \in [Rings -> RingOf]
      BY <1>1, Known DEF Rings
    <3>. QED BY <1>2, <3>1, RingAbandonSafe
  <2>. QED BY <1>4, <2>1, <2>2
<1>. HIDE DEF settled
<1>. DEFINE waits == t.rx > 0
            u == [t EXCEPT !.state = "published", !.waiting = waits, !.ref = ref]
<1>7. u.state = "published" /\ u.waiting = waits /\ ~u.released
  BY <1>4 DEF XactOf
<1>8. \A y \in Xacts : xact'[y] = IF y = x THEN u ELSE settled[y]
  BY <1>1, <1>5
<1>. HIDE DEF u
<1>9. CASE waits
  <2>1. waiting = 0 /\ waiting' = 1 /\ \A y \in Xacts : ~settled[y].waiting
    BY <1>1, <1>5, <1>9 DEF Patient
  <2>. QED BY <1>5, <1>7, <1>8, <1>9, <2>1 DEF Patient
<1>10. CASE ~waits
  <2>1. waiting' = waiting
    BY <1>1, <1>4, <1>10
  <2>. QED BY <1>5, <1>6, <1>7, <1>8, <1>10, <2>1 DEF Patient
<1>. QED BY <1>9, <1>10

LEMMA PollWaits == ASSUME IInv, Patient(xact, waiting), NEW x \in Xacts, Poll(x) PROVE Patient(xact', waiting')
<1>. DEFINE t == Settle(xact[x], ring)
            u == [Unwait(t) EXCEPT !.state = "retired"]
<1>1. /\ t \in XactOf /\ t.state = xact[x].state /\ t.waiting = xact[x].waiting
      /\ t.released = xact[x].released /\ xact[x].state = "published"
  BY Known, SettleSafe DEF Safe, Poll
<1>2. CASE xact' = [xact EXCEPT ![x] = u] /\ waiting' = waiting - Waits(t)
  <2>. HIDE DEF t
  <2>1. ~u.waiting /\ u.state = "retired"
    BY <1>1 DEF Unwait, XactOf
  <2>2. Waits(t) = Waits(xact[x])
    BY <1>1 DEF Waits
  <2>. HIDE DEF u
  <2>. QED BY <1>2, <2>1, <2>2, StopsWaiting
<1>3. CASE xact' = [xact EXCEPT ![x] = t] /\ waiting' = waiting
  <2>. HIDE DEF t
  <2>1. \A y \in Xacts : xact'[y] = IF y = x THEN t ELSE xact[y]
    BY <1>3 DEF IInv, TypeOK
  <2>. QED BY <1>1, <1>3, <2>1, WaitsOn DEF Patient
<1>. QED BY <1>2, <1>3 DEF Poll

LEMMA DoneWaits ==
  ASSUME IInv, Patient(xact, waiting), phase # "finished", NEW x \in Xacts, Done(x)
  PROVE  Patient(xact', waiting')
<1>. DEFINE v == [Unwait(xact[x]) EXCEPT !.released = TRUE]
            t == Settle(v, ring)
            u == IF Idle(t) THEN Freed(t) ELSE t
<1>1. ~xact[x].detached /\ xact[x].state \in {"published", "retired"} /\ xact[x] \in XactOf
  BY Known DEF Safe, Done
<1>2. xact' = [xact EXCEPT ![x] = u] /\ waiting' = waiting - Waits(xact[x])
  BY <1>1 DEF Done
<1>3. /\ v \in XactOf /\ ~v.waiting /\ v.state = xact[x].state /\ v.detached = xact[x].detached
      /\ v.buf = xact[x].buf /\ v.ref = xact[x].ref
  BY <1>1 DEF Unwait, XactOf
<1>. HIDE DEF v
<1>4. t.state = v.state /\ ~t.waiting /\ t \in XactOf
  <2>1. Safe(x, v, ring, phase) /\ ring \in [Rings -> RingOf]
    BY <1>3, Known, CallerSafe
  <2>2. Safe(x, t, ring, phase) /\ t.state = v.state /\ t.waiting = v.waiting
    BY <2>1, SettleSafe
  <2>. QED BY <1>3, <2>2 DEF Safe
<1>. HIDE DEF t
<1>5. Freed(t).state = "gone" /\ ~Freed(t).waiting
  BY <1>4 DEF Freed, XactOf
<1>6. ~u.waiting /\ u.state \notin {"none", "mapped"}
  BY <1>1, <1>3, <1>4, <1>5
<1>. HIDE DEF u
<1>. QED BY <1>2, <1>6, StopsWaiting

LEMMA NextWaited == IInv /\ Waited /\ [Next]_vars => Waited'
<1>. SUFFICES ASSUME IInv, Waited, [Next]_vars, phase' # "finished" PROVE Patient(xact', waiting')
  BY SMTT(30) DEF Waited
<1>1. phase # "finished" /\ Patient(xact, waiting)
  BY DEF Waited, Next, vars, Map, SubmitRefused, Submit, Discard, Poll, Done, OtherPuts, OtherResyncs,
         NewEpoch, Shutdown, Quiesce, Fini, Engine, Fetch, Consume
<1>2. ASSUME NEW x \in Xacts, Map(x) PROVE Patient(xact', waiting')
  <2>1. PICK shape \in Shapes :
          xact' = [xact EXCEPT ![x] = [Unbuilt EXCEPT !.state = "mapped", !.n = shape[1], !.rx = shape[2],
                                                      !.epoch = epoch, !.buf = "held"]]
    BY <1>2 DEF Map
  <2>. DEFINE u == [Unbuilt EXCEPT !.state = "mapped", !.n = shape[1], !.rx = shape[2],
                                   !.epoch = epoch, !.buf = "held"]
  <2>2. ~u.waiting /\ ~u.released
    BY DEF Unbuilt
  <2>. HIDE DEF u
  <2>3. ~xact[x].waiting /\ waiting' = waiting
    BY <1>1, <1>2 DEF Map, Patient
  <2>. QED BY <1>1, <2>1, <2>2, <2>3, OneUnwaited DEF u
<1>3. ASSUME NEW x \in Xacts, SubmitRefused(x) PROVE Patient(xact', waiting')
  BY <1>1, <1>3, ReclaimWaits DEF SubmitRefused
<1>4. ASSUME NEW x \in Xacts, Submit(x) PROVE Patient(xact', waiting')
  BY <1>1, <1>4, SubmitWaits
<1>5. ASSUME NEW x \in Xacts, Discard(x) PROVE Patient(xact', waiting')
  <2>. DEFINE u == Freed(xact[x])
  <2>1. xact' = [xact EXCEPT ![x] = u] /\ waiting' = waiting /\ ~xact[x].waiting
    BY <1>1, <1>5 DEF Discard, Patient
  <2>2. u.state = "gone" /\ ~u.waiting
    BY <2>1, Known DEF Freed, XactOf
  <2>. HIDE DEF u
  <2>. QED BY <1>1, <2>1, <2>2, OneUnwaited
<1>6. ASSUME NEW x \in Xacts, Poll(x) PROVE Patient(xact', waiting')
  BY <1>1, <1>6, PollWaits
<1>7. ASSUME NEW x \in Xacts, Done(x) PROVE Patient(xact', waiting')
  BY <1>1, <1>7, DoneWaits
<1>8. ASSUME NEW r \in Rings, OtherResyncs(r) PROVE Patient(xact', waiting')
  <2>1. \A x \in Xacts : Safe(x, xact[x], ring, phase)
    BY DEF IInv
  <2>. QED BY <1>1, <1>8, <2>1, ResettleWaits DEF OtherResyncs, IInv, TypeOK
<1>9. CASE Quiesce
  <2>. DEFINE half == Resettle(xact, "cmd", ring["cmd"])
              mid == [ring EXCEPT !["cmd"] = Resync(@)]
  <2>1. /\ ring \in [Rings -> RingOf] /\ xact \in [Xacts -> XactOf]
        /\ \A x \in Xacts : Safe(x, xact[x], ring, phase)
        /\ "cmd" \in Rings /\ "resp" \in Rings
    BY DEF IInv, TypeOK, Rings
  <2>2. half \in [Xacts -> XactOf] /\ \A x \in Xacts : Safe(x, half[x], mid, phase)
    BY <1>1, <2>1, RingAbandonSafe
  <2>3. Patient(half, waiting)
    BY <1>1, <2>1, ResettleWaits
  <2>4. mid \in [Rings -> RingOf] /\ mid["resp"] = ring["resp"]
    BY <2>1, ResyncTyped
  <2>5. xact' = Resettle(half, "resp", mid["resp"]) /\ waiting' = waiting
    BY <1>9, <2>4 DEF Quiesce
  <2>. HIDE DEF half, mid
  <2>. QED BY <1>1, <2>1, <2>2, <2>3, <2>4, <2>5, ResettleWaits
<1>10. CASE UNCHANGED <<xact, waiting>>
  BY <1>1, <1>10
<1>11. \/ \E x \in Xacts : Map(x) \/ SubmitRefused(x) \/ Submit(x) \/ Discard(x) \/ Poll(x) \/ Done(x)
       \/ \E r \in Rings : OtherResyncs(r)
       \/ Quiesce
       \/ UNCHANGED <<xact, waiting>>
  BY DEF Next, vars, OtherPuts, NewEpoch, Shutdown, Fini, Engine, Fetch, Consume
<1>. QED BY <1>2, <1>3, <1>4, <1>5, <1>6, <1>7, <1>8, <1>9, <1>10, <1>11

LEMMA WaitedOne == Waited => OneWaiter
<1>. DEFINE waiters == {x \in Xacts : xact[x].waiting}
<1>. SUFFICES ASSUME Patient(xact, waiting)
              PROVE  /\ waiting = Cardinality(waiters) /\ waiting <= 1
                     /\ \A x \in waiters : xact[x].state = "published" /\ ~xact[x].released
  BY DEF Waited, OneWaiter
<1>1. CASE waiting = 0
  <2>1. waiters = {}
    BY <1>1 DEF Patient
  <2>. QED BY <1>1, <2>1, FS_EmptySet
<1>2. CASE waiting = 1 /\ \E x \in Xacts : xact[x].waiting
  <2>1. PICK x \in Xacts : xact[x].waiting
    BY <1>2
  <2>2. waiters = {x}
    BY <2>1 DEF Patient
  <2>3. Cardinality(waiters) = 1
    BY <2>2, FS_Singleton
  <2>. QED BY <1>2, <2>3 DEF Patient
<1>. QED BY <1>1, <1>2 DEF Patient

LEMMA InitWaited == Init => Waited
BY DEF Init, Waited, Patient, Unbuilt

\* The rings, the transactions and the host's counters hold what their code says
\* they may, and no ring is ever fuller than its capacity (struct ua_dsp_ring,
\* struct ua_xact, ua_dsp_ring_put_words()).
THEOREM TypeCorrect == Spec => []TypeOK
<1>1. Init => IInv
  BY InitIInv
<1>2. IInv /\ [Next]_vars => IInv'
  BY NextIInv
<1>3. IInv => TypeOK
  BY DEF IInv
<1>. QED BY <1>1, <1>2, <1>3, PTL DEF Spec

\* No buffer is freed while the device can still read or write it, on rings of
\* any size, with any read-ahead, across any number of resyncs and of wraps of
\* the indices (ua_xact_ref_done(), ua_xact_ring_abandon(), ua_xact_fini()).
THEOREM NeverTouchedAfterFree == Spec => []NoTouchAfterFree
<1>1. Init => IInv
  BY InitIInv
<1>2. IInv /\ [Next]_vars => IInv'
  BY NextIInv
<1>3. IInv => NoTouchAfterFree
  BY SafeUntouched
<1>. QED BY <1>1, <1>2, <1>3, PTL DEF Spec

\* At most one transaction waits for replies, and the counter that refuses a
\* second one is right about it until the rings are freed (ua_xact_submit(),
\* ua_xact_unwait()).
THEOREM WaiterCounted == Spec => []OneWaiter
<1>1. Init => IInv /\ Waited
  BY InitIInv, InitWaited
<1>2. IInv /\ Waited /\ [Next]_vars => (IInv /\ Waited)'
  BY NextIInv, NextWaited
<1>3. Waited => OneWaiter
  BY WaitedOne
<1>. QED BY <1>1, <1>2, <1>3, PTL DEF Spec

==============================================================================

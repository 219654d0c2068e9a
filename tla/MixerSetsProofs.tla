--------------------------- MODULE MixerSetsProofs ---------------------------
(***************************************************************************)
(* Proofs about MixerSets, for any clients, controls, values and           *)
(* parameters, any limit of the history and any number of SETs.            *)
(*                                                                         *)
(* UndoTruthful holds of the history's own operations (Keeps): an entry is *)
(* appended where the line ends, the first one may be forgotten, a step    *)
(* back or forward moves along the line.  InOrder and NoneStranded need to *)
(* know of each SET that waits whether it is the newest of its parameter   *)
(* (Sorted), and hold at each point of the list while it is run (Ordered). *)
(***************************************************************************)
EXTENDS MixerSets, WellFoundedInduction, TLAPS

------------------------------------------------------------------------------
\* Induction.  The library states it over predicates, which the provers cannot
\* instantiate; here a set stands for the predicate and a function for the
\* step of a recursion.
\* It rests on < being well founded.

\* A set of natural numbers that is not empty has a least element.
LEMMA LeastNat ==
  ASSUME NEW T \in SUBSET Nat, T # {}
  PROVE  \E x \in T : \A y \in T : x <= y
<1>1. \E R : /\ IsWellFoundedOn(R, Nat)
             /\ \A x, y \in Nat : <<y, x>> \in R <=> y < x
  <2>. DEFINE R == OpToRel(<, Nat)
  <2>1. IsWellFoundedOn(R, Nat)
    BY NatLessThanWellFounded
  <2>2. \A x, y \in Nat : <<y, x>> \in R <=> y < x
    BY DEF OpToRel
  <2>. HIDE DEF R
  <2>. QED BY <2>1, <2>2
<1>2. PICK R : /\ IsWellFoundedOn(R, Nat)
               /\ \A x, y \in Nat : <<y, x>> \in R <=> y < x
  BY <1>1
<1>3. PICK x \in T : \A y \in T : ~ (<<y, x>> \in R)
  BY <1>2, WFMin
<1>4. \A y \in T : x <= y
  <2>. TAKE y \in T
  <2>1. x \in Nat /\ y \in Nat
    OBVIOUS
  <2>2. ~(y < x)
    BY <1>2, <1>3, <2>1
  <2>. QED BY <2>1, <2>2
<1>. QED BY <1>4

\* Induction up to a bound.
LEMMA InductionTo ==
  ASSUME NEW N \in Nat, NEW T, 0 \in T, \A n \in 0..(N - 1) : n \in T => n + 1 \in T
  PROVE  \A n \in 0..N : n \in T
<1>. DEFINE Out == {n \in 0..N : n \notin T}
<1>. SUFFICES ASSUME Out # {} PROVE FALSE
  OBVIOUS
<1>1. Out \in SUBSET Nat
  OBVIOUS
<1>2. \A n \in Out : n \in 0..N /\ n \notin T
  OBVIOUS
<1>3. \A n \in 0..N : n \in Out \/ n \in T
  OBVIOUS
<1>. HIDE DEF Out
<1>4. PICK x \in Out : \A y \in Out : x <= y
  BY <1>1, LeastNat
<1>5. x \in 0..N /\ x \notin T /\ x # 0
  BY <1>2
<1>6. x - 1 \in 0..(N - 1) /\ x - 1 \in 0..N
  BY <1>5
<1>7. x - 1 \in T
  <2>1. ~(x <= x - 1)
    BY <1>5
  <2>. QED BY <1>3, <1>4, <1>6, <2>1
<1>8. x - 1 + 1 = x
  BY <1>5
<1>. QED BY <1>5, <1>6, <1>7, <1>8

\* A function whose value at n is made of n and its value at n - 1.
Follows(f, N, X, base, F) ==
  f \in [0..N -> X] /\ f[0] = base /\ \A n \in 1..N : f[n] = F[n][f[n - 1]]

LEMMA RecursiveFunction ==
  ASSUME NEW N \in Nat, NEW X, NEW base \in X, NEW F \in [1..N -> [X -> X]]
  PROVE  \E f : Follows(f, N, X, base, F)
<1>. DEFINE Upto(m, f) == /\ f \in [0..m -> X] /\ f[0] = base
                          /\ \A n \in 1..m : f[n] = F[n][f[n - 1]]
            T == {m \in 0..N : \E f : Upto(m, f)}
<1>1. 0 \in T
  <2>. DEFINE f == [n \in 0..0 |-> base]
  <2>1. f \in [0..0 -> X] /\ f[0] = base /\ 1..0 = {}
    OBVIOUS
  <2>. HIDE DEF f
  <2>2. Upto(0, f)
    BY <2>1
  <2>. HIDE DEF Upto
  <2>3. \E g : Upto(0, g)
    BY <2>2
  <2>. QED BY <2>3
<1>2. ASSUME NEW m \in 0..(N - 1), m \in T PROVE m + 1 \in T
  <2>1. PICK f : Upto(m, f)
    BY <1>2
  <2>2. m + 1 \in 1..N /\ m \in 0..m /\ m \in Nat /\ m + 1 \in 0..N
    OBVIOUS
  <2>3. f[m] \in X
    BY <2>1, <2>2
  <2>4. F[m + 1][f[m]] \in X
    BY <2>2, <2>3
  <2>. DEFINE g == [n \in 0..(m + 1) |-> IF n = m + 1 THEN F[m + 1][f[m]] ELSE f[n]]
  <2>5. \A n \in 0..(m + 1) : g[n] \in X
    BY <2>1, <2>2, <2>4
  <2>6. g \in [0..(m + 1) -> X]
    BY <2>5
  <2>7. g[0] = base
    BY <2>1, <2>2
  <2>8. \A n \in 1..(m + 1) : g[n] = F[n][g[n - 1]]
    <3>. TAKE n \in 1..(m + 1)
    <3>1. CASE n = m + 1
      <4>1. g[n] = F[m + 1][f[m]] /\ g[n - 1] = f[m]
        BY <2>2, <3>1
      <4>. QED BY <3>1, <4>1
    <3>2. CASE n # m + 1
      <4>1. n \in 1..m /\ n \in 0..m /\ n - 1 \in 0..m /\ n - 1 # m + 1
        BY <2>2, <3>2
      <4>2. g[n] = f[n] /\ g[n - 1] = f[n - 1]
        BY <2>2, <4>1
      <4>. QED BY <2>1, <4>1, <4>2
    <3>. QED BY <3>1, <3>2
  <2>. HIDE DEF g
  <2>9. Upto(m + 1, g)
    BY <2>6, <2>7, <2>8
  <2>. HIDE DEF Upto
  <2>. QED BY <2>2, <2>9
<1>3. N \in T
  <2>. HIDE DEF T
  <2>1. \A n \in 0..N : n \in T
    BY <1>1, <1>2, InductionTo
  <2>. QED BY <2>1
<1>. QED BY <1>3 DEF Follows


------------------------------------------------------------------------------
\* The mixer.

Pairs  == [old : Values, new : Values]
Deltas == UNION {[S -> Pairs] : S \in SUBSET (Paths \ Skipped)}
Groups == UNION {[D -> Deltas] : D \in SUBSET Clients}

Edits  == [k : {"edit"}, p : Paths, v : Values]
Others == [k : {"bracket"}, on : BOOLEAN] \cup [k : {"move"}, to : Int]
            \cup [k : {"param"}, p : Params] \cup [k : {"load"}]
Requests == [c : Clients, n : 1..MaxSent, set : Edits \cup Others]

Mixers == [val : [Paths -> Values], groups : Groups, entries : Seq(Deltas), current : Nat,
           job : Requests \cup {NoJob}, ran : 0..MaxSent, runs : [Params -> 0..MaxSent],
           answered : SUBSET (1..MaxSent), torn : SUBSET Paths]

\* A control that nobody changed inside another's gesture is in one gesture at
\* most, which holds the value that is there now, and its history is one unbroken
\* line.
ByOne(m, p) == \A c, d \in Holding(m, p) : c = d
Hist(m) ==
  /\ Len(m.entries) <= MaxEntries /\ m.current <= Len(m.entries)
  /\ \A p \in Paths \ m.torn : ByOne(m, p) /\ Line(m, p)

\* What is not the history's.
Same(m, q) == q.job = m.job /\ q.ran = m.ran /\ q.runs = m.runs /\ q.answered = m.answered

\* The deltas, the groups of gestures, and the SETs.
LEMMA DeltasAre ==
  /\ \A d \in Deltas : /\ DOMAIN d \subseteq Paths \ Skipped /\ d = [p \in DOMAIN d |-> d[p]]
                       /\ \A p \in DOMAIN d : d[p] \in Pairs
  /\ \A S \in SUBSET (Paths \ Skipped) : \A d \in [S -> Pairs] : d \in Deltas
BY DEF Deltas

LEMMA GroupsAre ==
  /\ \A g \in Groups : /\ DOMAIN g \subseteq Clients /\ g = [c \in DOMAIN g |-> g[c]]
                       /\ \A c \in DOMAIN g : g[c] \in Deltas
  /\ \A D \in SUBSET Clients : \A g \in [D -> Deltas] : g \in Groups
BY DEF Groups

LEMMA RequestsAre ==
  ASSUME NEW r \in Requests
  PROVE  /\ r.c \in Clients /\ r.n \in 1..MaxSent
         /\ r.set.k \in {"edit", "bracket", "move", "param", "load"}
         /\ r.set.k = "edit" => r.set.p \in Paths /\ r.set.v \in Values
         /\ r.set.k = "bracket" => r.set.on \in BOOLEAN
         /\ r.set.k = "move" => r.set.to \in Int
         /\ r.set.k = "param" => r.set.p \in Params
<1>1. r.c \in Clients /\ r.n \in 1..MaxSent /\ r.set \in Edits \cup Others
  BY DEF Requests
<1>2. CASE r.set \in Edits
  BY <1>1, <1>2 DEF Edits
<1>3. CASE r.set \in Others
  BY <1>1, <1>3 DEF Others
<1>. QED BY <1>1, <1>2, <1>3

LEMMA JobIs ==
  ASSUME NEW j \in Requests \cup {NoJob}
  PROVE  /\ j = NoJob <=> j.n = 0
         /\ j # NoJob => j \in Requests /\ j.n \in 1..MaxSent
<1>1. NoJob.n = 0
  BY DEF NoJob
<1>2. \A r \in Requests : r.n \in 1..MaxSent
  BY RequestsAre
<1>3. \A r \in Requests : r.n # 0
  BY <1>2
<1>. QED BY <1>1, <1>2, <1>3

------------------------------------------------------------------------------
\* Lines.

\* An entry goes to the end of what was not undone.
LEMMA CutUnbroken ==
  ASSUME NEW e \in Seq(Deltas), NEW n \in 0..Len(e), NEW now, NEW p, Unbroken(e, n, now, p)
  PROVE  /\ SubSeq(e, 1, n) \in Seq(Deltas) /\ Len(SubSeq(e, 1, n)) = n
         /\ Unbroken(SubSeq(e, 1, n), n, now, p)
<1>. DEFINE k == SubSeq(e, 1, n)
<1>1. Len(e) \in Nat /\ \A i \in 1..n : i \in 1..Len(e)
  OBVIOUS
<1>2. k \in Seq(Deltas) /\ Len(k) = n /\ \A i \in 1..n : k[i] = e[i]
  BY <1>1
<1>. HIDE DEF k
<1>3. Mentions(k, p) \subseteq Mentions(e, p) /\ \A i \in Mentions(e, p) : i <= n => i \in Mentions(k, p)
  BY <1>1, <1>2 DEF Mentions
<1>4. \A i \in Mentions(k, p) : k[i] = e[i] /\ i \in 1..n
  BY <1>2 DEF Mentions
<1>5. \A i \in Mentions(e, p) : i \in 1..Len(e)
  BY DEF Mentions
<1>. HIDE DEF Mentions
<1>6. Unbroken(k, n, now, p)
  BY <1>1, <1>3, <1>4, <1>5 DEF Unbroken
<1>. QED BY <1>2, <1>6 DEF k

LEMMA AppendUnbroken ==
  ASSUME NEW e \in Seq(Deltas), NEW d \in Deltas, NEW now, NEW next, NEW p,
         Unbroken(e, Len(e), now, p),
         p \in DOMAIN d => d[p].old = now /\ d[p].new = next,
         p \notin DOMAIN d => next = now
  PROVE  Unbroken(Append(e, d), Len(e) + 1, next, p)
<1>. DEFINE k == Append(e, d)
            n == Len(e)
<1>1. n \in Nat /\ DOMAIN e = 1..n /\ DOMAIN k = 1..(n + 1) /\ k[n + 1] = d
      /\ \A i \in 1..n : k[i] = e[i]
  OBVIOUS
<1>. HIDE DEF k, n
<1>2. \A i \in Mentions(k, p) : \/ i \in Mentions(e, p) /\ i \in 1..n /\ k[i] = e[i]
                                \/ i = n + 1 /\ p \in DOMAIN d /\ k[i] = d
  BY <1>1 DEF Mentions
<1>3. Mentions(e, p) \subseteq Mentions(k, p) /\ (p \in DOMAIN d => n + 1 \in Mentions(k, p))
      /\ Mentions(e, p) \subseteq 1..n
  BY <1>1 DEF Mentions
<1>4. Unbroken(e, n, now, p)
  BY DEF n
<1>. HIDE DEF Mentions
<1>5. Unbroken(k, n + 1, next, p)
  <2>. DEFINE at == Mentions(k, p)
  <2>2. ASSUME NEW i \in at, NEW j \in at, i < j, \A h \in at : h <= i \/ h >= j
        PROVE  k[i][p].new = k[j][p].old
    <3>1. CASE j \in Mentions(e, p)
      <4>1. i \in Mentions(e, p)
        BY <1>1, <1>2, <1>3, <2>2, <3>1
      <4>. QED BY <1>1, <1>2, <1>3, <1>4, <2>2, <3>1, <4>1 DEF Unbroken
    <3>2. CASE j \notin Mentions(e, p)
      <4>1. j = n + 1 /\ k[j] = d /\ p \in DOMAIN d
        BY <1>2, <3>2
      <4>2. i \in Mentions(e, p) /\ i \in 1..n /\ k[i] = e[i]
        <5>1. i # n + 1
          BY <1>1, <2>2, <4>1
        <5>. QED BY <1>2, <5>1
      <4>3. \A h \in Mentions(e, p) : h <= i \/ h > n
        BY <1>1, <1>3, <2>2, <4>1
      <4>4. e[i][p].new = now
        BY <1>1, <1>4, <4>2, <4>3 DEF Unbroken
      <4>. QED BY <4>1, <4>2, <4>4
    <3>. QED BY <3>1, <3>2
  <2>3. ASSUME NEW i \in at, i <= n + 1, \A h \in at : h <= i \/ h > n + 1
        PROVE  k[i][p].new = next
    <3>1. CASE p \in DOMAIN d
      <4>1. n + 1 \in at
        BY <1>3, <3>1
      <4>2. i = n + 1 /\ k[i] = d
        BY <1>1, <1>2, <2>3, <4>1
      <4>. QED BY <3>1, <4>2
    <3>2. CASE p \notin DOMAIN d
      <4>1. i \in Mentions(e, p) /\ i \in 1..n /\ k[i] = e[i]
        BY <1>2, <3>2
      <4>2. \A h \in Mentions(e, p) : h <= i \/ h > n
        BY <1>1, <1>3, <2>3
      <4>. QED BY <1>1, <1>4, <3>2, <4>1, <4>2 DEF Unbroken
    <3>. QED BY <3>1, <3>2
  <2>4. \A i \in at : ~(i > n + 1)
    BY <1>1, <1>2
  <2>. QED BY <2>2, <2>3, <2>4 DEF Unbroken
<1>. QED BY <1>5 DEF k, n

\* The oldest entry may be forgotten.
LEMMA TailUnbroken ==
  ASSUME NEW e \in Seq(Deltas), e # <<>>, NEW now, NEW p, Unbroken(e, Len(e), now, p)
  PROVE  Unbroken(Tail(e), Len(e) - 1, now, p)
<1>. DEFINE k == Tail(e)
            n == Len(e)
<1>1. n \in Nat /\ n > 0 /\ DOMAIN e = 1..n /\ DOMAIN k = 1..(n - 1) /\ \A i \in 1..(n - 1) : k[i] = e[i + 1]
  OBVIOUS
<1>. HIDE DEF k, n
<1>2. \A i \in Mentions(k, p) : i \in 1..(n - 1) /\ i + 1 \in Mentions(e, p) /\ k[i] = e[i + 1]
  BY <1>1 DEF Mentions
<1>3. \A i \in Mentions(e, p) : i \in 1..n /\ (i = 1 \/ i - 1 \in Mentions(k, p))
  BY <1>1 DEF Mentions
<1>4. Unbroken(e, n, now, p)
  BY DEF n
<1>. HIDE DEF Mentions
<1>5. Unbroken(k, n - 1, now, p)
  <2>. DEFINE at == Mentions(k, p)
  <2>2. ASSUME NEW i \in at, NEW j \in at, i < j, \A h \in at : h <= i \/ h >= j
        PROVE  k[i][p].new = k[j][p].old
    <3>1. \A h \in Mentions(e, p) : h <= i + 1 \/ h >= j + 1
      <4>. TAKE h \in Mentions(e, p)
      <4>1. CASE h = 1
        BY <1>1, <1>2, <4>1
      <4>2. CASE h # 1
        <5>1. h - 1 \in at /\ h \in 1..n
          BY <1>3, <4>2
        <5>2. h - 1 <= i \/ h - 1 >= j
          BY <2>2, <5>1
        <5>. QED BY <1>1, <1>2, <5>1, <5>2
      <4>. QED BY <4>1, <4>2
    <3>2. i + 1 \in Mentions(e, p) /\ j + 1 \in Mentions(e, p) /\ i + 1 < j + 1
      BY <1>1, <1>2, <2>2
    <3>3. e[i + 1][p].new = e[j + 1][p].old
      BY <1>4, <3>1, <3>2 DEF Unbroken
    <3>. QED BY <1>2, <3>3
  <2>3. ASSUME NEW i \in at, \A h \in at : h <= i \/ h > n - 1
        PROVE  k[i][p].new = now
    <3>1. \A h \in Mentions(e, p) : h <= i + 1 \/ h > n
      <4>. TAKE h \in Mentions(e, p)
      <4>1. CASE h = 1
        BY <1>1, <1>2, <4>1
      <4>2. CASE h # 1
        <5>1. h - 1 \in at /\ h \in 1..n
          BY <1>3, <4>2
        <5>2. h - 1 <= i \/ h - 1 > n - 1
          BY <2>3, <5>1
        <5>. QED BY <1>1, <1>2, <5>1, <5>2
      <4>. QED BY <4>1, <4>2
    <3>2. i + 1 \in Mentions(e, p) /\ i + 1 <= n
      BY <1>1, <1>2
    <3>3. e[i + 1][p].new = now
      BY <1>4, <3>1, <3>2 DEF Unbroken
    <3>. QED BY <1>2, <3>3
  <2>4. \A i \in at : ~(i > n - 1)
    BY <1>1, <1>2
  <2>. QED BY <2>2, <2>3, <2>4 DEF Unbroken
<1>. QED BY <1>5 DEF k, n

\* A step back, and a step forward.
LEMMA BackUnbroken ==
  ASSUME NEW e \in Seq(Deltas), NEW n \in 1..Len(e), NEW now, NEW next, NEW p,
         Unbroken(e, n, now, p),
         next = IF p \in DOMAIN e[n] THEN e[n][p].old ELSE now
  PROVE  Unbroken(e, n - 1, next, p)
<1>1. \A i \in Mentions(e, p) : i \in 1..Len(e) /\ p \in DOMAIN e[i]
  BY DEF Mentions
<1>2. p \in DOMAIN e[n] => n \in Mentions(e, p)
  BY DEF Mentions
<1>3. Len(e) \in Nat /\ n \in Nat /\ n - 1 \in Nat
  OBVIOUS
<1>. HIDE DEF Mentions
<1>4. ASSUME NEW i \in Mentions(e, p), i <= n - 1, \A k \in Mentions(e, p) : k <= i \/ k > n - 1
      PROVE  e[i][p].new = next
  <2>1. CASE p \in DOMAIN e[n]
    <3>1. \A k \in Mentions(e, p) : k <= i \/ k >= n
      BY <1>1, <1>3, <1>4
    <3>2. i < n
      BY <1>1, <1>3, <1>4
    <3>. QED BY <1>2, <2>1, <3>1, <3>2 DEF Unbroken
  <2>2. CASE p \notin DOMAIN e[n]
    <3>1. \A k \in Mentions(e, p) : k <= i \/ k > n
      BY <1>1, <1>3, <1>4, <2>2
    <3>2. i <= n
      BY <1>1, <1>3, <1>4
    <3>. QED BY <2>2, <3>1, <3>2 DEF Unbroken
  <2>. QED BY <2>1, <2>2
<1>5. ASSUME NEW i \in Mentions(e, p), i > n - 1, \A k \in Mentions(e, p) : k >= i \/ k <= n - 1
      PROVE  e[i][p].old = next
  <2>1. CASE p \in DOMAIN e[n]
    <3>1. i = n
      BY <1>1, <1>2, <1>3, <1>5, <2>1
    <3>. QED BY <2>1, <3>1
  <2>2. CASE p \notin DOMAIN e[n]
    <3>1. i > n /\ \A k \in Mentions(e, p) : k >= i \/ k <= n
      BY <1>1, <1>3, <1>5, <2>2
    <3>. QED BY <2>2, <3>1 DEF Unbroken
  <2>. QED BY <2>1, <2>2
<1>. QED BY <1>4, <1>5 DEF Unbroken

LEMMA ForthUnbroken ==
  ASSUME NEW e \in Seq(Deltas), NEW n \in 1..Len(e), NEW now, NEW next, NEW p,
         Unbroken(e, n - 1, now, p),
         next = IF p \in DOMAIN e[n] THEN e[n][p].new ELSE now
  PROVE  Unbroken(e, n, next, p)
<1>1. \A i \in Mentions(e, p) : i \in 1..Len(e) /\ p \in DOMAIN e[i]
  BY DEF Mentions
<1>2. p \in DOMAIN e[n] => n \in Mentions(e, p)
  BY DEF Mentions
<1>3. Len(e) \in Nat /\ n \in Nat /\ n - 1 \in Nat
  OBVIOUS
<1>. HIDE DEF Mentions
<1>4. ASSUME NEW i \in Mentions(e, p), i <= n, \A k \in Mentions(e, p) : k <= i \/ k > n
      PROVE  e[i][p].new = next
  <2>1. CASE p \in DOMAIN e[n]
    <3>1. i = n
      BY <1>1, <1>2, <1>3, <1>4, <2>1
    <3>. QED BY <2>1, <3>1
  <2>2. CASE p \notin DOMAIN e[n]
    <3>1. i <= n - 1 /\ \A k \in Mentions(e, p) : k <= i \/ k > n - 1
      BY <1>1, <1>3, <1>4, <2>2
    <3>. QED BY <2>2, <3>1 DEF Unbroken
  <2>. QED BY <2>1, <2>2
<1>5. ASSUME NEW i \in Mentions(e, p), i > n, \A k \in Mentions(e, p) : k >= i \/ k <= n
      PROVE  e[i][p].old = next
  <2>1. CASE p \in DOMAIN e[n]
    <3>1. \A k \in Mentions(e, p) : k <= n \/ k >= i
      BY <1>5
    <3>2. n < i
      BY <1>1, <1>3, <1>5
    <3>. QED BY <1>2, <2>1, <3>1, <3>2 DEF Unbroken
  <2>2. CASE p \notin DOMAIN e[n]
    <3>1. i > n - 1 /\ \A k \in Mentions(e, p) : k >= i \/ k <= n - 1
      BY <1>1, <1>3, <1>5, <2>2
    <3>. QED BY <2>2, <3>1 DEF Unbroken
  <2>. QED BY <2>1, <2>2
<1>. QED BY <1>4, <1>5 DEF Unbroken

------------------------------------------------------------------------------
\* The history's operations.

\* The entries after a step that changes something.
Kept(m, delta) ==
  Append(SubSeq(m.entries, 1, m.current),
         [p \in {p \in DOMAIN delta : delta[p].old # delta[p].new} |-> delta[p]])

\* What is undone is forgotten, and the new entry goes where the line ends.
LEMMA KeptIs ==
  ASSUME NEW m \in Mixers, m.current <= Len(m.entries), NEW delta \in Deltas
  PROVE  /\ Kept(m, delta) \in Seq(Deltas) /\ Len(Kept(m, delta)) = m.current + 1
         /\ \A p, now, next :
              /\ Unbroken(m.entries, m.current, now, p)
              /\ p \in DOMAIN delta => delta[p].old = now /\ delta[p].new = next
              /\ p \notin DOMAIN delta => next = now
              => Unbroken(Kept(m, delta), m.current + 1, next, p)
<1>. DEFINE changed == {p \in DOMAIN delta : delta[p].old # delta[p].new}
            d == [p \in changed |-> delta[p]]
            e == SubSeq(m.entries, 1, m.current)
<1>1. m.entries \in Seq(Deltas) /\ m.current \in Nat /\ m.current \in 0..Len(m.entries)
  BY DEF Mixers
<1>2. d \in Deltas /\ DOMAIN d = changed /\ \A p \in changed : d[p] = delta[p]
  <2>1. changed \subseteq Paths \ Skipped /\ \A p \in changed : delta[p] \in Pairs
    BY DeltasAre
  <2>2. d \in [changed -> Pairs]
    BY <2>1
  <2>. QED BY <2>1, <2>2, DeltasAre
<1>3. e \in Seq(Deltas) /\ Len(e) = m.current
      /\ \A p, now : Unbroken(m.entries, m.current, now, p) => Unbroken(e, m.current, now, p)
  BY <1>1, CutUnbroken
<1>4. Kept(m, delta) = Append(e, d)
  BY DEF Kept
<1>5. \A p : p \in DOMAIN delta => p \in changed \/ delta[p].old = delta[p].new
  OBVIOUS
<1>6. \A p : p \in changed => p \in DOMAIN delta
  OBVIOUS
<1>. HIDE DEF changed, d, e
<1>7. ASSUME NEW p, NEW now, NEW next, Unbroken(m.entries, m.current, now, p),
             p \in DOMAIN delta => delta[p].old = now /\ delta[p].new = next,
             p \notin DOMAIN delta => next = now
      PROVE  Unbroken(Append(e, d), m.current + 1, next, p)
  <2>1. Unbroken(e, Len(e), now, p)
    BY <1>3, <1>7
  <2>2. p \in DOMAIN d => d[p].old = now /\ d[p].new = next
    BY <1>2, <1>6, <1>7
  <2>3. p \notin DOMAIN d => next = now
    BY <1>2, <1>5, <1>7
  <2>4. Unbroken(Append(e, d), Len(e) + 1, next, p)
    BY <1>2, <1>3, <2>1, <2>2, <2>3, AppendUnbroken
  <2>. QED BY <1>3, <2>4
<1>8. Append(e, d) \in Seq(Deltas) /\ Len(Append(e, d)) = m.current + 1
  BY <1>2, <1>3
<1>. QED BY <1>4, <1>7, <1>8

\* History.append goes on with each control's line, up to its limit.
LEMMA AppendStepIs ==
  ASSUME MixerAssumption, NEW m \in Mixers, m.current <= Len(m.entries), Len(m.entries) <= MaxEntries,
         NEW delta \in Deltas
  PROVE  /\ AppendStep(m, delta) \in Mixers /\ Same(m, AppendStep(m, delta))
         /\ AppendStep(m, delta).val = m.val /\ AppendStep(m, delta).groups = m.groups
         /\ AppendStep(m, delta).torn = m.torn
         /\ AppendStep(m, delta).current <= Len(AppendStep(m, delta).entries)
         /\ Len(AppendStep(m, delta).entries) <= MaxEntries
         /\ \A p, now, next :
              /\ Unbroken(m.entries, m.current, now, p)
              /\ p \in DOMAIN delta => delta[p].old = now /\ delta[p].new = next
              /\ p \notin DOMAIN delta => next = now
              => Unbroken(AppendStep(m, delta).entries, AppendStep(m, delta).current, next, p)
<1>. DEFINE changed == {p \in DOMAIN delta : delta[p].old # delta[p].new}
            kept == Kept(m, delta)
            steps == IF Len(kept) > MaxEntries THEN Tail(kept) ELSE kept
            q == AppendStep(m, delta)
<1>1. q = IF changed = {} THEN m ELSE [m EXCEPT !.entries = steps, !.current = Len(steps)]
  BY DEF AppendStep, Kept
<1>2. /\ kept \in Seq(Deltas) /\ Len(kept) = m.current + 1
      /\ \A p, now, next :
              /\ Unbroken(m.entries, m.current, now, p)
              /\ p \in DOMAIN delta => delta[p].old = now /\ delta[p].new = next
              /\ p \notin DOMAIN delta => next = now
              => Unbroken(kept, Len(kept), next, p)
  <2>1. kept \in Seq(Deltas) /\ Len(kept) = m.current + 1
    BY KeptIs
  <2>2. ASSUME NEW p, NEW now, NEW next, Unbroken(m.entries, m.current, now, p),
               p \in DOMAIN delta => delta[p].old = now /\ delta[p].new = next,
               p \notin DOMAIN delta => next = now
        PROVE  Unbroken(kept, m.current + 1, next, p)
    BY <2>2, KeptIs, Zenon
  <2>. HIDE DEF kept
  <2>. QED BY <2>1, <2>2
<1>3. m.current \in Nat /\ m.entries \in Seq(Deltas) /\ Len(m.entries) \in Nat /\ MaxEntries \in Nat
  BY DEF Mixers, MixerAssumption
<1>. HIDE DEF kept, q
<1>4. /\ steps \in Seq(Deltas) /\ Len(steps) <= MaxEntries /\ Len(steps) \in Nat
      /\ \A p, next : Unbroken(kept, Len(kept), next, p) => Unbroken(steps, Len(steps), next, p)
  <2>1. CASE Len(kept) > MaxEntries
    <3>1. kept # <<>> /\ Tail(kept) \in Seq(Deltas) /\ Len(Tail(kept)) = Len(kept) - 1
      BY <1>2, <1>3, <2>1
    <3>2. ASSUME NEW p, NEW next, Unbroken(kept, Len(kept), next, p)
          PROVE  Unbroken(Tail(kept), Len(Tail(kept)), next, p)
      <4>1. Unbroken(Tail(kept), Len(kept) - 1, next, p)
        BY <1>2, <3>1, <3>2, TailUnbroken
      <4>. QED BY <3>1, <4>1
    <3>3. Len(Tail(kept)) \in Nat /\ Len(Tail(kept)) <= MaxEntries
      BY <1>2, <1>3, <3>1
    <3>. QED BY <2>1, <3>1, <3>2, <3>3
  <2>2. CASE ~(Len(kept) > MaxEntries)
    BY <1>2, <1>3, <2>2
  <2>. QED BY <2>1, <2>2
<1>. HIDE DEF steps
<1>5. CASE changed = {}
  <2>1. q = m
    BY <1>1, <1>5
  <2>2. \A p \in DOMAIN delta : delta[p].old = delta[p].new
    BY <1>5
  <2>. QED BY <1>3, <2>1, <2>2 DEF q, Same
<1>6. CASE changed # {}
  <2>1. q = [m EXCEPT !.entries = steps, !.current = Len(steps)]
    BY <1>1, <1>6
  <2>2. q \in Mixers /\ Same(m, q) /\ q.val = m.val /\ q.groups = m.groups /\ q.entries = steps
        /\ q.current = Len(steps) /\ q.torn = m.torn
    BY <1>4, <2>1 DEF Mixers, Same
  <2>. QED BY <1>2, <1>4, <2>2 DEF q
<1>. QED BY <1>5, <1>6

\* What a control holds at the end of its line.
NowOf(m, p) ==
  IF Holding(m, p) = {} THEN m.val[p] ELSE m.groups[CHOOSE c \in Holding(m, p) : TRUE][p].old

\* A line, by what the control holds at its end.
LEMMA LineIs ==
  ASSUME NEW m, NEW p
  PROVE  Line(m, p) <=> /\ Unbroken(m.entries, m.current, NowOf(m, p), p)
                        /\ \A c \in Holding(m, p) : m.groups[c][p].new = m.val[p]
BY DEF Line, NowOf

\* A control is in this client's gesture or in none.
LEMMA NowIs ==
  ASSUME NEW m, NEW p, NEW c, Holding(m, p) \subseteq {c}
  PROVE  NowOf(m, p) = IF c \in DOMAIN m.groups /\ p \in DOMAIN m.groups[c] THEN m.groups[c][p].old ELSE m.val[p]
<1>1. CASE c \in DOMAIN m.groups /\ p \in DOMAIN m.groups[c]
  <2>1. Holding(m, p) = {c}
    BY <1>1 DEF Holding
  <2>. QED BY <1>1, <2>1 DEF NowOf
<1>2. CASE ~(c \in DOMAIN m.groups /\ p \in DOMAIN m.groups[c])
  <2>1. Holding(m, p) = {}
    BY <1>2 DEF Holding
  <2>. QED BY <1>2, <2>1 DEF NowOf
<1>. QED BY <1>1, <1>2

\* The end of a control's line does not see the gestures that are not about it.
LEMMA NowSame ==
  ASSUME NEW m, NEW q, NEW p, Holding(q, p) = Holding(m, p), q.val[p] = m.val[p],
         \A c \in Holding(m, p) : q.groups[c][p] = m.groups[c][p]
  PROVE  NowOf(q, p) = NowOf(m, p)
<1>1. CASE Holding(m, p) = {}
  BY <1>1 DEF NowOf
<1>2. CASE Holding(m, p) # {}
  <2>1. (CHOOSE c \in Holding(m, p) : TRUE) \in Holding(m, p)
    BY <1>2
  <2>. QED BY <1>2, <2>1 DEF NowOf
<1>. QED BY <1>1, <1>2

\* An operation of the history keeps the line, and what is not the history's.
Keeps(m, q) == q \in Mixers /\ Hist(q) /\ Same(m, q)

LEMMA EmptyIs == Empty \in Deltas /\ Empty \in Groups /\ DOMAIN Empty = {}
<1>1. Empty \in [{} -> Pairs] /\ Empty \in [{} -> Deltas] /\ DOMAIN Empty = {}
  BY DEF Empty
<1>2. {} \in SUBSET (Paths \ Skipped) /\ {} \in SUBSET Clients
  OBVIOUS
<1>. QED BY <1>1, <1>2 DEF Deltas, Groups

\* What a gesture makes of one more SET.
LEMMA MergeAt ==
  ASSUME NEW g, NEW p, NEW old, NEW new
  PROVE  /\ Merge(g, p, old, new)[p].new = new
         /\ Merge(g, p, old, new)[p].old = IF p \in DOMAIN g THEN g[p].old ELSE old
<1>1. p \in DOMAIN g \cup {p}
  OBVIOUS
<1>2. Merge(g, p, old, new)[p] = [old |-> IF p \in DOMAIN g THEN g[p].old ELSE old, new |-> new]
  BY <1>1 DEF Merge
<1>. QED BY <1>2

LEMMA MergeOthers ==
  ASSUME NEW g, NEW p, NEW old, NEW new
  PROVE  /\ DOMAIN Merge(g, p, old, new) = DOMAIN g \cup {p}
         /\ \A q \in DOMAIN g : q # p => Merge(g, p, old, new)[q] = g[q]
BY DEF Merge

LEMMA MergeIs ==
  ASSUME NEW g \in Deltas, NEW p \in Paths \ Skipped, NEW old \in Values, NEW new \in Values
  PROVE  Merge(g, p, old, new) \in Deltas
<1>. DEFINE x == [old |-> IF p \in DOMAIN g THEN g[p].old ELSE old, new |-> new]
            S == DOMAIN g \cup {p}
            d == Merge(g, p, old, new)
<1>1. S \in SUBSET (Paths \ Skipped) /\ \A q \in DOMAIN g : g[q] \in Pairs
  BY DeltasAre
<1>2. x \in Pairs
  BY <1>1 DEF Pairs
<1>3. d = [q \in S |-> IF q # p THEN g[q] ELSE x]
  BY DEF Merge
<1>. HIDE DEF x, d
<1>4. d \in [S -> Pairs]
  BY <1>1, <1>2, <1>3
<1>5. d \in Deltas
  BY <1>1, <1>4 DEF Deltas
<1>. QED BY <1>5 DEF d

Single(d, p, old, new) ==
  d \in Deltas /\ DOMAIN d = {p} /\ d[p].old = old /\ d[p].new = new
LEMMA MergeEmpty ==
  ASSUME NEW p \in Paths \ Skipped, NEW old \in Values, NEW new \in Values
  PROVE  Single(Merge(Empty, p, old, new), p, old, new)
<1>1. PICK g \in Deltas : g = Empty /\ DOMAIN g = {}
  BY EmptyIs
<1>. DEFINE d == Merge(g, p, old, new)
<1>2. d \in Deltas
  BY MergeIs
<1>3. DOMAIN d = DOMAIN g \cup {p}
  BY MergeOthers
<1>4. d[p].new = new /\ d[p].old = IF p \in DOMAIN g THEN g[p].old ELSE old
  BY MergeAt
<1>. HIDE DEF d
<1>5. d \in Deltas /\ DOMAIN d = {p} /\ d[p].old = old /\ d[p].new = new
  BY <1>1, <1>2, <1>3, <1>4
<1>6. Single(d, p, old, new)
  BY <1>5 DEF Single
<1>. QED BY <1>1, <1>6 DEF d

\* A sequence with one more element at its end.
LEMMA Appended ==
  ASSUME NEW S, NEW x \in Seq(S), NEW q \in S
  PROVE  /\ Append(x, q) \in Seq(S) /\ Len(Append(x, q)) = Len(x) + 1
         /\ Append(x, q)[Len(x) + 1] = q
         /\ \A i \in 1..Len(x) : Append(x, q)[i] = x[i]
         /\ \A i \in 1..Len(Append(x, q)) : i \in 1..Len(x) \/ i = Len(x) + 1
OBVIOUS

\* A control that the history skips is in no entry and in no gesture.
LEMMA SkippedFree ==
  ASSUME NEW m \in Mixers, NEW p \in Skipped, NEW now, NEW n
  PROVE  Holding(m, p) = {} /\ Unbroken(m.entries, n, now, p)
<1>1. m.groups \in Groups /\ m.entries \in Seq(Deltas)
  BY DEF Mixers
<1>2. Holding(m, p) = {}
  BY <1>1, GroupsAre, DeltasAre DEF Holding
<1>3. Mentions(m.entries, p) = {}
  BY <1>1, DeltasAre DEF Mentions
<1>. QED BY <1>2, <1>3 DEF Unbroken

\* StateTree.set and History.record.
LEMMA EditKeeps ==
  ASSUME MixerAssumption, NEW m \in Mixers, Hist(m), NEW c \in Clients, NEW p \in Paths,
         NEW v \in Values
  PROVE  Keeps(m, Edit(m, c, p, v))
<1>0. PICK was \in Values : was = m.val[p]
  BY DEF Mixers, MixerAssumption
<1>. DEFINE w == [m.val EXCEPT ![p] = v]
            t == [m EXCEPT !.val = w]
            x == Torn(m, c, p)
            u == [t EXCEPT !.torn = x]
<1>1. /\ m.val \in [Paths -> Values] /\ m.groups \in Groups /\ m.entries \in Seq(Deltas)
      /\ Len(m.entries) <= MaxEntries /\ m.current <= Len(m.entries)
      /\ \A q \in Paths \ m.torn : ByOne(m, q) /\ Line(m, q)
      /\ DOMAIN m.groups \subseteq Clients /\ \A d \in DOMAIN m.groups : m.groups[d] \in Deltas
  BY GroupsAre DEF Mixers, Hist, MixerAssumption
<1>2. w \in [Paths -> Values] /\ w[p] = v /\ \A q \in Paths : q # p => w[q] = m.val[q]
  BY <1>1
<1>3. Edit(m, c, p, v) =
        IF was = v \/ p \in Skipped THEN t
        ELSE IF c \in DOMAIN m.groups THEN [u EXCEPT !.groups[c] = Merge(u.groups[c], p, was, v)]
        ELSE AppendStep(u, Merge(Empty, p, was, v))
  BY <1>0 DEF Edit
<1>. HIDE DEF w
<1>4. /\ t \in Mixers /\ t.val = w /\ t.groups = m.groups /\ t.entries = m.entries
      /\ t.current = m.current /\ t.torn = m.torn /\ Same(m, t)
  BY <1>2 DEF Mixers, Same
<1>. HIDE DEF t
<1>5. /\ x \in SUBSET Paths /\ m.torn \subseteq x
      /\ p \notin x => Holding(m, p) \subseteq {c}
  <2>1. m.torn \in SUBSET Paths
    BY DEF Mixers
  <2>. QED BY <2>1 DEF Torn
<1>. HIDE DEF x
<1>6. /\ u \in Mixers /\ u.val = w /\ u.groups = m.groups /\ u.entries = m.entries
      /\ u.current = m.current /\ u.torn = x /\ Same(m, u)
  BY <1>4, <1>5 DEF Mixers, Same
<1>. HIDE DEF u
<1>7. ASSUME NEW q \in Paths \ m.torn, q # p PROVE ByOne(t, q) /\ Line(t, q)
  <2>1. Holding(t, q) = Holding(m, q)
    BY <1>4 DEF Holding
  <2>2. NowOf(t, q) = NowOf(m, q)
    BY <1>2, <1>4, <1>7, <2>1, NowSame
  <2>3. ByOne(m, q) /\ Line(m, q) /\ t.val[q] = m.val[q]
    BY <1>1, <1>2, <1>4, <1>7
  <2>. QED BY <1>4, <2>1, <2>2, <2>3, LineIs DEF ByOne
<1>8. CASE p \in Skipped
  <2>1. Holding(t, p) = {} /\ Line(t, p)
    BY <1>4, <1>8, SkippedFree, LineIs
  <2>2. Hist(t)
    BY <1>1, <1>4, <1>7, <2>1 DEF Hist, ByOne
  <2>. QED BY <1>3, <1>4, <1>8, <2>2 DEF Keeps
<1>9. CASE was = v
  <2>1. t.val[p] = m.val[p] /\ Holding(t, p) = Holding(m, p)
    BY <1>0, <1>2, <1>4, <1>9 DEF Holding
  <2>2. NowOf(t, p) = NowOf(m, p)
    BY <1>4, <2>1, NowSame
  <2>3. p \notin m.torn => ByOne(t, p) /\ Line(t, p)
    BY <1>1, <1>4, <2>1, <2>2, LineIs DEF ByOne
  <2>4. Hist(t)
    BY <1>1, <1>4, <1>7, <2>3 DEF Hist
  <2>. QED BY <1>3, <1>4, <1>9, <2>4 DEF Keeps
<1>10. CASE was # v /\ p \notin Skipped /\ c \in DOMAIN m.groups
  <2>. DEFINE g == Merge(m.groups[c], p, was, v)
              G == [m.groups EXCEPT ![c] = g]
              b == [u EXCEPT !.groups = G]
  <2>2. /\ g \in Deltas /\ DOMAIN g = DOMAIN m.groups[c] \cup {p} /\ g[p].new = v
        /\ \A q \in DOMAIN m.groups[c] : q # p => g[q] = m.groups[c][q]
        /\ g[p].old = IF p \in DOMAIN m.groups[c] THEN m.groups[c][p].old ELSE was
    <3>1. m.groups[c] \in Deltas /\ p \in Paths \ Skipped
      BY <1>1, <1>10
    <3>2. g \in Deltas
      BY <3>1, MergeIs
    <3>3. g[p].new = v /\ g[p].old = IF p \in DOMAIN m.groups[c] THEN m.groups[c][p].old ELSE was
      BY MergeAt
    <3>4. DOMAIN g = DOMAIN m.groups[c] \cup {p}
      BY DEF Merge
    <3>5. ASSUME NEW q \in DOMAIN m.groups[c], q # p PROVE g[q] = m.groups[c][q]
      BY <3>5 DEF Merge
    <3>. HIDE DEF g
    <3>. QED BY <3>2, <3>3, <3>4, <3>5
  <2>3. Edit(m, c, p, v) = b
    BY <1>3, <1>6, <1>10
  <2>. HIDE DEF g
  <2>4. G \in Groups /\ DOMAIN G = DOMAIN m.groups /\ G[c] = g
        /\ \A d \in DOMAIN m.groups : d # c => G[d] = m.groups[d]
    <3>1. m.groups \in [DOMAIN m.groups -> Deltas]
      BY <1>1, GroupsAre
    <3>2. G \in [DOMAIN m.groups -> Deltas] /\ G[c] = g /\ \A d \in DOMAIN m.groups : d # c => G[d] = m.groups[d]
      BY <1>10, <2>2, <3>1
    <3>. QED BY <1>1, <3>2, GroupsAre
  <2>. HIDE DEF G
  <2>5. /\ b \in Mixers /\ b.val = w /\ b.groups = G /\ b.entries = m.entries /\ b.current = m.current
        /\ b.torn = x /\ Same(m, b)
    BY <1>6, <2>4 DEF Mixers, Same
  <2>. HIDE DEF b
  <2>6. /\ \A q \in Paths : q # p => Holding(b, q) = Holding(m, q)
        /\ Holding(b, p) \subseteq Holding(m, p) \cup {c}
    <3>1. \A q \in Paths : q # p => Holding(b, q) = Holding(m, q)
      BY <2>2, <2>4, <2>5 DEF Holding
    <3>2. Holding(b, p) \subseteq Holding(m, p) \cup {c}
      BY <2>4, <2>5 DEF Holding
    <3>. QED BY <3>1, <3>2
  <2>7. ASSUME p \notin x PROVE ByOne(b, p) /\ Line(b, p)
    <3>1. Holding(m, p) \subseteq {c} /\ Holding(b, p) \subseteq {c} /\ p \notin m.torn
      <4>1. Holding(m, p) \subseteq {c} /\ p \notin m.torn
        BY <1>5, <2>7
      <4>2. Holding(b, p) \subseteq Holding(m, p) \cup {c}
        BY <2>6
      <4>. HIDE DEF x
      <4>. QED BY <4>1, <4>2
    <3>2. NowOf(b, p) = IF p \in DOMAIN m.groups[c] THEN m.groups[c][p].old ELSE was
      BY <1>10, <2>2, <2>4, <2>5, <3>1, NowIs
    <3>3. NowOf(m, p) = NowOf(b, p)
      BY <1>0, <1>10, <3>1, <3>2, NowIs
    <3>4. Unbroken(b.entries, b.current, NowOf(b, p), p)
      BY <1>1, <2>5, <3>1, <3>3, LineIs
    <3>5. b.groups[c][p].new = b.val[p]
      BY <1>2, <2>2, <2>4, <2>5
    <3>. QED BY <3>1, <3>4, <3>5, LineIs DEF ByOne
  <2>8. ASSUME NEW q \in Paths \ m.torn, q # p PROVE ByOne(b, q) /\ Line(b, q)
    <3>1. \A d \in DOMAIN m.groups : q \in DOMAIN m.groups[d] => G[d][q] = m.groups[d][q]
      BY <2>2, <2>4, <2>8
    <3>2. Holding(b, q) = Holding(m, q) /\ \A d \in Holding(m, q) : b.groups[d][q] = m.groups[d][q]
      BY <2>5, <2>6, <2>8, <3>1 DEF Holding
    <3>3. b.val[q] = m.val[q]
      BY <1>2, <2>5, <2>8
    <3>4. NowOf(b, q) = NowOf(m, q)
      BY <3>2, <3>3, NowSame
    <3>. QED BY <1>1, <2>5, <3>2, <3>3, <3>4, LineIs DEF ByOne
  <2>9. Hist(b)
    BY <1>1, <1>5, <2>5, <2>7, <2>8 DEF Hist
  <2>. QED BY <2>3, <2>5, <2>9 DEF Keeps
<1>11. CASE was # v /\ p \notin Skipped /\ c \notin DOMAIN m.groups
  <2>. DEFINE d == Merge(Empty, p, was, v)
              b == AppendStep(u, d)
  <2>2. d \in Deltas /\ DOMAIN d = {p} /\ d[p].old = was /\ d[p].new = v
    <3>1. p \in Paths \ Skipped /\ was \in Values
      BY <1>1, <1>11
    <3>2. Single(d, p, was, v)
      BY <3>1, MergeEmpty
    <3>. HIDE DEF d
    <3>. QED BY <3>2 DEF Single
  <2>3. Edit(m, c, p, v) = b
    BY <1>3, <1>11
  <2>. HIDE DEF d
  <2>4. /\ b \in Mixers /\ Same(u, b) /\ b.val = w /\ b.groups = m.groups /\ b.torn = x
        /\ b.current <= Len(b.entries) /\ Len(b.entries) <= MaxEntries
        /\ \A q, now, next :
             /\ Unbroken(u.entries, u.current, now, q)
             /\ q \in DOMAIN d => d[q].old = now /\ d[q].new = next
             /\ q \notin DOMAIN d => next = now
             => Unbroken(b.entries, b.current, next, q)
    BY <1>1, <1>6, <2>2, AppendStepIs
  <2>. HIDE DEF b
  <2>5. \A q \in Paths : Holding(b, q) = Holding(m, q)
    BY <2>4 DEF Holding
  <2>6. ASSUME p \notin x PROVE ByOne(b, p) /\ Line(b, p)
    <3>1. Holding(m, p) = {} /\ p \notin m.torn
      BY <1>5, <1>11, <2>6 DEF Holding
    <3>2. NowOf(m, p) = was /\ NowOf(b, p) = v
      BY <1>0, <1>2, <2>4, <2>5, <3>1 DEF NowOf
    <3>3. Unbroken(u.entries, u.current, was, p)
      BY <1>1, <1>6, <3>1, <3>2, LineIs
    <3>4. Unbroken(b.entries, b.current, v, p)
      BY <2>2, <2>4, <3>3
    <3>. QED BY <2>5, <3>1, <3>2, <3>4, LineIs DEF ByOne
  <2>7. ASSUME NEW q \in Paths \ m.torn, q # p PROVE ByOne(b, q) /\ Line(b, q)
    <3>1. b.val[q] = m.val[q]
      BY <1>2, <2>4, <2>7
    <3>2. NowOf(b, q) = NowOf(m, q)
      <4>1. \A e \in Holding(m, q) : b.groups[e][q] = m.groups[e][q]
        BY <2>4
      <4>. QED BY <2>5, <3>1, <4>1, NowSame
    <3>3. Unbroken(u.entries, u.current, NowOf(m, q), q)
      BY <1>1, <1>6, <2>7, LineIs
    <3>4. Unbroken(b.entries, b.current, NowOf(m, q), q)
      BY <2>2, <2>4, <2>7, <3>3
    <3>. QED BY <1>1, <2>4, <2>5, <2>7, <3>1, <3>2, <3>4, LineIs DEF ByOne
  <2>8. Hist(b)
    BY <1>1, <1>5, <2>4, <2>6, <2>7 DEF Hist
  <2>. QED BY <1>6, <2>3, <2>4, <2>8 DEF Keeps, Same
<1>. QED BY <1>8, <1>9, <1>10, <1>11

\* History.bracket, at its begin.
LEMMA OpenKeeps ==
  ASSUME NEW m \in Mixers, Hist(m), NEW c \in Clients
  PROVE  Keeps(m, OpenGroup(m, c))
<1>1. /\ m.groups \in Groups /\ m.entries \in Seq(Deltas) /\ Len(m.entries) <= MaxEntries
      /\ m.current <= Len(m.entries)
      /\ \A q \in Paths \ m.torn : ByOne(m, q) /\ Line(m, q)
  BY DEF Mixers, Hist
<1>2. CASE c \in DOMAIN m.groups
  BY <1>2 DEF OpenGroup, Keeps, Same
<1>3. CASE c \notin DOMAIN m.groups
  <2>. DEFINE D == DOMAIN m.groups \cup {c}
              G == [d \in D |-> IF d = c THEN Empty ELSE m.groups[d]]
              b == [m EXCEPT !.groups = G]
  <2>1. OpenGroup(m, c) = b
    BY <1>3 DEF OpenGroup
  <2>2. G \in Groups /\ DOMAIN G = D
    <3>1. \A d \in D : G[d] \in Deltas
      BY <1>1, EmptyIs, GroupsAre
    <3>2. D \in SUBSET Clients
      BY <1>1, GroupsAre
    <3>3. G \in [D -> Deltas]
      BY <3>1
    <3>. QED BY <3>2, <3>3, GroupsAre
  <2>3. G[c] = Empty /\ \A d \in DOMAIN m.groups : G[d] = m.groups[d]
    BY <1>3
  <2>. HIDE DEF G
  <2>4. /\ b \in Mixers /\ b.val = m.val /\ b.groups = G /\ b.entries = m.entries
        /\ b.current = m.current /\ b.torn = m.torn /\ Same(m, b)
    BY <2>2 DEF Mixers, Same
  <2>. HIDE DEF b
  <2>5. ASSUME NEW q \in Paths \ m.torn PROVE ByOne(b, q) /\ Line(b, q)
    <3>1. Holding(b, q) = Holding(m, q) /\ \A d \in Holding(m, q) : b.groups[d] = m.groups[d]
      BY <2>2, <2>3, <2>4, EmptyIs DEF Holding
    <3>2. NowOf(b, q) = NowOf(m, q)
      BY <2>4, <3>1, NowSame
    <3>. QED BY <1>1, <2>4, <3>1, <3>2, LineIs DEF ByOne
  <2>6. Hist(b)
    BY <1>1, <2>4, <2>5 DEF Hist
  <2>. QED BY <2>1, <2>4, <2>6 DEF Keeps
<1>. QED BY <1>2, <1>3

\* History.bracket at its end, and History.disconnect.
LEMMA CloseKeeps ==
  ASSUME MixerAssumption, NEW m \in Mixers, Hist(m), NEW c \in Clients
  PROVE  Keeps(m, CloseGroup(m, c)) /\ DOMAIN CloseGroup(m, c).groups = DOMAIN m.groups \ {c}
<1>1. /\ m.groups \in Groups /\ m.entries \in Seq(Deltas) /\ Len(m.entries) <= MaxEntries
      /\ m.current <= Len(m.entries)
      /\ \A q \in Paths \ m.torn : ByOne(m, q) /\ Line(m, q)
  BY DEF Mixers, Hist
<1>2. CASE c \notin DOMAIN m.groups
  BY <1>2 DEF CloseGroup, Keeps, Same
<1>3. CASE c \in DOMAIN m.groups
  <2>. DEFINE D == DOMAIN m.groups \ {c}
              G == [d \in D |-> m.groups[d]]
              t == [m EXCEPT !.groups = G]
              delta == m.groups[c]
              b == AppendStep(t, delta)
  <2>1. CloseGroup(m, c) = b
    BY <1>3 DEF CloseGroup
  <2>2. G \in Groups /\ DOMAIN G = D /\ \A d \in D : G[d] = m.groups[d]
    <3>1. \A d \in D : G[d] \in Deltas
      BY <1>1, GroupsAre
    <3>2. D \in SUBSET Clients
      BY <1>1, GroupsAre
    <3>3. G \in [D -> Deltas]
      BY <3>1
    <3>. QED BY <3>2, <3>3, GroupsAre
  <2>3. delta \in Deltas
    BY <1>1, <1>3, GroupsAre
  <2>. HIDE DEF G
  <2>4. /\ t \in Mixers /\ t.val = m.val /\ t.groups = G /\ t.entries = m.entries
        /\ t.current = m.current /\ t.torn = m.torn /\ Same(m, t)
    BY <2>2 DEF Mixers, Same
  <2>. HIDE DEF t, delta
  <2>5. /\ b \in Mixers /\ Same(t, b) /\ b.val = m.val /\ b.groups = G /\ b.torn = m.torn
        /\ b.current <= Len(b.entries) /\ Len(b.entries) <= MaxEntries
        /\ \A q, now, next :
             /\ Unbroken(t.entries, t.current, now, q)
             /\ q \in DOMAIN delta => delta[q].old = now /\ delta[q].new = next
             /\ q \notin DOMAIN delta => next = now
             => Unbroken(b.entries, b.current, next, q)
    BY <1>1, <2>3, <2>4, AppendStepIs
  <2>. HIDE DEF b
  <2>6. \A q \in Paths : Holding(b, q) = Holding(m, q) \ {c}
    BY <2>2, <2>5 DEF Holding
  <2>7. ASSUME NEW q \in Paths \ m.torn PROVE ByOne(b, q) /\ Line(b, q)
    <3>1. Unbroken(t.entries, t.current, NowOf(m, q), q) /\ ByOne(m, q)
      BY <1>1, <2>4, <2>7, LineIs
    <3>2. CASE q \in DOMAIN delta
      <4>1. c \in Holding(m, q)
        BY <1>3, <3>2 DEF delta, Holding
      <4>2. Holding(m, q) \subseteq {c} /\ Holding(b, q) = {}
        BY <2>6, <3>1, <4>1 DEF ByOne
      <4>3. NowOf(m, q) = delta[q].old
        BY <1>3, <3>2, <4>2, NowIs DEF delta
      <4>4. delta[q].new = b.val[q]
        BY <1>1, <2>5, <2>7, <4>1, LineIs DEF delta
      <4>5. NowOf(b, q) = b.val[q]
        BY <4>2 DEF NowOf
      <4>6. Unbroken(b.entries, b.current, b.val[q], q)
        BY <2>5, <3>1, <3>2, <4>3, <4>4
      <4>. QED BY <4>2, <4>5, <4>6, LineIs DEF ByOne
    <3>3. CASE q \notin DOMAIN delta
      <4>1. Holding(b, q) = Holding(m, q) /\ \A d \in Holding(m, q) : b.groups[d] = m.groups[d]
        BY <2>2, <2>5, <3>3 DEF Holding, delta
      <4>2. NowOf(b, q) = NowOf(m, q)
        BY <2>5, <4>1, NowSame
      <4>3. Unbroken(b.entries, b.current, NowOf(m, q), q)
        BY <2>5, <3>1, <3>3
      <4>. QED BY <1>1, <2>5, <2>7, <3>1, <4>1, <4>2, <4>3, LineIs DEF ByOne
    <3>. QED BY <3>2, <3>3
  <2>8. Hist(b)
    BY <2>5, <2>7 DEF Hist
  <2>. QED BY <2>1, <2>2, <2>4, <2>5, <2>8 DEF Keeps, Same
<1>. QED BY <1>2, <1>3

\* History.move.
LEMMA MoveKeeps ==
  ASSUME NEW m \in Mixers, Hist(m), NEW to \in Int, CanMove(m, to)
  PROVE  Keeps(m, Move(m, to))
<1>1. /\ m.groups \in Groups /\ m.entries \in Seq(Deltas) /\ Len(m.entries) <= MaxEntries
      /\ m.current <= Len(m.entries) /\ m.current \in Nat
      /\ \A q \in Paths \ m.torn : ByOne(m, q) /\ Line(m, q)
  BY DEF Mixers, Hist
<1>2. m.groups = Empty /\ DOMAIN m.groups = {}
  BY EmptyIs DEF CanMove
<1>. DEFINE back  == to < m.current
            i     == IF back THEN m.current ELSE to
            delta == m.entries[i]
            w     == [p \in Paths |-> IF p \notin DOMAIN delta THEN m.val[p]
                                      ELSE IF back THEN delta[p].old ELSE delta[p].new]
            b     == [m EXCEPT !.current = to, !.val = w]
<1>3. Move(m, to) = b
  BY DEF Move
<1>4. i \in 1..Len(m.entries) /\ to \in Nat /\ to <= Len(m.entries)
      /\ (back => to = m.current - 1) /\ (~back => to = m.current + 1)
  BY <1>1 DEF CanMove
<1>5. delta \in Deltas
  BY <1>1, <1>4
<1>6. w \in [Paths -> Values]
      /\ \A p \in Paths : w[p] = IF p \notin DOMAIN delta THEN m.val[p]
                                 ELSE IF back THEN delta[p].old ELSE delta[p].new
  <2>1. \A p \in DOMAIN delta : delta[p].old \in Values /\ delta[p].new \in Values
    BY <1>5, DeltasAre DEF Pairs
  <2>2. \A p \in Paths : m.val[p] \in Values
    BY DEF Mixers
  <2>. QED BY <2>1, <2>2
<1>. HIDE DEF w
<1>7. /\ b \in Mixers /\ b.val = w /\ b.groups = m.groups /\ b.entries = m.entries
      /\ b.current = to /\ b.torn = m.torn /\ Same(m, b)
  BY <1>4, <1>6 DEF Mixers, Same
<1>. HIDE DEF b
<1>8. ASSUME NEW q \in Paths \ m.torn PROVE ByOne(b, q) /\ Line(b, q)
  <2>1. Holding(m, q) = {} /\ Holding(b, q) = {}
    BY <1>2, <1>7 DEF Holding
  <2>2. NowOf(m, q) = m.val[q] /\ NowOf(b, q) = w[q]
    BY <1>7, <2>1 DEF NowOf
  <2>3. Unbroken(m.entries, m.current, m.val[q], q)
    BY <1>1, <1>8, <2>2, LineIs
  <2>4. Unbroken(m.entries, to, w[q], q)
    <3>1. CASE back
      <4>1. to = i - 1 /\ m.current = i
        BY <1>4, <3>1
      <4>2. w[q] = IF q \in DOMAIN m.entries[i] THEN m.entries[i][q].old ELSE m.val[q]
        BY <1>6, <3>1
      <4>. HIDE DEF i, back
      <4>3. Unbroken(m.entries, i - 1, w[q], q)
        BY <1>1, <1>4, <2>3, <4>1, <4>2, BackUnbroken
      <4>. QED BY <4>1, <4>3
    <3>2. CASE ~back
      <4>1. to = i /\ m.current = i - 1
        BY <1>1, <1>4, <3>2
      <4>2. w[q] = IF q \in DOMAIN m.entries[i] THEN m.entries[i][q].new ELSE m.val[q]
        BY <1>6, <3>2
      <4>. HIDE DEF i, back
      <4>3. Unbroken(m.entries, i, w[q], q)
        BY <1>1, <1>4, <2>3, <4>1, <4>2, ForthUnbroken
      <4>. QED BY <4>1, <4>3
    <3>. QED BY <3>1, <3>2
  <2>. QED BY <1>7, <2>1, <2>2, <2>4, LineIs DEF ByOne
<1>9. Hist(b)
  BY <1>1, <1>4, <1>7, <1>8 DEF Hist
<1>. QED BY <1>3, <1>7, <1>9 DEF Keeps

\* Whatever the SET.
LEMMA DoneKeeps ==
  ASSUME MixerAssumption, NEW m \in Mixers, Hist(m), NEW r \in Requests
  PROVE  Keeps(m, Done(m, r))
<1>1. Keeps(m, m)
  BY DEF Keeps, Same
<1>2. r.c \in Clients
  BY RequestsAre
<1>3. CASE r.set.k = "edit"
  <2>1. Done(m, r) = Edit(m, r.c, r.set.p, r.set.v)
    BY <1>3 DEF Done
  <2>2. r.set.p \in Paths /\ r.set.v \in Values
    BY <1>3, RequestsAre
  <2>. QED BY <1>2, <2>1, <2>2, EditKeeps
<1>4. CASE r.set.k = "bracket"
  <2>1. Done(m, r) = IF r.set.on THEN OpenGroup(m, r.c) ELSE CloseGroup(m, r.c)
    BY <1>4 DEF Done
  <2>2. Keeps(m, OpenGroup(m, r.c)) /\ Keeps(m, CloseGroup(m, r.c))
    BY <1>2, OpenKeeps, CloseKeeps
  <2>. QED BY <2>1, <2>2
<1>5. CASE r.set.k = "move"
  <2>1. Done(m, r) = IF ~hosting /\ CanMove(m, r.set.to) THEN Move(m, r.set.to) ELSE m
    BY <1>5 DEF Done
  <2>2. r.set.to \in Int
    BY <1>5, RequestsAre
  <2>3. CASE ~hosting /\ CanMove(m, r.set.to)
    BY <2>1, <2>2, <2>3, MoveKeeps
  <2>4. CASE ~(~hosting /\ CanMove(m, r.set.to))
    BY <1>1, <2>1, <2>4
  <2>. QED BY <2>3, <2>4
<1>6. CASE r.set.k \in {"param", "load"}
  <2>1. Done(m, r) = m
    BY <1>6 DEF Done
  <2>. QED BY <1>1, <2>1
<1>. QED BY <1>3, <1>4, <1>5, <1>6, RequestsAre

\* What the history does not look at.
LEMMA HistOf ==
  ASSUME NEW m, NEW q, Hist(m), q.val = m.val, q.groups = m.groups, q.entries = m.entries,
         q.current = m.current, q.torn = m.torn
  PROVE  Hist(q)
<1>1. \A p \in Paths : Holding(q, p) = Holding(m, p) /\ NowOf(q, p) = NowOf(m, p)
  BY DEF Holding, NowOf
<1>2. \A p \in Paths \ q.torn : ByOne(q, p) /\ Line(q, p)
  BY <1>1, LineIs DEF Hist, ByOne
<1>. QED BY <1>2 DEF Hist

------------------------------------------------------------------------------
\* The order of the SETs.  Of the list W the first j are done with.

Behind(W, j) == {W[i].n : i \in (j + 1)..Len(W)}

\* The list is in the order of arrival, and holds of each parameter the newest SET only.
Sorted(W, s, lat) ==
  /\ \A i \in 1..Len(W) : W[i].n \in 1..s
  /\ \A i, k \in 1..Len(W) : i < k => W[i].n < W[k].n
  /\ \A i \in 1..Len(W) : W[i].set.k = "param" => lat[W[i].set.p] = W[i].n

\* What was applied is older than what waits, the newest SET of a parameter was
\* applied or waits, and each SET was answered, waits or is the transaction.
Ordered(m, W, j, s, lat) ==
  /\ m.ran \in 0..s /\ m.job.n \in 0..s /\ m.job.n \notin Behind(W, j)
  /\ \A i \in (j + 1)..Len(W) : m.ran < W[i].n
  /\ \A p \in Params : \/ m.runs[p] = lat[p]
                       \/ \E i \in (j + 1)..Len(W) : W[i].set.k = "param" /\ W[i].set.p = p
  /\ m.answered = (1..s) \ (Behind(W, j) \cup {m.job.n})

\* A mixer that is as it should be, of which SET r is the last one applied.
LEMMA ApplyIs ==
  ASSUME MixerAssumption, NEW m \in Mixers, Hist(m), m.job = NoJob, NEW r \in Requests
  PROVE  /\ Apply(m, r) \in Mixers /\ Hist(Apply(m, r)) /\ Apply(m, r).ran = r.n
         /\ \A p \in Params : Apply(m, r).runs[p] = IF r.set.k = "param" /\ r.set.p = p THEN r.n ELSE m.runs[p]
         /\ \/ Apply(m, r).job = NoJob /\ Apply(m, r).answered = m.answered \cup {r.n}
            \/ Apply(m, r).job = r /\ Apply(m, r).answered = m.answered
<1>. DEFINE R == [p \in Params |-> IF r.set.k = "param" /\ r.set.p = p THEN r.n ELSE m.runs[p]]
            a == Ran(m, r)
<1>1. r.n \in 1..MaxSent /\ MaxSent \in Nat
  BY RequestsAre DEF MixerAssumption
<1>2. a = [m EXCEPT !.ran = r.n, !.runs = R]
  BY DEF Ran
<1>3. R \in [Params -> 0..MaxSent]
      /\ \A p \in Params : R[p] = IF r.set.k = "param" /\ r.set.p = p THEN r.n ELSE m.runs[p]
  <2>1. \A p \in Params : m.runs[p] \in 0..MaxSent
    BY DEF Mixers
  <2>. QED BY <1>1, <2>1
<1>. HIDE DEF R
<1>0. r.n \in 0..MaxSent
  BY <1>1
<1>4. /\ a \in Mixers /\ a.val = m.val /\ a.groups = m.groups /\ a.entries = m.entries
      /\ a.current = m.current /\ a.job = m.job /\ a.answered = m.answered /\ a.ran = r.n /\ a.runs = R
      /\ a.torn = m.torn
  BY <1>2, <1>0, <1>3 DEF Mixers
<1>. HIDE DEF a
<1>5. Hist(a)
  BY <1>4, HistOf
<1>6. CASE hosting /\ r.set.k \in {"param", "load"}
  <2>. DEFINE b == [a EXCEPT !.job = r]
  <2>1. Apply(m, r) = b
    BY <1>6 DEF Apply, a
  <2>2. /\ b \in Mixers /\ b.val = a.val /\ b.groups = a.groups /\ b.entries = a.entries
        /\ b.current = a.current /\ b.job = r /\ b.answered = a.answered /\ b.ran = r.n /\ b.runs = R
        /\ b.torn = a.torn
    BY <1>4 DEF Mixers
  <2>. HIDE DEF b
  <2>3. Hist(b)
    BY <1>5, <2>2, HistOf
  <2>. QED BY <1>3, <1>4, <2>1, <2>2, <2>3
<1>7. CASE ~(hosting /\ r.set.k \in {"param", "load"})
  <2>. DEFINE d == Done(a, r)
              b == [d EXCEPT !.answered = d.answered \cup {r.n}]
  <2>1. Apply(m, r) = b
    BY <1>7 DEF Apply, Answer, a
  <2>2. Keeps(a, d)
    BY <1>4, <1>5, DoneKeeps
  <2>. HIDE DEF d
  <2>3. d \in Mixers /\ Hist(d) /\ d.job = m.job /\ d.ran = r.n /\ d.runs = R /\ d.answered = m.answered
    BY <1>4, <2>2 DEF Keeps, Same
  <2>4. /\ b \in Mixers /\ b.val = d.val /\ b.groups = d.groups /\ b.entries = d.entries
        /\ b.current = d.current /\ b.job = d.job /\ b.answered = m.answered \cup {r.n} /\ b.ran = r.n /\ b.runs = R
        /\ b.torn = d.torn
    BY <1>1, <2>3 DEF Mixers
  <2>. HIDE DEF b
  <2>5. Hist(b)
    BY <2>3, <2>4, HistOf
  <2>. QED BY <1>3, <2>1, <2>3, <2>4, <2>5
<1>. QED BY <1>6, <1>7

\* The next SET of the list is applied.
LEMMA ApplyOrdered ==
  ASSUME MixerAssumption, NEW m \in Mixers, Hist(m), m.job = NoJob, NEW W \in Seq(Requests),
         NEW j \in Nat, j < Len(W), NEW s \in 0..MaxSent, NEW lat,
         Sorted(W, s, lat), Ordered(m, W, j, s, lat)
  PROVE  /\ Apply(m, W[j + 1]) \in Mixers /\ Hist(Apply(m, W[j + 1]))
         /\ Ordered(Apply(m, W[j + 1]), W, j + 1, s, lat)
<1>. DEFINE r == W[j + 1]
            b == Apply(m, r)
            J == (j + 1 + 1)..Len(W)
<1>1. r \in Requests /\ Len(W) \in Nat /\ j + 1 \in 1..Len(W)
      /\ (j + 1)..Len(W) = {j + 1} \cup J /\ J \subseteq 1..Len(W) /\ \A i \in J : j + 1 < i
  OBVIOUS
<1>2. r.n \in 1..s /\ (r.set.k = "param" => lat[r.set.p] = r.n) /\ \A i \in J : r.n < W[i].n /\ W[i].n \in 1..s
  BY <1>1 DEF Sorted
<1>3. /\ b \in Mixers /\ Hist(b) /\ b.ran = r.n
      /\ \A p \in Params : b.runs[p] = IF r.set.k = "param" /\ r.set.p = p THEN r.n ELSE m.runs[p]
      /\ \/ b.job = NoJob /\ b.answered = m.answered \cup {r.n}
         \/ b.job = r /\ b.answered = m.answered
  <2>. HIDE DEF r
  <2>. QED BY <1>1, ApplyIs
<1>4. Behind(W, j) = {r.n} \cup Behind(W, j + 1) /\ r.n \notin Behind(W, j + 1)
      /\ Behind(W, j + 1) \subseteq 1..s
  BY <1>1, <1>2 DEF Behind
<1>5. NoJob.n = 0
  BY DEF NoJob
<1>6. m.answered = (1..s) \ (Behind(W, j) \cup {0})
  BY <1>5 DEF Ordered
<1>7. ASSUME NEW p \in Params
      PROVE  \/ b.runs[p] = lat[p]
             \/ \E i \in J : W[i].set.k = "param" /\ W[i].set.p = p
  <2>1. CASE r.set.k = "param" /\ r.set.p = p
    BY <1>2, <1>3, <2>1
  <2>2. CASE ~(r.set.k = "param" /\ r.set.p = p)
    <3>1. b.runs[p] = m.runs[p]
      BY <1>3, <2>2
    <3>2. \/ m.runs[p] = lat[p]
          \/ \E i \in (j + 1)..Len(W) : W[i].set.k = "param" /\ W[i].set.p = p
      BY DEF Ordered
    <3>. HIDE DEF J, b
    <3>. QED BY <1>1, <2>2, <3>1, <3>2
  <2>. QED BY <2>1, <2>2
<1>. HIDE DEF b
<1>8. b.job.n \in 0..s /\ b.job.n \notin Behind(W, j + 1)
      /\ b.answered = (1..s) \ (Behind(W, j + 1) \cup {b.job.n})
  <2>1. CASE b.job = NoJob /\ b.answered = m.answered \cup {r.n}
    <3>1. b.job.n = 0
      BY <1>5, <2>1
    <3>2. 0 \notin Behind(W, j + 1) /\ 0 \in 0..s
      BY <1>4
    <3>. HIDE DEF r
    <3>3. b.answered = (1..s) \ (Behind(W, j + 1) \cup {0})
      BY <1>2, <1>4, <1>6, <2>1
    <3>. QED BY <3>1, <3>2, <3>3
  <2>2. CASE b.job = r /\ b.answered = m.answered
    <3>. HIDE DEF r
    <3>1. b.answered = (1..s) \ (Behind(W, j + 1) \cup {r.n})
      BY <1>4, <1>6, <2>2
    <3>. QED BY <1>2, <1>4, <2>2, <3>1
  <2>. QED BY <1>3, <2>1, <2>2
<1>9. b.ran \in 0..s /\ \A i \in J : b.ran < W[i].n
  BY <1>2, <1>3
<1>10. Ordered(b, W, j + 1, s, lat)
  BY <1>7, <1>8, <1>9 DEF Ordered
<1>. QED BY <1>3, <1>10 DEF b

------------------------------------------------------------------------------
\* The list when a SET joins it: what it supersedes leaves, the rest stays in order.
LEMMA QueuedIs ==
  ASSUME waiting \in Seq(Requests), NEW r \in Requests,
         \A i, k \in 1..Len(waiting) : i < k => waiting[i].n < waiting[k].n
  PROVE  \E kept \in Seq(Requests) :
           /\ Queued(r) = Append(kept, r)
           /\ \A i \in 1..Len(kept) : \E l \in 1..Len(waiting) :
                kept[i] = waiting[l] /\ ~Supersedes(r, waiting[l])
           /\ \A l \in 1..Len(waiting) :
                Supersedes(r, waiting[l]) \/ \E i \in 1..Len(kept) : kept[i] = waiting[l]
           /\ \A i, k \in 1..Len(kept) : i < k => kept[i].n < kept[k].n
<1>. DEFINE N == Len(waiting)
            X == Seq(Requests)
            Joins(x, n) == IF Supersedes(r, waiting[n]) THEN x ELSE Append(x, waiting[n])
            Sums(f) == f = [n \in 0..N |-> IF n = 0 THEN <<>>
                                           ELSE IF Supersedes(r, waiting[n]) THEN f[n - 1]
                                           ELSE Append(f[n - 1], waiting[n])]
            after == CHOOSE f : Sums(f)
            F == [n \in 1..N |-> [x \in X |-> Joins(x, n)]]
<1>1. N \in Nat /\ \A n \in 1..N : waiting[n] \in Requests /\ waiting[n].n \in Int
  <2>1. N \in Nat /\ \A n \in 1..N : waiting[n] \in Requests
    OBVIOUS
  <2>. QED BY <2>1, RequestsAre
<1>2. Queued(r) = Append(after[N], r)
  BY DEF Queued
<1>3. <<>> \in X
  OBVIOUS
<1>. HIDE DEF N
<1>4. F \in [1..N -> [X -> X]] /\ \A n \in 1..N, x \in X : F[n][x] = Joins(x, n)
  <2>1. \A n \in 1..N : \A x \in X : Joins(x, n) \in X
    BY <1>1
  <2>. HIDE DEF Joins
  <2>. QED BY <2>1
<1>. HIDE DEF F
<1>5. PICK f : Follows(f, N, X, <<>>, F)
  <2>. HIDE DEF X
  <2>. QED BY <1>1, <1>3, <1>4, RecursiveFunction
<1>6. f \in [0..N -> X] /\ f[0] = <<>> /\ \A n \in 1..N : f[n] = Joins(f[n - 1], n)
  <2>1. f \in [0..N -> X] /\ f[0] = <<>> /\ \A n \in 1..N : f[n] = F[n][f[n - 1]]
    BY <1>5 DEF Follows
  <2>. HIDE DEF Joins, X
  <2>2. \A n \in 1..N : n - 1 \in 0..N /\ f[n - 1] \in X
    BY <1>1, <2>1
  <2>. QED BY <1>4, <2>1, <2>2
<1>7. Sums(f)
  <2>1. \A n \in 0..N : n = 0 \/ n \in 1..N
    BY <1>1
  <2>2. \A n \in 0..N : f[n] = IF n = 0 THEN <<>>
                               ELSE IF Supersedes(r, waiting[n]) THEN f[n - 1]
                               ELSE Append(f[n - 1], waiting[n])
    BY <1>6, <2>1
  <2>. QED BY <1>6, <2>2
<1>8. Sums(after)
  <2>. HIDE DEF Sums
  <2>. QED BY <1>7
<1>. HIDE DEF after
<1>9. after[0] = <<>> /\ \A n \in 1..N : after[n] = Joins(after[n - 1], n)
  <2>1. 0 \in 0..N /\ \A n \in 1..N : n \in 0..N /\ n # 0
    BY <1>1
  <2>. QED BY <1>8, <2>1
<1>. HIDE DEF Sums
<1>. DEFINE Good(x, n) ==
              /\ x \in X
              /\ \A i \in 1..Len(x) : \E l \in 1..n : x[i] = waiting[l] /\ ~Supersedes(r, waiting[l])
              /\ \A l \in 1..n : Supersedes(r, waiting[l]) \/ \E i \in 1..Len(x) : x[i] = waiting[l]
              /\ \A i, k \in 1..Len(x) : i < k => x[i].n < x[k].n
            T == {n \in 0..N : Good(after[n], n)}
<1>10. 0 \in T
  <2>1. Good(<<>>, 0)
    BY <1>3
  <2>. HIDE DEF Good
  <2>. QED BY <1>1, <1>9, <2>1
<1>11. ASSUME NEW n \in 0..(N - 1), n \in T PROVE n + 1 \in T
  <2>1. n + 1 \in 1..N /\ n + 1 \in 0..N /\ (n + 1) - 1 = n /\ n \in Nat
        /\ \A l \in 1..(n + 1) : l \in 1..n \/ l = n + 1
    BY <1>1
  <2>2. PICK x : x = after[n] /\ Good(x, n)
    BY <1>11
  <2>3. after[n + 1] = Joins(x, n + 1)
    BY <1>9, <2>1, <2>2
  <2>4. waiting[n + 1] \in Requests /\ x \in Seq(Requests)
    BY <1>1, <2>1, <2>2
  <2>5. CASE Supersedes(r, waiting[n + 1])
    <3>1. Good(x, n + 1)
      <4>1. \A i \in 1..Len(x) : \E l \in 1..(n + 1) : x[i] = waiting[l] /\ ~Supersedes(r, waiting[l])
        BY <2>1, <2>2
      <4>2. \A l \in 1..(n + 1) : Supersedes(r, waiting[l]) \/ \E i \in 1..Len(x) : x[i] = waiting[l]
        BY <2>1, <2>2, <2>5
      <4>. QED BY <2>2, <4>1, <4>2
    <3>. HIDE DEF Good
    <3>. QED BY <2>1, <2>3, <2>5, <3>1
  <2>6. CASE ~Supersedes(r, waiting[n + 1])
    <3>. DEFINE q == waiting[n + 1]
                y == Append(x, q)
    <3>1. /\ y \in X /\ Len(y) = Len(x) + 1 /\ y[Len(x) + 1] = q /\ Len(x) \in Nat
          /\ \A i \in 1..Len(x) : y[i] = x[i] /\ i \in 1..Len(y)
          /\ \A i \in 1..Len(y) : i \in 1..Len(x) \/ i = Len(x) + 1
      BY <2>4
    <3>2. \A l \in 1..n : waiting[l].n < q.n /\ l \in 1..(n + 1)
      BY <1>1, <2>1 DEF N
    <3>. HIDE DEF y
    <3>3. \A i \in 1..Len(y) : \E l \in 1..(n + 1) : y[i] = waiting[l] /\ ~Supersedes(r, waiting[l])
      <4>. TAKE i \in 1..Len(y)
      <4>1. CASE i = Len(x) + 1
        <5>1. n + 1 \in 1..(n + 1) /\ y[i] = waiting[n + 1]
          BY <2>1, <3>1, <4>1
        <5>. QED BY <2>6, <5>1
      <4>2. CASE i \in 1..Len(x)
        <5>1. PICK l \in 1..n : x[i] = waiting[l] /\ ~Supersedes(r, waiting[l])
          BY <2>2, <4>2
        <5>. QED BY <3>1, <3>2, <4>2, <5>1
      <4>. QED BY <3>1, <4>1, <4>2
    <3>4. \A l \in 1..(n + 1) : Supersedes(r, waiting[l]) \/ \E i \in 1..Len(y) : y[i] = waiting[l]
      <4>. TAKE l \in 1..(n + 1)
      <4>1. CASE l = n + 1
        <5>1. Len(x) + 1 \in 1..Len(y) /\ y[Len(x) + 1] = waiting[l]
          BY <3>1, <4>1
        <5>. QED BY <5>1
      <4>2. CASE l \in 1..n
        BY <2>2, <3>1, <4>2
      <4>. QED BY <2>1, <4>1, <4>2
    <3>5. \A i, k \in 1..Len(y) : i < k => y[i].n < y[k].n
      <4>. TAKE i, k \in 1..Len(y)
      <4>. HAVE i < k
      <4>1. i \in 1..Len(x) /\ y[i] = x[i]
        BY <3>1
      <4>2. CASE k \in 1..Len(x)
        BY <2>2, <3>1, <4>1, <4>2
      <4>3. CASE k = Len(x) + 1
        <5>1. PICK l \in 1..n : x[i] = waiting[l]
          BY <2>2, <4>1
        <5>. QED BY <3>1, <3>2, <4>1, <4>3, <5>1
      <4>. QED BY <3>1, <4>2, <4>3
    <3>6. Good(y, n + 1)
      BY <3>1, <3>3, <3>4, <3>5
    <3>. HIDE DEF Good
    <3>. QED BY <2>1, <2>3, <2>6, <3>6 DEF y
  <2>. QED BY <2>5, <2>6
<1>12. Good(after[N], N)
  <2>. HIDE DEF T, Good
  <2>1. \A n \in 0..N : n \in T
    BY <1>1, <1>10, <1>11, InductionTo
  <2>2. N \in T
    BY <1>1, <2>1
  <2>. QED BY <2>2 DEF T
<1>. QED BY <1>2, <1>12 DEF N

\* The mixer after the list was run: some j of it was applied, the rest waits.
LEMMA DrainedIs ==
  ASSUME MixerAssumption, waiting \in Seq(Requests), NEW m \in Mixers, Hist(m), m.job = NoJob,
         sent \in 0..MaxSent, Sorted(waiting, sent, latest), Ordered(m, waiting, 0, sent, latest)
  PROVE  \E t \in [m : Mixers, rest : Seq(Requests)], j \in 0..Len(waiting) :
           /\ t = Drained(m) /\ Hist(t.m) /\ Ordered(t.m, waiting, j, sent, latest)
           /\ Len(t.rest) = Len(waiting) - j /\ \A i \in 1..Len(t.rest) : t.rest[i] = waiting[j + i]
           /\ t.m.job = NoJob => j = Len(waiting)
<1>. DEFINE N == Len(waiting)
            X == {t \in [m : Mixers, rest : Seq(Requests)] : Hist(t.m)}
            base == [m |-> m, rest |-> <<>>]
            Sums(f) == f = [n \in 0..N |-> IF n = 0 THEN base ELSE Takes(f[n - 1], waiting[n])]
            after == CHOOSE f : Sums(f)
            F == [n \in 1..N |-> [t \in X |-> Takes(t, waiting[n])]]
<1>1. N \in Nat /\ \A n \in 1..N : waiting[n] \in Requests
  OBVIOUS
<1>2. Drained(m) = after[N]
  BY DEF Drained
<1>3. base \in X /\ base.m = m /\ base.rest = <<>>
  OBVIOUS
<1>. HIDE DEF N, base
<1>4. F \in [1..N -> [X -> X]] /\ \A n \in 1..N, t \in X : F[n][t] = Takes(t, waiting[n])
  <2>1. ASSUME NEW n \in 1..N, NEW t \in X PROVE Takes(t, waiting[n]) \in X
    <3>1. t \in [m : Mixers, rest : Seq(Requests)] /\ Hist(t.m) /\ waiting[n] \in Requests
      BY <1>1
    <3>2. CASE t.m.job = NoJob
      <4>. DEFINE a == Apply(t.m, waiting[n])
      <4>1. a \in Mixers /\ Hist(a)
        BY <3>1, <3>2, ApplyIs
      <4>2. Takes(t, waiting[n]) = [t EXCEPT !.m = a]
        BY <3>2 DEF Takes
      <4>. HIDE DEF a
      <4>. QED BY <3>1, <4>1, <4>2
    <3>3. CASE t.m.job # NoJob
      <4>. DEFINE a == Append(t.rest, waiting[n])
      <4>1. a \in Seq(Requests)
        BY <3>1
      <4>2. Takes(t, waiting[n]) = [t EXCEPT !.rest = a]
        BY <3>3 DEF Takes
      <4>. HIDE DEF a
      <4>. QED BY <3>1, <4>1, <4>2
    <3>. QED BY <3>2, <3>3
  <2>. HIDE DEF X
  <2>. QED BY <2>1
<1>. HIDE DEF F
<1>5. PICK f : Follows(f, N, X, base, F)
  <2>. HIDE DEF X
  <2>. QED BY <1>1, <1>3, <1>4, RecursiveFunction
<1>6. f \in [0..N -> X] /\ f[0] = base /\ \A n \in 1..N : f[n] = Takes(f[n - 1], waiting[n])
  <2>1. f \in [0..N -> X] /\ f[0] = base /\ \A n \in 1..N : f[n] = F[n][f[n - 1]]
    BY <1>5 DEF Follows
  <2>. HIDE DEF X
  <2>2. \A n \in 1..N : n - 1 \in 0..N /\ f[n - 1] \in X
    BY <1>1, <2>1
  <2>. QED BY <1>4, <2>1, <2>2
<1>7. Sums(f)
  <2>1. \A n \in 0..N : n = 0 \/ n \in 1..N
    BY <1>1
  <2>2. \A n \in 0..N : f[n] = IF n = 0 THEN base ELSE Takes(f[n - 1], waiting[n])
    BY <1>6, <2>1
  <2>. QED BY <1>6, <2>2
<1>8. Sums(after)
  <2>. HIDE DEF Sums
  <2>. QED BY <1>7
<1>. HIDE DEF after
<1>9. after[0] = base /\ \A n \in 1..N : after[n] = Takes(after[n - 1], waiting[n])
  <2>1. 0 \in 0..N /\ \A n \in 1..N : n \in 0..N /\ n # 0
    BY <1>1
  <2>. QED BY <1>8, <2>1
<1>. HIDE DEF Sums
<1>. DEFINE Good(t, j, n) ==
              /\ t \in [m : Mixers, rest : Seq(Requests)]
              /\ Hist(t.m) /\ Ordered(t.m, waiting, j, sent, latest)
              /\ Len(t.rest) = n - j /\ \A i \in 1..Len(t.rest) : t.rest[i] = waiting[j + i]
              /\ t.m.job = NoJob => j = n
            T == {n \in 0..N : \E j \in 0..n : Good(after[n], j, n)}
<1>10. 0 \in T
  <2>1. Good(base, 0, 0) /\ 0 \in 0..0 /\ 0 \in 0..N
    BY <1>1, <1>3
  <2>. HIDE DEF Good
  <2>2. \E j \in 0..0 : Good(after[0], j, 0)
    BY <1>9, <2>1
  <2>. QED BY <2>1, <2>2
<1>11. ASSUME NEW n \in 0..(N - 1), n \in T PROVE n + 1 \in T
  <2>1. n + 1 \in 1..N /\ n + 1 \in 0..N /\ (n + 1) - 1 = n /\ n \in Nat /\ n < N
    BY <1>1
  <2>2. PICK j \in 0..n : Good(after[n], j, n)
    BY <1>11
  <2>3. PICK t : t = after[n]
    OBVIOUS
  <2>4. after[n + 1] = Takes(t, waiting[n + 1]) /\ Good(t, j, n)
    BY <1>9, <2>1, <2>2, <2>3
  <2>5. waiting[n + 1] \in Requests
    BY <1>1, <2>1
  <2>6. CASE t.m.job = NoJob
    <3>. DEFINE a == Apply(t.m, waiting[n + 1])
                b == [t EXCEPT !.m = a]
    <3>1. j = n /\ Hist(t.m) /\ t.m \in Mixers /\ Ordered(t.m, waiting, n, sent, latest)
          /\ t \in [m : Mixers, rest : Seq(Requests)] /\ Len(t.rest) = 0
      BY <2>1, <2>4, <2>6
    <3>2. a \in Mixers /\ Hist(a) /\ Ordered(a, waiting, n + 1, sent, latest)
      BY <2>1, <2>6, <3>1, ApplyOrdered DEF N
    <3>3. Takes(t, waiting[n + 1]) = b
      BY <2>6 DEF Takes
    <3>. HIDE DEF a
    <3>4. b \in [m : Mixers, rest : Seq(Requests)] /\ b.m = a /\ b.rest = t.rest
      BY <3>1, <3>2
    <3>. HIDE DEF b
    <3>5. Good(b, n + 1, n + 1)
      <4>1. Len(b.rest) = (n + 1) - (n + 1) /\ \A i \in 1..Len(b.rest) : FALSE
        BY <2>1, <3>1, <3>4
      <4>. QED BY <3>2, <3>4, <4>1
    <3>6. n + 1 \in 0..(n + 1)
      BY <2>1
    <3>. HIDE DEF Good
    <3>7. \E i \in 0..(n + 1) : Good(after[n + 1], i, n + 1)
      BY <2>4, <3>3, <3>5, <3>6
    <3>. QED BY <2>1, <3>7
  <2>7. CASE t.m.job # NoJob
    <3>. DEFINE q == waiting[n + 1]
                x == t.rest
                y == Append(x, q)
                b == [t EXCEPT !.rest = y]
    <3>1. /\ t \in [m : Mixers, rest : Seq(Requests)] /\ Hist(t.m) /\ x \in Seq(Requests)
          /\ Ordered(t.m, waiting, j, sent, latest) /\ Len(x) = n - j
          /\ \A i \in 1..Len(x) : x[i] = waiting[j + i]
      BY <2>4
    <3>. HIDE DEF x
    <3>2. /\ y \in Seq(Requests) /\ Len(y) = n - j + 1 /\ y[n - j + 1] = q
          /\ \A i \in 1..Len(x) : y[i] = x[i]
          /\ \A i \in 1..Len(y) : i \in 1..Len(x) \/ i = n - j + 1
      <4>1. q \in Requests
        BY <2>5
      <4>. HIDE DEF q
      <4>2. /\ y \in Seq(Requests) /\ Len(y) = Len(x) + 1 /\ y[Len(x) + 1] = q
            /\ \A i \in 1..Len(x) : y[i] = x[i]
            /\ \A i \in 1..Len(y) : i \in 1..Len(x) \/ i = Len(x) + 1
        BY <3>1, <4>1, Appended
      <4>. HIDE DEF y
      <4>3. Len(x) = n - j
        BY <3>1
      <4>. QED BY <4>2, <4>3
    <3>3. \A i \in 1..Len(y) : y[i] = waiting[j + i]
      <4>1. j + (n - j + 1) = n + 1
        BY <2>1
      <4>. HIDE DEF y
      <4>. QED BY <3>1, <3>2, <4>1
    <3>4. Takes(t, q) = b
      BY <2>7 DEF Takes, x
    <3>. HIDE DEF y
    <3>5. b \in [m : Mixers, rest : Seq(Requests)] /\ b.m = t.m /\ b.rest = y
      BY <3>1, <3>2
    <3>. HIDE DEF b
    <3>6. Len(b.rest) = (n + 1) - j
      BY <2>1, <3>2, <3>5
    <3>7. Good(b, j, n + 1)
      BY <2>7, <3>1, <3>3, <3>5, <3>6
    <3>8. j \in 0..(n + 1)
      BY <2>1
    <3>. HIDE DEF Good
    <3>9. \E i \in 0..(n + 1) : Good(after[n + 1], i, n + 1)
      BY <2>4, <3>4, <3>7, <3>8
    <3>. QED BY <2>1, <3>9
  <2>. QED BY <2>6, <2>7
<1>12. \E j \in 0..N : Good(after[N], j, N)
  <2>. HIDE DEF T, Good
  <2>1. \A n \in 0..N : n \in T
    BY <1>1, <1>10, <1>11, InductionTo
  <2>2. N \in T
    BY <1>1, <2>1
  <2>. QED BY <2>2 DEF T
<1>13. PICK j \in 0..N : Good(after[N], j, N)
  BY <1>12
<1>. QED BY <1>2, <1>13 DEF N

------------------------------------------------------------------------------
\* The invariant.

MixInv ==
  /\ clients \subseteq Clients /\ hosting \in BOOLEAN /\ sent \in 0..MaxSent
  /\ mixer \in Mixers /\ Hist(mixer)
  /\ waiting \in Seq(Requests) /\ latest \in [Params -> 0..MaxSent]
  /\ Sorted(waiting, sent, latest) /\ Ordered(mixer, waiting, 0, sent, latest)
  /\ mixer.job = NoJob => waiting = <<>>

\* The invariant holds at the start and is kept by each action.
LEMMA InitInv == ASSUME MixerAssumption, Init PROVE MixInv
<1>. DEFINE base == [p \in Paths |-> Start]
            none == [p \in Params |-> 0]
            m == [val |-> base, groups |-> Empty, entries |-> <<>>, current |-> 0,
                  job |-> NoJob, ran |-> 0, runs |-> none, answered |-> {}, torn |-> {}]
<1>1. /\ clients = Clients /\ hosting \in BOOLEAN /\ mixer = m /\ waiting = <<>> /\ sent = 0
      /\ latest = none
  BY DEF Init
<1>2. MaxSent \in Nat /\ MaxEntries \in Nat /\ Start \in Values
  BY DEF MixerAssumption
<1>3. base \in [Paths -> Values] /\ none \in [Params -> 0..MaxSent] /\ \A p \in Params : none[p] = 0
  BY <1>2
<1>. HIDE DEF base, none
<1>4. /\ m \in Mixers /\ m.groups = Empty /\ m.entries = <<>> /\ m.current = 0 /\ m.job = NoJob
      /\ m.ran = 0 /\ m.runs = none /\ m.answered = {} /\ m.torn = {}
  BY <1>2, <1>3, EmptyIs DEF Mixers
<1>. HIDE DEF m
<1>5. Hist(m)
  <2>1. \A q \in Paths : Holding(m, q) = {} /\ Mentions(m.entries, q) = {}
    BY <1>4, EmptyIs DEF Holding, Mentions
  <2>2. \A q \in Paths : Line(m, q)
    BY <2>1, LineIs DEF Unbroken
  <2>. QED BY <1>2, <1>4, <2>1, <2>2, EmptyIs DEF Hist, ByOne
<1>6. Sorted(<<>>, 0, none)
  BY DEF Sorted
<1>7. Ordered(m, <<>>, 0, 0, none)
  <2>1. Behind(<<>>, 0) = {} /\ NoJob.n = 0
    BY DEF Behind, NoJob
  <2>. QED BY <1>3, <1>4, <2>1 DEF Ordered
<1>. QED BY <1>1, <1>2, <1>3, <1>4, <1>5, <1>6, <1>7 DEF MixInv

\* Operations of the history leave the order alone.
LEMMA OrderedSame ==
  ASSUME NEW m, NEW q, NEW W, NEW j, NEW s, NEW lat, Ordered(m, W, j, s, lat), Same(m, q)
  PROVE  Ordered(q, W, j, s, lat)
BY DEF Ordered, Same

LEMMA DisconnectInv ==
  ASSUME MixerAssumption, MixInv, NEW c \in Clients, Disconnect(c)
  PROVE  MixInv'
<1>. DEFINE b == CloseGroup(mixer, c)
<1>1. Keeps(mixer, b)
  BY CloseKeeps DEF MixInv
<1>2. /\ clients' \subseteq Clients /\ mixer' = b /\ hosting' = hosting /\ waiting' = waiting
      /\ sent' = sent /\ latest' = latest
  BY DEF Disconnect, MixInv
<1>. HIDE DEF b
<1>3. Ordered(b, waiting, 0, sent, latest) /\ b.job = mixer.job /\ b \in Mixers /\ Hist(b)
  BY <1>1, OrderedSame DEF Keeps, MixInv, Same
<1>. QED BY <1>2, <1>3 DEF MixInv

LEMMA PauseInv == ASSUME MixInv, Pause \/ Attach PROVE MixInv'
BY DEF Pause, Attach, MixInv

\* What a client may send is a SET.
LEMMA SetsAre ==
  ASSUME NEW c \in Clients, NEW s \in Sets, NEW n \in 1..MaxSent, mixer.current \in Nat
  PROVE  [c |-> c, n |-> n, set |-> s] \in Requests
<1>1. s \in Edits \cup Others
  BY DEF Sets, Edits, Others
<1>. HIDE DEF Edits, Others
<1>. QED BY <1>1 DEF Requests

\* A SET that is run at once: the list is as if it had waited there alone.
LEMMA SetRuns ==
  ASSUME MixerAssumption, MixInv, mixer.job = NoJob, NEW r \in Requests, r.n = sent + 1, NEW lat,
         \A p \in Params : lat[p] = IF r.set.k = "param" /\ r.set.p = p THEN r.n ELSE latest[p]
  PROVE  /\ Apply(mixer, r) \in Mixers /\ Hist(Apply(mixer, r))
         /\ Ordered(Apply(mixer, r), <<>>, 0, sent + 1, lat)
<1>. DEFINE W == <<r>>
            b == Apply(mixer, r)
<1>1. W \in Seq(Requests) /\ Len(W) = 1 /\ W[1] = r /\ 0 + 1 = 1
  OBVIOUS
<1>. HIDE DEF W
<1>2. sent \in Nat /\ sent + 1 \in 0..MaxSent
  BY RequestsAre DEF MixInv, MixerAssumption
<1>3. mixer \in Mixers /\ Hist(mixer) /\ Ordered(mixer, <<>>, 0, sent, latest)
  BY DEF MixInv
<1>4. Sorted(W, sent + 1, lat)
  BY <1>1, <1>2, RequestsAre DEF Sorted
<1>5. Behind(W, 0) = {sent + 1} /\ Behind(<<>>, 0) = {} /\ NoJob.n = 0
  BY <1>1 DEF Behind, NoJob
<1>6. mixer.ran \in 0..sent /\ mixer.answered = 1..sent /\ \A p \in Params : mixer.runs[p] = latest[p]
  BY <1>2, <1>3, <1>5 DEF Ordered
<1>7. Ordered(mixer, W, 0, sent + 1, lat)
  <2>1. \A p \in Params : \/ mixer.runs[p] = lat[p]
                          \/ \E i \in (0 + 1)..Len(W) : W[i].set.k = "param" /\ W[i].set.p = p
    BY <1>1, <1>6
  <2>2. mixer.answered = (1..(sent + 1)) \ (Behind(W, 0) \cup {mixer.job.n})
    BY <1>2, <1>5, <1>6
  <2>3. mixer.ran \in 0..(sent + 1) /\ \A i \in (0 + 1)..Len(W) : mixer.ran < W[i].n
    BY <1>1, <1>2, <1>6
  <2>4. mixer.job.n \in 0..(sent + 1) /\ mixer.job.n \notin Behind(W, 0)
    BY <1>2, <1>5
  <2>. QED BY <2>1, <2>2, <2>3, <2>4 DEF Ordered
<1>8. b \in Mixers /\ Hist(b) /\ Ordered(b, W, 0 + 1, sent + 1, lat)
  <2>1. 0 \in Nat /\ 0 < Len(W) /\ W[0 + 1] = r /\ mixer.job = NoJob
    BY <1>1
  <2>2. /\ Apply(mixer, W[0 + 1]) \in Mixers /\ Hist(Apply(mixer, W[0 + 1]))
        /\ Ordered(Apply(mixer, W[0 + 1]), W, 0 + 1, sent + 1, lat)
    BY <1>1, <1>2, <1>3, <1>4, <1>7, <2>1, ApplyOrdered, ZenonT(30)
  <2>. QED BY <2>1, <2>2
<1>. HIDE DEF b
<1>9. Ordered(b, <<>>, 0, sent + 1, lat)
  <2>1. Behind(W, 0 + 1) = {} /\ (0 + 1 + 1)..Len(W) = {} /\ (0 + 1)..Len(<<>>) = {}
    BY <1>1 DEF Behind
  <2>. QED BY <1>5, <1>8, <2>1 DEF Ordered
<1>. QED BY <1>8, <1>9 DEF b

\* A SET that waits: what it supersedes is answered.
LEMMA SetWaits ==
  ASSUME MixerAssumption, MixInv, mixer.job # NoJob, NEW r \in Requests, r.n = sent + 1, NEW lat,
         \A p \in Params : lat[p] = IF r.set.k = "param" /\ r.set.p = p THEN r.n ELSE latest[p],
         NEW q, q = [mixer EXCEPT !.answered = mixer.answered \cup Superseded(r)]
  PROVE  /\ q \in Mixers /\ Hist(q) /\ q.job = mixer.job /\ Queued(r) \in Seq(Requests)
         /\ Sorted(Queued(r), sent + 1, lat) /\ Ordered(q, Queued(r), 0, sent + 1, lat)
<1>1. /\ mixer \in Mixers /\ Hist(mixer) /\ waiting \in Seq(Requests) /\ Sorted(waiting, sent, latest)
      /\ Ordered(mixer, waiting, 0, sent, latest)
  BY DEF MixInv
<1>2. sent \in Nat /\ sent + 1 \in 1..MaxSent /\ sent + 1 \in 0..MaxSent /\ MaxSent \in Nat
  BY RequestsAre DEF MixInv, MixerAssumption
<1>. DEFINE W == waiting
            gone == Superseded(r)
<1>3. /\ \A i \in 1..Len(W) : W[i].n \in 1..sent /\ W[i] \in Requests
      /\ \A i, k \in 1..Len(W) : i < k => W[i].n < W[k].n
      /\ \A i \in 1..Len(W) : W[i].set.k = "param" => latest[W[i].set.p] = W[i].n
  BY <1>1 DEF Sorted
<1>4. PICK kept \in Seq(Requests) :
        /\ Queued(r) = Append(kept, r)
        /\ \A i \in 1..Len(kept) : \E l \in 1..Len(W) : kept[i] = W[l] /\ ~Supersedes(r, W[l])
        /\ \A l \in 1..Len(W) : Supersedes(r, W[l]) \/ \E i \in 1..Len(kept) : kept[i] = W[l]
        /\ \A i, k \in 1..Len(kept) : i < k => kept[i].n < kept[k].n
  BY <1>1, <1>3, QueuedIs
<1>5. gone = {W[i].n : i \in {l \in 1..Len(W) : Supersedes(r, W[l])}}
  BY <1>1 DEF Superseded
<1>. DEFINE L == Append(kept, r)
            K == {kept[i].n : i \in 1..Len(kept)}
<1>6. /\ L \in Seq(Requests) /\ Len(L) = Len(kept) + 1 /\ L[Len(kept) + 1] = r /\ Len(kept) \in Nat
      /\ \A i \in 1..Len(kept) : L[i] = kept[i] /\ i \in 1..Len(L)
      /\ \A i \in 1..Len(L) : i \in 1..Len(kept) \/ i = Len(kept) + 1
  OBVIOUS
<1>. HIDE DEF L, W, gone
<1>7. ASSUME NEW i \in 1..Len(kept)
      PROVE  /\ kept[i].n \in 1..sent /\ kept[i].n \notin gone
             /\ kept[i].set.k = "param" => lat[kept[i].set.p] = kept[i].n
  <2>1. PICK l \in 1..Len(W) : kept[i] = W[l] /\ ~Supersedes(r, W[l])
    BY <1>4
  <2>2. W[l].n \in 1..sent /\ W[l] \in Requests /\ (W[l].set.k = "param" => latest[W[l].set.p] = W[l].n)
    BY <1>3
  <2>3. W[l].n \notin gone
    <3>1. ASSUME NEW h \in 1..Len(W), Supersedes(r, W[h]) PROVE W[h].n # W[l].n
      <4>1. h < l \/ l < h
        BY <2>1, <3>1
      <4>2. W[h].n \in Int /\ W[l].n \in Int
        BY <1>3
      <4>. QED BY <1>3, <4>1, <4>2
    <3>. QED BY <1>5, <3>1
  <2>4. W[l].set.k = "param" => lat[W[l].set.p] = W[l].n
    <3>. HAVE W[l].set.k = "param"
    <3>1. W[l].set.p \in Params
      BY <2>2, RequestsAre
    <3>2. ~(r.set.k = "param" /\ r.set.p = W[l].set.p)
      BY <2>1 DEF Supersedes
    <3>3. lat[W[l].set.p] = latest[W[l].set.p]
      BY <3>1, <3>2
    <3>. QED BY <2>2, <3>3
  <2>. QED BY <2>1, <2>2, <2>3, <2>4
<1>8. Sorted(L, sent + 1, lat)
  <2>1. ASSUME NEW i \in 1..Len(L)
        PROVE  L[i].n \in 1..(sent + 1) /\ (L[i].set.k = "param" => lat[L[i].set.p] = L[i].n)
    <3>1. CASE i = Len(kept) + 1
      BY <1>2, <1>6, <3>1, RequestsAre
    <3>2. CASE i \in 1..Len(kept)
      <4>1. L[i] = kept[i] /\ 1..sent \subseteq 1..(sent + 1)
        BY <1>2, <1>6, <3>2
      <4>. QED BY <1>7, <3>2, <4>1
    <3>. QED BY <1>6, <3>1, <3>2
  <2>2. ASSUME NEW i \in 1..Len(L), NEW k \in 1..Len(L), i < k PROVE L[i].n < L[k].n
    <3>1. i \in 1..Len(kept) /\ L[i] = kept[i] /\ kept[i].n \in 1..sent
      BY <1>6, <1>7, <2>2
    <3>2. CASE k = Len(kept) + 1
      BY <1>2, <1>6, <3>1, <3>2
    <3>3. CASE k \in 1..Len(kept)
      BY <1>4, <1>6, <2>2, <3>1, <3>3
    <3>. QED BY <1>6, <3>2, <3>3
  <2>. QED BY <2>1, <2>2 DEF Sorted
<1>9. Behind(L, 0) = K \cup {sent + 1} /\ K \subseteq 1..sent /\ K \cap gone = {}
  <2>1. Behind(L, 0) = {L[i].n : i \in 1..Len(L)}
    BY DEF Behind
  <2>2. \A i \in 1..Len(L) : L[i].n \in K \cup {sent + 1}
    BY <1>6
  <2>3. \A i \in 1..Len(kept) : kept[i].n \in {L[k].n : k \in 1..Len(L)}
    BY <1>6
  <2>4. Len(kept) + 1 \in 1..Len(L) /\ L[Len(kept) + 1].n = sent + 1
    BY <1>6
  <2>5. sent + 1 \in {L[k].n : k \in 1..Len(L)}
    BY <2>4
  <2>6. K \subseteq 1..sent /\ K \cap gone = {}
    BY <1>7
  <2>7. K \subseteq {L[k].n : k \in 1..Len(L)}
    BY <2>3
  <2>8. {L[k].n : k \in 1..Len(L)} \subseteq K \cup {sent + 1}
    <3>. HIDE DEF K
    <3>. QED BY <2>2
  <2>. HIDE DEF K
  <2>. QED BY <2>1, <2>5, <2>6, <2>7, <2>8
<1>10. Behind(W, 0) = K \cup gone
  <2>1. Behind(W, 0) = {W[i].n : i \in 1..Len(W)}
    BY DEF Behind
  <2>2. ASSUME NEW l \in 1..Len(W) PROVE W[l].n \in K \cup gone
    <3>1. CASE Supersedes(r, W[l])
      BY <1>5, <3>1
    <3>2. CASE ~Supersedes(r, W[l])
      <4>1. PICK i \in 1..Len(kept) : kept[i] = W[l]
        BY <1>4, <3>2
      <4>. QED BY <4>1
    <3>. QED BY <3>1, <3>2
  <2>3. ASSUME NEW i \in 1..Len(kept) PROVE kept[i].n \in {W[l].n : l \in 1..Len(W)}
    <3>1. PICK l \in 1..Len(W) : kept[i] = W[l]
      BY <1>4
    <3>. QED BY <3>1
  <2>4. gone \subseteq {W[l].n : l \in 1..Len(W)}
    BY <1>5
  <2>5. K \subseteq {W[l].n : l \in 1..Len(W)}
    BY <2>3
  <2>. HIDE DEF K, gone
  <2>6. {W[l].n : l \in 1..Len(W)} \subseteq K \cup gone
    BY <2>2
  <2>. QED BY <2>1, <2>4, <2>5, <2>6
<1>. HIDE DEF K
<1>11. /\ mixer.job.n \in 0..sent /\ mixer.job.n \notin K \cup gone
       /\ mixer.answered = (1..sent) \ (K \cup gone \cup {mixer.job.n})
       /\ mixer.ran \in 0..sent
       /\ \A p \in Params : \/ mixer.runs[p] = latest[p]
                            \/ \E l \in 1..Len(W) : W[l].set.k = "param" /\ W[l].set.p = p
       /\ \A i \in 1..Len(W) : mixer.ran < W[i].n
  BY <1>1, <1>10 DEF Ordered, W
<1>12. gone \subseteq 1..sent
  BY <1>3, <1>5
<1>13. /\ q \in Mixers /\ q.val = mixer.val /\ q.groups = mixer.groups /\ q.entries = mixer.entries
       /\ q.current = mixer.current /\ q.job = mixer.job /\ q.ran = mixer.ran /\ q.runs = mixer.runs
       /\ q.answered = mixer.answered \cup gone /\ q.torn = mixer.torn
  <2>1. gone \subseteq 1..MaxSent
    BY <1>2, <1>12
  <2>2. q = [mixer EXCEPT !.answered = mixer.answered \cup gone]
    BY DEF gone
  <2>. QED BY <1>1, <2>1, <2>2 DEF Mixers
<1>14. Hist(q)
  BY <1>1, <1>13, HistOf
<1>15. Ordered(q, L, 0, sent + 1, lat)
  <2>1. q.answered = (1..(sent + 1)) \ (Behind(L, 0) \cup {q.job.n})
    <3>1. 1..(sent + 1) = (1..sent) \cup {sent + 1} /\ sent + 1 \notin 1..sent
      BY <1>2
    <3>. QED BY <1>9, <1>11, <1>12, <1>13, <3>1
  <2>2. q.job.n \in 0..(sent + 1) /\ q.job.n \notin Behind(L, 0) /\ q.ran \in 0..(sent + 1)
    <3>1. q.job.n \in 0..sent /\ q.ran \in 0..sent
      BY <1>11, <1>13
    <3>2. q.job.n # sent + 1 /\ q.job.n \in 0..(sent + 1) /\ q.ran \in 0..(sent + 1)
      BY <1>2, <3>1
    <3>. QED BY <1>9, <1>11, <1>13, <3>2
  <2>3. ASSUME NEW i \in 1..Len(L) PROVE q.ran < L[i].n
    <3>1. CASE i = Len(kept) + 1
      BY <1>2, <1>6, <1>11, <1>13, <3>1
    <3>2. CASE i \in 1..Len(kept)
      <4>1. PICK l \in 1..Len(W) : kept[i] = W[l]
        BY <1>4, <3>2
      <4>. QED BY <1>6, <1>11, <1>13, <3>2, <4>1
    <3>. QED BY <1>6, <3>1, <3>2
  <2>4. ASSUME NEW p \in Params
        PROVE  q.runs[p] = lat[p] \/ \E i \in 1..Len(L) : L[i].set.k = "param" /\ L[i].set.p = p
    <3>1. CASE r.set.k = "param" /\ r.set.p = p
      <4>1. Len(kept) + 1 \in 1..Len(L) /\ L[Len(kept) + 1] = r
        BY <1>6
      <4>. QED BY <3>1, <4>1
    <3>2. CASE ~(r.set.k = "param" /\ r.set.p = p)
      <4>1. CASE mixer.runs[p] = latest[p]
        BY <1>13, <3>2, <4>1
      <4>2. ASSUME NEW l \in 1..Len(W), W[l].set.k = "param", W[l].set.p = p
            PROVE  \E i \in 1..Len(L) : L[i].set.k = "param" /\ L[i].set.p = p
        <5>1. ~Supersedes(r, W[l])
          BY <3>2, <4>2 DEF Supersedes
        <5>2. PICK i \in 1..Len(kept) : kept[i] = W[l]
          BY <1>4, <5>1
        <5>3. L[i] = W[l] /\ i \in 1..Len(L)
          BY <1>6, <5>2
        <5>. QED BY <4>2, <5>3
      <4>. QED BY <1>11, <4>1, <4>2
    <3>. QED BY <3>1, <3>2
  <2>. QED BY <2>1, <2>2, <2>3, <2>4 DEF Ordered
<1>16. Queued(r) = L
  BY <1>4 DEF L
<1>. QED BY <1>6, <1>8, <1>13, <1>14, <1>15, <1>16

LEMMA SetInv ==
  ASSUME MixerAssumption, MixInv, NEW c \in Clients, Set(c)
  PROVE  MixInv'
<1>1. sent \in 0..MaxSent /\ sent < MaxSent /\ sent' = sent + 1 /\ mixer.current \in Nat
      /\ clients' = clients /\ hosting' = hosting /\ mixer.job \in Requests \cup {NoJob}
  BY DEF Set, MixInv, Mixers
<1>2. sent + 1 \in 1..MaxSent /\ sent + 1 \in 0..MaxSent
  BY <1>1 DEF MixerAssumption
<1>3. PICK s \in Sets : \E r \in {[c |-> c, n |-> sent + 1, set |-> s]} :
        /\ latest' = [p \in Params |-> IF s.k = "param" /\ s.p = p THEN r.n ELSE latest[p]]
        /\ \/ /\ mixer.job # NoJob
              /\ mixer' = [mixer EXCEPT !.answered = mixer.answered \cup Superseded(r)]
              /\ waiting' = Queued(r)
           \/ /\ mixer.job = NoJob
              /\ mixer' = Apply(mixer, r)
              /\ UNCHANGED waiting
  BY DEF Set
<1>. DEFINE r == [c |-> c, n |-> sent + 1, set |-> s]
<1>4. r \in Requests
  BY <1>1, <1>2, SetsAre
<1>5. r.n = sent + 1 /\ r.set = s
  OBVIOUS
<1>6. /\ latest' = [p \in Params |-> IF s.k = "param" /\ s.p = p THEN r.n ELSE latest[p]]
      /\ \/ /\ mixer.job # NoJob
            /\ mixer' = [mixer EXCEPT !.answered = mixer.answered \cup Superseded(r)]
            /\ waiting' = Queued(r)
         \/ /\ mixer.job = NoJob
            /\ mixer' = Apply(mixer, r)
            /\ waiting' = waiting
  BY <1>3
<1>. HIDE DEF r
<1>7. latest \in [Params -> 0..MaxSent]
  BY DEF MixInv
<1>8. latest' \in [Params -> 0..MaxSent]
      /\ \A p \in Params : latest'[p] = IF r.set.k = "param" /\ r.set.p = p THEN r.n ELSE latest[p]
  BY <1>2, <1>5, <1>6, <1>7
<1>9. CASE mixer.job = NoJob
  <2>1. waiting = <<>> /\ waiting' = <<>> /\ mixer' = Apply(mixer, r)
    BY <1>6, <1>9 DEF MixInv
  <2>2. mixer' \in Mixers /\ Hist(mixer') /\ Ordered(mixer', waiting', 0, sent', latest')
    BY <1>1, <1>4, <1>5, <1>8, <1>9, <2>1, SetRuns
  <2>3. Sorted(waiting', sent', latest')
    BY <2>1 DEF Sorted
  <2>. QED BY <1>1, <1>2, <1>8, <2>1, <2>2, <2>3 DEF MixInv
<1>10. CASE mixer.job # NoJob
  <2>1. PICK q : q = mixer'
    OBVIOUS
  <2>2. q = [mixer EXCEPT !.answered = mixer.answered \cup Superseded(r)] /\ waiting' = Queued(r)
    BY <1>6, <1>10, <2>1
  <2>3. PICK lat : lat = latest'
    OBVIOUS
  <2>4. \A p \in Params : lat[p] = IF r.set.k = "param" /\ r.set.p = p THEN r.n ELSE latest[p]
    BY <1>8, <2>3
  <2>5. /\ q \in Mixers /\ Hist(q) /\ q.job = mixer.job /\ Queued(r) \in Seq(Requests)
        /\ Sorted(Queued(r), sent + 1, lat) /\ Ordered(q, Queued(r), 0, sent + 1, lat)
    BY <1>4, <1>5, <1>10, <2>2, <2>4, SetWaits
  <2>6. /\ mixer' \in Mixers /\ Hist(mixer') /\ mixer'.job # NoJob /\ waiting' \in Seq(Requests)
        /\ Sorted(waiting', sent', latest') /\ Ordered(mixer', waiting', 0, sent', latest')
    BY <1>1, <1>10, <2>1, <2>2, <2>3, <2>5
  <2>7. clients' \subseteq Clients /\ hosting' \in BOOLEAN /\ sent' \in 0..MaxSent
    BY <1>1, <1>2 DEF MixInv
  <2>. QED BY <1>8, <2>6, <2>7 DEF MixInv
<1>. QED BY <1>9, <1>10

LEMMA FinishInv ==
  ASSUME MixerAssumption, MixInv, Finish
  PROVE  MixInv'
<1>. DEFINE n == mixer.job.n
            m == [mixer EXCEPT !.answered = mixer.answered \cup {n}, !.job = NoJob]
<1>1. /\ mixer.job # NoJob /\ clients' = clients /\ hosting' = hosting /\ sent' = sent /\ latest' = latest
      /\ \E t \in {IF waiting = <<>> THEN [m |-> m, rest |-> <<>>] ELSE Drained(m)} :
           mixer' = t.m /\ waiting' = t.rest
  <2>1. [Answer(mixer, n) EXCEPT !.job = NoJob] = m
    BY DEF Answer, MixInv, Mixers
  <2>. QED BY <2>1 DEF Finish
<1>2. /\ mixer \in Mixers /\ Hist(mixer) /\ waiting \in Seq(Requests) /\ sent \in 0..MaxSent
      /\ Sorted(waiting, sent, latest) /\ Ordered(mixer, waiting, 0, sent, latest)
  BY DEF MixInv
<1>3. n \in 1..MaxSent /\ n \in 1..sent /\ NoJob.n = 0 /\ n \notin Behind(waiting, 0)
  <2>1. mixer.job \in Requests
    BY <1>1, <1>2 DEF Mixers
  <2>2. n \in 1..MaxSent
    BY <2>1, RequestsAre
  <2>3. n \in 0..sent /\ n \notin Behind(waiting, 0)
    BY <1>2 DEF Ordered
  <2>. QED BY <1>2, <2>2, <2>3 DEF NoJob
<1>. HIDE DEF n
<1>4. /\ m \in Mixers /\ m.val = mixer.val /\ m.groups = mixer.groups /\ m.entries = mixer.entries
      /\ m.current = mixer.current /\ m.job = NoJob /\ m.ran = mixer.ran /\ m.runs = mixer.runs
      /\ m.answered = mixer.answered \cup {n} /\ m.torn = mixer.torn
  BY <1>2, <1>3 DEF Mixers
<1>. HIDE DEF m
<1>5. Hist(m)
  BY <1>2, <1>4, HistOf
<1>6. Ordered(m, waiting, 0, sent, latest)
  <2>1. Behind(waiting, 0) \subseteq 1..sent
    BY <1>2 DEF Behind, Sorted
  <2>2. mixer.answered = (1..sent) \ (Behind(waiting, 0) \cup {n})
    BY <1>2 DEF Ordered, n
  <2>3. m.answered = (1..sent) \ (Behind(waiting, 0) \cup {m.job.n})
    BY <1>3, <1>4, <2>1, <2>2
  <2>4. m.job.n \in 0..sent /\ m.job.n \notin Behind(waiting, 0)
    BY <1>2, <1>3, <1>4, <2>1
  <2>. QED BY <1>2, <1>4, <2>3, <2>4 DEF Ordered
<1>7. CASE waiting = <<>>
  <2>1. mixer' = m /\ waiting' = <<>>
    <3>1. \E t \in {[m |-> m, rest |-> <<>>]} : mixer' = t.m /\ waiting' = t.rest
      BY <1>1, <1>7
    <3>. QED BY <3>1
  <2>2. waiting' = waiting
    BY <1>7, <2>1
  <2>. QED BY <1>1, <1>2, <1>4, <1>5, <1>6, <2>1, <2>2 DEF MixInv
<1>8. CASE waiting # <<>>
  <2>1. PICK t \in [m : Mixers, rest : Seq(Requests)], j \in 0..Len(waiting) :
           /\ t = Drained(m) /\ Hist(t.m) /\ Ordered(t.m, waiting, j, sent, latest)
           /\ Len(t.rest) = Len(waiting) - j /\ \A i \in 1..Len(t.rest) : t.rest[i] = waiting[j + i]
           /\ t.m.job = NoJob => j = Len(waiting)
    BY <1>2, <1>4, <1>5, <1>6, DrainedIs
  <2>2. mixer' = t.m /\ waiting' = t.rest
    <3>1. \E d \in {Drained(m)} : mixer' = d.m /\ waiting' = d.rest
      BY <1>1, <1>8
    <3>. QED BY <2>1, <3>1
  <2>. DEFINE R == t.rest
              W == waiting
  <2>3. /\ R \in Seq(Requests) /\ Len(R) = Len(W) - j /\ Len(W) \in Nat /\ j \in Nat /\ j <= Len(W)
        /\ \A i \in 1..Len(R) : R[i] = W[j + i]
    BY <1>2, <2>1
  <2>4. Sorted(W, sent, latest) /\ Ordered(t.m, W, j, sent, latest)
    BY <1>2, <2>1
  <2>. HIDE DEF R, W
  <2>5. \A i \in 1..Len(R) : j + i \in 1..Len(W) /\ j + i \in (j + 1)..Len(W)
    BY <2>3
  <2>6. \A i \in (j + 1)..Len(W) : i - j \in 1..Len(R) /\ R[i - j] = W[i]
    <3>. TAKE i \in (j + 1)..Len(W)
    <3>1. i - j \in 1..Len(R) /\ j + (i - j) = i
      BY <2>3
    <3>. QED BY <2>3, <3>1
  <2>7. Sorted(R, sent, latest)
    <3>1. ASSUME NEW i \in 1..Len(R)
          PROVE  R[i].n \in 1..sent /\ (R[i].set.k = "param" => latest[R[i].set.p] = R[i].n)
      <4>1. R[i] = W[j + i] /\ j + i \in 1..Len(W)
        BY <2>3, <2>5
      <4>2. /\ W[j + i].n \in 1..sent
            /\ W[j + i].set.k = "param" => latest[W[j + i].set.p] = W[j + i].n
        BY <2>4, <4>1 DEF Sorted
      <4>. QED BY <4>1, <4>2
    <3>2. ASSUME NEW i \in 1..Len(R), NEW k \in 1..Len(R), i < k PROVE R[i].n < R[k].n
      <4>1. j + i < j + k
        BY <2>3, <3>2
      <4>. QED BY <2>3, <2>4, <2>5, <4>1 DEF Sorted
    <3>. QED BY <3>1, <3>2 DEF Sorted
  <2>8. Behind(R, 0) = Behind(W, j)
    <3>1. \A i \in 1..Len(R) : R[i].n \in Behind(W, j)
      BY <2>3, <2>5 DEF Behind
    <3>2. \A i \in (j + 1)..Len(W) : W[i].n \in {R[k].n : k \in 1..Len(R)}
      BY <2>6
    <3>3. Behind(R, 0) = {R[k].n : k \in 1..Len(R)}
      BY DEF Behind
    <3>. QED BY <3>1, <3>2, <3>3 DEF Behind
  <2>9. Ordered(t.m, R, 0, sent, latest)
    <3>1. \A i \in 1..Len(R) : t.m.ran < R[i].n
      BY <2>3, <2>4, <2>5 DEF Ordered
    <3>2. ASSUME NEW p \in Params
          PROVE  \/ t.m.runs[p] = latest[p]
                 \/ \E i \in 1..Len(R) : R[i].set.k = "param" /\ R[i].set.p = p
      <4>1. \/ t.m.runs[p] = latest[p]
            \/ \E i \in (j + 1)..Len(W) : W[i].set.k = "param" /\ W[i].set.p = p
        BY <2>4 DEF Ordered
      <4>2. ASSUME NEW i \in (j + 1)..Len(W), W[i].set.k = "param", W[i].set.p = p
            PROVE  \E k \in 1..Len(R) : R[k].set.k = "param" /\ R[k].set.p = p
        BY <2>6, <4>2
      <4>. QED BY <4>1, <4>2
    <3>. QED BY <2>4, <2>8, <3>1, <3>2 DEF Ordered
  <2>10. t.m.job = NoJob => R = <<>>
    <3>. HAVE t.m.job = NoJob
    <3>1. Len(R) = 0
      BY <2>1, <2>3 DEF W
    <3>. QED BY <2>3, <3>1
  <2>11. t.m \in Mixers /\ Hist(t.m)
    BY <2>1
  <2>12. mixer' = t.m /\ waiting' = R
    BY <2>2 DEF R
  <2>. QED BY <1>1, <2>3, <2>7, <2>9, <2>10, <2>11, <2>12 DEF MixInv
<1>. QED BY <1>7, <1>8

------------------------------------------------------------------------------
\* The invariant holds in every state the daemon reaches.

LEMMA NextInv == ASSUME MixerAssumption, MixInv, [Next]_vars PROVE MixInv'
<1>1. CASE \E c \in Clients : Disconnect(c) \/ Set(c)
  BY <1>1, DisconnectInv, SetInv
<1>2. CASE Finish
  BY <1>2, FinishInv
<1>3. CASE Pause \/ Attach
  BY <1>3, PauseInv
<1>4. CASE UNCHANGED vars
  BY <1>4 DEF vars, MixInv
<1>. QED BY <1>1, <1>2, <1>3, <1>4 DEF Next

LEMMA Invariant == Spec => []MixInv
<1>1. Init => MixInv
  BY MixerAssumption, InitInv
<1>2. MixInv /\ [Next]_vars => MixInv'
  BY MixerAssumption, NextInv
<1>. QED BY <1>1, <1>2, PTL DEF Spec

LEMMA InvOrder == ASSUME MixInv PROVE InOrder /\ NoneStranded
<1>1. /\ waiting \in Seq(Requests) /\ Sorted(waiting, sent, latest)
      /\ Ordered(mixer, waiting, 0, sent, latest) /\ (mixer.job = NoJob => waiting = <<>>)
  BY DEF MixInv
<1>2. DOMAIN waiting = 1..Len(waiting)
  BY <1>1
<1>3. InOrder
  <2>1. \A p \in Params : \/ mixer.runs[p] = latest[p]
                          \/ \E i \in 1..Len(waiting) : waiting[i].n = latest[p]
    BY <1>1 DEF Ordered, Sorted
  <2>2. \A i \in 1..Len(waiting) : mixer.ran < waiting[i].n
    BY <1>1 DEF Ordered
  <2>3. \A i, j \in 1..Len(waiting) : i < j => waiting[i].n < waiting[j].n
    BY <1>1 DEF Sorted
  <2>. QED BY <1>2, <2>1, <2>2, <2>3 DEF InOrder
<1>4. NoneStranded
  <2>1. Waits = Behind(waiting, 0)
    BY <1>2 DEF Waits, Behind
  <2>. QED BY <1>1, <2>1 DEF NoneStranded, Ordered
<1>. QED BY <1>3, <1>4

LEMMA InvTypes == ASSUME MixInv PROVE TypeOK
<1>1. mixer \in Mixers /\ Ordered(mixer, waiting, 0, sent, latest) /\ Hist(mixer)
  BY DEF MixInv
<1>2. mixer.groups \in Groups /\ mixer.entries \in Seq(Deltas) /\ mixer.val \in [Paths -> Values]
      /\ mixer.current \in Nat
  BY <1>1 DEF Mixers
<1>3. DOMAIN mixer.groups \subseteq Clients
  BY <1>2, GroupsAre
<1>4. \A i \in DOMAIN mixer.entries : DOMAIN mixer.entries[i] \subseteq Paths \ Skipped
  BY <1>2, DeltasAre
<1>5. Len(mixer.entries) <= MaxEntries /\ mixer.current \in 0..Len(mixer.entries)
  BY <1>1, <1>2 DEF Hist
<1>6. mixer.answered \subseteq 1..sent
  BY <1>1 DEF Ordered
<1>. QED BY <1>2, <1>3, <1>4, <1>5, <1>6 DEF MixInv, TypeOK

\* The mixer, its history and the SETs in flight are what TypeOK says, and the
\* history never outgrows its limit (console_history.py, History.append).
THEOREM MixerTypes == Spec => []TypeOK
<1>1. MixInv => TypeOK
  BY InvTypes
<1>. QED BY <1>1, Invariant, PTL

\* Undo tells the truth whatever SETs, gestures, transactions and disconnections
\* come in between (console_history.py; _handle_set and _native_run).
THEOREM UndoIsTruthful == Spec => []UndoTruthful
<1>1. MixInv => UndoTruthful
  BY DEF MixInv, Hist, UndoTruthful
<1>. QED BY <1>1, Invariant, PTL

\* SETs that wait for a transaction are applied in order and none older than
\* what was applied, and the newest value of a plug-in parameter is not lost
\* when it takes an older one's place in the list (_handle_set and _native_run).
THEOREM AppliedInOrder == Spec => []InOrder
<1>1. MixInv => InOrder
  BY InvOrder
<1>. QED BY <1>1, Invariant, PTL

\* Every SET is answered, or waits behind a transaction, or is it; none is
\* answered before its time (_handle_set and _native_run).
THEOREM NobodyStranded == Spec => []NoneStranded
<1>1. MixInv => NoneStranded
  BY InvOrder
<1>. QED BY <1>1, Invariant, PTL
==============================================================================

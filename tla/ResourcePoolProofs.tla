------------------------- MODULE ResourcePoolProofs -------------------------
(***************************************************************************)
(* Proofs about ResourcePool, for every geometry and every caller: the     *)
(* lists are typed, tile their pools and are merged (AllSound), references *)
(* are holds (HoldInv), a batch that fails leaves no trace (TraceInv), and *)
(* every call is a step of PoolLedger.                                     *)
(*                                                                         *)
(* The lemmas of the first part are about any list of extents: an extent   *)
(* replaced by one of the same place, split in two, or merged with its     *)
(* neighbour leaves a list that tiles the same range.  Each call of the    *)
(* ledger is one of these.                                                 *)
(***************************************************************************)
EXTENDS ResourcePool, WellFoundedInduction, SequenceTheorems, FiniteSetTheorems, TLAPS

------------------------------------------------------------------------------
\* Induction.  The library states it over predicates, which the provers cannot
\* instantiate; here a set stands for the predicate and a function for the
\* step of a recursion.
\* It rests on < being well founded.

\* A set of natural numbers that is not empty has a least element.
LEMMA LeastNat ==
  ASSUME NEW T \in SUBSET Nat, T # {}
  PROVE  \E x \in T : \A y \in T : x <= y
<1>1. \E R : /\ IsWellFoundedOn(R, Nat)
             /\ \A x, y \in Nat : <<y, x>> \in R <=> y < x
  <2>. DEFINE R == OpToRel(<, Nat)
  <2>1. IsWellFoundedOn(R, Nat)
    BY NatLessThanWellFounded
  <2>2. \A x, y \in Nat : <<y, x>> \in R <=> y < x
    BY DEF OpToRel
  <2>. HIDE DEF R
  <2>. QED BY <2>1, <2>2
<1>2. PICK R : /\ IsWellFoundedOn(R, Nat)
               /\ \A x, y \in Nat : <<y, x>> \in R <=> y < x
  BY <1>1
<1>3. PICK x \in T : \A y \in T : ~ (<<y, x>> \in R)
  BY <1>2, WFMin
<1>4. \A y \in T : x <= y
  <2>. TAKE y \in T
  <2>1. x \in Nat /\ y \in Nat
    OBVIOUS
  <2>2. ~(y < x)
    BY <1>2, <1>3, <2>1
  <2>. QED BY <2>1, <2>2
<1>. QED BY <1>4

\* Induction up to a bound.
LEMMA InductionTo ==
  ASSUME NEW N \in Nat, NEW T, 0 \in T, \A n \in 0..(N - 1) : n \in T => n + 1 \in T
  PROVE  \A n \in 0..N : n \in T
<1>. DEFINE Out == {n \in 0..N : n \notin T}
<1>. SUFFICES ASSUME Out # {} PROVE FALSE
  OBVIOUS
<1>1. Out \in SUBSET Nat
  OBVIOUS
<1>2. \A n \in Out : n \in 0..N /\ n \notin T
  OBVIOUS
<1>3. \A n \in 0..N : n \in Out \/ n \in T
  OBVIOUS
<1>. HIDE DEF Out
<1>4. PICK x \in Out : \A y \in Out : x <= y
  BY <1>1, LeastNat
<1>5. x \in 0..N /\ x \notin T /\ x # 0
  BY <1>2
<1>6. x - 1 \in 0..(N - 1) /\ x - 1 \in 0..N
  BY <1>5
<1>7. x - 1 \in T
  <2>1. ~(x <= x - 1)
    BY <1>5
  <2>. QED BY <1>3, <1>4, <1>6, <2>1
<1>8. x - 1 + 1 = x
  BY <1>5
<1>. QED BY <1>5, <1>6, <1>7, <1>8

\* A function whose value at n is made of n and its value at n - 1.
Follows(f, N, X, base, F) ==
  f \in [0..N -> X] /\ f[0] = base /\ \A n \in 1..N : f[n] = F[n][f[n - 1]]

LEMMA RecursiveFunction ==
  ASSUME NEW N \in Nat, NEW X, NEW base \in X, NEW F \in [1..N -> [X -> X]]
  PROVE  \E f : Follows(f, N, X, base, F)
<1>. DEFINE Upto(m, f) == /\ f \in [0..m -> X] /\ f[0] = base
                          /\ \A n \in 1..m : f[n] = F[n][f[n - 1]]
            T == {m \in 0..N : \E f : Upto(m, f)}
<1>1. 0 \in T
  <2>. DEFINE f == [n \in 0..0 |-> base]
  <2>1. f \in [0..0 -> X] /\ f[0] = base /\ 1..0 = {}
    OBVIOUS
  <2>. HIDE DEF f
  <2>2. Upto(0, f)
    BY <2>1
  <2>. HIDE DEF Upto
  <2>3. \E g : Upto(0, g)
    BY <2>2
  <2>. QED BY <2>3
<1>2. ASSUME NEW m \in 0..(N - 1), m \in T PROVE m + 1 \in T
  <2>1. PICK f : Upto(m, f)
    BY <1>2
  <2>2. m + 1 \in 1..N /\ m \in 0..m /\ m \in Nat /\ m + 1 \in 0..N
    OBVIOUS
  <2>3. f[m] \in X
    BY <2>1, <2>2
  <2>4. F[m + 1][f[m]] \in X
    BY <2>2, <2>3
  <2>. DEFINE g == [n \in 0..(m + 1) |-> IF n = m + 1 THEN F[m + 1][f[m]] ELSE f[n]]
  <2>5. \A n \in 0..(m + 1) : g[n] \in X
    BY <2>1, <2>2, <2>4
  <2>6. g \in [0..(m + 1) -> X]
    BY <2>5
  <2>7. g[0] = base
    BY <2>1, <2>2
  <2>8. \A n \in 1..(m + 1) : g[n] = F[n][g[n - 1]]
    <3>. TAKE n \in 1..(m + 1)
    <3>1. CASE n = m + 1
      <4>1. g[n] = F[m + 1][f[m]] /\ g[n - 1] = f[m]
        BY <2>2, <3>1
      <4>. QED BY <3>1, <4>1
    <3>2. CASE n # m + 1
      <4>1. n \in 1..m /\ n \in 0..m /\ n - 1 \in 0..m /\ n - 1 # m + 1
        BY <2>2, <3>2
      <4>2. g[n] = f[n] /\ g[n - 1] = f[n - 1]
        BY <2>2, <4>1
      <4>. QED BY <2>1, <4>1, <4>2
    <3>. QED BY <3>1, <3>2
  <2>. HIDE DEF g
  <2>9. Upto(m + 1, g)
    BY <2>6, <2>7, <2>8
  <2>. HIDE DEF Upto
  <2>. QED BY <2>2, <2>9
<1>3. N \in T
  <2>. HIDE DEF T
  <2>1. \A n \in 0..N : n \in T
    BY <1>1, <1>2, InductionTo
  <2>. QED BY <2>1
<1>. QED BY <1>3 DEF Follows

\* A function on 0..N has a greatest value.
LEMMA GreatestValue ==
  ASSUME NEW N \in Nat, NEW f \in [0..N -> Nat]
  PROVE  \E i \in 0..N : \A j \in 0..N : f[j] <= f[i]
<1>. DEFINE T == {n \in 0..N : \E i \in 0..n : \A j \in 0..n : f[j] <= f[i]}
<1>1. 0 \in T
  <2>1. f[0] \in Nat /\ \A j \in 0..0 : j = 0
    OBVIOUS
  <2>2. \E i \in 0..0 : \A j \in 0..0 : f[j] <= f[i]
    BY <2>1
  <2>. QED BY <2>2
<1>2. ASSUME NEW n \in 0..(N - 1), n \in T PROVE n + 1 \in T
  <2>1. PICK i \in 0..n : \A j \in 0..n : f[j] <= f[i]
    BY <1>2
  <2>2. n + 1 \in 0..N /\ i \in 0..N /\ \A j \in 0..(n + 1) : j \in 0..n \/ j = n + 1
    OBVIOUS
  <2>3. f[i] \in Nat /\ f[n + 1] \in Nat
    BY <2>2
  <2>4. \E m \in 0..(n + 1) : \A j \in 0..(n + 1) : f[j] <= f[m]
    <3>1. CASE f[n + 1] <= f[i]
      BY <2>1, <2>2, <2>3, <3>1
    <3>2. CASE ~(f[n + 1] <= f[i])
      <4>1. \A j \in 0..(n + 1) : f[j] <= f[n + 1]
        <5>. TAKE j \in 0..(n + 1)
        <5>1. j \in 0..n => f[j] \in Nat /\ f[j] <= f[i]
          BY <2>1, <2>2
        <5>. QED BY <2>2, <2>3, <3>2, <5>1
      <4>. QED BY <4>1
    <3>. QED BY <3>1, <3>2
  <2>. QED BY <2>2, <2>4
<1>3. N \in T
  <2>. HIDE DEF T
  <2>1. \A n \in 0..N : n \in T
    BY <1>1, <1>2, InductionTo
  <2>. QED BY <2>1
<1>. QED BY <1>3

------------------------------------------------------------------------------
\* Lists.

\* InsertAt and RemoveAt, element by element (they are made of SubSeq and \o).
LEMMA InsertAtProperties ==
  ASSUME NEW S, NEW s \in Seq(S), NEW i \in 1..Len(s), NEW x \in S
  PROVE  /\ InsertAt(s, i, x) \in Seq(S)
         /\ Len(InsertAt(s, i, x)) = Len(s) + 1
         /\ \A j \in 1..(Len(s) + 1) :
              InsertAt(s, i, x)[j] = IF j < i THEN s[j] ELSE IF j = i THEN x ELSE s[j - 1]
<1>. DEFINE a == SubSeq(s, 1, i - 1)
            m == <<x>>
            b == SubSeq(s, i, Len(s))
<1>0. Len(s) \in Nat /\ i \in Int /\ 1 <= i /\ i <= Len(s)
  OBVIOUS
<1>1. a \in Seq(S) /\ Len(a) = i - 1 /\ \A j \in 1..(i - 1) : a[j] = s[j]
  BY <1>0, SubSeqProperties
<1>2. b \in Seq(S) /\ Len(b) = Len(s) - i + 1 /\ \A j \in 1..(Len(s) - i + 1) : b[j] = s[i + j - 1]
  BY <1>0, SubSeqProperties
<1>3. m \in Seq(S) /\ Len(m) = 1 /\ m[1] = x
  OBVIOUS
<1>4. InsertAt(s, i, x) = (a \o m) \o b
  BY DEF InsertAt
<1>. HIDE DEF a, b, m
<1>. DEFINE am == a \o m
            c  == am \o b
<1>5a. am \in Seq(S) /\ Len(am) = Len(a) + Len(m)
       /\ \A j \in 1..(Len(a) + Len(m)) : am[j] = IF j <= Len(a) THEN a[j] ELSE m[j - Len(a)]
  BY <1>1, <1>3, ConcatProperties, Zenon
<1>. HIDE DEF am
<1>5. am \in Seq(S) /\ Len(am) = i
      /\ \A j \in 1..i : am[j] = IF j < i THEN s[j] ELSE x
  BY <1>0, <1>1, <1>3, <1>5a
<1>6a. c \in Seq(S) /\ Len(c) = Len(am) + Len(b)
       /\ \A j \in 1..(Len(am) + Len(b)) : c[j] = IF j <= Len(am) THEN am[j] ELSE b[j - Len(am)]
  BY <1>2, <1>5, ConcatProperties, Zenon
<1>. HIDE DEF c
<1>6. c \in Seq(S) /\ Len(c) = Len(s) + 1
      /\ \A j \in 1..(Len(s) + 1) : c[j] = IF j <= i THEN am[j] ELSE b[j - i]
  BY <1>0, <1>2, <1>5, <1>6a
<1>7. \A j \in 1..(Len(s) + 1) :
        c[j] = IF j < i THEN s[j] ELSE IF j = i THEN x ELSE s[j - 1]
  BY <1>0, <1>2, <1>5, <1>6, SMTT(30)
<1>8. InsertAt(s, i, x) = c
  BY <1>4 DEF c, am
<1>. QED BY <1>6, <1>7, <1>8

LEMMA RemoveAtProperties ==
  ASSUME NEW S, NEW s \in Seq(S), NEW i \in 1..Len(s)
  PROVE  /\ RemoveAt(s, i) \in Seq(S)
         /\ Len(RemoveAt(s, i)) = Len(s) - 1
         /\ \A j \in 1..(Len(s) - 1) : RemoveAt(s, i)[j] = IF j < i THEN s[j] ELSE s[j + 1]
<1>. DEFINE a == SubSeq(s, 1, i - 1)
            b == SubSeq(s, i + 1, Len(s))
<1>0. Len(s) \in Nat /\ i \in Int /\ 1 <= i /\ i <= Len(s)
  OBVIOUS
<1>1. a \in Seq(S) /\ Len(a) = i - 1 /\ \A j \in 1..(i - 1) : a[j] = s[j]
  BY <1>0, SubSeqProperties
<1>2. b \in Seq(S) /\ Len(b) = Len(s) - i /\ \A j \in 1..(Len(s) - i) : b[j] = s[i + j]
  BY <1>0, SubSeqProperties
<1>3. RemoveAt(s, i) = a \o b
  BY DEF RemoveAt
<1>. HIDE DEF a, b
<1>. DEFINE c == a \o b
<1>4. c \in Seq(S) /\ Len(c) = Len(a) + Len(b)
      /\ \A j \in 1..(Len(a) + Len(b)) : c[j] = IF j <= Len(a) THEN a[j] ELSE b[j - Len(a)]
  BY <1>1, <1>2, ConcatProperties, Zenon
<1>. HIDE DEF c
<1>5. c \in Seq(S) /\ Len(c) = Len(s) - 1
      /\ \A j \in 1..(Len(s) - 1) : c[j] = IF j < i THEN s[j] ELSE s[j + 1]
  <2>1. c \in Seq(S) /\ Len(c) = Len(s) - 1
    BY <1>0, <1>1, <1>2, <1>4
  <2>. SUFFICES ASSUME NEW j \in 1..(Len(s) - 1)
                PROVE  c[j] = IF j < i THEN s[j] ELSE s[j + 1]
    BY <2>1
  <2>4. j \in 1..(Len(a) + Len(b))
    BY <1>0, <1>1, <1>2
  <2>5. c[j] = IF j <= Len(a) THEN a[j] ELSE b[j - Len(a)]
    BY <1>4, <2>4, Zenon
  <2>2. CASE j < i
    <3>1. j <= Len(a) /\ j \in 1..(i - 1)
      BY <1>0, <1>1, <2>2
    <3>. QED BY <1>1, <2>2, <2>5, <3>1
  <2>3. CASE ~(j < i)
    <3>. DEFINE n == j - Len(a)
    <3>1. ~(j <= Len(a)) /\ n \in 1..(Len(s) - i) /\ i + n = j + 1
      BY <1>0, <1>1, <1>2, <2>3
    <3>3. c[j] = b[n]
      BY <2>5, <3>1, Zenon
    <3>. HIDE DEF n
    <3>2. b[n] = s[i + n]
      BY <1>2, <3>1
    <3>. QED BY <2>3, <3>1, <3>2, <3>3
  <2>. QED BY <2>2, <2>3
<1>6. RemoveAt(s, i) = c
  BY <1>3 DEF c
<1>. QED BY <1>5, <1>6

------------------------------------------------------------------------------
\* Extents, and lists that tile a range.

\* What Tiles asks of a list depends on where its extents lie, not on who has
\* them: one extent may be replaced by another of the same place.
SamePlace(e, f) == e.base = f.base /\ e.words = f.words

LEMMA TilesReplace ==
  ASSUME NEW s \in Seq(Extents), NEW i \in 1..Len(s), NEW e \in Extents, SamePlace(e, s[i]),
         NEW up \in BOOLEAN, NEW lo, NEW hi, Tiles(s, up, lo, hi)
  PROVE  /\ ReplaceAt(s, i, e) \in Seq(Extents) /\ Len(ReplaceAt(s, i, e)) = Len(s)
         /\ Tiles(ReplaceAt(s, i, e), up, lo, hi)
<1>. DEFINE t == ReplaceAt(s, i, e)
<1>1. t \in Seq(Extents) /\ Len(t) = Len(s)
      /\ \A j \in 1..Len(s) : t[j] = IF j = i THEN e ELSE s[j]
  BY DEF ReplaceAt
<1>. HIDE DEF t
<1>2. \A j \in 1..Len(s) : t[j].base = s[j].base /\ t[j].words = s[j].words
  BY <1>1 DEF SamePlace
<1>3. Len(s) \in Nat /\ Len(s) >= 1
  OBVIOUS
<1>4. Tiles(t, up, lo, hi)
  BY <1>1, <1>2, <1>3 DEF Tiles, Meets, Starts, Stops, End
<1>. QED BY <1>1, <1>4 DEF t

\* The list after a split, element by element.
LEMMA SplitProperties ==
  ASSUME NEW s \in Seq(Extents), NEW i \in 1..Len(s), NEW x \in Extents, NEW y \in Extents
  PROVE  /\ InsertAt(ReplaceAt(s, i, y), i, x) \in Seq(Extents)
         /\ Len(InsertAt(ReplaceAt(s, i, y), i, x)) = Len(s) + 1
         /\ \A j \in 1..(Len(s) + 1) :
              InsertAt(ReplaceAt(s, i, y), i, x)[j] =
                IF j < i THEN s[j] ELSE IF j = i THEN x ELSE IF j = i + 1 THEN y ELSE s[j - 1]
<1>. DEFINE r == ReplaceAt(s, i, y)
            t == InsertAt(r, i, x)
<1>0. Len(s) \in Nat /\ i \in Int /\ 1 <= i /\ i <= Len(s)
  OBVIOUS
<1>1. r \in Seq(Extents) /\ Len(r) = Len(s)
      /\ \A j \in 1..Len(s) : r[j] = IF j = i THEN y ELSE s[j]
  BY DEF ReplaceAt
<1>. HIDE DEF r
<1>2. t \in Seq(Extents) /\ Len(t) = Len(s) + 1
      /\ \A j \in 1..(Len(s) + 1) : t[j] = IF j < i THEN r[j] ELSE IF j = i THEN x ELSE r[j - 1]
  <2>1. i \in 1..Len(r)
    BY <1>1
  <2>2. t \in Seq(Extents) /\ Len(t) = Len(r) + 1
      /\ \A j \in 1..(Len(r) + 1) : t[j] = IF j < i THEN r[j] ELSE IF j = i THEN x ELSE r[j - 1]
    BY <1>1, <2>1, InsertAtProperties, SMTT(30)
  <2>. QED BY <1>1, <2>2, Zenon
<1>. HIDE DEF t
<1>3. \A j \in 1..(Len(s) + 1) :
        t[j] = IF j < i THEN s[j] ELSE IF j = i THEN x ELSE IF j = i + 1 THEN y ELSE s[j - 1]
  <2>. SUFFICES ASSUME NEW j \in 1..(Len(s) + 1)
                PROVE  t[j] = IF j < i THEN s[j] ELSE IF j = i THEN x
                              ELSE IF j = i + 1 THEN y ELSE s[j - 1]
    OBVIOUS
  <2>1. CASE j <= i
    <3>1. j < i => j \in 1..Len(s)
      BY <1>0
    <3>2. t[j] = IF j < i THEN r[j] ELSE x
      BY <1>0, <1>2, <2>1
    <3>. QED BY <1>1, <2>1, <3>1, <3>2
  <2>2. CASE j > i
    <3>1. j - 1 \in 1..Len(s) /\ (j - 1 = i <=> j = i + 1)
      BY <1>0, <2>2
    <3>2. t[j] = r[j - 1]
      BY <1>0, <1>2, <2>2
    <3>. QED BY <1>0, <1>1, <2>2, <3>1, <3>2
  <2>. QED BY <1>0, <2>1, <2>2
<1>. QED BY <1>2, <1>3 DEF t, r

\* An extent split in two: x is listed before y, and together they lie where
\* the extent lay.
LEMMA TilesSplit ==
  ASSUME NEW s \in Seq(Extents), NEW i \in 1..Len(s), NEW x \in Extents, NEW y \in Extents,
         NEW up \in BOOLEAN, NEW lo, NEW hi, Tiles(s, up, lo, hi),
         Meets(up, x, y),
         IF up THEN x.base = s[i].base /\ End(y) = End(s[i])
               ELSE End(x) = End(s[i]) /\ y.base = s[i].base
  PROVE  /\ InsertAt(ReplaceAt(s, i, y), i, x) \in Seq(Extents)
         /\ Len(InsertAt(ReplaceAt(s, i, y), i, x)) = Len(s) + 1
         /\ Tiles(InsertAt(ReplaceAt(s, i, y), i, x), up, lo, hi)
<1>. DEFINE t == InsertAt(ReplaceAt(s, i, y), i, x)
<1>0. Len(s) \in Nat /\ i \in Int /\ 1 <= i /\ i <= Len(s)
  OBVIOUS
<1>2. t \in Seq(Extents) /\ Len(t) = Len(s) + 1
  BY SplitProperties
<1>3. \A j \in 1..(Len(s) + 1) :
        t[j] = IF j < i THEN s[j] ELSE IF j = i THEN x ELSE IF j = i + 1 THEN y ELSE s[j - 1]
  BY SplitProperties
<1>. HIDE DEF t
<1>4. ASSUME NEW j \in 1..Len(s) PROVE Meets(up, t[j], t[j + 1])
  <2>1. CASE j + 1 < i
    <3>1. t[j] = s[j] /\ t[j + 1] = s[j + 1] /\ j \in 1..(Len(s) - 1)
      BY <1>0, <1>3, <2>1
    <3>. QED BY <3>1 DEF Tiles
  <2>2. CASE j + 1 = i
    <3>1. t[j] = s[j] /\ t[j + 1] = x /\ Meets(up, s[j], s[i])
      BY <1>0, <1>3, <2>2 DEF Tiles
    <3>. QED BY <3>1 DEF Meets
  <2>3. CASE j = i
    BY <1>0, <1>3, <2>3
  <2>4. CASE j = i + 1
    <3>1. t[j] = y /\ t[j + 1] = s[j] /\ Meets(up, s[i], s[j])
      BY <1>0, <1>3, <2>4 DEF Tiles
    <3>. QED BY <3>1 DEF Meets
  <2>5. CASE j > i + 1
    <3>. DEFINE n == j - 1
    <3>1. t[j] = s[n] /\ t[j + 1] = s[n + 1] /\ n \in 1..(Len(s) - 1)
      BY <1>0, <1>3, <2>5, SMTT(30)
    <3>. HIDE DEF n
    <3>. QED BY <3>1 DEF Tiles
  <2>. QED BY <1>0, <2>1, <2>2, <2>3, <2>4, <2>5
<1>5. Starts(up, t[1], lo, hi)
  <2>1. CASE i = 1
    BY <1>0, <1>3, <2>1 DEF Tiles, Starts
  <2>2. CASE i # 1
    BY <1>0, <1>3, <2>2 DEF Tiles, Starts
  <2>. QED BY <2>1, <2>2
<1>6. Stops(up, t[Len(t)], lo, hi)
  <2>1. CASE i = Len(s)
    BY <1>0, <1>2, <1>3, <2>1 DEF Tiles, Stops
  <2>2. CASE i # Len(s)
    BY <1>0, <1>2, <1>3, <2>2 DEF Tiles, Stops
  <2>. QED BY <2>1, <2>2
<1>7. Tiles(t, up, lo, hi)
  BY <1>0, <1>2, <1>4, <1>5, <1>6 DEF Tiles
<1>. QED BY <1>2, <1>7 DEF t

\* Two neighbours as one extent that lies where they lay.
LEMMA TilesMerge ==
  ASSUME NEW s \in Seq(Extents), NEW i \in 1..(Len(s) - 1), NEW x \in Extents,
         NEW up \in BOOLEAN, NEW lo, NEW hi, Tiles(s, up, lo, hi),
         IF up THEN x.base = s[i].base /\ End(x) = End(s[i + 1])
               ELSE End(x) = End(s[i]) /\ x.base = s[i + 1].base
  PROVE  /\ RemoveAt(ReplaceAt(s, i + 1, x), i) \in Seq(Extents)
         /\ Len(RemoveAt(ReplaceAt(s, i + 1, x), i)) = Len(s) - 1
         /\ Tiles(RemoveAt(ReplaceAt(s, i + 1, x), i), up, lo, hi)
<1>. DEFINE r == ReplaceAt(s, i + 1, x)
            t == RemoveAt(r, i)
<1>0. Len(s) \in Nat /\ i \in Int /\ 1 <= i /\ i < Len(s) /\ i \in 1..Len(s) /\ i + 1 \in 1..Len(s)
  OBVIOUS
<1>1. r \in Seq(Extents) /\ Len(r) = Len(s)
      /\ \A j \in 1..Len(s) : r[j] = IF j = i + 1 THEN x ELSE s[j]
  BY <1>0 DEF ReplaceAt
<1>. HIDE DEF r
<1>2. t \in Seq(Extents) /\ Len(t) = Len(s) - 1
      /\ \A j \in 1..(Len(s) - 1) : t[j] = IF j < i THEN r[j] ELSE r[j + 1]
  BY <1>0, <1>1, RemoveAtProperties
<1>. HIDE DEF t
<1>3. \A j \in 1..(Len(s) - 1) :
        t[j] = IF j < i THEN s[j] ELSE IF j = i THEN x ELSE s[j + 1]
  BY <1>0, <1>1, <1>2
<1>4. ASSUME NEW j \in 1..(Len(s) - 2) PROVE Meets(up, t[j], t[j + 1])
  <2>1. CASE j + 1 < i
    <3>1. t[j] = s[j] /\ t[j + 1] = s[j + 1] /\ j \in 1..(Len(s) - 1)
      BY <1>0, <1>3, <2>1
    <3>. QED BY <3>1 DEF Tiles
  <2>2. CASE j + 1 = i
    <3>1. t[j] = s[j] /\ t[j + 1] = x /\ Meets(up, s[j], s[i])
      BY <1>0, <1>3, <2>2 DEF Tiles
    <3>. QED BY <3>1 DEF Meets
  <2>3. CASE j = i
    <3>1. t[j] = x /\ t[j + 1] = s[i + 2] /\ i + 1 \in 1..(Len(s) - 1) /\ (i + 1) + 1 = i + 2
      BY <1>0, <1>3, <2>3
    <3>2. Meets(up, s[i + 1], s[i + 2])
      BY <3>1 DEF Tiles
    <3>. QED BY <3>1, <3>2 DEF Meets
  <2>4. CASE j > i
    <3>. DEFINE n == j + 1
    <3>1. t[j] = s[n] /\ t[j + 1] = s[n + 1] /\ n \in 1..(Len(s) - 1)
      BY <1>0, <1>3, <2>4
    <3>. HIDE DEF n
    <3>. QED BY <3>1 DEF Tiles
  <2>. QED BY <1>0, <2>1, <2>2, <2>3, <2>4
<1>5. Starts(up, t[1], lo, hi)
  <2>1. CASE i = 1
    BY <1>0, <1>3, <2>1 DEF Tiles, Starts
  <2>2. CASE i # 1
    BY <1>0, <1>3, <2>2 DEF Tiles, Starts
  <2>. QED BY <2>1, <2>2
<1>6. Stops(up, t[Len(t)], lo, hi)
  <2>1. CASE i = Len(s) - 1
    BY <1>0, <1>2, <1>3, <2>1 DEF Tiles, Stops
  <2>2. CASE i # Len(s) - 1
    BY <1>0, <1>2, <1>3, <2>2 DEF Tiles, Stops
  <2>. QED BY <2>1, <2>2
<1>7. Tiles(t, up, lo, hi)
  BY <1>0, <1>2, <1>4, <1>5, <1>6 DEF Tiles
<1>. QED BY <1>2, <1>7 DEF t, r

------------------------------------------------------------------------------
\* What the operations do to one extent.

LEMMA RequestType ==
  ASSUME PoolAssumption, NEW r \in Requests
  PROVE  /\ r.kind \in Kinds /\ r.words \in Nat \ {0}
         /\ r.identity \in Identities /\ r.shared \in BOOLEAN
<1>1. r.words \in Sizes /\ r.kind \in Kinds /\ r.identity \in Identities /\ r.shared \in BOOLEAN
  BY DEF Requests
<1>2. Sizes \subseteq Nat \ {0}
  BY DEF PoolAssumption
<1>3. r.words \in Nat \ {0}
  BY <1>1, <1>2, Zenon
<1>. QED BY <1>1, <1>3

LEMMA RefsType ==
  ASSUME NEW e \in Extents, NEW n \in Nat
  PROVE  [e EXCEPT !.refs = n] \in Extents /\ SamePlace([e EXCEPT !.refs = n], e)
BY DEF Extents, SamePlace

LEMMA FreedType == ASSUME NEW e \in Extents PROVE Freed(e) \in Extents /\ SamePlace(Freed(e), e)
BY DEF Extents, Freed, SamePlace

LEMMA TakeType ==
  ASSUME PoolAssumption, ticket \in Nat, NEW e \in Extents, NEW r \in Requests
  PROVE  Take(e, r) \in Extents /\ SamePlace(Take(e, r), e)
<1>. DEFINE c == ticket + 1
            w == r.words
            d == r.identity
            h == r.shared
            t == Take(e, r)
<1>1. c \in Nat /\ w \in Nat /\ d \in Identities \cup {NoOne} /\ h \in BOOLEAN
  BY RequestType
<1>2. t = [e EXCEPT !.cookie = c, !.identity = d, !.requested = w, !.refs = 1, !.shared = h]
  BY DEF Take
<1>. HIDE DEF c, w, d, h, t
<1>3. t \in Extents /\ t.base = e.base /\ t.words = e.words
  BY <1>1, <1>2 DEF Extents
<1>. QED BY <1>3 DEF t, SamePlace

LEMMA RestType ==
  ASSUME NEW e \in Extents, NEW k, NEW w \in Nat, w <= e.words
  PROVE  /\ Rest(k, e, w) \in Extents /\ Rest(k, e, w).words = e.words - w
         /\ Rest(k, e, w).base = IF k = 0 THEN e.base + w ELSE e.base
<1>. DEFINE b == IF k = 0 THEN e.base + w ELSE e.base
            n == e.words - w
            x == Rest(k, e, w)
<1>1. b \in Nat /\ n \in Nat
  BY DEF Extents
<1>2. x = [e EXCEPT !.base = b, !.words = n]
  BY DEF Rest
<1>. HIDE DEF b, n, x
<1>3. x \in Extents /\ x.base = b /\ x.words = n
  BY <1>1, <1>2 DEF Extents
<1>. QED BY <1>3 DEF b, n, x

LEMMA CarvedType ==
  ASSUME PoolAssumption, ticket \in Nat,
         NEW e \in Extents, NEW r \in Requests, NEW w \in Nat, w <= e.words
  PROVE  /\ Carved(e, w, r) \in Extents /\ Carved(e, w, r).words = w
         /\ Carved(e, w, r).base = IF r.kind = 0 THEN e.base ELSE e.base + e.words - w
<1>. DEFINE b == IF r.kind = 0 THEN e.base ELSE e.base + e.words - w
            x == [e EXCEPT !.base = b, !.words = w, !.terminal = FALSE]
<1>1. b \in Nat
  BY DEF Extents
<1>2. Carved(e, w, r) = Take(x, r)
  BY DEF Carved
<1>. HIDE DEF b
<1>3. x \in Extents /\ x.words = w /\ x.base = b
  BY <1>1 DEF Extents
<1>. HIDE DEF x
<1>4. Take(x, r) \in Extents /\ SamePlace(Take(x, r), x)
  BY <1>3, TakeType
<1>. QED BY <1>2, <1>3, <1>4 DEF SamePlace, b

\* Two neighbours merged lie where they lay.
LEMMA MergedType ==
  ASSUME NEW e \in Extents, NEW f \in Extents
  PROVE  /\ Merge(e, f) \in Extents
         /\ f.base = End(e) => Merge(e, f).base = e.base /\ End(Merge(e, f)) = End(f)
         /\ e.base = End(f) => Merge(e, f).base = f.base /\ End(Merge(e, f)) = End(e)
<1>. DEFINE b == IF e.base < f.base THEN e.base ELSE f.base
            n == f.words + e.words
            x == Merge(e, f)
<1>1. b \in Nat /\ n \in Nat /\ {e.base, e.words, f.base, f.words} \subseteq Nat
  BY DEF Extents
<1>2. x = [f EXCEPT !.base = b, !.words = n]
  BY DEF Merge
<1>. HIDE DEF b, n, x
<1>3. x \in Extents /\ x.base = b /\ x.words = n
  BY <1>1, <1>2 DEF Extents
<1>. QED BY <1>1, <1>3 DEF b, n, x, End

------------------------------------------------------------------------------
\* The calls.

LEMMA EvenUpType == ASSUME NEW n \in Nat PROVE EvenUp(n) \in Nat /\ EvenUp(n) >= n
BY DEF EvenUp

LEMMA EvenDownType == ASSUME NEW n \in Nat PROVE EvenDown(n) \in Nat /\ EvenDown(n) <= n
BY DEF EvenDown

\* Memory goes by pairs of words: what ua_pool_even_up is for.
Even(n) == n % 2 = 0

LEMMA EvenRounded == ASSUME NEW n \in Nat PROVE Even(EvenUp(n)) /\ Even(EvenDown(n))
BY DEF Even, EvenUp, EvenDown

LEMMA EvenSums ==
  ASSUME NEW m \in Int, NEW n \in Int, NEW x, x = m + n \/ x = m - n, Even(m), Even(n)
  PROVE  Even(x)
BY DEF Even

LEMMA EvenFits ==
  ASSUME NEW m \in Int, NEW n \in Nat, Even(m), Even(n)
  PROVE  EvenDown(n) = n /\ (n > m <=> n - 2 >= m)
BY DEF Even, EvenDown

LEMMA GeometryType ==
  ASSUME PoolAssumption, NEW k \in Kinds
  PROVE  /\ Base(k) \in Nat /\ Words(k) \in Nat /\ ScratchMin(k) \in Nat
         /\ ScratchMin(k) + 2 <= Words(k)
<1>1. Geometry[k] \in [base : Nat, words : Nat, scratch : Nat]
  BY DEF PoolAssumption
<1>. QED BY <1>1, EvenUpType, EvenDownType DEF PoolAssumption, Base, Words, ScratchMin

LEMMA EvenMin ==
  ASSUME PoolAssumption, NEW k \in Kinds
  PROVE  Even(Words(k)) /\ Even(ScratchMin(k))
<1>1. Geometry[k] \in [base : Nat, words : Nat, scratch : Nat]
  BY DEF PoolAssumption
<1>. QED BY <1>1, EvenRounded DEF Words, ScratchMin

\* A pool whose list is exchanged for one that tiles the same range.
LEMMA Exchanged ==
  ASSUME TypeOK, Tiled, NEW k \in Kinds, NEW s \in Seq(Extents), Len(s) >= 1,
         Tiles(s, k = 0, Bottom(k), Limit(k)),
         pool' = [pool EXCEPT ![k] = s], scratch' = scratch
  PROVE  /\ pool' \in [Kinds -> Seq(Extents)] /\ \A l \in Kinds : pool'[l] # <<>>
         /\ Tiled'
<1>1. pool \in [Kinds -> Seq(Extents)] /\ \A l \in Kinds : pool[l] # <<>>
  BY DEF TypeOK
<1>2. \A l \in Kinds : pool'[l] = IF l = k THEN s ELSE pool[l]
  BY <1>1
<1>3. \A l \in Kinds : Bottom(l)' = Bottom(l)
  BY DEF Bottom
<1>4. ASSUME NEW l \in Kinds PROVE Tiles(pool'[l], l = 0, Bottom(l), Limit(l))
  BY <1>2 DEF Tiled
<1>5. Tiled'
  BY <1>3, <1>4 DEF Tiled
<1>. QED BY <1>1, <1>2, <1>5

\* The list of one pool, as the lemmas above want it.
LEMMA ListOf ==
  ASSUME TypeOK, Tiled, NEW k \in Kinds
  PROVE  /\ pool[k] \in Seq(Extents) /\ Len(pool[k]) >= 1 /\ Len(pool[k]) \in Nat
         /\ Positions(k) = 1..Len(pool[k])
         /\ Tiles(pool[k], k = 0, Bottom(k), Limit(k))
         /\ (k = 0) \in BOOLEAN
<1>1. pool[k] \in Seq(Extents) /\ pool[k] # <<>>
  BY DEF TypeOK
<1>2. Len(pool[k]) \in Nat /\ DOMAIN pool[k] = 1..Len(pool[k])
  BY <1>1
<1>3. Len(pool[k]) # 0
  BY <1>1, EmptySeq
<1>. QED BY <1>1, <1>2, <1>3 DEF Positions, Tiled

\* What a caller is given keeps holds, leases and tickets typed.
LEMMA GivenType ==
  ASSUME TypeOK, NEW k \in Kinds, NEW e \in Extents, Give(k, e)
  PROVE  holds' \subseteq Holds /\ leases' \subseteq Leases /\ ticket' \in Nat
<1>1. ticket \in Nat /\ holds \subseteq Holds /\ leases \subseteq Leases
  BY DEF TypeOK
<1>2. e.base \in Nat /\ e.words \in Nat
  BY DEF Extents
<1>3. ticket + 1 \in Nat
  BY <1>1
<1>4. [cookie |-> ticket + 1, kind |-> k, base |-> e.base] \in Holds
  BY <1>2, <1>3 DEF Holds
<1>5. Lease(k, e) \in Leases
  BY <1>2, <1>3 DEF Lease, Leases
<1>. QED BY <1>1, <1>3, <1>4, <1>5 DEF Give

LEMMA GrantedStep ==
  ASSUME PoolAssumption, TypeOK, Tiled, NEW r \in Requests, Granted(r), scratch' = scratch
  PROVE  /\ pool' \in [Kinds -> Seq(Extents)] /\ \A l \in Kinds : pool'[l] # <<>>
         /\ holds' \subseteq Holds /\ leases' \subseteq Leases /\ ticket' \in Nat
         /\ Tiled'
<1>. DEFINE k == r.kind
            s == pool[k]
            w == EvenUp(r.words)
<1>1. k \in Kinds /\ r.words \in Nat \ {0} /\ r.identity \in Identities /\ r.shared \in BOOLEAN
  BY RequestType
<1>2. s \in Seq(Extents) /\ Len(s) >= 1 /\ Len(s) \in Nat /\ Positions(k) = 1..Len(s)
      /\ Tiles(s, k = 0, Bottom(k), Limit(k)) /\ (k = 0) \in BOOLEAN
  BY <1>1, ListOf, Zenon
<1>3. PICK i \in Positions(k) : Share(r, i) \/ TakeWhole(r, i) \/ Split(r, i)
  BY DEF Granted
<1>4. i \in 1..Len(s) /\ s[i] \in Extents /\ ticket \in Nat
  BY <1>2, <1>3 DEF TypeOK
<1>5. w \in Nat /\ w >= r.words /\ w > 0
  BY <1>1, EvenUpType
<1>6. CASE Share(r, i)
  <2>. DEFINE e == [s[i] EXCEPT !.refs = @ + 1]
              t == ReplaceAt(s, i, e)
  <2>1. e \in Extents /\ SamePlace(e, s[i])
    <3>. DEFINE f == s[i]
                n == f.refs + 1
    <3>1. f \in Extents /\ n \in Nat
      BY <1>4 DEF Extents
    <3>. HIDE DEF f, n
    <3>2. [f EXCEPT !.refs = n] \in Extents /\ SamePlace([f EXCEPT !.refs = n], f)
      BY <3>1, RefsType
    <3>. QED BY <3>2 DEF f, n
  <2>2. pool' = [pool EXCEPT ![k] = t] /\ Give(k, s[i])
    BY <1>6, Zenon DEF Share
  <2>. HIDE DEF e
  <2>3. t \in Seq(Extents) /\ Len(t) >= 1 /\ Tiles(t, k = 0, Bottom(k), Limit(k))
    BY <1>2, <1>4, <2>1, TilesReplace
  <2>. HIDE DEF t, s, k
  <2>. QED BY <1>1, <1>4, <2>2, <2>3, Exchanged, GivenType
<1>7. CASE TakeWhole(r, i)
  <2>. DEFINE e == Take(s[i], r)
              t == ReplaceAt(s, i, e)
  <2>1. e \in Extents /\ SamePlace(e, s[i])
    BY <1>4, TakeType
  <2>2. pool' = [pool EXCEPT ![k] = t] /\ Give(k, e)
    BY <1>7 DEF TakeWhole
  <2>. HIDE DEF e
  <2>3. t \in Seq(Extents) /\ Len(t) >= 1 /\ Tiles(t, k = 0, Bottom(k), Limit(k))
    BY <1>2, <1>4, <2>1, TilesReplace
  <2>. HIDE DEF t, s, k
  <2>. QED BY <1>1, <2>1, <2>2, <2>3, Exchanged, GivenType
<1>8. CASE Split(r, i)
  <2>. DEFINE x == Carved(s[i], w, r)
              y == Rest(k, s[i], w)
              t == InsertAt(ReplaceAt(s, i, y), i, x)
  <2>1. s[i].words >= w
    BY <1>8 DEF Split, Fits, FirstFit, Room
  <2>2. x \in Extents /\ y \in Extents
    BY <1>4, <1>5, <2>1, CarvedType, RestType
  <2>3. /\ Meets(k = 0, x, y)
        /\ IF k = 0 THEN x.base = s[i].base /\ End(y) = End(s[i])
                    ELSE End(x) = End(s[i]) /\ y.base = s[i].base
    <3>. DEFINE f == s[i]
    <3>1. f \in Extents /\ f.base \in Nat /\ f.words \in Nat
      BY <1>4 DEF Extents
    <3>2. x.words = w /\ x.base = IF k = 0 THEN f.base ELSE f.base + f.words - w
      BY <1>4, <1>5, <2>1, CarvedType
    <3>3. y.words = f.words - w /\ y.base = IF k = 0 THEN f.base + w ELSE f.base
      BY <1>4, <1>5, <2>1, RestType
    <3>. HIDE DEF x, y, f
    <3>4. /\ Meets(k = 0, x, y)
          /\ IF k = 0 THEN x.base = f.base /\ End(y) = End(f)
                      ELSE End(x) = End(f) /\ y.base = f.base
      BY <1>5, <3>1, <3>2, <3>3 DEF Meets, End
    <3>. QED BY <3>4 DEF f
  <2>4. pool' = [pool EXCEPT ![k] = t] /\ Give(k, x)
    BY <1>8 DEF Split
  <2>. HIDE DEF x, y
  <2>. HIDE DEF s
  <2>5. /\ t \in Seq(Extents) /\ Len(t) = Len(s) + 1
        /\ Tiles(t, k = 0, Bottom(k), Limit(k))
    <3>. DEFINE up == k = 0
                lo == Bottom(k)
                hi == Limit(k)
    <3>1. /\ up \in BOOLEAN /\ Tiles(s, up, lo, hi) /\ Meets(up, x, y)
          /\ IF up THEN x.base = s[i].base /\ End(y) = End(s[i])
                   ELSE End(x) = End(s[i]) /\ y.base = s[i].base
      BY <1>2, <2>3
    <3>. HIDE DEF up, lo, hi
    <3>2. t \in Seq(Extents) /\ Len(t) = Len(s) + 1 /\ Tiles(t, up, lo, hi)
      BY <1>2, <1>4, <2>2, <3>1, TilesSplit
    <3>. QED BY <3>2 DEF up, lo, hi
  <2>6. Len(t) >= 1
    BY <1>2, <2>5
  <2>7. pool' = [pool EXCEPT ![k] = t]
    BY <2>4
  <2>. HIDE DEF t, k
  <2>. QED BY <1>1, <2>2, <2>4, <2>5, <2>6, <2>7, Exchanged, GivenType
<1>. QED BY <1>3, <1>6, <1>7, <1>8

\* Merging the extent at i with its free neighbours.
LEMMA MergeNextStep ==
  ASSUME NEW s \in Seq(Extents), NEW i \in 1..Len(s), NEW up \in BOOLEAN, NEW lo, NEW hi,
         Tiles(s, up, lo, hi)
  PROVE  /\ MergeNext(s, i) \in Seq(Extents) /\ Len(MergeNext(s, i)) >= i
         /\ Tiles(MergeNext(s, i), up, lo, hi)
<1>0. Len(s) \in Nat /\ i \in Int /\ 1 <= i /\ i <= Len(s)
  OBVIOUS
<1>1. CASE i < Len(s) /\ Free(s[i + 1])
  <2>. DEFINE x == Merge(s[i], s[i + 1])
  <2>1. s[i] \in Extents /\ s[i + 1] \in Extents /\ i \in 1..(Len(s) - 1)
    BY <1>0, <1>1
  <2>2. Meets(up, s[i], s[i + 1])
    BY <2>1 DEF Tiles
  <2>3. x \in Extents
        /\ IF up THEN x.base = s[i].base /\ End(x) = End(s[i + 1])
                 ELSE End(x) = End(s[i]) /\ x.base = s[i + 1].base
    BY <2>1, <2>2, MergedType DEF Meets
  <2>. HIDE DEF x
  <2>4. /\ RemoveAt(ReplaceAt(s, i + 1, x), i) \in Seq(Extents)
        /\ Len(RemoveAt(ReplaceAt(s, i + 1, x), i)) = Len(s) - 1
        /\ Tiles(RemoveAt(ReplaceAt(s, i + 1, x), i), up, lo, hi)
    BY <2>1, <2>3, TilesMerge
  <2>5. MergeNext(s, i) = RemoveAt(ReplaceAt(s, i + 1, x), i)
    BY <1>1 DEF MergeNext, x
  <2>. QED BY <1>0, <1>1, <2>4, <2>5
<1>2. CASE ~(i < Len(s) /\ Free(s[i + 1]))
  BY <1>0, <1>2 DEF MergeNext
<1>. QED BY <1>1, <1>2

LEMMA MergePreviousStep ==
  ASSUME NEW s \in Seq(Extents), NEW i \in 1..Len(s), NEW up \in BOOLEAN, NEW lo, NEW hi,
         Tiles(s, up, lo, hi)
  PROVE  /\ MergePrevious(s, i) \in Seq(Extents) /\ Len(MergePrevious(s, i)) >= 1
         /\ Tiles(MergePrevious(s, i), up, lo, hi)
<1>0. Len(s) \in Nat /\ i \in Int /\ 1 <= i /\ i <= Len(s)
  OBVIOUS
<1>1. CASE i > 1 /\ Free(s[i - 1])
  <2>. DEFINE n == i - 1
              x == Merge(s[n], s[n + 1])
  <2>1. s[n] \in Extents /\ s[n + 1] \in Extents /\ n \in 1..(Len(s) - 1) /\ n + 1 = i
    BY <1>0, <1>1
  <2>5. MergePrevious(s, i) = RemoveAt(ReplaceAt(s, n + 1, x), n)
    BY <1>0, <1>1, <2>1 DEF MergePrevious
  <2>. HIDE DEF n
  <2>2. Meets(up, s[n], s[n + 1])
    BY <2>1 DEF Tiles
  <2>3. x \in Extents
        /\ IF up THEN x.base = s[n].base /\ End(x) = End(s[n + 1])
                 ELSE End(x) = End(s[n]) /\ x.base = s[n + 1].base
    BY <2>1, <2>2, MergedType DEF Meets
  <2>. HIDE DEF x
  <2>4. /\ RemoveAt(ReplaceAt(s, n + 1, x), n) \in Seq(Extents)
        /\ Len(RemoveAt(ReplaceAt(s, n + 1, x), n)) = Len(s) - 1
        /\ Tiles(RemoveAt(ReplaceAt(s, n + 1, x), n), up, lo, hi)
    BY <2>1, <2>3, TilesMerge
  <2>. QED BY <1>0, <1>1, <2>1, <2>4, <2>5
<1>2. CASE ~(i > 1 /\ Free(s[i - 1]))
  BY <1>0, <1>2 DEF MergePrevious
<1>. QED BY <1>1, <1>2

LEMMA ReleasedStep ==
  ASSUME PoolAssumption, TypeOK, Tiled, NEW lease \in Leases, Released(lease), scratch' = scratch
  PROVE  /\ pool' \in [Kinds -> Seq(Extents)] /\ \A l \in Kinds : pool'[l] # <<>>
         /\ holds' \subseteq Holds /\ leases' \subseteq Leases /\ ticket' \in Nat
         /\ Tiled'
<1>. DEFINE k == lease.kind
            s == pool[k]
<1>1. k \in Kinds
  BY DEF Leases
<1>2. s \in Seq(Extents) /\ Len(s) >= 1 /\ Len(s) \in Nat /\ Positions(k) = 1..Len(s)
      /\ Tiles(s, k = 0, Bottom(k), Limit(k)) /\ (k = 0) \in BOOLEAN
  BY <1>1, ListOf, Zenon
<1>3. PICK h \in holds, i \in Positions(k) : holds' = holds \ {h} /\ GiveBack(k, i)
  BY DEF Released
<1>4. i \in 1..Len(s) /\ s[i] \in Extents
  BY <1>2, <1>3
<1>5. holds' \subseteq Holds /\ leases' \subseteq Leases /\ ticket' \in Nat
  BY <1>3 DEF Released, TypeOK
<1>6. CASE s[i].refs > 1
  <2>. DEFINE e == [s[i] EXCEPT !.refs = @ - 1]
              t == ReplaceAt(s, i, e)
  <2>1. e \in Extents /\ SamePlace(e, s[i])
    <3>. DEFINE f == s[i]
                n == f.refs - 1
    <3>1. f \in Extents /\ n \in Nat
      BY <1>4, <1>6 DEF Extents
    <3>. HIDE DEF f, n
    <3>2. [f EXCEPT !.refs = n] \in Extents /\ SamePlace([f EXCEPT !.refs = n], f)
      BY <3>1, RefsType
    <3>. QED BY <3>2 DEF f, n
  <2>2. pool' = [pool EXCEPT ![k] = t]
    BY <1>3, <1>6 DEF GiveBack
  <2>. HIDE DEF e
  <2>3. t \in Seq(Extents) /\ Len(t) >= 1 /\ Tiles(t, k = 0, Bottom(k), Limit(k))
    BY <1>2, <1>4, <2>1, TilesReplace
  <2>. HIDE DEF t, s, k
  <2>. QED BY <1>1, <1>5, <2>2, <2>3, Exchanged
<1>7. CASE ~(s[i].refs > 1)
  <2>. DEFINE e == Freed(s[i])
              t == ReplaceAt(s, i, e)
              u == MergeNext(t, i)
              v == MergePrevious(u, i)
  <2>1. e \in Extents /\ SamePlace(e, s[i])
    BY <1>4, FreedType
  <2>2. pool' = [pool EXCEPT ![k] = v]
    BY <1>3, <1>7 DEF GiveBack
  <2>. HIDE DEF e
  <2>3. t \in Seq(Extents) /\ Len(t) = Len(s) /\ Tiles(t, k = 0, Bottom(k), Limit(k))
    BY <1>2, <1>4, <2>1, TilesReplace
  <2>. HIDE DEF t
  <2>4. u \in Seq(Extents) /\ Len(u) >= i /\ Tiles(u, k = 0, Bottom(k), Limit(k))
    BY <1>2, <1>4, <2>3, MergeNextStep
  <2>. HIDE DEF u
  <2>5. v \in Seq(Extents) /\ Len(v) >= 1 /\ Tiles(v, k = 0, Bottom(k), Limit(k))
    <3>1. i \in 1..Len(u)
      BY <1>4, <2>4
    <3>. QED BY <1>2, <2>4, <3>1, MergePreviousStep
  <2>. HIDE DEF v, s, k
  <2>. QED BY <1>1, <1>5, <2>2, <2>5, Exchanged
<1>. QED BY <1>6, <1>7

\* The terminal extent of a data pool stretched or shrunk at its low end.
LEMMA TilesStretch ==
  ASSUME NEW s \in Seq(Extents), Len(s) >= 1, NEW e \in Extents, NEW lo, NEW hi,
         Tiles(s, FALSE, lo, hi), End(e) = End(s[Len(s)])
  PROVE  /\ ReplaceAt(s, Len(s), e) \in Seq(Extents) /\ Len(ReplaceAt(s, Len(s), e)) = Len(s)
         /\ Tiles(ReplaceAt(s, Len(s), e), FALSE, e.base, hi)
<1>. DEFINE t == ReplaceAt(s, Len(s), e)
            n == Len(s)
<1>0. n \in Nat /\ n >= 1
  OBVIOUS
<1>1. t \in Seq(Extents) /\ Len(t) = n /\ \A j \in 1..n : t[j] = IF j = n THEN e ELSE s[j]
  BY DEF ReplaceAt
<1>2. /\ \A i \in 1..(n - 1) : s[i].base = End(s[i + 1])
      /\ End(s[1]) = hi /\ End(e) = End(s[n])
  BY DEF Tiles, Meets, Starts
<1>. HIDE DEF t, n
<1>3. ASSUME NEW i \in 1..(n - 1) PROVE t[i].base = End(t[i + 1])
  <2>1. t[i] = s[i] /\ s[i].base = End(s[i + 1]) /\ t[i + 1] = IF i + 1 = n THEN e ELSE s[i + 1]
    BY <1>0, <1>1, <1>2
  <2>. QED BY <1>2, <2>1
<1>4. End(t[1]) = hi
  BY <1>0, <1>1, <1>2
<1>5. t[n].base = e.base
  BY <1>0, <1>1
<1>6. Tiles(t, FALSE, e.base, hi)
  BY <1>1, <1>3, <1>4, <1>5 DEF Tiles, Meets, Starts, Stops
<1>. QED BY <1>1, <1>6 DEF t, n

LEMMA SetScratchStep ==
  ASSUME PoolAssumption, TypeOK, Tiled, NEW k \in Kinds, NEW n \in Scratches, SetScratch(k, n)
  PROVE  TypeOK' /\ Tiled'
<1>. DEFINE s == pool[k]
            t == s[Len(s)]
            w == WantedScratch(k, n)
            grow == w - scratch[k]
            e == [t EXCEPT !.base = @ + grow, !.words = @ - grow]
            u == ReplaceAt(s, Len(s), e)
<1>1. s \in Seq(Extents) /\ Len(s) >= 1 /\ Len(s) \in Nat
      /\ Tiles(s, k = 0, Bottom(k), Limit(k))
  BY ListOf
<1>2. /\ k # 0 /\ t.base = Base(k) + scratch[k] /\ t.words > grow
      /\ pool' = [pool EXCEPT ![k] = u] /\ scratch' = [scratch EXCEPT ![k] = w]
      /\ UNCHANGED <<holds, ticket, stale, leases, call>>
  BY Zenon DEF SetScratch, GrowsBy, Last
<1>3. w \in Nat /\ scratch \in [Kinds -> Nat] /\ scratch[k] \in Nat /\ Base(k) \in Nat
  <2>1. n \in Nat
    BY DEF PoolAssumption
  <2>. QED BY <2>1, EvenUpType, GeometryType DEF WantedScratch, TypeOK
<1>4. t \in Extents
  BY <1>1
<1>5. e \in Extents /\ End(e) = End(t) /\ e.base = Base(k) + w
  <2>. DEFINE b == t.base + grow
              m == t.words - grow
  <2>1. t.base \in Nat /\ t.words \in Nat
    BY <1>4 DEF Extents
  <2>2. b \in Nat /\ m \in Nat /\ b + m = t.base + t.words /\ b = Base(k) + w
    <3>. DEFINE tb == t.base
                tw == t.words
                c  == scratch[k]
    <3>1. /\ tb \in Nat /\ tw \in Nat /\ c \in Nat /\ Base(k) \in Nat /\ w \in Nat
          /\ tb = Base(k) + c /\ tw > w - c
      BY <1>2, <1>3, <2>1
    <3>. HIDE DEF tb, tw, c, w
    <3>2. /\ tb + (w - c) \in Nat /\ tw - (w - c) \in Nat
          /\ (tb + (w - c)) + (tw - (w - c)) = tb + tw /\ tb + (w - c) = Base(k) + w
      BY <3>1
    <3>. QED BY <3>2 DEF tb, tw, c
  <2>3. e = [t EXCEPT !.base = b, !.words = m]
    OBVIOUS
  <2>. HIDE DEF b, m, e, t
  <2>4. e \in Extents /\ e.base = b /\ e.words = m
    BY <1>4, <2>2, <2>3 DEF Extents
  <2>. QED BY <2>2, <2>4 DEF End
<1>. HIDE DEF e
<1>6. u \in Seq(Extents) /\ Len(u) = Len(s) /\ Tiles(u, FALSE, e.base, Limit(k))
  <2>1. Tiles(s, FALSE, Bottom(k), Limit(k))
    BY <1>1, <1>2
  <2>. QED BY <1>1, <1>5, <2>1, TilesStretch
<1>. HIDE DEF u, s, w
<1>7. pool \in [Kinds -> Seq(Extents)] /\ \A l \in Kinds : pool[l] # <<>>
  BY DEF TypeOK
<1>8. \A l \in Kinds : pool'[l] = IF l = k THEN u ELSE pool[l]
  BY <1>2, <1>7
<1>9. u # <<>>
  BY <1>1, <1>6
<1>10. TypeOK'
  <2>1. pool' \in [Kinds -> Seq(Extents)] /\ \A l \in Kinds : pool'[l] # <<>>
    BY <1>2, <1>6, <1>7, <1>8, <1>9
  <2>2. scratch' \in [Kinds -> Nat]
    BY <1>2, <1>3
  <2>. QED BY <1>2, <2>1, <2>2 DEF TypeOK
<1>11. Tiled'
  <2>1. \A l \in Kinds : Bottom(l)' = IF l = k THEN Base(k) + w ELSE Bottom(l)
    BY <1>2, <1>3 DEF Bottom
  <2>2. ASSUME NEW l \in Kinds PROVE Tiles(pool'[l], l = 0, Bottom(l)', Limit(l))
    <3>1. CASE l = k
      <4>1. Tiles(u, FALSE, Base(k) + w, Limit(k))
        BY <1>5, <1>6
      <4>2. (l = 0) = FALSE /\ pool'[l] = u /\ Bottom(l)' = Base(k) + w /\ Limit(l) = Limit(k)
        BY <1>2, <1>8, <2>1, <3>1
      <4>. QED BY <4>1, <4>2
    <3>2. CASE l # k
      BY <1>8, <2>1, <3>2 DEF Tiled
    <3>. QED BY <3>1, <3>2
  <2>. QED BY <2>2 DEF Tiled
<1>. QED BY <1>10, <1>11

\* What a step does that leaves the lists alone.
LEMMA ListsUnchanged ==
  ASSUME TypeOK, Tiled, UNCHANGED <<pool, scratch>>
  PROVE  /\ pool' \in [Kinds -> Seq(Extents)] /\ \A l \in Kinds : pool'[l] # <<>>
         /\ Tiled'
<1>1. Tiled'
  BY DEF Tiled, Bottom
<1>. QED BY <1>1 DEF TypeOK

\* What the call in progress may be.
CallOK(c) ==
  /\ c.op \in {"idle", "batch", "undo"}
  /\ c.op = "batch" => c.todo \in Nat
  /\ c.op \in {"batch", "undo"} => c.got \in Seq(Leases)

LEMMA CallTypes ==
  ASSUME NEW n \in Nat, NEW got \in Seq(Leases), NEW p, NEW h
  PROVE  CallOK(Idle) /\ CallOK(Batch(n, got, p, h)) /\ CallOK(Undo(got, p, h))
BY DEF CallOK, Idle, Batch, Undo

IInv == TypeOK /\ Tiled

LEMMA InitStep == ASSUME PoolAssumption, Init PROVE IInv
<1>1. ASSUME NEW k \in Kinds
      PROVE  /\ <<WholePool(k)>> \in Seq(Extents) /\ <<WholePool(k)>> # <<>>
             /\ Tiles(<<WholePool(k)>>, k = 0, Base(k) + ScratchMin(k), Limit(k))
  <2>. DEFINE b == Base(k) + ScratchMin(k)
              w == Words(k) - ScratchMin(k)
              e == WholePool(k)
              s == <<e>>
  <2>1. b \in Nat /\ w \in Nat /\ b + w = Limit(k)
    BY GeometryType DEF Limit
  <2>2. e \in Extents /\ e.base = b /\ End(e) = b + w
    <3>. HIDE DEF b, w
    <3>1. WholePool(k) = [base |-> b, words |-> w, cookie |-> 0, identity |-> NoOne,
                          requested |-> 0, refs |-> 0, shared |-> FALSE, terminal |-> TRUE]
      BY DEF WholePool, b, w
    <3>. QED BY <2>1, <3>1 DEF Extents, End
  <2>. HIDE DEF b, w, e
  <2>3. s \in Seq(Extents) /\ Len(s) = 1 /\ s[1] = e
    BY <2>2
  <2>. HIDE DEF s
  <2>4. Tiles(s, k = 0, b, Limit(k)) /\ s # <<>>
    <3>1. \A i \in 1..(Len(s) - 1) : Meets(k = 0, s[i], s[i + 1])
      BY <2>3
    <3>2. Starts(k = 0, s[1], b, Limit(k)) /\ Stops(k = 0, s[Len(s)], b, Limit(k))
      BY <2>1, <2>2, <2>3 DEF Starts, Stops
    <3>3. s # <<>>
      BY <2>3
    <3>. QED BY <3>1, <3>2, <3>3 DEF Tiles
  <2>. QED BY <2>3, <2>4 DEF s, e, b
<1>2. \A k \in Kinds : pool[k] = <<WholePool(k)>> /\ Bottom(k) = Base(k) + ScratchMin(k)
  BY DEF Init, Bottom
<1>3. Tiled
  BY <1>1, <1>2 DEF Tiled
<1>4. pool \in [Kinds -> Seq(Extents)] /\ \A k \in Kinds : pool[k] # <<>>
  BY <1>1, <1>2 DEF Init
<1>5. scratch \in [Kinds -> Nat]
  BY GeometryType DEF Init
<1>. QED BY <1>3, <1>4, <1>5 DEF Init, IInv, TypeOK, Idle

\* The batch's steps on the call in progress.
LEMMA BatchReservesStep ==
  ASSUME PoolAssumption, IInv, NEW r \in Requests, BatchReserves(r) PROVE IInv'
<1>1. Granted(r) /\ scratch' = scratch /\ stale' = stale
  BY DEF BatchReserves
<1>2. /\ pool' \in [Kinds -> Seq(Extents)] /\ \A l \in Kinds : pool'[l] # <<>>
      /\ holds' \subseteq Holds /\ leases' \subseteq Leases /\ ticket' \in Nat /\ Tiled'
  BY <1>1, GrantedStep DEF IInv
<1>3. PICK lease \in Leases :
        call' = Batch(call.todo - 1, Append(call.got, lease), call.pool, call.holds)
  BY <1>2 DEF BatchReserves
<1>4. call.todo - 1 \in Nat /\ Append(call.got, lease) \in Seq(Leases)
  <2>1. call.todo \in Nat /\ call.todo > 0 /\ call.got \in Seq(Leases)
    BY DEF BatchReserves, IInv, TypeOK
  <2>. DEFINE got == call.got
              todo == call.todo
  <2>. HIDE DEF got, todo
  <2>2. got \in Seq(Leases) /\ todo \in Nat /\ todo > 0
    BY <2>1 DEF got, todo
  <2>3. todo - 1 \in Nat /\ Append(got, lease) \in Seq(Leases)
    BY <2>2
  <2>. QED BY <2>3 DEF got, todo
<1>5. CallOK(call')
  BY <1>3, <1>4, CallTypes, Zenon
<1>. QED BY <1>1, <1>2, <1>5 DEF IInv, TypeOK, CallOK

LEMMA BatchFailsStep ==
  ASSUME IInv, NEW r \in Requests, BatchFails(r) PROVE IInv'
<1>1. UNCHANGED <<pool, holds, leases, scratch, stale>> /\ ticket' \in Nat
  BY DEF BatchFails, Refused, IInv, TypeOK
<1>2. pool' \in [Kinds -> Seq(Extents)] /\ (\A l \in Kinds : pool'[l] # <<>>) /\ Tiled'
  BY <1>1, ListsUnchanged DEF IInv
<1>3. call' = Undo(call.got, call.pool, call.holds) /\ call.got \in Seq(Leases)
  BY DEF BatchFails, IInv, TypeOK
<1>4. CallOK(call')
  BY <1>3, CallTypes, Zenon
<1>. QED BY <1>1, <1>2, <1>4 DEF IInv, TypeOK, CallOK

LEMMA BatchUndoesStep ==
  ASSUME PoolAssumption, IInv, BatchUndoes PROVE IInv'
<1>. DEFINE got == call.got
            lease == Last(got)
<1>1. got \in Seq(Leases) /\ got # <<>>
  BY DEF BatchUndoes, IInv, TypeOK
<1>2. lease \in Leases /\ Front(got) \in Seq(Leases)
  <2>. HIDE DEF got
  <2>1. Len(got) \in Nat /\ Len(got) >= 1
    BY <1>1, EmptySeq
  <2>2. got[Len(got)] \in Leases
    BY <1>1, <2>1
  <2>3. SubSeq(got, 1, Len(got) - 1) \in Seq(Leases)
    BY <1>1, <2>1, SubSeqProperties
  <2>. QED BY <2>2, <2>3 DEF Last, Front
<1>3. /\ Released(lease) /\ call' = Undo(Front(got), call.pool, call.holds)
      /\ scratch' = scratch /\ stale' = stale
  BY DEF BatchUndoes
<1>. HIDE DEF lease, got
<1>4. /\ pool' \in [Kinds -> Seq(Extents)] /\ \A l \in Kinds : pool'[l] # <<>>
      /\ holds' \subseteq Holds /\ leases' \subseteq Leases /\ ticket' \in Nat /\ Tiled'
  BY <1>2, <1>3, ReleasedStep DEF IInv
<1>5. CallOK(call')
  BY <1>2, <1>3, CallTypes, Zenon
<1>. QED BY <1>3, <1>4, <1>5 DEF IInv, TypeOK, CallOK

\* The inductive invariant: every step keeps it.
LEMMA NextStep == ASSUME PoolAssumption, IInv, [Next]_vars PROVE IInv'
<1>1. CASE UNCHANGED vars
  BY <1>1, ListsUnchanged DEF IInv, TypeOK, vars
<1>2. ASSUME NEW r \in Requests, Reserve(r) PROVE IInv'
  <2>1. UNCHANGED <<scratch, stale, call>>
    BY <1>2 DEF Reserve
  <2>2. /\ pool' \in [Kinds -> Seq(Extents)] /\ \A l \in Kinds : pool'[l] # <<>>
        /\ holds' \subseteq Holds /\ leases' \subseteq Leases /\ ticket' \in Nat /\ Tiled'
    <3>1. CASE Granted(r)
      BY <2>1, <3>1, GrantedStep DEF IInv
    <3>2. CASE Refused(r)
      <4>1. UNCHANGED <<pool, holds, leases>> /\ ticket' \in Nat
        BY <3>2 DEF Refused, IInv, TypeOK
      <4>. QED BY <2>1, <4>1, ListsUnchanged DEF IInv, TypeOK
    <3>. QED BY <1>2, <3>1, <3>2 DEF Reserve
  <2>. QED BY <2>1, <2>2 DEF IInv, TypeOK
<1>3. ASSUME NEW r \in Requests, BatchReserves(r) PROVE IInv'
  BY <1>3, BatchReservesStep
<1>4. ASSUME NEW r \in Requests, BatchFails(r) PROVE IInv'
  BY <1>4, BatchFailsStep
<1>5. ASSUME NEW lease \in leases, Release(lease) PROVE IInv'
  <2>1. UNCHANGED <<scratch, stale, call>> /\ Released(lease)
    BY <1>5 DEF Release
  <2>2. lease \in Leases
    BY DEF IInv, TypeOK
  <2>3. /\ pool' \in [Kinds -> Seq(Extents)] /\ \A l \in Kinds : pool'[l] # <<>>
        /\ holds' \subseteq Holds /\ leases' \subseteq Leases /\ ticket' \in Nat /\ Tiled'
    BY <2>1, <2>2, ReleasedStep DEF IInv
  <2>. QED BY <2>1, <2>3 DEF IInv, TypeOK
<1>6. ASSUME NEW k \in Kinds, NEW n \in Scratches, SetScratch(k, n) PROVE IInv'
  BY <1>6, SetScratchStep DEF IInv
<1>7. CASE Invalidate
  <2>1. UNCHANGED <<pool, holds, scratch, ticket, leases, call>> /\ stale' \in BOOLEAN
    BY <1>7 DEF Invalidate
  <2>. QED BY <2>1, ListsUnchanged DEF IInv, TypeOK
<1>8. ASSUME NEW n \in 1..MaxBatch, BatchBegins(n) PROVE IInv'
  <2>1. UNCHANGED <<pool, holds, scratch, ticket, stale, leases>>
        /\ call' = Batch(n, <<>>, pool, holds)
    BY <1>8 DEF BatchBegins
  <2>2. n \in Nat /\ <<>> \in Seq(Leases)
    BY DEF PoolAssumption
  <2>3. CallOK(call')
    BY <2>1, <2>2, CallTypes, Zenon
  <2>. QED BY <2>1, <2>3, ListsUnchanged DEF IInv, TypeOK, CallOK
<1>9. CASE BatchUndoes
  BY <1>9, BatchUndoesStep
<1>10. CASE BatchReturns
  <2>1. UNCHANGED <<pool, holds, scratch, ticket, stale, leases>> /\ call' = Idle
    BY <1>10 DEF BatchReturns
  <2>. QED BY <2>1, ListsUnchanged DEF IInv, TypeOK, Idle
<1>. QED BY <1>1, <1>2, <1>3, <1>4, <1>5, <1>6, <1>7, <1>8, <1>9, <1>10 DEF Next

LEMMA InvariantHolds == Spec => []IInv
<1>1. Init => IInv
  BY InitStep, PoolAssumption
<1>2. IInv /\ [Next]_vars => IInv'
  BY NextStep, PoolAssumption
<1>. QED BY <1>1, <1>2, PTL DEF Spec

\* The scratch area stays even.
ScratchEven == \A k \in Kinds : Even(scratch[k])

LEMMA ScratchStep == ASSUME PoolAssumption, IInv, ScratchEven, [Next]_vars PROVE ScratchEven'
<1>1. ASSUME NEW k \in Kinds, NEW n \in Scratches, SetScratch(k, n) PROVE ScratchEven'
  <2>1. n \in Nat /\ scratch \in [Kinds -> Nat]
    BY DEF PoolAssumption, IInv, TypeOK
  <2>2. Even(WantedScratch(k, n))
    BY <2>1, EvenMin, EvenRounded DEF WantedScratch
  <2>3. scratch' = [scratch EXCEPT ![k] = WantedScratch(k, n)]
    BY <1>1 DEF SetScratch
  <2>. QED BY <2>1, <2>2, <2>3 DEF ScratchEven
<1>2. scratch' = scratch => ScratchEven'
  BY DEF ScratchEven
<1>. QED BY <1>1, <1>2 DEF Next, vars, Reserve, Release, Invalidate, BatchBegins,
            BatchReserves, BatchFails, BatchUndoes, BatchReturns

\* For every geometry and every sequence of calls the lists are lists of
\* extents, never empty, and the holds, leases and tickets are typed.
THEOREM TypeCorrect == Spec => []TypeOK
<1>1. IInv => TypeOK
  BY DEF IInv
<1>. QED BY <1>1, InvariantHolds, PTL

\* No word of a pool is ever in two extents and none is lost, whatever is
\* reserved, shared, split, released, merged, given back by a batch that failed,
\* or taken by the scratch area: list neighbours are memory neighbours, and the
\* list covers the pool from the top of its scratch area to its end.
THEOREM PoolTiled == Spec => []Tiled
<1>1. IInv => Tiled
  BY DEF IInv
<1>. QED BY <1>1, InvariantHolds, PTL

------------------------------------------------------------------------------
\* Sound lists.

\* Merged and RefsAreHolds need more than that the lists tile their pools: a
\* free extent carries nothing of its last owner, an allocated one has a
\* reference, and extents are ordered throughout and not only next to each
\* other, so that none has another's base.
Proper(e) ==
  e.words > 0 /\ Even(e.words)
  /\ IF Free(e) THEN e.refs = 0 /\ e.identity = NoOne /\ e.requested = 0 /\ ~e.shared
     ELSE e.refs >= 1
Before(up, e, f) == IF up THEN End(e) <= f.base ELSE End(f) <= e.base

\* `But` are the places where two free neighbours have yet to be merged: the
\* n-th and the one behind it.
SoundBut(s, up, But) ==
  /\ \A i \in 1..Len(s) : Proper(s[i]) /\ (s[i].terminal <=> i = Len(s))
  /\ Free(s[Len(s)])
  /\ \A n \in 1..(Len(s) - 1) : n \notin But => ~(Free(s[n]) /\ Free(s[n + 1]))
  /\ \A i, j \in 1..Len(s) : i < j => Before(up, s[i], s[j])
Sound(s, up) == SoundBut(s, up, {})

\* The allocated extents of a list: what holds are about.
Alloc(s) == {s[i] : i \in {j \in 1..Len(s) : ~Free(s[j])}}

\* What the words of two extents of one list have to do with each other.
LEMMA SoundBases ==
  ASSUME NEW s \in Seq(Extents), NEW up \in BOOLEAN, NEW B, SoundBut(s, up, B),
         NEW i \in 1..Len(s), NEW j \in 1..Len(s), s[i].base = s[j].base
  PROVE  i = j
<1>1. ASSUME NEW m \in 1..Len(s), NEW n \in 1..Len(s), m < n PROVE s[m].base # s[n].base
  <2>1. Before(up, s[m], s[n]) /\ s[m].words > 0 /\ s[n].words > 0
    BY <1>1 DEF SoundBut, Proper
  <2>2. s[m] \in Extents /\ s[n] \in Extents
    OBVIOUS
  <2>3. s[m].base \in Nat /\ s[m].words \in Nat /\ s[n].base \in Nat /\ s[n].words \in Nat
    BY <2>2 DEF Extents
  <2>. QED BY <2>1, <2>3 DEF Before, End
<1>. QED BY <1>1

LEMMA AllocBases ==
  ASSUME NEW s \in Seq(Extents), NEW up \in BOOLEAN, Sound(s, up)
  PROVE  \A e, f \in Alloc(s) : e.base = f.base => e = f
BY SoundBases DEF Sound, Alloc

\* An extent whose place and terminal mark stay as they were.
LEMMA SoundReplace ==
  ASSUME NEW s \in Seq(Extents), NEW i \in 1..Len(s), NEW e \in Extents,
         NEW up \in BOOLEAN, NEW B, SoundBut(s, up, {}),
         SamePlace(e, s[i]), e.terminal = s[i].terminal, Proper(e),
         i = Len(s) => Free(e),
         Free(e) => Free(s[i]) \/ {i - 1, i} \subseteq B
  PROVE  /\ SoundBut(ReplaceAt(s, i, e), up, B)
         /\ Alloc(ReplaceAt(s, i, e)) = (Alloc(s) \ {s[i]}) \cup (IF Free(e) THEN {} ELSE {e})
<1>. DEFINE t == ReplaceAt(s, i, e)
            n == Len(s)
<1>0. n \in Nat /\ i \in 1..n
  OBVIOUS
<1>1. t \in Seq(Extents) /\ Len(t) = n
      /\ \A j \in 1..n : t[j] = IF j = i THEN e ELSE s[j]
  BY DEF ReplaceAt
<1>2. \A j, m \in 1..n : s[j] = s[m] => j = m
  BY SoundBases
<1>. HIDE DEF t
<1>3. \A j \in 1..n : t[j].base = s[j].base /\ t[j].words = s[j].words /\ t[j].terminal = s[j].terminal
  BY <1>1 DEF SamePlace
<1>4. \A j \in 1..n : Proper(t[j]) /\ (t[j].terminal <=> j = n)
  BY <1>1, <1>3 DEF SoundBut
<1>5. Free(t[n])
  BY <1>0, <1>1 DEF SoundBut
<1>6. ASSUME NEW m \in 1..(n - 1), m \notin B PROVE ~(Free(t[m]) /\ Free(t[m + 1]))
  <2>1. m \in 1..n /\ m + 1 \in 1..n /\ ~(Free(s[m]) /\ Free(s[m + 1]))
    BY <1>0 DEF SoundBut
  <2>2. t[m] = (IF m = i THEN e ELSE s[m]) /\ t[m + 1] = (IF m + 1 = i THEN e ELSE s[m + 1])
    BY <1>1, <2>1
  <2>3. m = i \/ m + 1 = i => (Free(e) => Free(s[i]))
    <3>1. m + 1 = i => m = i - 1
      BY <1>0
    <3>. QED BY <1>6, <3>1
  <2>. HIDE DEF n
  <2>4. CASE m = i
    BY <1>0, <2>1, <2>2, <2>3, <2>4
  <2>5. CASE m # i
    BY <1>0, <2>1, <2>2, <2>3, <2>5
  <2>. QED BY <2>4, <2>5
<1>7. \A j, m \in 1..n : j < m => Before(up, t[j], t[m])
  BY <1>3 DEF SoundBut, Before, End
<1>8. Alloc(t) = (Alloc(s) \ {s[i]}) \cup (IF Free(e) THEN {} ELSE {e})
  <2>. HIDE DEF n
  <2>1. Alloc(t) = {t[j] : j \in {m \in 1..n : ~Free(t[m])}}
        /\ Alloc(s) = {s[j] : j \in {m \in 1..n : ~Free(s[m])}}
    BY <1>1 DEF Alloc, n
  <2>2. ASSUME NEW x \in Alloc(t) PROVE x \in (Alloc(s) \ {s[i]}) \cup (IF Free(e) THEN {} ELSE {e})
    <3>1. PICK j \in 1..n : x = t[j] /\ ~Free(t[j])
      BY <2>1
    <3>. QED BY <1>0, <1>1, <1>2, <2>1, <3>1
  <2>3. ASSUME NEW x \in Alloc(s), x # s[i] PROVE x \in Alloc(t)
    <3>1. PICK j \in 1..n : x = s[j] /\ ~Free(s[j])
      BY <2>1
    <3>. QED BY <1>0, <1>1, <2>1, <2>3, <3>1
  <2>4. ~Free(e) => e \in Alloc(t)
    BY <1>0, <1>1, <2>1
  <2>. QED BY <2>2, <2>3, <2>4
<1>9. SoundBut(t, up, B)
  BY <1>1, <1>4, <1>5, <1>6, <1>7 DEF SoundBut
<1>. QED BY <1>8, <1>9 DEF t

Within(e, f) == e.base >= f.base /\ End(e) <= End(f)

LEMMA BeforeWithin ==
  ASSUME NEW e \in Extents, NEW f \in Extents, NEW x \in Extents, NEW y \in Extents,
         NEW up \in BOOLEAN, Before(up, e, f), Within(x, e), Within(y, f)
  PROVE  Before(up, x, y)
<1>1. /\ e.base \in Nat /\ e.words \in Nat /\ f.base \in Nat /\ f.words \in Nat
      /\ x.base \in Nat /\ x.words \in Nat /\ y.base \in Nat /\ y.words \in Nat
  BY DEF Extents
<1>. QED BY <1>1 DEF Before, Within, End

\* A free extent split in two, the first part taken and the second left free.
LEMMA SoundSplit ==
  ASSUME NEW s \in Seq(Extents), NEW i \in 1..Len(s), NEW x \in Extents, NEW y \in Extents,
         NEW up \in BOOLEAN, Sound(s, up),
         Proper(x), Proper(y), ~Free(x), Free(y), Free(s[i]),
         ~x.terminal, y.terminal = s[i].terminal, Before(up, x, y),
         x.base >= s[i].base, End(x) <= End(s[i]), y.base >= s[i].base, End(y) <= End(s[i])
  PROVE  /\ Sound(InsertAt(ReplaceAt(s, i, y), i, x), up)
         /\ Alloc(InsertAt(ReplaceAt(s, i, y), i, x)) = Alloc(s) \cup {x}
<1>. DEFINE t == InsertAt(ReplaceAt(s, i, y), i, x)
            n == Len(s)
<1>0. n \in Nat /\ i \in 1..n /\ i \in Int
  OBVIOUS
<1>1. t \in Seq(Extents) /\ Len(t) = n + 1
      /\ \A j \in 1..(n + 1) :
           t[j] = IF j < i THEN s[j] ELSE IF j = i THEN x ELSE IF j = i + 1 THEN y ELSE s[j - 1]
  BY SplitProperties
<1>. HIDE DEF t
<1>s. /\ \A j \in 1..n : Proper(s[j]) /\ (s[j].terminal <=> j = n)
      /\ Free(s[n])
      /\ \A m \in 1..(n - 1) : ~(Free(s[m]) /\ Free(s[m + 1]))
      /\ \A j, m \in 1..n : j < m => Before(up, s[j], s[m])
  BY DEF Sound, SoundBut
<1>. HIDE DEF n
<1>4. ASSUME NEW j \in 1..(n + 1) PROVE Proper(t[j]) /\ (t[j].terminal <=> j = n + 1)
  <2>1. CASE j < i
    <3>1. j \in 1..n /\ j # n /\ j # n + 1 /\ t[j] = s[j]
      BY <1>0, <1>1, <2>1
    <3>. QED BY <1>s, <3>1
  <2>2. CASE j = i
    <3>1. t[j] = x /\ j # n + 1
      BY <1>0, <1>1, <2>2
    <3>. QED BY <3>1
  <2>3. CASE j = i + 1
    <3>1. t[j] = y /\ (j = n + 1 <=> i = n)
      BY <1>0, <1>1, <2>3
    <3>. QED BY <1>s, <1>0, <3>1
  <2>4. CASE j > i + 1
    <3>1. j - 1 \in 1..n /\ (j = n + 1 <=> j - 1 = n)
      BY <1>0, <2>4
    <3>2. t[j] = s[j - 1]
      BY <1>0, <1>1, <2>4
    <3>. QED BY <1>s, <3>1, <3>2
  <2>. QED BY <1>0, <2>1, <2>2, <2>3, <2>4
<1>5. Free(t[n + 1])
  <2>1. CASE i = n
    BY <1>0, <1>1, <2>1
  <2>2. CASE i # n
    <3>1. t[n + 1] = s[n]
      BY <1>0, <1>1, <2>2
    <3>. QED BY <1>s, <3>1
  <2>. QED BY <2>1, <2>2
<1>6. ASSUME NEW m \in 1..n PROVE ~(Free(t[m]) /\ Free(t[m + 1]))
  <2>1. CASE m + 1 < i
    <3>1. t[m] = s[m] /\ t[m + 1] = s[m + 1] /\ m \in 1..(n - 1)
      BY <1>0, <1>1, <2>1
    <3>. QED BY <1>s, <3>1
  <2>2. CASE m + 1 = i \/ m = i
    <3>1. t[m] = x \/ t[m + 1] = x
      BY <1>0, <1>1, <2>2
    <3>. QED BY <3>1
  <2>3. CASE m = i + 1
    <3>1. t[m + 1] = s[i + 1] /\ i \in 1..(n - 1)
      BY <1>0, <1>1, <2>3
    <3>. QED BY <1>s, <3>1
  <2>4. CASE m > i + 1
    <3>. DEFINE l == m - 1
    <3>1. t[m] = s[l] /\ t[m + 1] = s[l + 1] /\ l \in 1..(n - 1)
      BY <1>0, <1>1, <2>4
    <3>. HIDE DEF l
    <3>. QED BY <1>s, <3>1
  <2>. QED BY <1>0, <2>1, <2>2, <2>3, <2>4
<1>7. ASSUME NEW j \in 1..(n + 1), NEW m \in 1..(n + 1), j < m PROVE Before(up, t[j], t[m])
  <2>0. \A l \in 1..n : s[l] \in Extents /\ Within(s[l], s[l])
    <3>1. \A l \in 1..n : s[l] \in Extents
      BY DEF n
    <3>2. ASSUME NEW e \in Extents PROVE Within(e, e)
      <4>1. e.base \in Nat /\ e.words \in Nat
        BY DEF Extents
      <4>. QED BY <4>1 DEF Within, End
    <3>. QED BY <3>1, <3>2, Zenon
  <2>1. ASSUME NEW l \in 1..(n + 1)
        PROVE  \E a \in 1..n : /\ Within(t[l], s[a])
                              /\ a = IF l <= i THEN l ELSE l - 1
    <3>1. CASE l < i
      <4>1. l \in 1..n /\ t[l] = s[l]
        BY <1>0, <1>1, <3>1
      <4>. QED BY <1>0, <2>0, <3>1, <4>1
    <3>2. CASE l = i
      <4>1. t[l] = x
        BY <1>0, <1>1, <3>2
      <4>. QED BY <1>0, <3>2, <4>1 DEF Within
    <3>3. CASE l = i + 1
      <4>1. t[l] = y /\ l - 1 = i /\ ~(l <= i)
        BY <1>0, <1>1, <3>3
      <4>. QED BY <1>0, <4>1 DEF Within
    <3>4. CASE l > i + 1
      <4>1. l - 1 \in 1..n /\ ~(l <= i)
        BY <1>0, <3>4
      <4>2. t[l] = s[l - 1]
        BY <1>0, <1>1, <3>4
      <4>. QED BY <2>0, <4>1, <4>2
    <3>. QED BY <1>0, <3>1, <3>2, <3>3, <3>4
  <2>3. CASE j = i /\ m = i + 1
    <3>1. t[j] = x /\ t[m] = y
      BY <1>0, <1>1, <2>3
    <3>. QED BY <3>1
  <2>4. CASE ~(j = i /\ m = i + 1)
    <3>1. PICK a \in 1..n : Within(t[j], s[a]) /\ a = IF j <= i THEN j ELSE j - 1
      BY <2>1
    <3>2. PICK b \in 1..n : Within(t[m], s[b]) /\ b = IF m <= i THEN m ELSE m - 1
      BY <2>1
    <3>3. a < b
      BY <1>0, <1>7, <2>4, <3>1, <3>2
    <3>4. Before(up, s[a], s[b])
      BY <1>s, <3>3
    <3>5. t[j] \in Extents /\ t[m] \in Extents
      BY <1>1
    <3>6. s[a] \in Extents /\ s[b] \in Extents
      BY <2>0
    <3>. DEFINE e == s[a]
                f == s[b]
                v == t[j]
                w == t[m]
    <3>7. /\ e \in Extents /\ f \in Extents /\ v \in Extents /\ w \in Extents
          /\ Before(up, e, f) /\ Within(v, e) /\ Within(w, f)
      BY <3>1, <3>2, <3>4, <3>5, <3>6
    <3>. HIDE DEF e, f, v, w
    <3>8. Before(up, v, w)
      BY <3>7, BeforeWithin
    <3>. QED BY <3>8 DEF v, w
  <2>. QED BY <2>3, <2>4
<1>8. Alloc(t) = Alloc(s) \cup {x}
  <2>1. Alloc(t) = {t[j] : j \in {m \in 1..(n + 1) : ~Free(t[m])}}
        /\ Alloc(s) = {s[j] : j \in {m \in 1..n : ~Free(s[m])}}
    BY <1>1 DEF Alloc, n
  <2>2. ASSUME NEW z \in Alloc(t) PROVE z \in Alloc(s) \cup {x}
    <3>1. PICK j \in 1..(n + 1) : z = t[j] /\ ~Free(t[j])
      BY <2>1
    <3>2. t[j] = x \/ t[j] = y \/ \E m \in 1..n : t[j] = s[m]
      <4>1. j < i => j \in 1..n
        BY <1>0
      <4>2. j > i + 1 => j - 1 \in 1..n
        BY <1>0
      <4>. QED BY <1>0, <1>1, <4>1, <4>2
    <3>. QED BY <2>1, <3>1, <3>2
  <2>3. ASSUME NEW z \in Alloc(s) PROVE z \in Alloc(t)
    <3>1. PICK j \in 1..n : z = s[j] /\ ~Free(s[j])
      BY <2>1
    <3>2. CASE j < i
      <4>1. j \in 1..(n + 1) /\ t[j] = s[j]
        BY <1>0, <1>1, <3>2
      <4>. QED BY <2>1, <3>1, <4>1
    <3>3. CASE j > i
      <4>1. j + 1 \in 1..(n + 1) /\ t[j + 1] = s[j]
        BY <1>0, <1>1, <3>3
      <4>. QED BY <2>1, <3>1, <4>1
    <3>. QED BY <1>0, <3>1, <3>2, <3>3
  <2>4. x \in Alloc(t)
    <3>1. i \in 1..(n + 1) /\ t[i] = x
      BY <1>0, <1>1
    <3>. QED BY <2>1, <3>1
  <2>. QED BY <2>2, <2>3, <2>4
<1>9. Sound(t, up)
  <2>1. Len(t) - 1 = n
    BY <1>0, <1>1
  <2>. QED BY <1>1, <1>4, <1>5, <1>6, <1>7, <2>1 DEF Sound, SoundBut
<1>. QED BY <1>8, <1>9 DEF t

\* The list after a merge, element by element.
LEMMA MergeProperties ==
  ASSUME NEW s \in Seq(Extents), NEW i \in 1..(Len(s) - 1), NEW x \in Extents
  PROVE  /\ RemoveAt(ReplaceAt(s, i + 1, x), i) \in Seq(Extents)
         /\ Len(RemoveAt(ReplaceAt(s, i + 1, x), i)) = Len(s) - 1
         /\ \A j \in 1..(Len(s) - 1) :
              RemoveAt(ReplaceAt(s, i + 1, x), i)[j] =
                IF j < i THEN s[j] ELSE IF j = i THEN x ELSE s[j + 1]
<1>. DEFINE r == ReplaceAt(s, i + 1, x)
            t == RemoveAt(r, i)
<1>0. Len(s) \in Nat /\ i \in Int /\ 1 <= i /\ i < Len(s) /\ i \in 1..Len(s) /\ i + 1 \in 1..Len(s)
  OBVIOUS
<1>1. r \in Seq(Extents) /\ Len(r) = Len(s)
      /\ \A j \in 1..Len(s) : r[j] = IF j = i + 1 THEN x ELSE s[j]
  BY <1>0 DEF ReplaceAt
<1>. HIDE DEF r
<1>2. t \in Seq(Extents) /\ Len(t) = Len(s) - 1
      /\ \A j \in 1..(Len(s) - 1) : t[j] = IF j < i THEN r[j] ELSE r[j + 1]
  <2>1. i \in 1..Len(r)
    BY <1>0, <1>1
  <2>2. t \in Seq(Extents) /\ Len(t) = Len(r) - 1
        /\ \A j \in 1..(Len(r) - 1) : t[j] = IF j < i THEN r[j] ELSE r[j + 1]
    BY <1>1, <2>1, RemoveAtProperties
  <2>. QED BY <1>1, <2>2, Zenon
<1>. HIDE DEF t
<1>3. \A j \in 1..(Len(s) - 1) :
        t[j] = IF j < i THEN s[j] ELSE IF j = i THEN x ELSE s[j + 1]
  BY <1>0, <1>1, <1>2
<1>. QED BY <1>2, <1>3 DEF t, r

\* The same for one element.
LEMMA MergeElement ==
  ASSUME NEW s \in Seq(Extents), NEW i \in 1..(Len(s) - 1), NEW x \in Extents,
         NEW j \in 1..(Len(s) - 1)
  PROVE  RemoveAt(ReplaceAt(s, i + 1, x), i)[j] =
           IF j < i THEN s[j] ELSE IF j = i THEN x ELSE s[j + 1]
<1>. DEFINE t == RemoveAt(ReplaceAt(s, i + 1, x), i)
<1>1. \A l \in 1..(Len(s) - 1) :
        t[l] = IF l < i THEN s[l] ELSE IF l = i THEN x ELSE s[l + 1]
  BY MergeProperties
<1>. HIDE DEF t
<1>2. t[j] = IF j < i THEN s[j] ELSE IF j = i THEN x ELSE s[j + 1]
  BY <1>1
<1>. QED BY <1>2 DEF t

\* The same for the type and the length.
LEMMA MergeType ==
  ASSUME NEW s \in Seq(Extents), NEW i \in 1..(Len(s) - 1), NEW x \in Extents
  PROVE  /\ RemoveAt(ReplaceAt(s, i + 1, x), i) \in Seq(Extents)
         /\ Len(RemoveAt(ReplaceAt(s, i + 1, x), i)) = Len(s) - 1
BY MergeProperties

\* Two free extents that lie next to each other make one proper free extent.
LEMMA MergedProper ==
  ASSUME NEW e \in Extents, NEW f \in Extents, NEW up \in BOOLEAN,
         Proper(e), Proper(f), Free(e), Free(f), Meets(up, e, f)
  PROVE  /\ Merge(e, f) \in Extents /\ Free(Merge(e, f)) /\ Proper(Merge(e, f))
         /\ Merge(e, f).terminal = f.terminal
         /\ IF up THEN Merge(e, f).base = e.base /\ End(Merge(e, f)) = End(f)
                  ELSE Merge(e, f).base = f.base /\ End(Merge(e, f)) = End(e)
<1>. DEFINE b == IF e.base < f.base THEN e.base ELSE f.base
            n == f.words + e.words
            x == Merge(e, f)
<1>1. x = [f EXCEPT !.base = b, !.words = n]
  BY DEF Merge
<1>2. {e.base, e.words, f.base, f.words} \subseteq Nat
  BY DEF Extents
<1>3. n > 0 /\ n \in Nat /\ b \in Nat
  BY <1>2 DEF Proper
<1>e. Even(n)
  <2>1. {f.words, e.words} \subseteq Int /\ Even(f.words) /\ Even(e.words)
    BY <1>2 DEF Proper
  <2>. QED BY <2>1, EvenSums
<1>. HIDE DEF b, n, x
<1>4. /\ x \in Extents /\ x.words = n /\ x.cookie = f.cookie /\ x.refs = f.refs
      /\ x.identity = f.identity /\ x.requested = f.requested /\ x.shared = f.shared
      /\ x.terminal = f.terminal
  BY <1>1, <1>3 DEF Extents
<1>5. Free(x) /\ Proper(x)
  BY <1>3, <1>4, <1>e DEF Free, Proper
<1>6. IF up THEN x.base = e.base /\ End(x) = End(f) ELSE x.base = f.base /\ End(x) = End(e)
  BY MergedType DEF Meets, x
<1>. QED BY <1>4, <1>5, <1>6 DEF x

\* Two free neighbours merged: one place less where free neighbours meet.
LEMMA SoundMerge ==
  ASSUME NEW s \in Seq(Extents), NEW i \in 1..(Len(s) - 1), NEW up \in BOOLEAN, NEW B, NEW C,
         SoundBut(s, up, B), Free(s[i]), Free(s[i + 1]), Meets(up, s[i], s[i + 1]),
         \A m \in 1..(Len(s) - 2) : m \notin C => (IF m < i THEN m ELSE m + 1) \notin B
  PROVE  /\ SoundBut(RemoveAt(ReplaceAt(s, i + 1, Merge(s[i], s[i + 1])), i), up, C)
         /\ Alloc(RemoveAt(ReplaceAt(s, i + 1, Merge(s[i], s[i + 1])), i)) = Alloc(s)
<1>. DEFINE x == Merge(s[i], s[i + 1])
            t == RemoveAt(ReplaceAt(s, i + 1, x), i)
            n == Len(s)
<1>0. n \in Nat /\ i \in 1..(n - 1) /\ i \in 1..n /\ i + 1 \in 1..n /\ i \in Int
  OBVIOUS
<1>s. /\ \A j \in 1..n : Proper(s[j]) /\ (s[j].terminal <=> j = n)
      /\ Free(s[n])
      /\ \A m \in 1..(n - 1) : m \notin B => ~(Free(s[m]) /\ Free(s[m + 1]))
      /\ \A j, m \in 1..n : j < m => Before(up, s[j], s[m])
  BY DEF SoundBut
<1>e. \A j \in 1..n : s[j] \in Extents
  OBVIOUS
<1>x. /\ x \in Extents /\ Free(x) /\ Proper(x) /\ x.terminal = s[i + 1].terminal
      /\ IF up THEN x.base = s[i].base /\ End(x) = End(s[i + 1])
               ELSE x.base = s[i + 1].base /\ End(x) = End(s[i])
  BY <1>0, <1>s, <1>e, MergedProper
<1>. HIDE DEF x
<1>1. t \in Seq(Extents) /\ Len(t) = n - 1
      /\ \A j \in 1..(n - 1) : t[j] = IF j < i THEN s[j] ELSE IF j = i THEN x ELSE s[j + 1]
  <2>1. t \in Seq(Extents) /\ Len(t) = n - 1
    BY <1>x, MergeType
  <2>2. ASSUME NEW j \in 1..(n - 1)
        PROVE  t[j] = IF j < i THEN s[j] ELSE IF j = i THEN x ELSE s[j + 1]
    BY <1>x, <2>2, MergeElement
  <2>. QED BY <2>1, <2>2
<1>. HIDE DEF t, n
<1>4. ASSUME NEW j \in 1..(n - 1) PROVE Proper(t[j]) /\ (t[j].terminal <=> j = n - 1)
  <2>1. CASE j < i
    <3>1. j \in 1..n /\ j # n /\ j # n - 1 /\ t[j] = s[j]
      BY <1>0, <1>1, <2>1
    <3>. QED BY <1>s, <3>1
  <2>2. CASE j = i
    <3>1. t[j] = x /\ (j = n - 1 <=> i + 1 = n)
      BY <1>0, <1>1, <2>2
    <3>. QED BY <1>0, <1>s, <1>x, <3>1
  <2>3. CASE j > i
    <3>1. j + 1 \in 1..n /\ (j = n - 1 <=> j + 1 = n)
      BY <1>0, <2>3
    <3>2. t[j] = s[j + 1]
      BY <1>0, <1>1, <2>3
    <3>. QED BY <1>s, <3>1, <3>2
  <2>. QED BY <1>0, <2>1, <2>2, <2>3
<1>5. Free(t[n - 1])
  <2>1. CASE i = n - 1
    BY <1>0, <1>1, <1>x, <2>1
  <2>2. CASE i # n - 1
    <3>1. t[n - 1] = s[n]
      BY <1>0, <1>1, <2>2
    <3>. QED BY <1>s, <3>1
  <2>. QED BY <2>1, <2>2
<1>6. ASSUME NEW m \in 1..(n - 2), m \notin C PROVE ~(Free(t[m]) /\ Free(t[m + 1]))
  <2>0. (IF m < i THEN m ELSE m + 1) \notin B
    BY <1>6 DEF n
  <2>1. CASE m + 1 < i
    <3>1. m \in 1..(n - 1) /\ m + 1 \in 1..(n - 1) /\ m < i
      BY <1>0, <2>1
    <3>2. t[m] = s[m] /\ t[m + 1] = s[m + 1]
      BY <1>1, <2>1, <3>1
    <3>. QED BY <1>s, <2>0, <3>1, <3>2
  <2>2. CASE m + 1 = i
    <3>1. t[m] = s[m] /\ m \in 1..(n - 1) /\ m < i
      BY <1>0, <1>1, <2>2
    <3>. QED BY <1>s, <2>0, <2>2, <3>1
  <2>3. CASE m = i
    <3>1. t[m + 1] = s[(m + 1) + 1] /\ m + 1 \in 1..(n - 1) /\ ~(m < i)
      BY <1>0, <1>1, <2>3
    <3>. QED BY <1>s, <2>0, <2>3, <3>1
  <2>4. CASE m > i
    <3>1. t[m] = s[m + 1] /\ t[m + 1] = s[(m + 1) + 1] /\ m + 1 \in 1..(n - 1) /\ ~(m < i)
      BY <1>0, <1>1, <2>4
    <3>. QED BY <1>s, <2>0, <3>1
  <2>. QED BY <1>0, <2>1, <2>2, <2>3, <2>4
<1>7. ASSUME NEW j \in 1..(n - 1), NEW m \in 1..(n - 1), j < m PROVE Before(up, t[j], t[m])
  <2>1. CASE j # i /\ m # i
    <3>1. PICK a \in 1..n : t[j] = s[a] /\ a = IF j < i THEN j ELSE j + 1
      <4>1. j < i => j \in 1..n
        BY <1>0
      <4>2. j > i => j + 1 \in 1..n
        BY <1>0
      <4>. QED BY <1>0, <1>1, <2>1, <4>1, <4>2
    <3>2. PICK b \in 1..n : t[m] = s[b] /\ b = IF m < i THEN m ELSE m + 1
      <4>1. m < i => m \in 1..n
        BY <1>0
      <4>2. m > i => m + 1 \in 1..n
        BY <1>0
      <4>. QED BY <1>0, <1>1, <2>1, <4>1, <4>2
    <3>3. a < b
      BY <1>0, <1>7, <3>1, <3>2
    <3>. QED BY <1>s, <3>1, <3>2, <3>3
  <2>2. CASE j = i
    <3>1. t[j] = x /\ m + 1 \in 1..n /\ i < m + 1 /\ i + 1 < m + 1
      BY <1>0, <1>1, <1>7, <2>2
    <3>2. t[m] = s[m + 1]
      BY <1>0, <1>1, <1>7, <2>2
    <3>3. Before(up, s[i], s[m + 1]) /\ Before(up, s[i + 1], s[m + 1])
      BY <1>0, <1>s, <3>1
    <3>. QED BY <1>x, <3>1, <3>2, <3>3 DEF Before
  <2>3. CASE m = i
    <3>1. t[m] = x /\ t[j] = s[j] /\ j \in 1..n /\ j < i /\ j < i + 1
      BY <1>0, <1>1, <1>7, <2>3
    <3>2. Before(up, s[j], s[i]) /\ Before(up, s[j], s[i + 1])
      BY <1>0, <1>s, <3>1
    <3>. QED BY <1>x, <3>1, <3>2 DEF Before
  <2>. QED BY <2>1, <2>2, <2>3
<1>8. Alloc(t) = Alloc(s)
  <2>1. Alloc(t) = {t[j] : j \in {m \in 1..(n - 1) : ~Free(t[m])}}
        /\ Alloc(s) = {s[j] : j \in {m \in 1..n : ~Free(s[m])}}
    BY <1>1 DEF Alloc, n
  <2>2. ASSUME NEW z \in Alloc(t) PROVE z \in Alloc(s)
    <3>1. PICK j \in 1..(n - 1) : z = t[j] /\ ~Free(t[j])
      BY <2>1
    <3>2. j < i => j \in 1..n /\ t[j] = s[j]
      BY <1>0, <1>1
    <3>3. j > i => j + 1 \in 1..n /\ t[j] = s[j + 1]
      BY <1>0, <1>1
    <3>4. j # i
      BY <1>0, <1>1, <1>x, <3>1
    <3>5. j < i \/ j > i
      BY <1>0, <3>4
    <3>. QED BY <2>1, <3>1, <3>2, <3>3, <3>5
  <2>3. ASSUME NEW z \in Alloc(s) PROVE z \in Alloc(t)
    <3>1. PICK j \in 1..n : z = s[j] /\ ~Free(s[j])
      BY <2>1
    <3>2. j # i /\ j # i + 1
      BY <3>1
    <3>3. CASE j < i
      <4>1. j \in 1..(n - 1) /\ t[j] = s[j]
        BY <1>0, <1>1, <3>3
      <4>. QED BY <2>1, <3>1, <4>1
    <3>4. CASE j > i + 1
      <4>1. j - 1 \in 1..(n - 1) /\ t[j - 1] = s[j]
        BY <1>0, <1>1, <3>4
      <4>. QED BY <2>1, <3>1, <4>1
    <3>. QED BY <1>0, <3>2, <3>3, <3>4
  <2>. QED BY <2>2, <2>3
<1>9. SoundBut(t, up, C)
  <2>1. Len(t) - 1 = n - 2 /\ Len(t) = n - 1
    BY <1>0, <1>1
  <2>. QED BY <1>4, <1>5, <1>6, <1>7, <2>1 DEF SoundBut
<1>. QED BY <1>8, <1>9 DEF t, x

\* A part of the i-th extent has no other extent's base.
LEMMA WithinBases ==
  ASSUME NEW s \in Seq(Extents), NEW up \in BOOLEAN, Sound(s, up), NEW i \in 1..Len(s),
         NEW x \in Extents, x.words > 0, Within(x, s[i])
  PROVE  \A j \in 1..Len(s) : j # i => s[j].base # x.base
<1>. SUFFICES ASSUME NEW j \in 1..Len(s), j # i PROVE s[j].base # x.base
  OBVIOUS
<1>1. s[i] \in Extents /\ s[j] \in Extents
  OBVIOUS
<1>2. /\ s[i].base \in Nat /\ s[i].words \in Nat /\ s[j].base \in Nat /\ s[j].words \in Nat
      /\ x.base \in Nat /\ x.words \in Nat
  BY <1>1 DEF Extents
<1>3. s[j].words > 0
  BY DEF Sound, SoundBut, Proper
<1>4. Before(up, s[i], s[j]) \/ Before(up, s[j], s[i])
  BY DEF Sound, SoundBut
<1>. QED BY <1>2, <1>3, <1>4 DEF Before, Within, End

\* The last reference of the i-th extent is given back: its words are free, and
\* one extent with those of its free neighbours.
LEMMA SoundRelease ==
  ASSUME NEW s \in Seq(Extents), NEW i \in 1..Len(s), NEW up \in BOOLEAN, NEW lo, NEW hi,
         Sound(s, up), Tiles(s, up, lo, hi), ~Free(s[i])
  PROVE  LET t == MergePrevious(MergeNext(ReplaceAt(s, i, Freed(s[i])), i), i)
         IN  Sound(t, up) /\ Alloc(t) = Alloc(s) \ {s[i]}
<1>. DEFINE e == Freed(s[i])
            t == ReplaceAt(s, i, e)
            u == MergeNext(t, i)
            v == MergePrevious(u, i)
            n == Len(s)
<1>0. n \in Nat /\ i \in 1..n /\ i \in Int /\ s[i] \in Extents
  OBVIOUS
<1>1. /\ e \in Extents /\ SamePlace(e, s[i]) /\ e.terminal = s[i].terminal
      /\ Free(e) /\ Proper(e) /\ i # n
  <2>1. e \in Extents /\ SamePlace(e, s[i])
    BY <1>0, FreedType
  <2>2. /\ e.terminal = s[i].terminal /\ e.cookie = 0 /\ e.refs = 0 /\ e.identity = NoOne
        /\ e.requested = 0 /\ e.shared = FALSE /\ e.words = s[i].words
    BY <1>0 DEF Freed, Extents
  <2>3. s[i].words > 0 /\ Even(s[i].words) /\ i # n
    BY <1>0 DEF Sound, SoundBut, Proper
  <2>. QED BY <2>1, <2>2, <2>3 DEF Free, Proper
<1>2. /\ t \in Seq(Extents) /\ Len(t) = n /\ Tiles(t, up, lo, hi)
      /\ t[i] = e /\ t[i + 1] = s[i + 1]
  <2>. HIDE DEF e
  <2>1. t \in Seq(Extents) /\ Len(t) = n /\ Tiles(t, up, lo, hi)
    BY <1>0, <1>1, TilesReplace
  <2>2. \A j \in 1..n : t[j] = IF j = i THEN e ELSE s[j]
    BY DEF ReplaceAt
  <2>3. i + 1 \in 1..n /\ i + 1 # i
    BY <1>0, <1>1
  <2>. QED BY <1>0, <2>1, <2>2, <2>3
<1>3. SoundBut(t, up, {i - 1, i}) /\ Alloc(t) = Alloc(s) \ {s[i]}
  <2>. HIDE DEF e
  <2>. DEFINE B == {i - 1, i}
  <2>0. {i - 1, i} \subseteq B /\ SoundBut(s, up, {})
    BY DEF Sound
  <2>. HIDE DEF B, t
  <2>1. /\ SoundBut(ReplaceAt(s, i, e), up, B)
        /\ Alloc(ReplaceAt(s, i, e)) = (Alloc(s) \ {s[i]}) \cup (IF Free(e) THEN {} ELSE {e})
    BY <1>0, <1>1, <2>0, SoundReplace
  <2>. QED BY <1>1, <2>1 DEF B, t
<1>. HIDE DEF e, t
<1>4. /\ u \in Seq(Extents) /\ Len(u) >= i /\ Tiles(u, up, lo, hi)
      /\ SoundBut(u, up, {i - 1}) /\ Alloc(u) = Alloc(t) /\ Free(u[i])
  <2>1. u \in Seq(Extents) /\ Len(u) >= i /\ Tiles(u, up, lo, hi)
    BY <1>0, <1>2, MergeNextStep
  <2>2. CASE Free(t[i + 1])
    <3>1. u = RemoveAt(ReplaceAt(t, i + 1, Merge(t[i], t[i + 1])), i)
      BY <1>0, <1>1, <1>2, <2>2 DEF MergeNext
    <3>2. i \in 1..(Len(t) - 1) /\ Meets(up, t[i], t[i + 1])
      BY <1>0, <1>1, <1>2 DEF Tiles
    <3>3. \A m \in 1..(Len(t) - 2) : m \notin {i - 1} => (IF m < i THEN m ELSE m + 1) \notin {i - 1, i}
      BY <1>0
    <3>4. SoundBut(u, up, {i - 1}) /\ Alloc(u) = Alloc(t)
      <4>. DEFINE B == {i - 1, i}
                  C == {i - 1}
      <4>1. /\ SoundBut(t, up, B) /\ Free(t[i]) /\ t \in Seq(Extents)
            /\ \A m \in 1..(Len(t) - 2) : m \notin C => (IF m < i THEN m ELSE m + 1) \notin B
        BY <1>1, <1>2, <1>3, <3>3
      <4>. HIDE DEF B, C, u
      <4>2. SoundBut(u, up, C) /\ Alloc(u) = Alloc(t)
        BY <2>2, <3>1, <3>2, <4>1, SoundMerge
      <4>. QED BY <4>2 DEF C
    <3>5. Free(u[i])
      <4>1. Merge(t[i], t[i + 1]) \in Extents /\ Free(Merge(t[i], t[i + 1]))
        <5>1. t[i] \in Extents /\ t[i + 1] \in Extents /\ Proper(t[i]) /\ Proper(t[i + 1])
          BY <1>2, <1>3, <3>2 DEF SoundBut
        <5>. QED BY <1>1, <1>2, <2>2, <3>2, <5>1, MergedProper
      <4>2. u[i] = Merge(t[i], t[i + 1])
        <5>. DEFINE x == Merge(t[i], t[i + 1])
        <5>. HIDE DEF x, u
        <5>0. u = RemoveAt(ReplaceAt(t, i + 1, x), i) /\ x \in Extents
          BY <3>1, <4>1 DEF x
        <5>1. t \in Seq(Extents) /\ i \in 1..(Len(t) - 1)
          BY <1>2, <3>2
        <5>2. u[i] = x
          <6>1. u[i] = IF i < i THEN t[i] ELSE IF i = i THEN x ELSE t[i + 1]
            BY <5>0, <5>1, MergeElement
          <6>2. ~(i < i)
            BY <1>0
          <6>. QED BY <6>1, <6>2
        <5>. QED BY <5>2 DEF x
      <4>. QED BY <4>1, <4>2
    <3>. QED BY <2>1, <3>4, <3>5
  <2>3. CASE ~Free(t[i + 1])
    <3>1. u = t
      BY <2>3 DEF MergeNext
    <3>2. SoundBut(t, up, {i - 1})
      BY <1>2, <1>3, <2>3 DEF SoundBut
    <3>. QED BY <1>1, <1>2, <2>1, <3>1, <3>2
  <2>. QED BY <2>2, <2>3
<1>. HIDE DEF u
<1>5. Sound(v, up) /\ Alloc(v) = Alloc(u)
  <2>1. CASE i > 1 /\ Free(u[i - 1])
    <3>. DEFINE m == i - 1
    <3>1. m \in 1..(Len(u) - 1) /\ m + 1 = i
      BY <1>0, <1>4, <2>1
    <3>2. v = RemoveAt(ReplaceAt(u, m + 1, Merge(u[m], u[m + 1])), m)
      BY <2>1, <3>1 DEF MergePrevious
    <3>3. Free(u[m]) /\ Free(u[m + 1]) /\ SoundBut(u, up, {m})
      BY <1>4, <2>1, <3>1
    <3>4. \A l \in 1..(Len(u) - 2) : l \notin {} => (IF l < m THEN l ELSE l + 1) \notin {m}
      BY <1>0
    <3>. HIDE DEF m, v
    <3>5. Meets(up, u[m], u[m + 1])
      BY <1>4, <3>1 DEF Tiles
    <3>. DEFINE B == {m}
                C == {}
    <3>6. /\ SoundBut(u, up, B) /\ u \in Seq(Extents)
          /\ \A l \in 1..(Len(u) - 2) : l \notin C => (IF l < m THEN l ELSE l + 1) \notin B
      BY <1>4, <3>3, <3>4
    <3>. HIDE DEF B, C
    <3>7. SoundBut(v, up, C) /\ Alloc(v) = Alloc(u)
      BY <3>1, <3>2, <3>3, <3>5, <3>6, SoundMerge
    <3>. QED BY <3>7 DEF C, Sound
  <2>2. CASE ~(i > 1 /\ Free(u[i - 1]))
    <3>1. v = u
      BY <2>2 DEF MergePrevious
    <3>2. SoundBut(u, up, {})
      <4>1. ASSUME NEW m \in 1..(Len(u) - 1) PROVE ~(Free(u[m]) /\ Free(u[m + 1]))
        <5>1. CASE m = i - 1
          BY <1>0, <1>4, <2>2, <5>1
        <5>2. CASE m # i - 1
          BY <1>4, <5>2 DEF SoundBut
        <5>. QED BY <5>1, <5>2
      <4>. QED BY <1>4, <4>1 DEF SoundBut
    <3>. QED BY <3>1, <3>2 DEF Sound
  <2>. QED BY <2>1, <2>2
<1>6. Sound(v, up) /\ Alloc(v) = Alloc(s) \ {s[i]}
  BY <1>3, <1>4, <1>5
<1>. QED BY <1>6 DEF u, t, e

------------------------------------------------------------------------------
\* Holds.

On(H, k, b) == {h \in H : h.kind = k /\ h.base = b}

AllSound == \A k \in Kinds : Sound(pool[k], k = 0)

\* RefsAreHolds, about the allocated extents as a set; a ticket in use is one
\* that was issued, so that the next one is not in use.
HoldInv ==
  /\ \A k \in Kinds : \A e \in Alloc(pool[k]) : e.refs = Cardinality(On(holds, k, e.base))
  /\ \A h \in holds : \E e \in Alloc(pool[h.kind]) : e.base = h.base
  /\ \A g, h \in holds : g.cookie = h.cookie => g = h
  /\ IsFiniteSet(holds)
  /\ \A h \in holds : h.cookie <= ticket

LEMMA HoldsAreRefs ==
  ASSUME TypeOK, AllSound, HoldInv
  PROVE  Merged /\ RefsAreHolds
<1>0. \A k \in Kinds : pool[k] \in Seq(Extents) /\ DOMAIN pool[k] = 1..Len(pool[k])
  BY DEF TypeOK
<1>1. Merged
  BY <1>0 DEF AllSound, Sound, SoundBut, Proper, Merged, WellKept
<1>2. ASSUME NEW k \in Kinds, NEW i \in Positions(k)
      PROVE  pool[k][i].refs = IF Free(pool[k][i]) THEN 0 ELSE Cardinality(HoldsOn(k, pool[k][i]))
  <2>1. i \in 1..Len(pool[k])
    BY <1>0 DEF Positions
  <2>2. CASE Free(pool[k][i])
    BY <2>1, <2>2 DEF AllSound, Sound, SoundBut, Proper
  <2>3. CASE ~Free(pool[k][i])
    <3>1. pool[k][i] \in Alloc(pool[k])
      BY <2>1, <2>3 DEF Alloc
    <3>2. HoldsOn(k, pool[k][i]) = On(holds, k, pool[k][i].base)
      BY DEF HoldsOn, On
    <3>. QED BY <2>3, <3>1, <3>2 DEF HoldInv
  <2>. QED BY <2>2, <2>3
<1>3. ASSUME NEW h \in holds
      PROVE  \E i \in Positions(h.kind) :
               ~Free(pool[h.kind][i]) /\ pool[h.kind][i].base = h.base
  <2>1. h.kind \in Kinds
    BY DEF TypeOK, Holds
  <2>2. PICK e \in Alloc(pool[h.kind]) : e.base = h.base
    BY DEF HoldInv
  <2>. QED BY <1>0, <2>1, <2>2 DEF Alloc, Positions
<1>4. RefsAreHolds
  BY <1>2, <1>3 DEF RefsAreHolds, HoldInv
<1>. QED BY <1>1, <1>4

\* A step that is about one base of one pool.
LEMMA HoldsMoved ==
  ASSUME TypeOK, HoldInv, NEW k \in Kinds, NEW b,
         \A l \in Kinds : l # k => pool'[l] = pool[l],
         \A e : e.base # b => (e \in Alloc(pool'[k]) <=> e \in Alloc(pool[k])),
         \A e \in Alloc(pool'[k]) : e.base = b => e.refs = Cardinality(On(holds', k, b)),
         \A h : ~(h.kind = k /\ h.base = b) => (h \in holds' <=> h \in holds),
         On(holds', k, b) # {} => \E e \in Alloc(pool'[k]) : e.base = b,
         \A g, h \in holds' : g.cookie = h.cookie => g = h,
         IsFiniteSet(holds'), \A h \in holds' : h.cookie <= ticket',
         holds' \subseteq Holds
  PROVE  HoldInv'
<1>1. ASSUME NEW l \in Kinds, NEW e \in Alloc(pool'[l]), ~(l = k /\ e.base = b)
      PROVE  e.refs = Cardinality(On(holds', l, e.base))
  <2>1. e \in Alloc(pool[l])
    BY <1>1
  <2>2. On(holds', l, e.base) = On(holds, l, e.base)
    BY <1>1 DEF On
  <2>. QED BY <2>1, <2>2 DEF HoldInv
<1>2. \A l \in Kinds : \A e \in Alloc(pool'[l]) : e.refs = Cardinality(On(holds', l, e.base))
  BY <1>1
<1>3. ASSUME NEW h \in holds' PROVE \E e \in Alloc(pool'[h.kind]) : e.base = h.base
  <2>0. h.kind \in Kinds
    BY DEF Holds
  <2>1. CASE h.kind = k /\ h.base = b
    BY <2>1 DEF On
  <2>2. CASE ~(h.kind = k /\ h.base = b)
    <3>1. PICK e \in Alloc(pool[h.kind]) : e.base = h.base
      BY <2>2 DEF HoldInv
    <3>2. e \in Alloc(pool'[h.kind])
      BY <2>0, <2>2, <3>1
    <3>. QED BY <3>1, <3>2
  <2>. QED BY <2>1, <2>2
<1>. QED BY <1>2, <1>3 DEF HoldInv

\* A hold more, or one less, on a base.
LEMMA OneHoldMore ==
  ASSUME IsFiniteSet(holds), NEW k, NEW b, NEW h, h \notin holds, h.kind = k, h.base = b
  PROVE  /\ IsFiniteSet(holds \cup {h})
         /\ Cardinality(On(holds \cup {h}, k, b)) = Cardinality(On(holds, k, b)) + 1
         /\ On(holds, k, b) = {} => Cardinality(On(holds \cup {h}, k, b)) = 1
<1>1. On(holds \cup {h}, k, b) = On(holds, k, b) \cup {h} /\ h \notin On(holds, k, b)
  BY DEF On
<1>2. IsFiniteSet(On(holds, k, b))
  <2>1. On(holds, k, b) \in SUBSET holds
    BY DEF On
  <2>. QED BY <2>1, FS_Subset
<1>3. On(holds, k, b) = {} => Cardinality(On(holds, k, b)) = 0
  BY FS_EmptySet
<1>. HIDE DEF On
<1>4. Cardinality(On(holds, k, b) \cup {h}) = Cardinality(On(holds, k, b)) + 1
  BY <1>1, <1>2, FS_AddElement
<1>5. IsFiniteSet(holds \cup {h})
  BY FS_AddElement
<1>. QED BY <1>1, <1>3, <1>4, <1>5

LEMMA OneHoldLess ==
  ASSUME IsFiniteSet(holds), NEW k, NEW b, NEW h \in holds, h.kind = k, h.base = b
  PROVE  /\ IsFiniteSet(holds \ {h})
         /\ Cardinality(On(holds \ {h}, k, b)) = Cardinality(On(holds, k, b)) - 1
         /\ Cardinality(On(holds, k, b)) \in Nat
         /\ Cardinality(On(holds, k, b)) = 1 => On(holds \ {h}, k, b) = {}
<1>1. On(holds \ {h}, k, b) = On(holds, k, b) \ {h} /\ h \in On(holds, k, b)
  BY DEF On
<1>2. IsFiniteSet(On(holds, k, b))
  <2>1. On(holds, k, b) \in SUBSET holds
    BY DEF On
  <2>. QED BY <2>1, FS_Subset
<1>. HIDE DEF On
<1>3. /\ IsFiniteSet(On(holds, k, b) \ {h})
      /\ Cardinality(On(holds, k, b) \ {h}) = Cardinality(On(holds, k, b)) - 1
  BY <1>1, <1>2, FS_RemoveElement
<1>4. Cardinality(On(holds, k, b)) \in Nat
  BY <1>2, FS_CardinalityType
<1>5. Cardinality(On(holds, k, b)) = 1 => On(holds, k, b) \ {h} = {}
  <2>. SUFFICES ASSUME Cardinality(On(holds, k, b)) = 1 PROVE On(holds, k, b) \ {h} = {}
    OBVIOUS
  <2>1. Cardinality(On(holds, k, b) \ {h}) = 0
    BY <1>3
  <2>. QED BY <1>3, <2>1, FS_EmptySet
<1>. QED BY <1>1, <1>3, <1>4, <1>5, FS_RemoveElement

------------------------------------------------------------------------------
\* The grants and the return of one list, and that the return undoes the grant.

\* GiveBack, about the list it is done to.
Returned(s, i) ==
  IF s[i].refs > 1 THEN ReplaceAt(s, i, [s[i] EXCEPT !.refs = @ - 1])
  ELSE MergePrevious(MergeNext(ReplaceAt(s, i, Freed(s[i])), i), i)

\* An allocated extent is joined.
Joined(e) == [e EXCEPT !.refs = @ + 1]

LEMMA ShareList ==
  ASSUME NEW s \in Seq(Extents), NEW i \in 1..Len(s), NEW up \in BOOLEAN, Sound(s, up),
         ~Free(s[i]), NEW x, x = Joined(s[i])
  PROVE  LET t == ReplaceAt(s, i, x)
         IN  /\ t \in Seq(Extents) /\ Len(t) = Len(s) /\ t[i] = x /\ SamePlace(x, s[i])
             /\ x \in Extents /\ x.cookie = s[i].cookie /\ x.refs = s[i].refs + 1
             /\ Sound(t, up)
             /\ Alloc(t) = (Alloc(s) \ {s[i]}) \cup {x}
             /\ Returned(t, i) = s
<1>. DEFINE e == s[i]
            n == e.refs + 1
            t == ReplaceAt(s, i, x)
<1>0. x = [e EXCEPT !.refs = n]
  BY DEF Joined
<1>1. e \in Extents /\ n \in Nat /\ e.refs \in Nat /\ Proper(e) /\ e.refs >= 1 /\ i # Len(s) /\ ~Free(e)
  <2>1. e \in Extents
    OBVIOUS
  <2>2. e.refs \in Nat /\ Proper(e) /\ i # Len(s)
    BY <2>1 DEF Sound, SoundBut, Extents
  <2>. QED BY <2>1, <2>2 DEF Proper
<1>. HIDE DEF e, n
<1>2. /\ x \in Extents /\ SamePlace(x, e) /\ x.refs = n /\ x.cookie = e.cookie
      /\ x.terminal = e.terminal /\ [x EXCEPT !.refs = e.refs] = e /\ x.words = e.words
  BY <1>0, <1>1 DEF Extents, SamePlace
<1>3. Proper(x) /\ ~Free(x)
  BY <1>1, <1>2 DEF Proper, Free, n
<1>4. t \in Seq(Extents) /\ Len(t) = Len(s)
      /\ \A j \in 1..Len(s) : t[j] = IF j = i THEN x ELSE s[j]
  BY <1>2 DEF ReplaceAt
<1>5. SoundBut(t, up, {}) /\ Alloc(t) = (Alloc(s) \ {s[i]}) \cup (IF Free(x) THEN {} ELSE {x})
  <2>1. SoundBut(s, up, {}) /\ SamePlace(x, s[i]) /\ x.terminal = s[i].terminal
        /\ (Free(x) => Free(s[i]) \/ {i - 1, i} \subseteq {})
    BY <1>2, <1>3 DEF e, Sound
  <2>. QED BY <1>1, <1>2, <1>3, <2>1, SoundReplace
<1>6. t[i] = x
  BY <1>4
<1>7. Returned(t, i) = s
  <2>1. x.refs > 1 /\ x.refs - 1 = e.refs
    BY <1>1, <1>2 DEF n
  <2>. HIDE DEF t
  <2>2. [t[i] EXCEPT !.refs = @ - 1] = e
    BY <1>2, <1>6, <2>1
  <2>3. Returned(t, i) = ReplaceAt(t, i, e)
    BY <1>6, <2>1, <2>2 DEF Returned
  <2>4. ReplaceAt(t, i, e) = s
    BY <1>1, <1>4 DEF ReplaceAt, e
  <2>. QED BY <2>3, <2>4
<1>. QED BY <1>1, <1>2, <1>3, <1>4, <1>5, <1>6, <1>7 DEF t, Sound, e, n

\* A free extent is taken whole.
LEMMA TakeList ==
  ASSUME NEW s \in Seq(Extents), NEW i \in 1..Len(s), NEW up \in BOOLEAN, Sound(s, up),
         Free(s[i]), i # Len(s), NEW x \in Extents, SamePlace(x, s[i]),
         x.terminal = s[i].terminal, ~Free(x), x.refs = 1, Freed(x) = s[i]
  PROVE  LET t == ReplaceAt(s, i, x)
         IN  /\ t \in Seq(Extents) /\ Len(t) = Len(s) /\ t[i] = x
             /\ Sound(t, up)
             /\ Alloc(t) = Alloc(s) \cup {x}
             /\ Returned(t, i) = s
<1>. DEFINE t == ReplaceAt(s, i, x)
<1>1. t \in Seq(Extents) /\ Len(t) = Len(s)
      /\ \A j \in 1..Len(s) : t[j] = IF j = i THEN x ELSE s[j]
  BY DEF ReplaceAt
<1>0. s[i] \in Extents /\ Len(s) \in Nat /\ i \in Nat
  OBVIOUS
<1>2. Proper(x)
  BY <1>0 DEF Sound, SoundBut, Proper, SamePlace
<1>3. SoundBut(t, up, {}) /\ Alloc(t) = (Alloc(s) \ {s[i]}) \cup (IF Free(x) THEN {} ELSE {x})
  <2>1. SoundBut(s, up, {}) /\ (Free(x) => Free(s[i]) \/ {i - 1, i} \subseteq {})
    BY DEF Sound
  <2>. QED BY <1>2, <2>1, SoundReplace
<1>4. s[i] \notin Alloc(s)
  BY DEF Alloc
<1>. HIDE DEF t
<1>5. t[i] = x
  BY <1>1
<1>6. Returned(t, i) = s
  <2>1. ReplaceAt(t, i, Freed(t[i])) = s
    BY <1>0, <1>1, <1>5 DEF ReplaceAt
  <2>2. Returned(t, i) = MergePrevious(MergeNext(s, i), i)
    BY <1>5, <2>1 DEF Returned
  <2>3. MergeNext(s, i) = s
    BY <1>0 DEF MergeNext, Sound, SoundBut
  <2>4. MergePrevious(s, i) = s
    <3>1. i > 1 => i - 1 \in 1..(Len(s) - 1) /\ (i - 1) + 1 = i
      BY <1>0
    <3>. QED BY <3>1 DEF MergePrevious, Sound, SoundBut
  <2>. QED BY <2>2, <2>3, <2>4
<1>. QED BY <1>1, <1>3, <1>4, <1>5, <1>6 DEF t, Sound

\* A free extent is split.
LEMMA SplitList ==
  ASSUME NEW s \in Seq(Extents), NEW i \in 1..Len(s), NEW x \in Extents, NEW y \in Extents,
         NEW up \in BOOLEAN, Sound(s, up),
         Proper(x), Proper(y), ~Free(x), Free(y), Free(s[i]),
         ~x.terminal, y.terminal = s[i].terminal, Before(up, x, y),
         Within(x, s[i]), Within(y, s[i]),
         x.refs = 1, Merge(Freed(x), y) = s[i]
  PROVE  LET t == InsertAt(ReplaceAt(s, i, y), i, x)
         IN  /\ t \in Seq(Extents) /\ Len(t) = Len(s) + 1 /\ t[i] = x
             /\ Sound(t, up)
             /\ Alloc(t) = Alloc(s) \cup {x}
             /\ Returned(t, i) = s
<1>. DEFINE t == InsertAt(ReplaceAt(s, i, y), i, x)
            n == Len(s)
            f == Freed(x)
            u == ReplaceAt(t, i, f)
            v == RemoveAt(ReplaceAt(u, i + 1, s[i]), i)
<1>0. n \in Nat /\ i \in 1..n /\ i \in Int /\ s[i] \in Extents
  OBVIOUS
<1>1. t \in Seq(Extents) /\ Len(t) = n + 1
      /\ \A j \in 1..(n + 1) :
           t[j] = IF j < i THEN s[j] ELSE IF j = i THEN x ELSE IF j = i + 1 THEN y ELSE s[j - 1]
  BY SplitProperties
<1>2. Sound(t, up) /\ Alloc(t) = Alloc(s) \cup {x}
  BY SoundSplit DEF Within
<1>. HIDE DEF t
<1>3. t[i] = x
  BY <1>0, <1>1
<1>4. f \in Extents
  BY FreedType
<1>. HIDE DEF f
<1>5. u \in Seq(Extents) /\ Len(u) = n + 1
      /\ \A j \in 1..(n + 1) : u[j] = IF j = i THEN f ELSE t[j]
  BY <1>0, <1>1, <1>4 DEF ReplaceAt
<1>6. Returned(t, i) = MergePrevious(MergeNext(u, i), i)
  BY <1>3 DEF Returned, f
<1>. HIDE DEF u
<1>7. i < Len(u) /\ u[i] = f /\ u[i + 1] = y
  <2>1. i + 1 \in 1..(n + 1) /\ i + 1 # i /\ ~(i + 1 < i)
    BY <1>0
  <2>2. u[i + 1] = t[i + 1] /\ t[i + 1] = y
    BY <1>1, <1>5, <2>1
  <2>. QED BY <1>0, <1>5, <2>2
<1>8. MergeNext(u, i) = v
  BY <1>7 DEF MergeNext, f
<1>9. v = s
  <2>1. i \in 1..(Len(u) - 1) /\ Len(u) - 1 = n
    BY <1>0, <1>5
  <2>. DEFINE z == s[i]
  <2>2. z \in Extents
    BY <1>0
  <2>. HIDE DEF z
  <2>3. /\ RemoveAt(ReplaceAt(u, i + 1, z), i) \in Seq(Extents)
        /\ Len(RemoveAt(ReplaceAt(u, i + 1, z), i)) = Len(u) - 1
        /\ \A j \in 1..(Len(u) - 1) :
             RemoveAt(ReplaceAt(u, i + 1, z), i)[j] =
               IF j < i THEN u[j] ELSE IF j = i THEN z ELSE u[j + 1]
    <3>1. u \in Seq(Extents) /\ i \in 1..(Len(u) - 1)
      BY <1>5, <2>1
    <3>2. \A j \in 1..(Len(u) - 1) :
            RemoveAt(ReplaceAt(u, i + 1, z), i)[j] =
              IF j < i THEN u[j] ELSE IF j = i THEN z ELSE u[j + 1]
      BY <2>2, <3>1, MergeProperties
    <3>3. /\ RemoveAt(ReplaceAt(u, i + 1, z), i) \in Seq(Extents)
          /\ Len(RemoveAt(ReplaceAt(u, i + 1, z), i)) = Len(u) - 1
      BY <2>2, <3>1, MergeProperties, Zenon
    <3>. QED BY <3>2, <3>3, Zenon
  <2>4. v \in Seq(Extents) /\ Len(v) = n
        /\ \A j \in 1..n : v[j] = IF j < i THEN u[j] ELSE IF j = i THEN s[i] ELSE u[j + 1]
    BY <2>1, <2>3 DEF z
  <2>. HIDE DEF v
  <2>5. ASSUME NEW j \in 1..n PROVE v[j] = s[j]
    <3>1. CASE j < i
      BY <1>0, <1>1, <1>5, <2>4, <3>1
    <3>2. CASE j = i
      BY <1>0, <2>4, <3>2
    <3>3. CASE j > i
      <4>1. j + 1 \in 1..(n + 1) /\ j + 1 # i /\ j + 1 # i + 1 /\ ~(j + 1 < i) /\ (j + 1) - 1 = j
        BY <1>0, <3>3
      <4>2. t[j + 1] = s[j]
        BY <1>1, <4>1
      <4>3. u[j + 1] = t[j + 1]
        BY <1>5, <4>1
      <4>4. v[j] = u[j + 1]
        BY <1>0, <2>4, <3>3
      <4>. QED BY <4>2, <4>3, <4>4
    <3>. QED BY <1>0, <3>1, <3>2, <3>3
  <2>. QED BY <2>4, <2>5, SeqEqual
<1>. HIDE DEF v
<1>10. MergePrevious(s, i) = s
  <2>1. i > 1 => i - 1 \in 1..(Len(s) - 1) /\ (i - 1) + 1 = i
    BY <1>0
  <2>. QED BY <2>1 DEF MergePrevious, Sound, SoundBut
<1>. QED BY <1>1, <1>2, <1>3, <1>6, <1>8, <1>9, <1>10 DEF t

\* What a grant does to the list of its pool: the extent at j is the caller's,
\* it is a new one or one that was joined, and a return would take it back.
Grants(k, t, j) ==
  LET s == pool[k] IN
  /\ t \in Seq(Extents) /\ j \in 1..Len(t) /\ Sound(t, k = 0) /\ Returned(t, j) = s
  /\ \/ /\ t[j].refs = 1 /\ Alloc(t) = Alloc(s) \cup {t[j]}
        /\ \A e \in Alloc(s) : e.base # t[j].base
     \/ \E e \in Alloc(s) :
          /\ t[j] = Joined(e) /\ e.shared
          /\ Alloc(t) = (Alloc(s) \ {e}) \cup {t[j]}

\* The same from an extent of a list that a request got.
LEMMA FreshBases ==
  ASSUME NEW s \in Seq(Extents), NEW up \in BOOLEAN, Sound(s, up), NEW i \in 1..Len(s), Free(s[i]),
         NEW x \in Extents, x.words > 0, Within(x, s[i])
  PROVE  \A e \in Alloc(s) : e.base # x.base
BY WithinBases DEF Alloc

\* What a free extent that is taken becomes.
LEMMA TakenProper ==
  ASSUME PoolAssumption, ticket \in Nat, NEW e \in Extents, NEW r \in Requests, Free(e), Proper(e)
  PROVE  /\ Take(e, r) \in Extents /\ SamePlace(Take(e, r), e)
         /\ Take(e, r).terminal = e.terminal /\ ~Free(Take(e, r))
         /\ Take(e, r).refs = 1 /\ Freed(Take(e, r)) = e /\ Proper(Take(e, r))
<1>. DEFINE x == Take(e, r)
            c == ticket + 1
            w == r.words
            d == r.identity
            h == r.shared
<1>1. x \in Extents /\ SamePlace(x, e) /\ c > 0
  BY TakeType
<1>2. x = [e EXCEPT !.cookie = c, !.identity = d, !.requested = w, !.refs = 1, !.shared = h]
  BY DEF Take
<1>. HIDE DEF x, c, w, d, h
<1>3. x.cookie = c /\ x.refs = 1 /\ x.terminal = e.terminal /\ x.words = e.words /\ e.words > 0
      /\ Even(e.words)
  BY <1>2 DEF Extents, Proper
<1>4. Freed(x) = [e EXCEPT !.cookie = 0, !.identity = NoOne, !.requested = 0, !.refs = 0, !.shared = FALSE]
  BY <1>1, <1>2 DEF Freed, Extents
<1>5. e.cookie = 0 /\ e.identity = NoOne /\ e.requested = 0 /\ e.refs = 0 /\ e.shared = FALSE
  BY DEF Free, Proper, Extents
<1>6. Freed(x) = e
  <2>1. /\ Freed(x).cookie = e.cookie /\ Freed(x).identity = e.identity
        /\ Freed(x).requested = e.requested /\ Freed(x).refs = e.refs
        /\ Freed(x).base = e.base /\ Freed(x).words = e.words /\ Freed(x).terminal = e.terminal
    BY <1>4, <1>5 DEF Extents
  <2>2. Freed(x).shared = e.shared
    BY <1>4, <1>5 DEF Extents
  <2>3. Freed(x) \in Extents
    BY <1>1, FreedType
  <2>. QED BY <2>1, <2>2, <2>3 DEF Extents
<1>7. ~Free(x) /\ Proper(x)
  BY <1>1, <1>3 DEF Free, Proper
<1>. QED BY <1>1, <1>3, <1>6, <1>7 DEF x

\* A free extent carved up: both parts lie in it, apart, and merge to it again.
LEMMA CarvedProper ==
  ASSUME PoolAssumption, ticket \in Nat, NEW e \in Extents, NEW r \in Requests, NEW w \in Nat,
         Free(e), Proper(e), w > 0, Even(w), e.words > w
  PROVE  LET x == Carved(e, w, r)
             y == Rest(r.kind, e, w)
         IN  /\ x \in Extents /\ y \in Extents /\ Proper(x) /\ Proper(y) /\ ~Free(x) /\ Free(y)
             /\ ~x.terminal /\ y.terminal = e.terminal /\ Before(r.kind = 0, x, y)
             /\ Within(x, e) /\ Within(y, e) /\ x.words > 0 /\ x.refs = 1
             /\ Merge(Freed(x), y) = e
<1>. DEFINE k == r.kind
            b == IF k = 0 THEN e.base ELSE e.base + e.words - w
            c == IF k = 0 THEN e.base + w ELSE e.base
            n == e.words - w
            z == [e EXCEPT !.base = b, !.words = w, !.terminal = FALSE]
            x == Carved(e, w, r)
            y == Rest(k, e, w)
<1>1. /\ e.base \in Nat /\ e.words \in Nat /\ b \in Nat /\ c \in Nat /\ n \in Nat /\ n > 0
      /\ b + w <= e.base + e.words /\ b >= e.base /\ c >= e.base /\ c + n <= e.base + e.words
      /\ (IF k = 0 THEN b + w <= c ELSE c + n <= b)
      /\ (IF b < c THEN b ELSE c) = e.base /\ n + w = e.words
  BY DEF Extents
<1>e. Even(n)
  <2>1. e.words \in Int /\ w \in Int /\ n = e.words - w /\ Even(e.words)
    BY <1>1 DEF Proper
  <2>. HIDE DEF n
  <2>. QED BY <2>1, EvenSums
<1>2. x = Take(z, r) /\ y = [e EXCEPT !.base = c, !.words = n]
  BY DEF Carved, Rest
<1>. HIDE DEF b, c, n, x, y
<1>3. /\ z \in Extents /\ z.base = b /\ z.words = w /\ z.terminal = FALSE /\ z.cookie = e.cookie
      /\ z.refs = e.refs /\ z.identity = e.identity /\ z.requested = e.requested
      /\ z.shared = e.shared
  BY <1>1 DEF Extents
<1>. HIDE DEF z
<1>4. Free(z) /\ Proper(z)
  BY <1>3 DEF Free, Proper
<1>5. /\ y \in Extents /\ y.base = c /\ y.words = n /\ y.terminal = e.terminal /\ y.cookie = e.cookie
      /\ y.refs = e.refs /\ y.identity = e.identity /\ y.requested = e.requested
      /\ y.shared = e.shared
  BY <1>1, <1>2 DEF Extents
<1>6. Free(y) /\ Proper(y)
  BY <1>1, <1>5, <1>e DEF Free, Proper
<1>7. /\ x \in Extents /\ SamePlace(x, z) /\ x.terminal = z.terminal /\ ~Free(x)
      /\ x.refs = 1 /\ Freed(x) = z /\ Proper(x)
  BY <1>2, <1>3, <1>4, TakenProper
<1>8. x.base = b /\ x.words = w /\ ~x.terminal
  BY <1>3, <1>7 DEF SamePlace
<1>9. Before(k = 0, x, y) /\ Within(x, e) /\ Within(y, e)
  <2>1. End(x) = b + w /\ End(y) = c + n /\ End(e) = e.base + e.words
    BY <1>5, <1>8 DEF End
  <2>2. IF k = 0 THEN End(x) <= y.base ELSE End(y) <= x.base
    BY <1>1, <1>5, <1>8, <2>1
  <2>3. Before(k = 0, x, y)
    BY <2>2 DEF Before
  <2>4. x.base >= e.base /\ End(x) <= End(e) /\ y.base >= e.base /\ End(y) <= End(e)
    BY <1>1, <1>5, <1>8, <2>1
  <2>. QED BY <2>3, <2>4 DEF Within
<1>10. Merge(z, y) = e
  <2>1. Merge(z, y) = [y EXCEPT !.base = IF z.base < y.base THEN z.base ELSE y.base,
                                !.words = y.words + z.words]
    BY DEF Merge
  <2>2. Merge(z, y) = [y EXCEPT !.base = e.base, !.words = e.words]
    BY <1>1, <1>3, <1>5, <2>1
  <2>3. Merge(z, y) = [e EXCEPT !.base = e.base, !.words = e.words]
    BY <1>2, <1>5, <2>2 DEF Extents
  <2>. QED BY <2>3 DEF Extents
<1>. QED BY <1>5, <1>6, <1>7, <1>8, <1>9, <1>10 DEF x, y

LEMMA GrantedLists ==
  ASSUME PoolAssumption, IInv, AllSound, NEW r \in Requests, Granted(r)
  PROVE  \E t, j : /\ Grants(r.kind, t, j) /\ Give(r.kind, t[j])
                   /\ pool' = [pool EXCEPT ![r.kind] = t]
<1>. DEFINE k == r.kind
            s == pool[k]
            w == EvenUp(r.words)
            up == k = 0
<1>1. k \in Kinds /\ r.words \in Nat \ {0} /\ r.identity \in Identities /\ r.shared \in BOOLEAN
  BY RequestType
<1>2. s \in Seq(Extents) /\ Len(s) \in Nat /\ Positions(k) = 1..Len(s) /\ up \in BOOLEAN
  BY <1>1, ListOf, Zenon DEF IInv
<1>3. PICK i \in Positions(k) : Share(r, i) \/ TakeWhole(r, i) \/ Split(r, i)
  BY DEF Granted
<1>4. i \in 1..Len(s) /\ s[i] \in Extents /\ ticket \in Nat
  BY <1>2, <1>3 DEF IInv, TypeOK
<1>5. w \in Nat /\ w >= r.words /\ w > 0 /\ Even(w)
  BY <1>1, EvenUpType, EvenRounded
<1>6. Sound(s, up)
  BY <1>1 DEF AllSound
<1>7. Proper(s[i]) /\ (s[i].terminal <=> i = Len(s))
  BY <1>4, <1>6 DEF Sound, SoundBut
<1>. HIDE DEF s, up, w
<1>a. CASE Share(r, i)
  <2>. DEFINE x == Joined(s[i])
              t == ReplaceAt(s, i, x)
  <2>1. ~Free(s[i]) /\ s[i].shared /\ pool' = [pool EXCEPT ![k] = t] /\ Give(k, s[i])
    BY <1>a, Zenon DEF Share, Joins, Home, IsHome, s, Joined
  <2>x. x = Joined(s[i])
    OBVIOUS
  <2>. HIDE DEF x
  <2>2. /\ t \in Seq(Extents) /\ Len(t) = Len(s) /\ t[i] = x /\ SamePlace(x, s[i])
        /\ Sound(t, up) /\ Alloc(t) = (Alloc(s) \ {s[i]}) \cup {x} /\ Returned(t, i) = s
    BY <1>2, <1>4, <1>6, <2>1, <2>x, ShareList
  <2>3. s[i] \in Alloc(s)
    BY <1>4, <2>1 DEF Alloc
  <2>. HIDE DEF t
  <2>4. Give(k, t[i])
    <3>1. x.base = s[i].base /\ x.words = s[i].words
      BY <2>2 DEF SamePlace
    <3>. QED BY <2>1, <2>2, <3>1 DEF Give, Lease
  <2>5. \E e \in Alloc(s) : t[i] = Joined(e) /\ e.shared
                            /\ Alloc(t) = (Alloc(s) \ {e}) \cup {t[i]}
    BY <2>1, <2>2, <2>3, <2>x
  <2>6. Grants(k, t, i)
    BY <1>4, <2>2, <2>5 DEF Grants, s, up
  <2>. QED BY <2>1, <2>4, <2>6
<1>b. CASE TakeWhole(r, i)
  <2>. DEFINE x == Take(s[i], r)
              t == ReplaceAt(s, i, x)
  <2>1. Room(s[i], w) /\ s[i].words = w /\ pool' = [pool EXCEPT ![k] = t] /\ Give(k, x)
    BY <1>b, Zenon DEF TakeWhole, FitsWhole, Fits, FirstFit, s, w
  <2>2. Free(s[i]) /\ i # Len(s)
    BY <1>5, <1>7, <2>1 DEF Room
  <2>3. /\ x \in Extents /\ SamePlace(x, s[i]) /\ x.terminal = s[i].terminal /\ ~Free(x)
        /\ x.refs = 1 /\ Freed(x) = s[i] /\ Proper(x)
    BY <1>4, <1>7, <2>2, TakenProper
  <2>. HIDE DEF x
  <2>4. /\ t \in Seq(Extents) /\ Len(t) = Len(s) /\ t[i] = x /\ Sound(t, up)
        /\ Alloc(t) = Alloc(s) \cup {x} /\ Returned(t, i) = s
    BY <1>2, <1>4, <1>6, <2>2, <2>3, TakeList
  <2>5. \A e \in Alloc(s) : e.base # x.base
    <3>1. x.words > 0 /\ Within(x, s[i])
      BY <1>4, <2>3 DEF Proper, Within, SamePlace, End, Extents
    <3>. QED BY <1>2, <1>4, <1>6, <2>2, <2>3, <3>1, FreshBases
  <2>. HIDE DEF t
  <2>6. Grants(k, t, i)
    BY <1>4, <2>3, <2>4, <2>5 DEF Grants, s, up
  <2>. QED BY <2>1, <2>4, <2>6
<1>c. CASE Split(r, i)
  <2>. DEFINE x == Carved(s[i], w, r)
              y == Rest(k, s[i], w)
              t == InsertAt(ReplaceAt(s, i, y), i, x)
  <2>1. Room(s[i], w) /\ s[i].words # w /\ pool' = [pool EXCEPT ![k] = t] /\ Give(k, x)
    BY <1>c, Zenon DEF Split, FitsWhole, Fits, FirstFit, s, w
  <2>2. Free(s[i]) /\ s[i].words > w
    BY <1>4, <1>5, <2>1 DEF Room, Extents
  <2>3. /\ x \in Extents /\ y \in Extents /\ Proper(x) /\ Proper(y) /\ ~Free(x) /\ Free(y)
        /\ ~x.terminal /\ y.terminal = s[i].terminal /\ Before(up, x, y)
        /\ Within(x, s[i]) /\ Within(y, s[i]) /\ x.words > 0 /\ x.refs = 1
        /\ Merge(Freed(x), y) = s[i]
    <3>. DEFINE e == s[i]
    <3>1. e \in Extents /\ Free(e) /\ Proper(e) /\ e.words > w
      BY <1>4, <1>7, <2>2
    <3>. HIDE DEF e
    <3>2. LET p == Carved(e, w, r)
              q == Rest(r.kind, e, w)
          IN  /\ p \in Extents /\ q \in Extents /\ Proper(p) /\ Proper(q) /\ ~Free(p) /\ Free(q)
              /\ ~p.terminal /\ q.terminal = e.terminal /\ Before(r.kind = 0, p, q)
              /\ Within(p, e) /\ Within(q, e) /\ p.words > 0 /\ p.refs = 1
              /\ Merge(Freed(p), q) = e
      BY <1>4, <1>5, <3>1, CarvedProper
    <3>. QED BY <3>2 DEF e, up
  <2>. HIDE DEF x, y
  <2>4. /\ t \in Seq(Extents) /\ Len(t) = Len(s) + 1 /\ t[i] = x /\ Sound(t, up)
        /\ Alloc(t) = Alloc(s) \cup {x} /\ Returned(t, i) = s
    BY <1>2, <1>4, <1>6, <2>2, <2>3, SplitList
  <2>5. \A e \in Alloc(s) : e.base # x.base
    BY <1>2, <1>4, <1>6, <2>2, <2>3, FreshBases
  <2>. HIDE DEF t
  <2>6. i \in 1..Len(t)
    BY <1>2, <1>4, <2>4
  <2>7. Grants(k, t, i)
    BY <2>3, <2>4, <2>5, <2>6 DEF Grants, s, up
  <2>. QED BY <2>1, <2>4, <2>7
<1>. QED BY <1>3, <1>a, <1>b, <1>c

\* An allocated extent loses a reference.
Left(e) == [e EXCEPT !.refs = @ - 1]

LEMMA ReturnList ==
  ASSUME NEW s \in Seq(Extents), NEW i \in 1..Len(s), NEW up \in BOOLEAN, NEW lo, NEW hi,
         Sound(s, up), Tiles(s, up, lo, hi), ~Free(s[i])
  PROVE  /\ Sound(Returned(s, i), up)
         /\ \/ s[i].refs > 1 /\ Alloc(Returned(s, i)) = (Alloc(s) \ {s[i]}) \cup {Left(s[i])}
            \/ s[i].refs = 1 /\ Alloc(Returned(s, i)) = Alloc(s) \ {s[i]}
<1>1. /\ s[i] \in Extents /\ s[i].refs \in Nat /\ s[i].refs >= 1 /\ Proper(s[i]) /\ i # Len(s)
  <2>1. s[i] \in Extents
    OBVIOUS
  <2>2. s[i].refs \in Nat /\ Proper(s[i]) /\ i # Len(s)
    BY <2>1 DEF Sound, SoundBut, Extents
  <2>. QED BY <2>1, <2>2 DEF Proper
<1>2. CASE s[i].refs > 1
  <2>. DEFINE e == s[i]
              n == e.refs - 1
              x == Left(e)
  <2>1. x = [e EXCEPT !.refs = n] /\ n \in Nat /\ n >= 1 /\ e \in Extents /\ e.words > 0
        /\ Even(e.words)
    BY <1>1, <1>2 DEF Left, Proper
  <2>2. Returned(s, i) = ReplaceAt(s, i, x)
    BY <1>2 DEF Returned, Left
  <2>. HIDE DEF x, n, e
  <2>3. /\ x \in Extents /\ SamePlace(x, e) /\ x.refs = n /\ x.cookie = e.cookie
        /\ x.terminal = e.terminal /\ x.words = e.words
    BY <2>1 DEF Extents, SamePlace
  <2>4. Proper(x) /\ ~Free(x)
    BY <2>1, <2>3 DEF Proper, Free, e
  <2>5. SoundBut(s, up, {}) /\ SamePlace(x, s[i]) /\ x.terminal = s[i].terminal
        /\ (Free(x) => Free(s[i]) \/ {i - 1, i} \subseteq {})
    BY <2>3, <2>4 DEF e, Sound
  <2>6. SoundBut(ReplaceAt(s, i, x), up, {})
        /\ Alloc(ReplaceAt(s, i, x)) = (Alloc(s) \ {s[i]}) \cup (IF Free(x) THEN {} ELSE {x})
    BY <1>1, <2>3, <2>4, <2>5, SoundReplace
  <2>. QED BY <1>2, <2>2, <2>4, <2>6 DEF Sound, x, e
<1>3. CASE ~(s[i].refs > 1)
  <2>1. LET t == MergePrevious(MergeNext(ReplaceAt(s, i, Freed(s[i])), i), i)
        IN  Sound(t, up) /\ Alloc(t) = Alloc(s) \ {s[i]}
    BY SoundRelease
  <2>2. Returned(s, i) = MergePrevious(MergeNext(ReplaceAt(s, i, Freed(s[i])), i), i)
    BY <1>3 DEF Returned
  <2>. QED BY <1>1, <1>3, <2>1, <2>2
<1>. QED BY <1>2, <1>3

------------------------------------------------------------------------------
\* Lists stay sound, and references stay holds.

LEMMA OneListSound ==
  ASSUME TypeOK, AllSound, NEW k \in Kinds, NEW t, Sound(t, k = 0), pool' = [pool EXCEPT ![k] = t]
  PROVE  /\ \A l \in Kinds : pool'[l] = IF l = k THEN t ELSE pool[l]
         /\ AllSound'
<1>1. \A l \in Kinds : pool'[l] = IF l = k THEN t ELSE pool[l]
  BY DEF TypeOK
<1>2. ASSUME NEW l \in Kinds PROVE Sound(pool'[l], l = 0)
  <2>1. CASE l = k
    BY <1>1, <2>1
  <2>2. CASE l # k
    BY <1>1, <2>2 DEF AllSound
  <2>. QED BY <2>1, <2>2
<1>. QED BY <1>1, <1>2 DEF AllSound

LEMMA ListsSound ==
  ASSUME TypeOK, AllSound, NEW k \in Kinds, NEW t, Sound(t, k = 0), pool' = [pool EXCEPT ![k] = t]
  PROVE  AllSound'
BY OneListSound

LEMMA GrantKeepsHolds ==
  ASSUME PoolAssumption, IInv, AllSound, HoldInv, NEW r \in Requests, Granted(r),
         holds' \subseteq Holds
  PROVE  AllSound' /\ HoldInv'
<1>. DEFINE k == r.kind
            s == pool[k]
<1>1. k \in Kinds /\ TypeOK /\ ticket \in Nat
  BY RequestType DEF IInv, TypeOK
<1>2. PICK t, j : Grants(k, t, j) /\ Give(k, t[j]) /\ pool' = [pool EXCEPT ![k] = t]
  BY GrantedLists
<1>. DEFINE x == t[j]
            b == x.base
            h == [cookie |-> ticket + 1, kind |-> k, base |-> b]
<1>3. t \in Seq(Extents) /\ j \in 1..Len(t) /\ Sound(t, k = 0)
  BY <1>2 DEF Grants
<1>4. AllSound' /\ \A l \in Kinds : pool'[l] = IF l = k THEN t ELSE pool[l]
  <2>1. TypeOK /\ k \in Kinds /\ Sound(t, k = 0) /\ pool' = [pool EXCEPT ![k] = t]
    BY <1>1, <1>2, <1>3
  <2>. HIDE DEF k
  <2>2. AllSound'
    BY <2>1, ListsSound
  <2>3. \A l \in Kinds : pool'[l] = IF l = k THEN t ELSE pool[l]
    BY <2>1 DEF TypeOK
  <2>. QED BY <2>2, <2>3
<1>5. s \in Seq(Extents) /\ Sound(s, k = 0) /\ (k = 0) \in BOOLEAN
  BY <1>1 DEF AllSound, TypeOK
<1>6. \A e, f \in Alloc(s) : e.base = f.base => e = f
  <2>. DEFINE up == k = 0
  <2>1. up \in BOOLEAN /\ Sound(s, up)
    BY <1>5
  <2>. HIDE DEF up, s
  <2>. QED BY <1>5, <2>1, AllocBases
<1>7. holds' = holds \cup {h} /\ ticket' = ticket + 1
  BY <1>2 DEF Give
<1>8. h \notin holds /\ \A g \in holds : g.cookie # h.cookie
  BY <1>1 DEF HoldInv, TypeOK, Holds
<1>. HIDE DEF h
<1>h. h.kind = k /\ h.base = b /\ h.cookie = ticket + 1
  BY DEF h
<1>9. /\ IsFiniteSet(holds') /\ Cardinality(On(holds', k, b)) = Cardinality(On(holds, k, b)) + 1
      /\ On(holds, k, b) = {} => Cardinality(On(holds', k, b)) = 1
  <2>. DEFINE c == b
  <2>1. h.base = c
    BY <1>h
  <2>. HIDE DEF c, k
  <2>2. /\ IsFiniteSet(holds \cup {h})
        /\ Cardinality(On(holds \cup {h}, k, c)) = Cardinality(On(holds, k, c)) + 1
        /\ On(holds, k, c) = {} => Cardinality(On(holds \cup {h}, k, c)) = 1
    BY <1>8, <1>h, <2>1, OneHoldMore DEF HoldInv
  <2>. QED BY <1>7, <2>2 DEF c
<1>10. /\ \A e : e.base # b => (e \in Alloc(t) <=> e \in Alloc(s))
       /\ \A e \in Alloc(t) : e.base = b => e.refs = Cardinality(On(holds', k, b))
       /\ x \in Alloc(t)
  <2>1. CASE /\ x.refs = 1 /\ Alloc(t) = Alloc(s) \cup {x}
             /\ \A e \in Alloc(s) : e.base # b
    <3>1. On(holds, k, b) = {}
      BY <2>1 DEF HoldInv, On
    <3>. QED BY <1>9, <2>1, <3>1
  <2>2. CASE \E e \in Alloc(s) : x = Joined(e) /\ e.shared /\ Alloc(t) = (Alloc(s) \ {e}) \cup {x}
    <3>1. PICK e \in Alloc(s) : x = Joined(e) /\ Alloc(t) = (Alloc(s) \ {e}) \cup {x}
      BY <2>2
    <3>2. e \in Extents
      BY <1>5 DEF Alloc
    <3>3. x.base = e.base /\ x.refs = e.refs + 1
      BY <3>1, <3>2 DEF Joined, Extents
    <3>4. e.refs = Cardinality(On(holds, k, e.base))
      BY <1>1 DEF HoldInv
    <3>5. ASSUME NEW f \in Alloc(t), f.base = b PROVE f = x
      BY <1>6, <3>1, <3>3, <3>5
    <3>6. x.refs = Cardinality(On(holds', k, b))
      BY <1>9, <3>3, <3>4
    <3>. QED BY <3>1, <3>3, <3>5, <3>6
  <2>. QED BY <1>2, <2>1, <2>2 DEF Grants
<1>11. \A l \in Kinds : l # k => pool'[l] = pool[l]
  BY <1>4
<1>12. pool'[k] = t
  BY <1>1, <1>4
<1>13. \A g : ~(g.kind = k /\ g.base = b) => (g \in holds' <=> g \in holds)
  BY <1>7, <1>h
<1>14. \A g, f \in holds' : g.cookie = f.cookie => g = f
  BY <1>7, <1>8 DEF HoldInv
<1>15. \A g \in holds' : g.cookie <= ticket'
  BY <1>1, <1>7, <1>h DEF HoldInv, TypeOK, Holds
<1>16. HoldInv'
  <2>. DEFINE c == b
  <2>1. /\ \A e : e.base # c => (e \in Alloc(pool'[k]) <=> e \in Alloc(pool[k]))
        /\ \A e \in Alloc(pool'[k]) : e.base = c => e.refs = Cardinality(On(holds', k, c))
        /\ \A g : ~(g.kind = k /\ g.base = c) => (g \in holds' <=> g \in holds)
        /\ \E e \in Alloc(pool'[k]) : e.base = c
    BY <1>10, <1>12, <1>13
  <2>. HIDE DEF c, k
  <2>. QED BY <1>1, <1>9, <1>11, <1>14, <1>15, <2>1, HoldsMoved
<1>. QED BY <1>4, <1>16

LEMMA ReleaseKeepsHolds ==
  ASSUME PoolAssumption, IInv, AllSound, HoldInv, NEW lease \in Leases, Released(lease)
  PROVE  AllSound' /\ HoldInv'
<1>. DEFINE k == lease.kind
            s == pool[k]
<1>1. k \in Kinds /\ TypeOK
  BY DEF IInv, Leases
<1>2. PICK h \in holds, i \in Positions(k) :
        Matches(lease, h, i) /\ holds' = holds \ {h} /\ GiveBack(k, i) /\ ticket' = ticket
  BY DEF Released
<1>. DEFINE e == s[i]
            b == e.base
            t == Returned(s, i)
<1>3. /\ s \in Seq(Extents) /\ Positions(k) = 1..Len(s) /\ Tiles(s, k = 0, Bottom(k), Limit(k))
      /\ Sound(s, k = 0) /\ (k = 0) \in BOOLEAN
  BY <1>1, ListOf, Zenon DEF IInv, AllSound
<1>4. i \in 1..Len(s) /\ ~Free(e) /\ h.kind = k /\ h.base = b /\ e \in Alloc(s) /\ e \in Extents
  BY <1>2, <1>3 DEF Matches, Alloc
<1>5. pool' = [pool EXCEPT ![k] = t]
  BY <1>2 DEF GiveBack, Returned
<1>6. /\ \A f, g \in Alloc(s) : f.base = g.base => f = g
      /\ Sound(t, k = 0)
      /\ \/ e.refs > 1 /\ Alloc(t) = (Alloc(s) \ {e}) \cup {Left(e)}
         \/ e.refs = 1 /\ Alloc(t) = Alloc(s) \ {e}
  <2>. DEFINE up == k = 0
              lo == Bottom(k)
              hi == Limit(k)
  <2>1. up \in BOOLEAN /\ Sound(s, up) /\ Tiles(s, up, lo, hi)
    BY <1>3
  <2>2. ~Free(s[i])
    BY <1>4
  <2>. HIDE DEF up, s, lo, hi
  <2>3. \A f, g \in Alloc(s) : f.base = g.base => f = g
    BY <1>3, <2>1, AllocBases
  <2>4. /\ Sound(Returned(s, i), up)
        /\ \/ s[i].refs > 1 /\ Alloc(Returned(s, i)) = (Alloc(s) \ {s[i]}) \cup {Left(s[i])}
           \/ s[i].refs = 1 /\ Alloc(Returned(s, i)) = Alloc(s) \ {s[i]}
    BY <1>3, <1>4, <2>1, <2>2, ReturnList
  <2>. QED BY <2>3, <2>4 DEF up
<1>. HIDE DEF t
<1>7. AllSound' /\ \A l \in Kinds : pool'[l] = IF l = k THEN t ELSE pool[l]
  <2>1. TypeOK /\ k \in Kinds /\ Sound(t, k = 0) /\ pool' = [pool EXCEPT ![k] = t]
    BY <1>1, <1>5, <1>6
  <2>. HIDE DEF k
  <2>2. AllSound'
    BY <2>1, ListsSound
  <2>3. \A l \in Kinds : pool'[l] = IF l = k THEN t ELSE pool[l]
    BY <2>1 DEF TypeOK
  <2>. QED BY <2>2, <2>3
<1>8. e.refs = Cardinality(On(holds, k, b))
  BY <1>1, <1>4 DEF HoldInv
<1>9. /\ IsFiniteSet(holds') /\ Cardinality(On(holds', k, b)) = Cardinality(On(holds, k, b)) - 1
      /\ Cardinality(On(holds, k, b)) = 1 => On(holds', k, b) = {}
  <2>. DEFINE c == b
  <2>1. h.base = c /\ h.kind = k
    BY <1>4
  <2>. HIDE DEF c, k
  <2>2. /\ IsFiniteSet(holds \ {h})
        /\ Cardinality(On(holds \ {h}, k, c)) = Cardinality(On(holds, k, c)) - 1
        /\ Cardinality(On(holds, k, c)) = 1 => On(holds \ {h}, k, c) = {}
    BY <2>1, OneHoldLess DEF HoldInv
  <2>. QED BY <1>2, <2>2 DEF c
<1>10. /\ \A f : f.base # b => (f \in Alloc(t) <=> f \in Alloc(s))
       /\ \A f \in Alloc(t) : f.base = b => f.refs = Cardinality(On(holds', k, b))
       /\ On(holds', k, b) # {} => \E f \in Alloc(t) : f.base = b
  <2>1. CASE e.refs > 1 /\ Alloc(t) = (Alloc(s) \ {e}) \cup {Left(e)}
    <3>. DEFINE x == Left(e)
    <3>1. x.base = b /\ x.refs = e.refs - 1
      BY <1>4 DEF Left, Extents
    <3>. HIDE DEF x
    <3>2. Alloc(t) = (Alloc(s) \ {e}) \cup {x}
      BY <2>1 DEF x
    <3>. HIDE DEF e
    <3>3. ASSUME NEW f \in Alloc(t), f.base = b PROVE f = x
      BY <1>4, <1>6, <3>2, <3>3
    <3>. QED BY <1>4, <1>8, <1>9, <3>1, <3>2, <3>3
  <2>2. CASE e.refs = 1 /\ Alloc(t) = Alloc(s) \ {e}
    <3>1. \A f \in Alloc(t) : f.base # b
      BY <1>4, <1>6, <2>2
    <3>2. On(holds', k, b) = {}
      BY <1>8, <1>9, <2>2
    <3>. QED BY <2>2, <3>1, <3>2
  <2>. QED BY <1>6, <2>1, <2>2
<1>11. \A l \in Kinds : l # k => pool'[l] = pool[l]
  BY <1>7
<1>12. pool'[k] = t
  BY <1>1, <1>7
<1>13. \A g : ~(g.kind = k /\ g.base = b) => (g \in holds' <=> g \in holds)
  BY <1>2, <1>4
<1>14. (\A g, f \in holds' : g.cookie = f.cookie => g = f) /\ (\A g \in holds' : g.cookie <= ticket')
       /\ holds' \subseteq Holds
  BY <1>1, <1>2 DEF HoldInv, TypeOK
<1>15. HoldInv'
  <2>. DEFINE c == b
  <2>1. /\ \A f : f.base # c => (f \in Alloc(pool'[k]) <=> f \in Alloc(pool[k]))
        /\ \A f \in Alloc(pool'[k]) : f.base = c => f.refs = Cardinality(On(holds', k, c))
        /\ \A g : ~(g.kind = k /\ g.base = c) => (g \in holds' <=> g \in holds)
        /\ On(holds', k, c) # {} => \E f \in Alloc(pool'[k]) : f.base = c
    BY <1>10, <1>12, <1>13
  <2>. HIDE DEF c, k
  <2>. QED BY <1>1, <1>9, <1>11, <1>14, <2>1, HoldsMoved
<1>. QED BY <1>7, <1>15

\* The scratch area takes words of the terminal extent, or gives it some.
LEMMA ScratchKeepsHolds ==
  ASSUME PoolAssumption, IInv, AllSound, HoldInv, ScratchEven,
         NEW k \in Kinds, NEW n \in Scratches, SetScratch(k, n)
  PROVE  AllSound' /\ HoldInv' /\ \A l \in Kinds : Alloc(pool'[l]) = Alloc(pool[l])
<1>. DEFINE s == pool[k]
            m == Len(s)
            t == s[m]
            grow == WantedScratch(k, n) - scratch[k]
            e == [t EXCEPT !.base = @ + grow, !.words = @ - grow]
            u == ReplaceAt(s, m, e)
<1>1. s \in Seq(Extents) /\ m >= 1 /\ m \in Nat /\ t \in Extents
  BY ListOf DEF IInv
<1>2. /\ k # 0 /\ t.words > grow /\ Free(t) /\ t.base = Base(k) + scratch[k]
      /\ pool' = [pool EXCEPT ![k] = u] /\ holds' = holds /\ ticket' = ticket
  BY Zenon DEF SetScratch, GrowsBy, Last
<1>3. /\ \A i \in 1..m : Proper(s[i]) /\ (s[i].terminal <=> i = m)
      /\ \A i \in 1..(m - 1) : ~(Free(s[i]) /\ Free(s[i + 1]))
      /\ \A i, j \in 1..m : i < j => End(s[j]) <= s[i].base
  BY <1>2 DEF AllSound, Sound, SoundBut, Before
<1>4. grow \in Int /\ t.base + grow \in Nat
  <2>1. n \in Nat /\ scratch[k] \in Nat /\ Base(k) \in Nat
    BY GeometryType DEF PoolAssumption, IInv, TypeOK
  <2>2. WantedScratch(k, n) \in Nat
    <3>1. EvenUp(n) \in Nat /\ ScratchMin(k) \in Nat
      BY <2>1, EvenUpType, GeometryType
    <3>. QED BY <3>1 DEF WantedScratch
  <2>3. t.base = Base(k) + scratch[k]
    BY <1>2
  <2>. HIDE DEF t
  <2>. QED BY <2>1, <2>2, <2>3
<1>e. Even(grow)
  <2>1. n \in Nat /\ scratch[k] \in Nat /\ Even(scratch[k])
    BY DEF PoolAssumption, IInv, TypeOK, ScratchEven
  <2>2. WantedScratch(k, n) \in Nat /\ Even(WantedScratch(k, n))
    BY <2>1, EvenUpType, EvenMin, EvenRounded, GeometryType DEF WantedScratch
  <2>. DEFINE a == WantedScratch(k, n)
              c == scratch[k]
  <2>3. a \in Int /\ c \in Int /\ grow = a - c /\ Even(a) /\ Even(c)
    BY <2>1, <2>2
  <2>. HIDE DEF grow, a, c
  <2>. QED BY <2>3, EvenSums
<1>5. e \in Extents /\ Proper(e) /\ Free(e) /\ e.terminal = t.terminal /\ End(e) = End(t)
  <2>. DEFINE b == t.base + grow
              w == t.words - grow
  <2>1. b \in Nat /\ w \in Nat /\ w > 0 /\ b + w = t.base + t.words /\ Proper(t)
    <3>. HIDE DEF grow
    <3>1. t.base \in Nat /\ t.words \in Nat
      BY <1>1 DEF Extents
    <3>. HIDE DEF t
    <3>2. t.words - grow > 0 /\ t.words - grow \in Nat
      BY <1>2, <1>4, <3>1, SMTT(30)
    <3>3. Proper(t)
      BY <1>1, <1>3 DEF t
    <3>. QED BY <1>4, <3>1, <3>2, <3>3
  <2>e. Even(w)
    <3>. DEFINE a == t.words
    <3>1. w = a - grow
      OBVIOUS
    <3>2. a \in Int /\ Even(a)
      <4>. HIDE DEF t
      <4>. QED BY <1>1, <2>1 DEF Extents, Proper
    <3>. HIDE DEF w, a, grow
    <3>. QED BY <1>4, <1>e, <3>1, <3>2, EvenSums
  <2>2. e = [t EXCEPT !.base = b, !.words = w]
    OBVIOUS
  <2>. HIDE DEF b, w, e, t
  <2>3. /\ e \in Extents /\ e.base = b /\ e.words = w /\ e.cookie = t.cookie /\ e.refs = t.refs
        /\ e.identity = t.identity /\ e.requested = t.requested /\ e.shared = t.shared
        /\ e.terminal = t.terminal
    BY <1>1, <2>1, <2>2 DEF Extents
  <2>. QED BY <1>2, <2>1, <2>3, <2>e DEF Proper, Free, End
<1>. HIDE DEF e, t, grow
<1>6. /\ u \in Seq(Extents) /\ Len(u) = m /\ \A i \in 1..m : u[i] = IF i = m THEN e ELSE s[i]
  BY <1>1, <1>5 DEF ReplaceAt
<1>t. t = s[m]
  BY DEF t
<1>. HIDE DEF u, m, s
<1>7. Sound(u, k = 0)
  <2>1. ASSUME NEW i \in 1..m PROVE Proper(u[i]) /\ (u[i].terminal <=> i = m)
    <3>1. CASE i = m
      <4>1. u[i] = e /\ s[m].terminal
        BY <1>1, <1>3, <1>6, <3>1
      <4>. QED BY <1>5, <1>t, <3>1, <4>1
    <3>2. CASE i # m
      <4>1. u[i] = s[i]
        BY <1>6, <3>2
      <4>. QED BY <1>3, <3>2, <4>1
    <3>. QED BY <3>1, <3>2
  <2>2. Free(u[m])
    BY <1>1, <1>5, <1>6
  <2>3. ASSUME NEW i \in 1..(m - 1) PROVE ~(Free(u[i]) /\ Free(u[i + 1]))
    <3>0. i \in 1..m /\ i # m /\ i + 1 \in 1..m
      BY <1>1
    <3>1. u[i] = s[i] /\ u[i + 1] = IF i + 1 = m THEN e ELSE s[i + 1]
      BY <1>6, <3>0
    <3>. QED BY <1>2, <1>3, <1>t, <3>1
  <2>4. ASSUME NEW i \in 1..m, NEW j \in 1..m, i < j PROVE End(u[j]) <= u[i].base
    <3>1. u[i] = s[i] /\ u[j] = IF j = m THEN e ELSE s[j]
      BY <1>1, <1>6, <2>4
    <3>. QED BY <1>3, <1>5, <1>t, <2>4, <3>1
  <2>5. (k = 0) = FALSE
    BY <1>2
  <2>. QED BY <1>6, <2>1, <2>2, <2>3, <2>4, <2>5 DEF Sound, SoundBut, Before
<1>8. Alloc(u) = Alloc(s)
  <2>1. \A i \in 1..m : (Free(u[i]) <=> Free(s[i])) /\ (~Free(u[i]) => u[i] = s[i])
    BY <1>2, <1>5, <1>6, <1>t
  <2>2. Len(u) = m /\ Len(s) = m
    BY <1>6 DEF m
  <2>. QED BY <2>1, <2>2 DEF Alloc
<1>9. AllSound' /\ \A l \in Kinds : pool'[l] = IF l = k THEN u ELSE pool[l]
  <2>1. TypeOK /\ Sound(u, k = 0) /\ pool' = [pool EXCEPT ![k] = u]
    BY <1>2, <1>7 DEF IInv
  <2>. HIDE DEF u
  <2>2. AllSound'
    BY <2>1, ListsSound
  <2>3. \A l \in Kinds : pool'[l] = IF l = k THEN u ELSE pool[l]
    BY <2>1 DEF TypeOK
  <2>. QED BY <2>2, <2>3
<1>10. \A l \in Kinds : Alloc(pool'[l]) = Alloc(pool[l])
  BY <1>8, <1>9 DEF s
<1>11. HoldInv'
  <2>1. \A h \in holds : h.kind \in Kinds
    BY DEF IInv, TypeOK, Holds
  <2>. QED BY <1>2, <1>10, <2>1 DEF HoldInv
<1>. QED BY <1>9, <1>10, <1>11

------------------------------------------------------------------------------
\* A batch that failed.

At(p, h) == [pool |-> p, holds |-> h]

\* Whatever a return of the lease may find in state b, it leads to state a.
Undone(a, lease, b) ==
  \A h \in b.holds : \A i \in DOMAIN b.pool[lease.kind] :
    LET e == b.pool[lease.kind][i] IN
    /\ h.cookie = lease.cookie
    /\ ~Free(e) /\ h.kind = lease.kind /\ e.base = h.base
    /\ e.base = lease.base /\ e.words = lease.words
    => a = At([b.pool EXCEPT ![lease.kind] = Returned(@, i)], b.holds \ {h})

\* A batch went through the states of `past`, from the one it found to the one
\* of now, and each lease it has takes it one state back.
Goes(past, got) ==
  /\ past[1] = At(call.pool, call.holds)
  /\ past[Len(got) + 1] = At(pool, holds)
  /\ \A m \in 1..Len(got) : Undone(past[m], got[m], past[m + 1])
TraceInv == call.op \in {"batch", "undo"} => \E past : Goes(past, call.got)

\* The lease that a grant adds takes the ledger back to where it was.
LEMMA GrantUndone ==
  ASSUME PoolAssumption, IInv, AllSound, HoldInv, NEW r \in Requests, Granted(r),
         NEW lease \in leases' \ leases
  PROVE  Undone(At(pool, holds), lease, At(pool', holds'))
<1>. DEFINE k == r.kind
            s == pool[k]
<1>1. k \in Kinds /\ TypeOK /\ ticket \in Nat
  BY RequestType DEF IInv, TypeOK
<1>2. PICK t, j : Grants(k, t, j) /\ Give(k, t[j]) /\ pool' = [pool EXCEPT ![k] = t]
  BY GrantedLists
<1>. DEFINE g == [cookie |-> ticket + 1, kind |-> k, base |-> t[j].base]
<1>3. /\ t \in Seq(Extents) /\ j \in 1..Len(t) /\ Sound(t, k = 0) /\ Returned(t, j) = s
      /\ DOMAIN t = 1..Len(t)
  BY <1>2 DEF Grants
<1>4. lease = Lease(k, t[j]) /\ holds' = holds \cup {g}
  BY <1>2 DEF Give
<1>5. lease.kind = k /\ lease.cookie = ticket + 1 /\ lease.base = t[j].base
  BY <1>4 DEF Lease
<1>6. \A h \in holds : h.cookie # ticket + 1
  BY <1>1 DEF HoldInv, TypeOK, Holds
<1>7. pool' \in [Kinds -> {pool'[l] : l \in Kinds}] /\ pool'[k] = t /\ pool = [pool' EXCEPT ![k] = s]
  BY <1>1, <1>2 DEF TypeOK
<1>. SUFFICES ASSUME NEW h \in holds', NEW i \in 1..Len(t),
                     h.cookie = lease.cookie, t[i].base = lease.base
              PROVE  holds = holds' \ {h} /\ pool = [pool' EXCEPT ![k] = Returned(@, i)]
  BY <1>3, <1>5, <1>7 DEF Undone, At
<1>8. h = g /\ g \notin holds
  BY <1>4, <1>5, <1>6
<1>9. i = j
  <2>. DEFINE up == k = 0
  <2>1. up \in BOOLEAN /\ SoundBut(t, up, {}) /\ t[i].base = t[j].base
    BY <1>3, <1>5 DEF Sound
  <2>. HIDE DEF up
  <2>. QED BY <1>3, <2>1, SoundBases
<1>10. holds = holds' \ {h}
  BY <1>4, <1>8
<1>11. Returned(pool'[k], i) = s
  BY <1>3, <1>7, <1>9
<1>. QED BY <1>7, <1>10, <1>11

LEMMA BatchGoesOn ==
  ASSUME PoolAssumption, IInv, AllSound, HoldInv, TraceInv, NEW r \in Requests, BatchReserves(r)
  PROVE  TraceInv'
<1>. DEFINE got == call.got
            n == Len(got)
<1>1. got \in Seq(Leases) /\ n \in Nat /\ Granted(r) /\ call.op = "batch"
  BY DEF BatchReserves, IInv, TypeOK
<1>2. PICK lease \in leases' \ leases :
        call' = Batch(call.todo - 1, Append(got, lease), call.pool, call.holds)
  BY DEF BatchReserves
<1>3. PICK past : Goes(past, got)
  BY <1>1 DEF TraceInv
<1>. DEFINE old == At(pool, holds)
            new == At(pool', holds')
            next == [m \in 1..(n + 2) |-> IF m <= n + 1 THEN past[m] ELSE new]
            gots == Append(got, lease)
<1>4. /\ past[1] = At(call.pool, call.holds) /\ past[n + 1] = old
      /\ \A m \in 1..n : Undone(past[m], got[m], past[m + 1])
  BY <1>3 DEF Goes
<1>5. Undone(old, lease, new)
  BY <1>1, GrantUndone
<1>6. Len(gots) = n + 1 /\ \A m \in 1..(n + 1) : gots[m] = IF m <= n THEN got[m] ELSE lease
  <2>. HIDE DEF got
  <2>1. got \in Seq(leases' \cup Leases) /\ lease \in leases' \cup Leases
    BY <1>1, SeqMonotonic
  <2>. HIDE DEF n
  <2>2. n = Len(got)
    BY DEF n
  <2>3. Len(gots) = Len(got) + 1
        /\ \A m \in 1..(Len(got) + 1) : gots[m] = IF m <= Len(got) THEN got[m] ELSE lease
    <3>1. Len(gots) = Len(got) + 1 /\ gots[Len(got) + 1] = lease
          /\ \A m \in 1..Len(got) : gots[m] = got[m]
      BY <2>1, AppendProperties
    <3>. QED BY <1>1, <2>2, <3>1
  <2>. QED BY <2>2, <2>3
<1>7. call'.pool = call.pool /\ call'.holds = call.holds /\ call'.got = gots
  BY <1>2 DEF Batch
<1>. HIDE DEF gots, old, new, got, n
<1>8. /\ \A m \in 1..(n + 1) : next[m] = past[m]
      /\ next[n + 2] = new
  BY <1>1
<1>9. next[1] = At(call'.pool, call'.holds)
  BY <1>1, <1>4, <1>7, <1>8
<1>10. next[Len(gots) + 1] = new
  <2>1. Len(gots) + 1 = n + 2
    BY <1>1, <1>6
  <2>. QED BY <1>8, <2>1
<1>. HIDE DEF next
<1>q. PICK q : q = next
  OBVIOUS
<1>11. ASSUME NEW m \in 1..Len(gots) PROVE Undone(next[m], gots[m], next[m + 1])
  <2>1. CASE m <= n
    <3>1. m \in 1..n /\ m + 1 \in 1..(n + 1) /\ m \in 1..(n + 1)
      BY <1>1, <1>6, <2>1
    <3>2. next[m] = past[m] /\ next[m + 1] = past[m + 1] /\ gots[m] = got[m]
      BY <1>6, <1>8, <2>1, <3>1
    <3>. QED BY <1>4, <3>1, <3>2
  <2>2. CASE m = n + 1
    <3>1. m \in 1..(n + 1) /\ ~(m <= n) /\ m + 1 = n + 2
      BY <1>1, <2>2
    <3>2. next[m] = old /\ next[m + 1] = new /\ gots[m] = lease
      BY <1>4, <1>6, <1>8, <2>2, <3>1
    <3>. QED BY <1>5, <3>2
  <2>. QED BY <1>1, <1>6, <2>1, <2>2
<1>12. Goes(q, call.got)'
  BY <1>7, <1>9, <1>10, <1>11, <1>q DEF Goes, new, At
<1>. QED BY <1>12 DEF TraceInv

LEMMA BatchGoesBack ==
  ASSUME IInv, TraceInv, BatchUndoes PROVE TraceInv'
<1>. DEFINE got == call.got
            n == Len(got)
            lease == Last(got)
<1>1. got \in Seq(Leases) /\ got # <<>> /\ n \in Nat /\ n >= 1 /\ call.op = "undo"
  BY EmptySeq DEF BatchUndoes, IInv, TypeOK
<1>2. Released(lease) /\ call' = Undo(Front(got), call.pool, call.holds)
  BY DEF BatchUndoes
<1>3. PICK past : Goes(past, got)
  BY <1>1 DEF TraceInv
<1>4. /\ past[1] = At(call.pool, call.holds) /\ past[n + 1] = At(pool, holds)
      /\ \A m \in 1..n : Undone(past[m], got[m], past[m + 1])
  BY <1>3 DEF Goes
<1>5. lease = got[n] /\ n \in 1..n /\ lease.kind \in Kinds
  <2>1. lease = got[n] /\ n \in 1..n
    BY <1>1 DEF Last
  <2>. HIDE DEF got
  <2>2. got[n] \in Leases
    BY <1>1, <2>1
  <2>. QED BY <2>1, <2>2 DEF Leases
<1>6. Undone(past[n], lease, At(pool, holds))
  <2>1. Undone(past[n], got[n], past[n + 1])
    BY <1>4, <1>5
  <2>. QED BY <1>4, <1>5, <2>1
<1>. HIDE DEF lease
<1>7. PICK h \in holds, i \in Positions(lease.kind) :
        Matches(lease, h, i) /\ holds' = holds \ {h} /\ GiveBack(lease.kind, i)
  BY <1>2 DEF Released
<1>8. pool' = [pool EXCEPT ![lease.kind] = Returned(@, i)]
  BY <1>7 DEF GiveBack, Returned
<1>9. past[n] = At(pool', holds')
  BY <1>6, <1>7, <1>8 DEF Undone, At, Matches, Positions
<1>. DEFINE front == Front(got)
<1>10. Len(front) = n - 1 /\ \A m \in 1..(n - 1) : front[m] = got[m]
  <2>. HIDE DEF got
  <2>1. front = SubSeq(got, 1, Len(got) - 1)
    BY DEF Front
  <2>2. n = Len(got) /\ got \in Seq(Leases)
    BY <1>1
  <2>. HIDE DEF front, n
  <2>. QED BY <1>1, <2>1, <2>2, SubSeqProperties
<1>11. call'.pool = call.pool /\ call'.holds = call.holds /\ call'.got = front
  BY <1>2 DEF Undo
<1>. HIDE DEF front, got, n
<1>12. Len(front) + 1 = n
  BY <1>1, <1>10
<1>13. ASSUME NEW m \in 1..Len(front) PROVE Undone(past[m], front[m], past[m + 1])
  <2>1. m \in 1..(n - 1)
    BY <1>10
  <2>2. m \in 1..n
    BY <1>1, <2>1
  <2>3. front[m] = got[m] /\ Undone(past[m], got[m], past[m + 1])
    BY <1>4, <1>10, <2>1, <2>2
  <2>. QED BY <2>3
<1>14. Goes(past, call.got)'
  BY <1>4, <1>9, <1>11, <1>12, <1>13 DEF Goes, At
<1>. QED BY <1>14 DEF TraceInv

LEMMA BatchStarts ==
  ASSUME NEW n, BatchBegins(n) PROVE TraceInv'
<1>1. UNCHANGED <<pool, holds>> /\ call' = Batch(n, <<>>, pool, holds)
  BY DEF BatchBegins
<1>2. call'.pool = pool /\ call'.holds = holds /\ call'.got = <<>> /\ Len(<<>>) = 0
  BY <1>1 DEF Batch
<1>3. PICK past : past = [m \in 1..1 |-> At(pool, holds)]
  OBVIOUS
<1>4. past[1] = At(pool, holds)
  BY <1>3
<1>5. Goes(past, call.got)'
  BY <1>1, <1>2, <1>4 DEF Goes, At
<1>. QED BY <1>5 DEF TraceInv

------------------------------------------------------------------------------
\* The whole of it.

FullInv == IInv /\ AllSound /\ HoldInv /\ TraceInv /\ ScratchEven

LEMMA FullInit == ASSUME PoolAssumption, Init PROVE FullInv
<1>1. ASSUME NEW k \in Kinds PROVE Sound(pool[k], k = 0) /\ Alloc(pool[k]) = {}
  <2>. DEFINE e == WholePool(k)
              s == <<e>>
  <2>1. Proper(e) /\ e.terminal /\ Free(e)
    <3>. DEFINE w == Words(k) - ScratchMin(k)
    <3>1. w > 0 /\ Words(k) \in Int /\ ScratchMin(k) \in Int
      BY GeometryType
    <3>2. Even(w)
      BY <3>1, EvenMin, EvenSums
    <3>. QED BY <3>1, <3>2 DEF WholePool, Proper, Free
  <2>2. Len(s) = 1 /\ s[1] = e /\ pool[k] = s
    BY DEF Init
  <2>. HIDE DEF s, e
  <2>3. \A i \in 1..Len(s) : i = 1
    BY <2>2
  <2>4. Sound(s, k = 0)
    BY <2>1, <2>2, <2>3 DEF Sound, SoundBut
  <2>5. Alloc(s) = {}
    BY <2>1, <2>2, <2>3 DEF Alloc
  <2>. QED BY <2>2, <2>4, <2>5
<1>2. AllSound
  BY <1>1 DEF AllSound
<1>3. HoldInv
  BY <1>1, FS_EmptySet DEF HoldInv, Init
<1>4. TraceInv
  BY DEF TraceInv, Init, Idle
<1>5. ScratchEven
  BY EvenMin DEF Init, ScratchEven
<1>. QED BY <1>2, <1>3, <1>4, <1>5, InitStep DEF FullInv

\* A step that leaves lists and holds alone.
LEMMA HoldsUnchanged ==
  ASSUME IInv, AllSound, HoldInv, UNCHANGED <<pool, holds>>, ticket' \in Nat, ticket' >= ticket
  PROVE  AllSound' /\ HoldInv'
<1>1. AllSound'
  BY DEF AllSound
<1>2. \A h \in holds : h.cookie <= ticket'
  <2>1. \A h \in holds : h.cookie \in Nat /\ h.cookie <= ticket
    BY DEF HoldInv, IInv, TypeOK, Holds
  <2>2. ticket \in Nat
    BY DEF IInv, TypeOK
  <2>. QED BY <2>1, <2>2
<1>. QED BY <1>1, <1>2 DEF HoldInv

LEMMA FullStep == ASSUME PoolAssumption, FullInv, [Next]_vars PROVE FullInv'
<1>0. IInv /\ AllSound /\ HoldInv /\ TraceInv /\ ScratchEven /\ ticket \in Nat
  BY DEF FullInv, IInv, TypeOK
<1>i. IInv'
  BY <1>0, NextStep
<1>s. ScratchEven'
  BY <1>0, ScratchStep
<1>h. holds' \subseteq Holds
  BY <1>i DEF IInv, TypeOK
<1>1. CASE UNCHANGED vars
  <2>1. AllSound' /\ HoldInv'
    BY <1>0, <1>1, HoldsUnchanged DEF vars
  <2>2. TraceInv'
    BY <1>0, <1>1 DEF TraceInv, Goes, vars
  <2>. QED BY <1>i, <1>s, <2>1, <2>2 DEF FullInv
<1>r. ASSUME NEW r \in Requests, Refused(r) PROVE AllSound' /\ HoldInv'
  <2>1. UNCHANGED <<pool, holds>> /\ ticket' \in Nat /\ ticket' >= ticket
    BY <1>0, <1>r DEF Refused
  <2>. QED BY <1>0, <2>1, HoldsUnchanged
<1>2. ASSUME NEW r \in Requests, Reserve(r) PROVE FullInv'
  <2>1. AllSound' /\ HoldInv'
    <3>1. Granted(r) => AllSound' /\ HoldInv'
      BY <1>0, <1>h, GrantKeepsHolds
    <3>. QED BY <1>2, <1>r, <3>1 DEF Reserve
  <2>2. TraceInv'
    BY <1>2 DEF Reserve, Enter, TraceInv, Idle
  <2>. QED BY <1>i, <1>s, <2>1, <2>2 DEF FullInv
<1>3. ASSUME NEW r \in Requests, BatchReserves(r) PROVE FullInv'
  <2>1. AllSound' /\ HoldInv'
    BY <1>0, <1>3, <1>h, GrantKeepsHolds DEF BatchReserves
  <2>2. TraceInv'
    BY <1>0, <1>3, BatchGoesOn
  <2>. QED BY <1>i, <1>s, <2>1, <2>2 DEF FullInv
<1>4. ASSUME NEW r \in Requests, BatchFails(r) PROVE FullInv'
  <2>1. AllSound' /\ HoldInv'
    BY <1>4, <1>r DEF BatchFails
  <2>2. UNCHANGED <<pool, holds>> /\ call.op = "batch" /\ call' = Undo(call.got, call.pool, call.holds)
    BY <1>4 DEF BatchFails, Refused
  <2>3. call'.pool = call.pool /\ call'.holds = call.holds /\ call'.got = call.got
    BY <2>2 DEF Undo
  <2>4. PICK past : Goes(past, call.got)
    BY <1>0, <2>2 DEF TraceInv
  <2>5. Goes(past, call.got)'
    BY <2>2, <2>3, <2>4 DEF Goes
  <2>. QED BY <1>i, <1>s, <2>1, <2>5 DEF FullInv, TraceInv
<1>5. ASSUME NEW lease \in leases, Release(lease) PROVE FullInv'
  <2>1. lease \in Leases
    BY <1>0 DEF IInv, TypeOK
  <2>2. AllSound' /\ HoldInv'
    BY <1>0, <1>5, <2>1, ReleaseKeepsHolds DEF Release
  <2>3. TraceInv'
    BY <1>5 DEF Release, Enter, TraceInv, Idle
  <2>. QED BY <1>i, <1>s, <2>2, <2>3 DEF FullInv
<1>6. ASSUME NEW k \in Kinds, NEW n \in Scratches, SetScratch(k, n) PROVE FullInv'
  <2>1. AllSound' /\ HoldInv'
    BY <1>0, <1>6, ScratchKeepsHolds
  <2>2. TraceInv'
    BY <1>6 DEF SetScratch, Enter, TraceInv, Idle
  <2>. QED BY <1>i, <1>s, <2>1, <2>2 DEF FullInv
<1>7. CASE Invalidate
  <2>1. AllSound' /\ HoldInv'
    BY <1>0, <1>7, HoldsUnchanged DEF Invalidate
  <2>2. TraceInv'
    BY <1>7 DEF Invalidate, Enter, TraceInv, Idle
  <2>. QED BY <1>i, <1>s, <2>1, <2>2 DEF FullInv
<1>8. ASSUME NEW n \in 1..MaxBatch, BatchBegins(n) PROVE FullInv'
  <2>1. AllSound' /\ HoldInv'
    BY <1>0, <1>8, HoldsUnchanged DEF BatchBegins
  <2>. QED BY <1>i, <1>s, <1>8, <2>1, BatchStarts DEF FullInv
<1>9. CASE BatchUndoes
  <2>1. Released(Last(call.got)) /\ Last(call.got) \in Leases
    <3>. DEFINE got == call.got
    <3>1. got \in Seq(Leases) /\ got # <<>>
      BY <1>0, <1>9 DEF BatchUndoes, IInv, TypeOK
    <3>. HIDE DEF got
    <3>2. Len(got) \in 1..Len(got)
      BY <3>1, EmptySeq
    <3>3. Last(got) \in Leases
      BY <3>1, <3>2 DEF Last
    <3>. QED BY <1>9, <3>3 DEF BatchUndoes, got
  <2>2. AllSound' /\ HoldInv'
    BY <1>0, <2>1, ReleaseKeepsHolds
  <2>3. TraceInv'
    BY <1>0, <1>9, BatchGoesBack
  <2>. QED BY <1>i, <1>s, <2>2, <2>3 DEF FullInv
<1>10. CASE BatchReturns
  <2>1. AllSound' /\ HoldInv'
    BY <1>0, <1>10, HoldsUnchanged DEF BatchReturns
  <2>2. TraceInv'
    BY <1>10 DEF BatchReturns, TraceInv, Idle
  <2>. QED BY <1>i, <1>s, <2>1, <2>2 DEF FullInv
<1>. QED BY <1>1, <1>2, <1>3, <1>4, <1>5, <1>6, <1>7, <1>8, <1>9, <1>10 DEF Next

LEMMA FullHolds == Spec => []FullInv
<1>1. Init => FullInv
  BY FullInit, PoolAssumption
<1>2. FullInv /\ [Next]_vars => FullInv'
  BY FullStep, PoolAssumption
<1>. QED BY <1>1, <1>2, PTL DEF Spec

\* However leases are taken and given back, the free words of a pool are never
\* left in two neighbouring extents, no extent is empty, and the last extent of
\* a list is the terminal one, free and with words to spare, which reserving
\* and the scratch area rely on.
THEOREM PoolMerged == Spec => []Merged
<1>1. FullInv => Merged
  BY HoldsAreRefs DEF FullInv, IInv
<1>. QED BY <1>1, FullHolds, PTL

\* An extent is freed with the last of its holds and not before: its reference
\* count is the number of its holds, every hold has its extent, and a ticket
\* names one hold.
THEOREM ReferencesCounted == Spec => []RefsAreHolds
<1>1. FullInv => RefsAreHolds
  BY HoldsAreRefs DEF FullInv, IInv
<1>. QED BY <1>1, FullHolds, PTL

\* A batch that fails part way, at whichever of its requests, leaves the lists
\* and the holds exactly as it found them: each return undoes its grant, list
\* for list, the merges of the return against the splits of the grant.
THEOREM BatchesAtomic == Spec => []AllOrNothing
<1>1. FullInv => AllOrNothing
  <2>. SUFFICES ASSUME FullInv, call.op = "undo", call.got = <<>>
                PROVE  pool = call.pool /\ holds = call.holds
    BY DEF AllOrNothing
  <2>1. PICK past : Goes(past, call.got)
    BY DEF FullInv, TraceInv
  <2>2. Len(call.got) + 1 = 1
    OBVIOUS
  <2>3. At(pool, holds) = At(call.pool, call.holds)
    BY <2>1, <2>2 DEF Goes
  <2>. QED BY <2>3 DEF At
<1>. QED BY <1>1, FullHolds, PTL

------------------------------------------------------------------------------
\* What the ledger promises.

View(k, e) ==
  [kind |-> k, words |-> e.base..(End(e) - 1), identity |-> e.identity, shared |-> e.shared]

\* Owned, without its choices.
OwnedShape ==
  /\ Owned = [c \in {h.cookie : h \in holds} |-> Owned[c]]
  /\ \A h \in holds : \A e \in Alloc(pool[h.kind]) :
       e.base = h.base => Owned[h.cookie] = View(h.kind, e)

LEMMA OwnedIs == ASSUME FullInv PROVE OwnedShape
<1>1. \A h \in holds : h.kind \in Kinds
  BY DEF FullInv, IInv, TypeOK, Holds
<1>2. ASSUME NEW h \in holds, NEW e \in Alloc(pool[h.kind]), e.base = h.base
      PROVE  Owned[h.cookie] = View(h.kind, e)
  <2>. DEFINE k == h.kind
              s == pool[k]
              up == k = 0
  <2>1. s \in Seq(Extents) /\ Positions(k) = 1..Len(s) /\ SoundBut(s, up, {}) /\ up \in BOOLEAN
    BY <1>1, ListOf, Zenon DEF FullInv, IInv, AllSound, Sound
  <2>. HIDE DEF up, s
  <2>2. \A i, j \in 1..Len(s) : s[i].base = s[j].base => i = j
    BY <2>1, SoundBases
  <2>3. e \in {s[i] : i \in 1..Len(s)}
    BY DEF Alloc, s
  <2>4. \A f \in {s[i] : i \in 1..Len(s)} : f.base = h.base => f = e
    BY <1>2, <2>2, <2>3
  <2>5. ExtentAt(k, h.base) = e
    BY <1>2, <2>1, <2>3, <2>4 DEF ExtentAt, s
  <2>6. (CHOOSE g \in holds : g.cookie = h.cookie) = h
    BY DEF FullInv, HoldInv
  <2>7. Owned[h.cookie] = Held(h)
    BY <2>6 DEF Owned
  <2>. QED BY <2>5, <2>7 DEF Held, View
<1>3. Owned = [c \in {h.cookie : h \in holds} |-> Owned[c]]
  BY DEF Owned
<1>. QED BY <1>2, <1>3 DEF OwnedShape

\* An extent that lies between the ends of a pool.
LEMMA BetweenEnds ==
  ASSUME NEW e \in Extents, NEW f \in Extents, NEW g \in Extents, NEW up \in BOOLEAN,
         NEW lo \in Nat, NEW hi \in Nat, Starts(up, e, lo, hi), Stops(up, g, lo, hi),
         e = f \/ Before(up, e, f), f = g \/ Before(up, f, g)
  PROVE  lo <= f.base /\ End(f) <= hi
<1>1. /\ e.base \in Nat /\ e.words \in Nat /\ f.base \in Nat /\ f.words \in Nat
      /\ g.base \in Nat /\ g.words \in Nat
  BY DEF Extents
<1>2. CASE up
  BY <1>1, <1>2 DEF Starts, Stops, Before, End
<1>3. CASE ~up
  BY <1>1, <1>3 DEF Starts, Stops, Before, End
<1>. QED BY <1>2, <1>3

\* Every extent of a list lies between the ends of its pool, and apart from the
\* other extents.
LEMMA SoundWords ==
  ASSUME NEW s \in Seq(Extents), Len(s) >= 1, NEW up \in BOOLEAN, NEW lo \in Nat, NEW hi \in Nat,
         Sound(s, up), Tiles(s, up, lo, hi)
  PROVE  /\ \A i \in 1..Len(s) : lo <= s[i].base /\ End(s[i]) <= hi /\ s[i].words > 0
         /\ \A i, j \in 1..Len(s) : i # j => End(s[i]) <= s[j].base \/ End(s[j]) <= s[i].base
<1>. DEFINE n == Len(s)
<1>0. n \in Nat /\ n >= 1 /\ 1 \in 1..n /\ n \in 1..n
  OBVIOUS
<1>1. \A i \in 1..n : s[i].base \in Nat /\ s[i].words \in Nat /\ s[i].words > 0
  <2>1. \A i \in 1..n : s[i] \in Extents
    OBVIOUS
  <2>. QED BY <2>1 DEF Extents, Sound, SoundBut, Proper
<1>2. \A i, j \in 1..n : i < j => Before(up, s[i], s[j])
  BY DEF Sound, SoundBut
<1>3. Starts(up, s[1], lo, hi) /\ Stops(up, s[n], lo, hi)
  BY DEF Tiles
<1>. HIDE DEF n
<1>4. ASSUME NEW i \in 1..n PROVE lo <= s[i].base /\ End(s[i]) <= hi
  <2>1. s[1] \in Extents /\ s[i] \in Extents /\ s[n] \in Extents
    BY <1>0 DEF n
  <2>2. (s[1] = s[i] \/ Before(up, s[1], s[i])) /\ (s[i] = s[n] \/ Before(up, s[i], s[n]))
    <3>1. (i = 1 \/ Before(up, s[1], s[i])) /\ (i = n \/ Before(up, s[i], s[n]))
      BY <1>0, <1>2
    <3>. QED BY <3>1
  <2>. QED BY <1>3, <2>1, <2>2, BetweenEnds
<1>5. ASSUME NEW i \in 1..n, NEW j \in 1..n, i # j
      PROVE  End(s[i]) <= s[j].base \/ End(s[j]) <= s[i].base
  <2>1. Before(up, s[i], s[j]) \/ Before(up, s[j], s[i])
    BY <1>0, <1>2, <1>5
  <2>. QED BY <2>1 DEF Before
<1>. QED BY <1>1, <1>4, <1>5 DEF n

\* The same of the allocated extents of a pool.
AllocApart ==
  \A k \in Kinds :
    /\ \A e \in Alloc(pool[k]) :
         /\ e \in Extents /\ e.base \in Nat /\ e.words \in Nat /\ e.words > 0
         /\ Bottom(k) <= e.base /\ End(e) <= Limit(k)
    /\ \A e, f \in Alloc(pool[k]) :
         e = f \/ End(e) <= f.base \/ End(f) <= e.base
    /\ Base(k) <= Bottom(k) /\ Bottom(k) <= Limit(k)
    /\ Base(k) \in Nat /\ Bottom(k) \in Nat /\ Limit(k) \in Nat

LEMMA WordsApart == ASSUME PoolAssumption, FullInv PROVE AllocApart
<1>. SUFFICES ASSUME NEW k \in Kinds
     PROVE /\ \A e \in Alloc(pool[k]) :
                /\ e \in Extents /\ e.base \in Nat /\ e.words \in Nat /\ e.words > 0
                /\ Bottom(k) <= e.base /\ End(e) <= Limit(k)
           /\ \A e, f \in Alloc(pool[k]) : e = f \/ End(e) <= f.base \/ End(f) <= e.base
           /\ Base(k) <= Bottom(k) /\ Bottom(k) <= Limit(k)
           /\ Base(k) \in Nat /\ Bottom(k) \in Nat /\ Limit(k) \in Nat
  BY DEF AllocApart
<1>. DEFINE s == pool[k]
            up == k = 0
            lo == Bottom(k)
            hi == Limit(k)
<1>1. s \in Seq(Extents) /\ Len(s) >= 1 /\ Tiles(s, up, lo, hi) /\ up \in BOOLEAN /\ Sound(s, up)
      /\ Len(s) \in Nat
  BY ListOf, Zenon DEF FullInv, IInv, AllSound
<1>2. Base(k) \in Nat /\ lo \in Nat /\ hi \in Nat /\ Base(k) <= lo
  <2>1. scratch[k] \in Nat
    BY DEF FullInv, IInv, TypeOK
  <2>. QED BY <2>1, GeometryType DEF Bottom, Limit
<1>. HIDE DEF s, up, lo, hi
<1>3. /\ \A i \in 1..Len(s) : lo <= s[i].base /\ End(s[i]) <= hi /\ s[i].words > 0
      /\ \A i, j \in 1..Len(s) : i # j => End(s[i]) <= s[j].base \/ End(s[j]) <= s[i].base
  BY <1>1, <1>2, SoundWords
<1>4. \A i \in 1..Len(s) : s[i] \in Extents /\ s[i].base \in Nat /\ s[i].words \in Nat
  <2>1. \A i \in 1..Len(s) : s[i] \in Extents
    BY <1>1
  <2>. QED BY <2>1 DEF Extents
<1>5. lo <= hi
  <2>1. 1 \in 1..Len(s)
    BY <1>1
  <2>2. lo <= s[1].base /\ End(s[1]) <= hi /\ s[1].base \in Nat /\ s[1].words \in Nat
    BY <1>3, <1>4, <2>1
  <2>. QED BY <1>2, <2>2 DEF End
<1>6. \A e \in Alloc(s) : \E i \in 1..Len(s) : e = s[i]
  BY DEF Alloc
<1>7. \A e \in Alloc(s) : /\ e \in Extents /\ e.base \in Nat /\ e.words \in Nat /\ e.words > 0
                          /\ lo <= e.base /\ End(e) <= hi
  BY <1>3, <1>4, <1>6
<1>8. \A e, f \in Alloc(s) : e = f \/ End(e) <= f.base \/ End(f) <= e.base
  BY <1>3, <1>6
<1>. QED BY <1>2, <1>5, <1>7, <1>8 DEF s, lo, hi

\* What a step leaves of an extent, every holder still has.
LEMMA OwnedKept ==
  ASSUME HoldInv, OwnedShape, OwnedShape',
         NEW h \in holds, h \in holds',
         \A e \in Alloc(pool[h.kind]) : e.base = h.base =>
           \E f \in Alloc(pool'[h.kind]) : f.base = h.base /\ View(h.kind, f) = View(h.kind, e)
  PROVE  Owned'[h.cookie] = Owned[h.cookie]
<1>1. PICK e \in Alloc(pool[h.kind]) : e.base = h.base
  BY DEF HoldInv
<1>2. PICK f \in Alloc(pool'[h.kind]) : f.base = h.base /\ View(h.kind, f) = View(h.kind, e)
  BY <1>1
<1>3. Owned[h.cookie] = View(h.kind, e)
  BY <1>1 DEF OwnedShape
<1>4. Owned'[h.cookie] = View(h.kind, f)
  BY <1>2 DEF OwnedShape
<1>. QED BY <1>2, <1>3, <1>4

\* The same extents and the same holds: the same is owned.
LEMMA OwnedUnchanged ==
  ASSUME FullInv, OwnedShape, OwnedShape', holds' = holds,
         \A k \in Kinds : Alloc(pool'[k]) = Alloc(pool[k])
  PROVE  Owned' = Owned
<1>1. \A h \in holds : h.kind \in Kinds
  BY DEF FullInv, IInv, TypeOK, Holds
<1>2. \A h \in holds : Owned'[h.cookie] = Owned[h.cookie]
  BY <1>1, OwnedKept DEF FullInv
<1>3. /\ Owned = [c \in {h.cookie : h \in holds} |-> Owned[c]]
      /\ Owned' = [c \in {h.cookie : h \in holds} |-> Owned'[c]]
  BY DEF OwnedShape
<1>. HIDE DEF Owned
<1>4. \A c \in {h.cookie : h \in holds} : Owned'[c] = Owned[c]
  BY <1>2
<1>5. [c \in {h.cookie : h \in holds} |-> Owned'[c]] = [c \in {h.cookie : h \in holds} |-> Owned[c]]
  BY <1>4
<1>. QED BY <1>3, <1>5

\* A hold more.
LEMMA OwnedMore ==
  ASSUME FullInv, OwnedShape, OwnedShape', NEW h, h.cookie = ticket + 1, holds' = holds \cup {h},
         \A g \in holds : Owned'[g.cookie] = Owned[g.cookie],
         ticket' = ticket + 1, scratch' = scratch
  PROVE  Ledger!Issue(Owned'[ticket + 1])
<1>1. /\ Owned = [c \in {g.cookie : g \in holds} |-> Owned[c]]
      /\ Owned' = [c \in {g.cookie : g \in holds'} |-> Owned'[c]]
  BY DEF OwnedShape
<1>. HIDE DEF Owned
<1>2. DOMAIN Owned = {g.cookie : g \in holds}
  BY <1>1
<1>3. {g.cookie : g \in holds'} = DOMAIN Owned \cup {ticket + 1}
  BY <1>2
<1>4. \A c \in DOMAIN Owned : c # ticket + 1 /\ Owned'[c] = Owned[c]
  <2>1. ticket \in Nat /\ \A g \in holds : g.cookie \in Nat /\ g.cookie <= ticket
    BY DEF FullInv, IInv, TypeOK, Holds, HoldInv
  <2>. QED BY <1>2, <2>1
<1>5. Owned' = [c \in DOMAIN Owned \cup {ticket + 1} |->
                  IF c = ticket + 1 THEN Owned'[ticket + 1] ELSE Owned[c]]
  <2>1. Owned' = [c \in DOMAIN Owned \cup {ticket + 1} |-> Owned'[c]]
    BY <1>1, <1>3
  <2>2. \A c \in DOMAIN Owned \cup {ticket + 1} :
          Owned'[c] = IF c = ticket + 1 THEN Owned'[ticket + 1] ELSE Owned[c]
    BY <1>4
  <2>3. [c \in DOMAIN Owned \cup {ticket + 1} |-> Owned'[c]]
          = [c \in DOMAIN Owned \cup {ticket + 1} |->
               IF c = ticket + 1 THEN Owned'[ticket + 1] ELSE Owned[c]]
    BY <2>2
  <2>. QED BY <2>1, <2>3
<1>6. [k \in Kinds |-> Bottom(k)]' = [k \in Kinds |-> Bottom(k)]
  BY DEF Bottom
<1>. QED BY <1>5, <1>6 DEF Ledger!Issue, Ledger!Tickets

LEMMA OwnedLess ==
  ASSUME FullInv, OwnedShape, OwnedShape', NEW h \in holds, holds' = holds \ {h},
         \A g \in holds' : Owned'[g.cookie] = Owned[g.cookie],
         ticket' = ticket, scratch' = scratch
  PROVE  Ledger!Return
<1>1. /\ Owned = [c \in {g.cookie : g \in holds} |-> Owned[c]]
      /\ Owned' = [c \in {g.cookie : g \in holds'} |-> Owned'[c]]
  BY DEF OwnedShape
<1>. HIDE DEF Owned
<1>2. DOMAIN Owned = {g.cookie : g \in holds}
  BY <1>1
<1>3. {g.cookie : g \in holds'} = DOMAIN Owned \ {h.cookie}
  BY <1>2 DEF FullInv, HoldInv
<1>4. \A c \in DOMAIN Owned \ {h.cookie} : Owned'[c] = Owned[c]
  BY <1>3
<1>5. Owned' = [c \in DOMAIN Owned \ {h.cookie} |-> Owned[c]]
  BY <1>1, <1>3, <1>4
<1>6. [k \in Kinds |-> Bottom(k)]' = [k \in Kinds |-> Bottom(k)]
  BY DEF Bottom
<1>7. h.cookie \in DOMAIN Owned
  BY <1>2
<1>. QED BY <1>5, <1>6, <1>7 DEF Ledger!Return, Ledger!Tickets

\* The words that are taken are those of allocated extents.
LEMMA TakenWords ==
  ASSUME FullInv, OwnedShape, NEW k \in Kinds, NEW w \in Ledger!Taken(k)
  PROVE  \E e \in Alloc(pool[k]) : w \in e.base..(End(e) - 1)
<1>1. PICK c \in DOMAIN Owned : Owned[c].kind = k /\ w \in Owned[c].words
  BY DEF Ledger!Taken, Ledger!Tickets
<1>2. PICK h \in holds : h.cookie = c
  <2>1. Owned = [d \in {h.cookie : h \in holds} |-> Owned[d]]
    BY DEF OwnedShape
  <2>. HIDE DEF Owned
  <2>2. DOMAIN Owned = {h.cookie : h \in holds}
    BY <2>1
  <2>. QED BY <2>2
<1>3. PICK e \in Alloc(pool[h.kind]) : e.base = h.base
  BY DEF FullInv, HoldInv
<1>4. Owned[c] = View(h.kind, e)
  BY <1>2, <1>3 DEF OwnedShape
<1>5. View(h.kind, e).kind = h.kind /\ View(h.kind, e).words = e.base..(End(e) - 1)
  BY DEF View
<1>. QED BY <1>1, <1>3, <1>4, <1>5

LEMMA GrantPromised ==
  ASSUME PoolAssumption, FullInv, OwnedShape, FullInv', OwnedShape', AllocApart',
         NEW r \in Requests, Granted(r), scratch' = scratch
  PROVE  Ledger!Grant \/ Ledger!Join
<1>. DEFINE k == r.kind
            s == pool[k]
<1>1. k \in Kinds /\ TypeOK /\ ticket \in Nat /\ IInv /\ AllSound /\ HoldInv
  BY RequestType DEF FullInv, IInv, TypeOK
<1>2. PICK t, j : Grants(k, t, j) /\ Give(k, t[j]) /\ pool' = [pool EXCEPT ![k] = t]
  BY <1>1, GrantedLists
<1>. DEFINE x == t[j]
            b == x.base
            h == [cookie |-> ticket + 1, kind |-> k, base |-> b]
<1>3. \A l \in Kinds : pool'[l] = IF l = k THEN t ELSE pool[l]
  BY <1>1, <1>2 DEF TypeOK
<1>4. holds' = holds \cup {h} /\ ticket' = ticket + 1
  BY <1>2 DEF Give
<1>. HIDE DEF h
<1>h. h.kind = k /\ h.base = b /\ h.cookie = ticket + 1
  BY DEF h
<1>k. \A g \in holds : g.kind \in Kinds
  BY <1>1 DEF TypeOK, Holds
<1>s. s \in Seq(Extents)
  BY <1>1 DEF TypeOK
<1>5. CASE /\ x.refs = 1 /\ Alloc(t) = Alloc(s) \cup {x}
           /\ \A e \in Alloc(s) : e.base # b
  <2>1. ASSUME NEW g \in holds PROVE Owned'[g.cookie] = Owned[g.cookie]
    <3>1. \A e \in Alloc(pool[g.kind]) : e \in Alloc(pool'[g.kind])
      BY <1>3, <1>5, <1>k
    <3>. QED BY <1>1, <1>4, <3>1, OwnedKept
  <2>2. Owned'[ticket + 1] = View(k, x)
    BY <1>1, <1>3, <1>4, <1>5, <1>h DEF OwnedShape
  <2>3. Ledger!Issue(Owned'[ticket + 1])
    BY <1>4, <1>h, <2>1, OwnedMore
  <2>4. Ledger!Available(View(k, x))
    <3>. DEFINE first == b
                last  == End(x) - 1
                lo == Bottom(k)
                hi == Limit(k)
    <3>1. /\ x.base \in Nat /\ x.words \in Nat /\ x.words > 0 /\ Bottom(k)' <= x.base /\ End(x) <= Limit(k)
          /\ \A e \in Alloc(t) : e = x \/ End(e) <= x.base \/ End(x) <= e.base
          /\ \A e \in Alloc(t) : e.base \in Nat /\ e.words \in Nat
          /\ Bottom(k)' \in Nat /\ Limit(k) \in Nat
      <4>1. pool'[k] = t /\ x \in Alloc(t)
        BY <1>1, <1>3, <1>5
      <4>. QED BY <1>1, <4>1 DEF AllocApart
    <3>2. Bottom(k)' = Bottom(k)
      BY DEF Bottom
    <3>3. /\ first \in lo..(hi - 1) /\ last \in lo..(hi - 1) /\ first <= last
      BY <3>1, <3>2 DEF End
    <3>4. ASSUME NEW w \in first..last, w \in Ledger!Taken(k) PROVE FALSE
      <4>1. PICK e \in Alloc(pool[k]) : w \in e.base..(End(e) - 1)
        BY <1>1, <3>4, TakenWords
      <4>2. e \in Alloc(t) /\ e # x
        BY <1>5, <4>1
      <4>3. End(e) <= x.base \/ End(x) <= e.base
        BY <3>1, <4>2
      <4>4. e.base \in Nat /\ e.words \in Nat
        BY <3>1, <4>2
      <4>. QED BY <3>1, <4>1, <4>3, <4>4 DEF End
    <3>5. View(k, x).kind = k /\ View(k, x).words = first..last
      BY DEF View
    <3>6. [l \in Kinds |-> Bottom(l)][k] = lo /\ [l \in Kinds |-> Limit(l)][k] = hi
      BY <1>1
    <3>. HIDE DEF first, last, lo, hi
    <3>7. View(k, x).words \cap Ledger!Taken(View(k, x).kind) = {}
      BY <3>4, <3>5
    <3>. QED BY <3>3, <3>5, <3>6, <3>7 DEF Ledger!Available
  <2>5. View(k, x) \in {Owned'[c] : c \in DOMAIN Owned'}
    <3>1. Owned' = [c \in {g.cookie : g \in holds'} |-> Owned'[c]]
      BY DEF OwnedShape
    <3>2. ticket + 1 \in {g.cookie : g \in holds'}
      BY <1>4, <1>h
    <3>. HIDE DEF Owned
    <3>3. DOMAIN Owned' = {g.cookie : g \in holds'}
      BY <3>1
    <3>. QED BY <2>2, <3>2, <3>3
  <2>. QED BY <2>2, <2>3, <2>4, <2>5 DEF Ledger!Grant
<1>6. CASE \E e \in Alloc(s) : /\ x = Joined(e) /\ e.shared
                               /\ Alloc(t) = (Alloc(s) \ {e}) \cup {x}
  <2>0. PICK e \in Alloc(s) : x = Joined(e) /\ e.shared /\ Alloc(t) = (Alloc(s) \ {e}) \cup {x}
    BY <1>6
  <2>e. e \in Extents
    BY <1>s DEF Alloc
  <2>x. x.base = e.base /\ View(k, x) = View(k, e)
    BY <2>0, <2>e DEF Joined, View, End, Extents
  <2>1. ASSUME NEW g \in holds PROVE Owned'[g.cookie] = Owned[g.cookie]
    <3>1. ASSUME NEW f \in Alloc(pool[g.kind]), f.base = g.base
          PROVE  \E d \in Alloc(pool'[g.kind]) : d.base = g.base /\ View(g.kind, d) = View(g.kind, f)
      <4>1. CASE g.kind = k /\ f = e
        <5>1. x \in Alloc(pool'[g.kind])
          BY <1>1, <1>3, <2>0, <4>1
        <5>. QED BY <2>x, <3>1, <4>1, <5>1
      <4>2. CASE ~(g.kind = k /\ f = e)
        <5>1. f \in Alloc(pool'[g.kind])
          BY <1>3, <1>k, <2>0, <4>2
        <5>. QED BY <3>1, <5>1
      <4>. QED BY <4>1, <4>2
    <3>. QED BY <1>1, <1>4, <3>1, OwnedKept
  <2>2. Owned'[ticket + 1] = View(k, x)
    <3>1. x \in Alloc(pool'[k])
      BY <1>1, <1>3, <2>0
    <3>. QED BY <1>4, <1>h, <3>1 DEF OwnedShape
  <2>3. Ledger!Issue(Owned'[ticket + 1])
    BY <1>4, <1>h, <2>1, OwnedMore
  <2>4. PICK g \in holds : g.kind = k /\ g.base = e.base
    <3>1. e.refs = Cardinality(On(holds, k, e.base))
      BY <1>1 DEF HoldInv
    <3>2. e.refs >= 1
      BY <1>1, <1>s DEF AllSound, Sound, SoundBut, Proper, Alloc
    <3>3. On(holds, k, e.base) # {}
      <4>. SUFFICES ASSUME On(holds, k, e.base) = {} PROVE FALSE
        OBVIOUS
      <4>1. Cardinality(On(holds, k, e.base)) = 0
        BY FS_EmptySet, Zenon
      <4>. QED BY <3>1, <3>2, <4>1
    <3>. QED BY <3>3 DEF On
  <2>5. Owned[g.cookie] = View(k, e)
    BY <2>4 DEF OwnedShape
  <2>6. g.cookie \in DOMAIN Owned
    <3>1. Owned = [c \in {f.cookie : f \in holds} |-> Owned[c]]
      BY DEF OwnedShape
    <3>. HIDE DEF Owned
    <3>2. DOMAIN Owned = {f.cookie : f \in holds}
      BY <3>1
    <3>. QED BY <3>2
  <2>7. Owned[g.cookie].shared /\ Ledger!Issue(Owned[g.cookie])
    <3>1. View(k, e).shared = e.shared
      BY DEF View
    <3>2. Owned'[ticket + 1] = Owned[g.cookie]
      BY <2>2, <2>5, <2>x
    <3>. HIDE DEF Owned
    <3>. QED BY <2>0, <2>3, <2>5, <3>1, <3>2
  <2>. QED BY <2>6, <2>7 DEF Ledger!Join, Ledger!Tickets
<1>. QED BY <1>2, <1>5, <1>6 DEF Grants

LEMMA ReleasePromised ==
  ASSUME PoolAssumption, FullInv, OwnedShape, FullInv', OwnedShape',
         NEW lease \in Leases, Released(lease), scratch' = scratch
  PROVE  Ledger!Return
<1>. DEFINE k == lease.kind
            s == pool[k]
<1>1. k \in Kinds /\ TypeOK /\ IInv /\ AllSound /\ HoldInv
  BY DEF FullInv, IInv, Leases
<1>2. PICK h \in holds, i \in Positions(k) :
        Matches(lease, h, i) /\ holds' = holds \ {h} /\ GiveBack(k, i) /\ ticket' = ticket
  BY DEF Released
<1>. DEFINE e == s[i]
            t == Returned(s, i)
<1>3. /\ s \in Seq(Extents) /\ Positions(k) = 1..Len(s) /\ Tiles(s, k = 0, Bottom(k), Limit(k))
      /\ Sound(s, k = 0) /\ (k = 0) \in BOOLEAN
  BY <1>1, ListOf, Zenon DEF IInv, AllSound
<1>4. i \in 1..Len(s) /\ ~Free(e) /\ h.kind = k /\ h.base = e.base /\ e \in Alloc(s) /\ e \in Extents
  BY <1>2, <1>3 DEF Matches, Alloc
<1>5. \A l \in Kinds : pool'[l] = IF l = k THEN t ELSE pool[l]
  BY <1>1, <1>2 DEF GiveBack, Returned, TypeOK
<1>6. \/ e.refs > 1 /\ Alloc(t) = (Alloc(s) \ {e}) \cup {Left(e)}
      \/ e.refs = 1 /\ Alloc(t) = Alloc(s) \ {e}
  <2>. DEFINE up == k = 0
              lo == Bottom(k)
              hi == Limit(k)
  <2>1. up \in BOOLEAN /\ Sound(s, up) /\ Tiles(s, up, lo, hi) /\ ~Free(s[i])
    BY <1>3, <1>4
  <2>. HIDE DEF up, s, lo, hi
  <2>. QED BY <1>3, <1>4, <2>1, ReturnList
<1>. HIDE DEF t
<1>k. \A g \in holds : g.kind \in Kinds
  BY <1>1 DEF TypeOK, Holds
<1>7. ASSUME NEW g \in holds' PROVE Owned'[g.cookie] = Owned[g.cookie]
  <2>0. g \in holds /\ g # h
    BY <1>2
  <2>1. ASSUME NEW f \in Alloc(pool[g.kind]), f.base = g.base
        PROVE  \E d \in Alloc(pool'[g.kind]) : d.base = g.base /\ View(g.kind, d) = View(g.kind, f)
    <3>1. CASE ~(g.kind = k /\ f = e)
      <4>1. f \in Alloc(pool'[g.kind])
        BY <1>5, <1>6, <1>k, <2>0, <3>1
      <4>. QED BY <2>1, <4>1
    <3>2. CASE g.kind = k /\ f = e /\ e.refs > 1 /\ Alloc(t) = (Alloc(s) \ {e}) \cup {Left(e)}
      <4>1. Left(e) \in Alloc(pool'[g.kind])
        BY <1>1, <1>5, <3>2
      <4>2. Left(e).base = e.base /\ View(k, Left(e)) = View(k, e)
        BY <1>4 DEF Left, View, End, Extents
      <4>. QED BY <2>1, <3>2, <4>1, <4>2
    <3>3. CASE g.kind = k /\ f = e /\ e.refs = 1
      <4>. DEFINE O == On(holds, k, e.base)
      <4>1. g \in O /\ h \in O
        BY <1>2, <1>4, <2>0, <2>1, <3>3 DEF On
      <4>2. Cardinality(O) = 1 /\ IsFiniteSet(O)
        <5>1. e.refs = Cardinality(O)
          BY <1>1, <1>4 DEF HoldInv
        <5>2. O \in SUBSET holds
          BY DEF On
        <5>3. IsFiniteSet(holds)
          BY <1>1 DEF HoldInv
        <5>. HIDE DEF O
        <5>. QED BY <3>3, <5>1, <5>2, <5>3, FS_Subset
      <4>. HIDE DEF O
      <4>3. IsFiniteSet(O \ {h}) /\ Cardinality(O \ {h}) = 0
        <5>1. IsFiniteSet(O \ {h}) /\ Cardinality(O \ {h}) = Cardinality(O) - 1
          BY <4>1, <4>2, FS_RemoveElement, Zenon
        <5>. QED BY <4>2, <5>1
      <4>4. O \ {h} = {}
        BY <4>3, FS_EmptySet
      <4>. QED BY <2>0, <4>1, <4>4
    <3>. QED BY <1>6, <3>1, <3>2, <3>3
  <2>. QED BY <1>1, <2>0, <2>1, OwnedKept
<1>. QED BY <1>2, <1>7, OwnedLess

LEMMA ScratchPromised ==
  ASSUME PoolAssumption, FullInv, OwnedShape, FullInv', OwnedShape', AllocApart',
         NEW k \in Kinds, NEW n \in Scratches, SetScratch(k, n)
  PROVE  Ledger!Rescratch
<1>. DEFINE w == WantedScratch(k, n)
            b == Base(k) + w
<1>1. /\ scratch' = [scratch EXCEPT ![k] = w] /\ holds' = holds /\ ticket' = ticket
      /\ scratch \in [Kinds -> Nat]
  BY DEF SetScratch, FullInv, IInv, TypeOK
<1>2. \A l \in Kinds : Alloc(pool'[l]) = Alloc(pool[l])
  BY ScratchKeepsHolds DEF FullInv
<1>3. Owned' = Owned
  BY <1>1, <1>2, OwnedUnchanged
<1>4. /\ \A l \in Kinds : Bottom(l)' = IF l = k THEN b ELSE Bottom(l)
  BY <1>1 DEF Bottom
<1>5. b \in Nat /\ Base(k) \in Nat /\ Limit(k) \in Nat /\ Base(k) <= b /\ b <= Limit(k)
  BY <1>4 DEF AllocApart
<1>6. [l \in Kinds |-> Bottom(l)]' = [[l \in Kinds |-> Bottom(l)] EXCEPT ![k] = b]
  <2>. HIDE DEF b
  <2>. DEFINE f == [l \in Kinds |-> Bottom(l)]
              g == [l \in Kinds |-> Bottom(l)']
  <2>1. g = [f EXCEPT ![k] = b]
    BY <1>4
  <2>. QED BY <2>1
<1>7. ASSUME NEW x \in Ledger!Taken(k) PROVE b <= x
  <2>1. PICK e \in Alloc(pool[k]) : x \in e.base..(End(e) - 1)
    BY TakenWords
  <2>2. e \in Alloc(pool'[k])
    BY <1>2
  <2>3. b <= e.base /\ e.base \in Nat /\ e.words \in Nat
    BY <1>4, <2>2 DEF AllocApart
  <2>. QED BY <1>5, <2>1, <2>3 DEF End
<1>8. [l \in Kinds |-> Base(l)][k] = Base(k) /\ [l \in Kinds |-> Limit(l)][k] = Limit(k)
      /\ b \in Base(k)..Limit(k)
  BY <1>5
<1>. HIDE DEF b
<1>. QED BY <1>1, <1>3, <1>6, <1>7, <1>8 DEF Ledger!Rescratch

LEMMA StepPromised ==
  ASSUME PoolAssumption, FullInv, OwnedShape, FullInv', OwnedShape', AllocApart', [Next]_vars
  PROVE  [Ledger!Next]_(Ledger!vars)
<1>b. scratch' = scratch => [k \in Kinds |-> Bottom(k)]' = [k \in Kinds |-> Bottom(k)]
  BY DEF Bottom
<1>k. holds \subseteq Holds /\ leases \subseteq Leases
  BY DEF FullInv, IInv, TypeOK
<1>u. ASSUME UNCHANGED <<pool, holds, scratch, ticket>> PROVE UNCHANGED Ledger!vars
  <2>1. Owned' = Owned
    BY <1>u, OwnedUnchanged
  <2>. HIDE DEF Owned
  <2>. QED BY <1>b, <1>u, <2>1 DEF Ledger!vars
<1>r. ASSUME NEW r \in Requests, Refused(r), scratch' = scratch
      PROVE  Ledger!Waste \/ UNCHANGED Ledger!vars
  <2>1. Owned' = Owned
    BY <1>r, OwnedUnchanged DEF Refused
  <2>. HIDE DEF Owned
  <2>2. CASE ticket' = ticket
    BY <1>b, <1>r, <2>1, <2>2 DEF Ledger!vars
  <2>3. CASE ticket' = ticket + 1
    BY <1>b, <1>r, <2>1, <2>3 DEF Ledger!Waste
  <2>. QED BY <1>r, <2>2, <2>3 DEF Refused
<1>1. CASE UNCHANGED vars
  BY <1>1, <1>u DEF vars
<1>2. ASSUME NEW r \in Requests, Reserve(r) \/ BatchReserves(r) \/ BatchFails(r)
      PROVE  Ledger!Next \/ UNCHANGED Ledger!vars
  <2>1. scratch' = scratch /\ (Granted(r) \/ Refused(r))
    BY <1>2 DEF Reserve, BatchReserves, BatchFails
  <2>2. Granted(r) => Ledger!Grant \/ Ledger!Join
    BY <2>1, GrantPromised
  <2>. QED BY <1>r, <2>1, <2>2 DEF Ledger!Next
<1>3. ASSUME NEW lease \in leases, Release(lease) PROVE Ledger!Next
  BY <1>3, <1>k, ReleasePromised DEF Release, Ledger!Next
<1>4. ASSUME NEW k \in Kinds, NEW n \in Scratches, SetScratch(k, n) PROVE Ledger!Next
  BY <1>4, ScratchPromised DEF Ledger!Next
<1>5. CASE Invalidate
  BY <1>5, <1>u DEF Invalidate
<1>6. ASSUME NEW n \in 1..MaxBatch, BatchBegins(n) PROVE UNCHANGED Ledger!vars
  BY <1>6, <1>u DEF BatchBegins
<1>7. CASE BatchUndoes
  <2>1. Released(Last(call.got)) /\ Last(call.got) \in Leases /\ scratch' = scratch
    <3>. DEFINE got == call.got
    <3>1. got \in Seq(Leases) /\ got # <<>>
      BY <1>7 DEF BatchUndoes, FullInv, IInv, TypeOK
    <3>. HIDE DEF got
    <3>2. Len(got) \in 1..Len(got)
      BY <3>1, EmptySeq
    <3>3. Last(got) \in Leases
      BY <3>1, <3>2 DEF Last
    <3>. QED BY <1>7, <3>3 DEF BatchUndoes, got
  <2>. QED BY <2>1, ReleasePromised DEF Ledger!Next
<1>8. CASE BatchReturns
  BY <1>8, <1>u DEF BatchReturns
<1>. QED BY <1>1, <1>2, <1>3, <1>4, <1>5, <1>6, <1>7, <1>8 DEF Next

LEMMA StartPromised == ASSUME PoolAssumption, Init, FullInv PROVE Ledger!Init
<1>1. Owned = [c \in {} |-> {}]
  <2>1. holds = {}
    BY DEF Init
  <2>2. {h.cookie : h \in holds} = {}
    BY <2>1
  <2>3. Owned = [c \in {h.cookie : h \in holds} |-> Owned[c]]
    BY OwnedIs DEF OwnedShape
  <2>. HIDE DEF Owned
  <2>. QED BY <2>2, <2>3
<1>2. \A k \in Kinds : Bottom(k) \in Base(k)..Limit(k)
  BY WordsApart DEF AllocApart
<1>3. ticket = 0
  BY DEF Init
<1>4. \A k \in Kinds : [l \in Kinds |-> Bottom(l)][k] \in
        [l \in Kinds |-> Base(l)][k]..[l \in Kinds |-> Limit(l)][k]
  BY <1>2
<1>. HIDE DEF Owned
<1>. QED BY <1>1, <1>3, <1>4 DEF Ledger!Init

\* The lists implement the promise of PoolLedger: what a caller is given are
\* words of its pool, above the scratch area, that nobody has or that the
\* resource's owners share; they stay his until he gives his ticket back, and a
\* ticket is never used twice.
THEOREM LedgerImplemented == Spec => LedgerSpec
<1>. DEFINE Shown == FullInv /\ OwnedShape /\ AllocApart
<1>1. Init => Ledger!Init
  BY FullInit, StartPromised, PoolAssumption
<1>2. FullInv => Shown
  BY OwnedIs, WordsApart, PoolAssumption
<1>3. Shown /\ Shown' /\ [Next]_vars => [Ledger!Next]_(Ledger!vars)
  BY StepPromised, PoolAssumption
<1>. HIDE DEF Shown
<1>4. Spec => Ledger!Init
  BY <1>1, PTL DEF Spec
<1>5. Spec => [][Ledger!Next]_(Ledger!vars)
  BY <1>2, <1>3, FullHolds, PTL DEF Spec
<1>. QED BY <1>4, <1>5 DEF LedgerSpec, Ledger!Spec
------------------------------------------------------------------------------
\* The usage report.

\* What lies between one end of the range and the far end of an extent grows by
\* the words of the neighbour that meets it.
LEMMA FarNext ==
  ASSUME NEW e \in Extents, NEW f \in Extents, NEW up \in BOOLEAN, Meets(up, e, f),
         NEW lo \in Int, NEW hi \in Int,
         NEW x, x = IF up THEN End(e) - lo ELSE hi - e.base
  PROVE  x + f.words = IF up THEN End(f) - lo ELSE hi - f.base
<1>1. e.base \in Nat /\ e.words \in Nat /\ f.base \in Nat /\ f.words \in Nat
  BY DEF Extents
<1>2. CASE up
  BY <1>1, <1>2 DEF Meets, End
<1>3. CASE ~up
  BY <1>1, <1>3 DEF Meets, End
<1>. QED BY <1>2, <1>3

\* The words of a list that tiles a range are the words of the range.
LEMMA WordsTiled ==
  ASSUME NEW s \in Seq(Extents), Len(s) >= 1, NEW up \in BOOLEAN,
         NEW lo \in Int, NEW hi \in Int, Tiles(s, up, lo, hi)
  PROVE  WordsOf(s) = hi - lo
<1>. DEFINE N == Len(s)
            Sums(f) == f = [n \in 0..N |-> IF n = 0 THEN 0 ELSE f[n - 1] + s[n].words]
            sum == CHOOSE f : Sums(f)
            F == [n \in 1..N |-> [x \in Nat |-> x + s[n].words]]
<1>1. N \in Nat /\ N >= 1 /\ \A n \in 1..N : s[n] \in Extents
  OBVIOUS
<1>2. \A n \in 1..N : s[n].words \in Nat /\ s[n].base \in Nat
  BY <1>1 DEF Extents
<1>w. WordsOf(s) = sum[N]
  BY DEF WordsOf
<1>3. F \in [1..N -> [Nat -> Nat]]
  BY <1>2
<1>4. \A n \in 1..N, x \in Nat : F[n][x] = x + s[n].words
  OBVIOUS
<1>. HIDE DEF F, N
<1>5. PICK f \in [0..N -> Nat] : f[0] = 0 /\ \A n \in 1..N : f[n] = F[n][f[n - 1]]
  <2>. DEFINE X == Nat
              base == 0
  <2>1. F \in [1..N -> [X -> X]] /\ base \in X
    BY <1>3
  <2>. HIDE DEF X, base
  <2>2. \E f : Follows(f, N, X, base, F)
    BY <1>1, <2>1, RecursiveFunction
  <2>. QED BY <2>2 DEF X, base, Follows
<1>6. \A n \in 1..N : n - 1 \in 0..N /\ f[n - 1] \in Nat
  BY <1>1
<1>7. \A n \in 1..N : f[n] = f[n - 1] + s[n].words
  BY <1>4, <1>5, <1>6
<1>8. Sums(f)
  <2>1. \A n \in 0..N : n = 0 \/ n \in 1..N
    BY <1>1
  <2>2. \A n \in 0..N : f[n] = IF n = 0 THEN 0 ELSE f[n - 1] + s[n].words
    BY <1>5, <1>7, <2>1
  <2>. QED BY <2>2
<1>9. Sums(sum)
  <2>. HIDE DEF Sums
  <2>. QED BY <1>8
<1>. HIDE DEF sum
<1>10. sum[0] = 0 /\ \A n \in 1..N : sum[n] = sum[n - 1] + s[n].words
  <2>1. 0 \in 0..N /\ \A n \in 1..N : n \in 0..N /\ n # 0
    BY <1>1
  <2>. QED BY <1>9, <2>1
<1>. HIDE DEF Sums
<1>. DEFINE Far(n) == IF up THEN End(s[n]) - lo ELSE hi - s[n].base
            T == {n \in 0..N : n = 0 \/ sum[n] = Far(n)}
<1>11. 0 \in T
  BY <1>1
<1>12. ASSUME NEW n \in 0..(N - 1), n \in T PROVE n + 1 \in T
  <2>1. n + 1 \in 0..N /\ n + 1 \in 1..N /\ (n + 1) - 1 = n
    BY <1>1
  <2>2. sum[n + 1] = sum[n] + s[n + 1].words /\ s[n + 1].words \in Nat /\ s[n + 1].base \in Nat
    BY <1>2, <1>10, <2>1
  <2>3. CASE n = 0
    <3>1. Starts(up, s[1], lo, hi)
      BY DEF Tiles
    <3>2. sum[1] = Far(1)
      BY <1>10, <2>2, <2>3, <3>1 DEF Starts, End
    <3>. QED BY <2>1, <2>3, <3>2
  <2>4. CASE n # 0
    <3>1. n \in 1..N /\ n \in 1..(N - 1) /\ s[n].words \in Nat /\ s[n].base \in Nat
      BY <1>1, <1>2, <2>4
    <3>2. Meets(up, s[n], s[n + 1]) /\ sum[n] = Far(n)
      <4>1. Meets(up, s[n], s[n + 1])
        BY <3>1 DEF Tiles, N
      <4>2. sum[n] = Far(n)
        BY <1>12, <2>4
      <4>. QED BY <4>1, <4>2
    <3>3. sum[n + 1] = Far(n + 1)
      <4>1. s[n] \in Extents /\ s[n + 1] \in Extents
        BY <1>1, <2>1, <3>1
      <4>2. sum[n] = (IF up THEN End(s[n]) - lo ELSE hi - s[n].base)
        BY <3>2
      <4>3. sum[n] + s[n + 1].words = IF up THEN End(s[n + 1]) - lo ELSE hi - s[n + 1].base
        BY <3>2, <4>1, <4>2, FarNext
      <4>. QED BY <2>2, <4>3
    <3>. QED BY <2>1, <3>3
  <2>. QED BY <2>3, <2>4
<1>13. N \in T
  <2>. HIDE DEF T
  <2>1. \A n \in 0..N : n \in T
    BY <1>1, <1>11, <1>12, InductionTo
  <2>. QED BY <1>1, <2>1
<1>14. sum[N] = Far(N)
  BY <1>1, <1>13
<1>15. Stops(up, s[N], lo, hi) /\ s[N].words \in Nat /\ s[N].base \in Nat
  BY <1>1, <1>2 DEF Tiles, N
<1>. QED BY <1>w, <1>14, <1>15 DEF Stops, End

\* The largest request is one that the report's own arithmetic finds for some
\* extent, or none at all.
Offer(e) == IF e.terminal THEN IF e.words >= 2 THEN EvenDown(e.words) - 2 ELSE 0
            ELSE EvenDown(e.words)

LEMMA LargestOffer ==
  ASSUME TypeOK, Tiled, NEW k \in Kinds
  PROVE  /\ \/ LargestRequest(k) = 0
            \/ \E i \in Positions(k) : Free(pool[k][i]) /\ LargestRequest(k) = Offer(pool[k][i])
         /\ \A i \in Positions(k) : Free(pool[k][i]) => Offer(pool[k][i]) <= LargestRequest(k)
         /\ LargestRequest(k) \in Nat
<1>. DEFINE s == pool[k]
            N == Len(s)
            S == {0} \cup {Offer(s[i]) : i \in {j \in Positions(k) : Free(s[j])}}
            m == LargestRequest(k)
<1>1. N \in Nat /\ Positions(k) = 1..N /\ \A i \in 1..N : s[i] \in Extents
  BY ListOf
<1>2. m = Max(S)
  BY DEF LargestRequest, Offer
<1>. DEFINE f == [i \in 0..N |-> IF i # 0 /\ Free(s[i]) THEN Offer(s[i]) ELSE 0]
<1>3. \A i \in 1..N : Offer(s[i]) \in Nat
  <2>. TAKE i \in 1..N
  <2>. DEFINE w == s[i].words
  <2>1. w \in Nat
    BY <1>1 DEF Extents
  <2>. HIDE DEF w
  <2>2. EvenDown(w) \in Nat /\ (w >= 2 => EvenDown(w) - 2 \in Nat)
    BY <2>1 DEF EvenDown
  <2>. QED BY <2>2 DEF Offer, w
<1>4. f \in [0..N -> Nat]
  <2>1. \A i \in 0..N : i # 0 => i \in 1..N
    BY <1>1
  <2>. HIDE DEF s, N
  <2>. QED BY <1>3, <2>1
<1>5. \A i \in 0..N : f[i] \in S
  <2>1. \A i \in 0..N : i # 0 => i \in 1..N
    BY <1>1
  <2>. HIDE DEF s, N
  <2>. QED BY <1>1, <2>1
<1>6. \A x \in S : \E i \in 0..N : x = f[i]
  <2>1. \A i \in 1..N : i \in 0..N /\ i # 0
    BY <1>1
  <2>2. f[0] = 0 /\ 0 \in 0..N
    BY <1>1
  <2>. HIDE DEF s, N
  <2>. QED BY <1>1, <2>1, <2>2
<1>. HIDE DEF f, S, m
<1>7. PICK i \in 0..N : \A j \in 0..N : f[j] <= f[i]
  BY <1>1, <1>4, GreatestValue
<1>8. \E x \in S : \A y \in S : x >= y
  <2>. DEFINE x == f[i]
  <2>1. x \in S /\ x \in Nat
    BY <1>4, <1>5
  <2>2. \A y \in S : y \in Nat /\ y <= x
    BY <1>4, <1>6, <1>7
  <2>3. \A y \in S : x >= y
    BY <2>1, <2>2
  <2>. HIDE DEF x
  <2>. QED BY <2>1, <2>3
<1>9. m \in S /\ \A y \in S : m >= y
  BY <1>2, <1>8 DEF Max
<1>10. S \subseteq Nat
  BY <1>4, <1>6
<1>11. \A j \in Positions(k) : Free(s[j]) => Offer(s[j]) \in S
  BY DEF S
<1>12. \A y \in S : y <= m
  BY <1>9, <1>10
<1>. QED BY <1>9, <1>10, <1>11, <1>12 DEF S, m

\* A request fits an extent when the report offers it.
LEMMA RoomOffered ==
  ASSUME NEW e \in Extents, Proper(e), NEW w \in Nat, w > 0, Even(w)
  PROVE  Room(e, w) <=> Free(e) /\ w <= Offer(e)
<1>. DEFINE n == e.words
<1>1. n \in Nat /\ n > 0 /\ Even(n)
  BY DEF Extents, Proper
<1>. HIDE DEF n
<1>2. w \in Int /\ EvenDown(n) = n /\ (n > w <=> n - 2 >= w)
  BY <1>1, EvenFits
<1>3. Room(e, w) <=> Free(e) /\ n >= w /\ (e.terminal => n > w)
  BY DEF Room, n
<1>4. Offer(e) = IF e.terminal THEN IF n >= 2 THEN n - 2 ELSE 0 ELSE n
  BY <1>2 DEF Offer, n
<1>. QED BY <1>1, <1>2, <1>3, <1>4

LEMMA UsageReported ==
  ASSUME PoolAssumption, FullInv
  PROVE  UsageTruthful
<1>. SUFFICES ASSUME NEW k \in Kinds
     PROVE  /\ \A w \in {n \in 1..Words(k) : n % 2 = 0} :
                 w <= LargestRequest(k) <=> \E i \in Positions(k) : Room(pool[k][i], w)
            /\ scratch[k] + WordsOf(pool[k]) = Words(k)
  BY DEF UsageTruthful
<1>0. TypeOK /\ Tiled /\ AllSound
  BY DEF FullInv, IInv
<1>1. /\ pool[k] \in Seq(Extents) /\ Len(pool[k]) >= 1
      /\ Positions(k) = 1..Len(pool[k])
      /\ Tiles(pool[k], k = 0, Bottom(k), Limit(k)) /\ (k = 0) \in BOOLEAN
  BY <1>0, ListOf
<1>2. \A i \in Positions(k) : pool[k][i] \in Extents /\ Proper(pool[k][i])
  <2>1. Sound(pool[k], k = 0)
    BY <1>0 DEF AllSound
  <2>2. \A i \in 1..Len(pool[k]) : Proper(pool[k][i])
    BY <2>1 DEF Sound, SoundBut
  <2>. QED BY <1>1, <2>2
<1>3. ASSUME NEW w \in {n \in 1..Words(k) : n % 2 = 0}
      PROVE  w <= LargestRequest(k) <=> \E i \in Positions(k) : Room(pool[k][i], w)
  <2>1. w \in Nat /\ w > 0 /\ Even(w)
    BY GeometryType DEF Even
  <2>. DEFINE m == LargestRequest(k)
  <2>2. /\ m = 0 \/ \E i \in Positions(k) : Free(pool[k][i]) /\ m = Offer(pool[k][i])
        /\ \A i \in Positions(k) : Free(pool[k][i]) => Offer(pool[k][i]) <= m
        /\ m \in Nat
    BY <1>0, LargestOffer
  <2>. HIDE DEF m
  <2>3. \A i \in Positions(k) : Room(pool[k][i], w) <=> Free(pool[k][i]) /\ w <= Offer(pool[k][i])
    BY <1>2, <2>1, RoomOffered
  <2>4. ASSUME NEW i \in Positions(k) PROVE Offer(pool[k][i]) \in Int
    <3>. DEFINE n == pool[k][i].words
    <3>1. n \in Nat
      BY <1>2 DEF Extents
    <3>. HIDE DEF n
    <3>. QED BY <3>1, EvenDownType DEF Offer, n
  <2>5. w <= m => \E i \in Positions(k) : Room(pool[k][i], w)
    BY <2>1, <2>2, <2>3
  <2>6. ASSUME NEW i \in Positions(k), Room(pool[k][i], w) PROVE w <= m
    <3>1. Free(pool[k][i]) /\ w <= Offer(pool[k][i]) /\ Offer(pool[k][i]) <= m
      BY <2>2, <2>3, <2>6
    <3>. QED BY <2>1, <2>2, <2>4, <3>1
  <2>. QED BY <2>5, <2>6 DEF m
<1>4. scratch[k] + WordsOf(pool[k]) = Words(k)
  <2>1. Base(k) \in Nat /\ Words(k) \in Nat /\ scratch[k] \in Nat
    BY <1>0, GeometryType DEF TypeOK
  <2>2. Bottom(k) = Base(k) + scratch[k] /\ Limit(k) = Base(k) + Words(k)
    BY DEF Bottom, Limit
  <2>. DEFINE s == pool[k]
              up == k = 0
              lo == Bottom(k)
              hi == Limit(k)
  <2>3. s \in Seq(Extents) /\ Len(s) >= 1 /\ up \in BOOLEAN /\ lo \in Int /\ hi \in Int
        /\ Tiles(s, up, lo, hi)
    BY <1>1, <2>1, <2>2
  <2>. HIDE DEF s, up, lo, hi
  <2>4. WordsOf(s) = hi - lo
    BY <2>3, WordsTiled
  <2>5. hi - lo = Words(k) - scratch[k]
    BY <2>1, <2>2 DEF lo, hi
  <2>. QED BY <2>1, <2>4, <2>5 DEF s
<1>. QED BY <1>3, <1>4

\* What ua_pool_read_usage reports is true whenever it is asked: every even
\* request up to the largest it offers fits some extent of the pool, no larger
\* one does, and the scratch area and the listed words are the whole pool.
THEOREM UsageReportTrue == Spec => []UsageTruthful
<1>1. FullInv => UsageTruthful
  BY UsageReported, PoolAssumption
<1>. QED BY <1>1, FullHolds, PTL
=============================================================================

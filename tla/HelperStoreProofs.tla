-------------------------- MODULE HelperStoreProofs --------------------------
(***************************************************************************)
(* Proofs about module HelperStore, for every value of its constants.      *)
(*                                                                         *)
(* ReadFromThisSession and SubscribedToAll speak of the moments when       *)
(* nothing is under way; the invariant speaks of the states in between.    *)
(* What the store holds, or will be given, is of this session unless the   *)
(* session's `ready` still waits to be read (OfSession); what it has       *)
(* subscribed and what it shows is in the helper's list, on the wire, or   *)
(* in the request channel with this session's generation (Subscribed).     *)
(***************************************************************************)
EXTENDS HelperStore, WellFoundedInduction, SequenceTheorems, FiniteSetTheorems, TLAPS

------------------------------------------------------------------------------
\* Induction.  The library states it over predicates, which the provers cannot
\* instantiate; here a set stands for the predicate and a function for the
\* step of a recursion.
\* It rests on < being well founded.

\* A set of natural numbers that is not empty has a least element.
LEMMA LeastNat ==
  ASSUME NEW T \in SUBSET Nat, T # {}
  PROVE  \E x \in T : \A y \in T : x <= y
<1>1. \E R : /\ IsWellFoundedOn(R, Nat)
             /\ \A x, y \in Nat : <<y, x>> \in R <=> y < x
  <2>. DEFINE R == OpToRel(<, Nat)
  <2>1. IsWellFoundedOn(R, Nat)
    BY NatLessThanWellFounded
  <2>2. \A x, y \in Nat : <<y, x>> \in R <=> y < x
    BY DEF OpToRel
  <2>. HIDE DEF R
  <2>. QED BY <2>1, <2>2
<1>2. PICK R : /\ IsWellFoundedOn(R, Nat)
               /\ \A x, y \in Nat : <<y, x>> \in R <=> y < x
  BY <1>1
<1>3. PICK x \in T : \A y \in T : ~ (<<y, x>> \in R)
  BY <1>2, WFMin
<1>4. \A y \in T : x <= y
  <2>. TAKE y \in T
  <2>1. x \in Nat /\ y \in Nat
    OBVIOUS
  <2>2. ~(y < x)
    BY <1>2, <1>3, <2>1
  <2>. QED BY <2>1, <2>2
<1>. QED BY <1>4

\* Induction up to a bound.
LEMMA InductionTo ==
  ASSUME NEW N \in Nat, NEW T, 0 \in T, \A n \in 0..(N - 1) : n \in T => n + 1 \in T
  PROVE  \A n \in 0..N : n \in T
<1>. DEFINE Out == {n \in 0..N : n \notin T}
<1>. SUFFICES ASSUME Out # {} PROVE FALSE
  OBVIOUS
<1>1. Out \in SUBSET Nat
  OBVIOUS
<1>2. \A n \in Out : n \in 0..N /\ n \notin T
  OBVIOUS
<1>3. \A n \in 0..N : n \in Out \/ n \in T
  OBVIOUS
<1>. HIDE DEF Out
<1>4. PICK x \in Out : \A y \in Out : x <= y
  BY <1>1, LeastNat
<1>5. x \in 0..N /\ x \notin T /\ x # 0
  BY <1>2
<1>6. x - 1 \in 0..(N - 1) /\ x - 1 \in 0..N
  BY <1>5
<1>7. x - 1 \in T
  <2>1. ~(x <= x - 1)
    BY <1>5
  <2>. QED BY <1>3, <1>4, <1>6, <2>1
<1>8. x - 1 + 1 = x
  BY <1>5
<1>. QED BY <1>5, <1>6, <1>7, <1>8

\* A function whose value at n is made of n and its value at n - 1.
Follows(f, N, X, base, F) ==
  f \in [0..N -> X] /\ f[0] = base /\ \A n \in 1..N : f[n] = F[n][f[n - 1]]

LEMMA RecursiveFunction ==
  ASSUME NEW N \in Nat, NEW X, NEW base \in X, NEW F \in [1..N -> [X -> X]]
  PROVE  \E f : Follows(f, N, X, base, F)
<1>. DEFINE Upto(m, f) == /\ f \in [0..m -> X] /\ f[0] = base
                          /\ \A n \in 1..m : f[n] = F[n][f[n - 1]]
            T == {m \in 0..N : \E f : Upto(m, f)}
<1>1. 0 \in T
  <2>. DEFINE f == [n \in 0..0 |-> base]
  <2>1. f \in [0..0 -> X] /\ f[0] = base /\ 1..0 = {}
    OBVIOUS
  <2>. HIDE DEF f
  <2>2. Upto(0, f)
    BY <2>1
  <2>. HIDE DEF Upto
  <2>3. \E g : Upto(0, g)
    BY <2>2
  <2>. QED BY <2>3
<1>2. ASSUME NEW m \in 0..(N - 1), m \in T PROVE m + 1 \in T
  <2>1. PICK f : Upto(m, f)
    BY <1>2
  <2>2. m + 1 \in 1..N /\ m \in 0..m /\ m \in Nat /\ m + 1 \in 0..N
    OBVIOUS
  <2>3. f[m] \in X
    BY <2>1, <2>2
  <2>4. F[m + 1][f[m]] \in X
    BY <2>2, <2>3
  <2>. DEFINE g == [n \in 0..(m + 1) |-> IF n = m + 1 THEN F[m + 1][f[m]] ELSE f[n]]
  <2>5. \A n \in 0..(m + 1) : g[n] \in X
    BY <2>1, <2>2, <2>4
  <2>6. g \in [0..(m + 1) -> X]
    BY <2>5
  <2>7. g[0] = base
    BY <2>1, <2>2
  <2>8. \A n \in 1..(m + 1) : g[n] = F[n][g[n - 1]]
    <3>. TAKE n \in 1..(m + 1)
    <3>1. CASE n = m + 1
      <4>1. g[n] = F[m + 1][f[m]] /\ g[n - 1] = f[m]
        BY <2>2, <3>1
      <4>. QED BY <3>1, <4>1
    <3>2. CASE n # m + 1
      <4>1. n \in 1..m /\ n \in 0..m /\ n - 1 \in 0..m /\ n - 1 # m + 1
        BY <2>2, <3>2
      <4>2. g[n] = f[n] /\ g[n - 1] = f[n - 1]
        BY <2>2, <4>1
      <4>. QED BY <2>1, <4>1, <4>2
    <3>. QED BY <3>1, <3>2
  <2>. HIDE DEF g
  <2>9. Upto(m + 1, g)
    BY <2>6, <2>7, <2>8
  <2>. HIDE DEF Upto
  <2>. QED BY <2>2, <2>9
<1>3. N \in T
  <2>. HIDE DEF T
  <2>1. \A n \in 0..N : n \in T
    BY <1>1, <1>2, InductionTo
  <2>. QED BY <2>1
<1>. QED BY <1>3 DEF Follows


------------------------------------------------------------------------------
\* What the store, the channels and the socket hold.

Shown  == Values \cup {Absent}
Trees  == [Paths -> Shown]
Stores == [status : Statuses, tree : Trees, root : Tickets \cup {None}, poll : Tickets \cup {None},
           subscribed : SUBSET Paths, due : BOOLEAN, from : Int]
Mails  == {NoMail, Error} \cup [st : {"reply"}, tree : Trees, gen : Int]
Pushes == UNION {[S -> Shown] : S \in SUBSET Paths}
Events == [k : {"connecting", "ready", "backingOff"}] \cup [k : {"values"}, values : Pushes]
Commands == [k : {"get"}, id : Tickets] \cup [k : {"subscribe"}, p : Paths, gen : Int]
              \cup [k : {"set"}, p : Paths, v : Values, gen : Int]
Wire == [k : {"reply"}, id : Tickets, tree : Trees] \cup [k : {"refused"}, id : Tickets]
            \cup [k : {"push"}, p : Paths, v : Shown]

Types ==
  /\ ui \in Stores /\ updates \in Seq(Events) /\ mail \in [Tickets -> Mails]
  /\ conn \in {"none", "backoff", "dialing", "ready"} /\ gen \in Int
  /\ tx \in Seq(Commands) /\ pending \subseteq Tickets
  /\ up \in Seq(Commands) /\ down \in Seq(Wire) /\ val \in Trees /\ subs \subseteq Paths

\* Only the tickets that the store holds have a reply channel, and unless a
\* `ready` is on its way the replies in them are of this session, as is the tree
\* of a store that is live.
OfSession ==
  /\ \A t \in Tickets : mail[t] # NoMail => t \in Held(ui)
  /\ \A t \in Tickets : mail[t].st = "reply" => mail[t].gen = gen \/ SawReady
  /\ ui.status = "Live" => ui.from = gen \/ SawReady

\* The subscriptions of this session: in force, or on their way.
Asked(q) == {p \in Paths : \E i \in 1..Len(q) : q[i].k = "subscribe" /\ q[i].p = p /\ q[i].gen = gen}
AskedUp  == {p \in Paths : \E i \in 1..Len(up) : up[i].k = "subscribe" /\ up[i].p = p}
Covered  == subs \cup AskedUp \cup Asked(tx)

\* On a connection, once its `ready` was taken, all that the store remembers as
\* subscribed, and all that it shows when live, is covered, and pushes are about
\* subscriptions in force.
Subscribed ==
  conn = "ready" =>
    /\ \A i \in 1..Len(down) : down[i].k = "push" => down[i].p \in subs
    /\ ~SawReady =>
         /\ ui.subscribed \subseteq Covered
         /\ ui.status = "Live" => Exists(ui.tree) \subseteq Covered
         /\ \A i \in 1..Len(updates) : updates[i].k = "values" => DOMAIN updates[i].values \subseteq subs

StoreInv == Types /\ OfSession /\ Subscribed

LEMMA EventsAre ==
  ASSUME NEW u \in Events
  PROVE  /\ u.k \in {"connecting", "ready", "backingOff", "values"}
         /\ u.k = "values" => /\ DOMAIN u.values \subseteq Paths
                              /\ \A p \in DOMAIN u.values : u.values[p] \in Shown
<1>1. CASE u \in [k : {"connecting", "ready", "backingOff"}]
  BY <1>1
<1>2. CASE u \in [k : {"values"}, values : Pushes]
  BY <1>2 DEF Pushes
<1>. QED BY <1>1, <1>2 DEF Events

LEMMA MailsAre ==
  ASSUME NEW m \in Mails
  PROVE  /\ m.st \in {"none", "error", "reply"}
         /\ m = NoMail <=> m.st = "none"
         /\ m = Error <=> m.st = "error"
         /\ m.st = "reply" => m.tree \in Trees /\ m.gen \in Int
<1>1. CASE m \in [st : {"reply"}, tree : Trees, gen : Int]
  BY <1>1 DEF NoMail, Error
<1>2. CASE m \in {NoMail, Error}
  BY <1>2 DEF NoMail, Error
<1>. QED BY <1>1, <1>2 DEF Mails

LEMMA CommandsAre ==
  ASSUME NEW c \in Commands
  PROVE  /\ c.k \in {"get", "subscribe", "set"}
         /\ c.k = "get" => c.id \in Tickets
         /\ c.k = "subscribe" => c.p \in Paths /\ c.gen \in Int
         /\ c.k = "set" => c.p \in Paths /\ c.v \in Values /\ c.gen \in Int
<1>1. CASE c \in [k : {"get"}, id : Tickets]
  BY <1>1
<1>2. CASE c \in [k : {"subscribe"}, p : Paths, gen : Int]
  BY <1>2
<1>3. CASE c \in [k : {"set"}, p : Paths, v : Values, gen : Int]
  BY <1>3
<1>. QED BY <1>1, <1>2, <1>3 DEF Commands

LEMMA WireIs ==
  ASSUME NEW f \in Wire
  PROVE  /\ f.k \in {"reply", "refused", "push"}
         /\ f.k = "reply" => f.id \in Tickets /\ f.tree \in Trees
         /\ f.k = "refused" => f.id \in Tickets
         /\ f.k = "push" => f.p \in Paths /\ f.v \in Shown
<1>1. CASE f \in [k : {"reply"}, id : Tickets, tree : Trees]
  BY <1>1
<1>2. CASE f \in [k : {"refused"}, id : Tickets]
  BY <1>2
<1>3. CASE f \in [k : {"push"}, p : Paths, v : Shown]
  BY <1>3
<1>. QED BY <1>1, <1>2, <1>3 DEF Wire

LEMMA StoresAre ==
  ASSUME NEW s \in Stores
  PROVE  /\ s.status \in Statuses /\ s.tree \in Trees /\ s.root \in Tickets \cup {None}
         /\ s.poll \in Tickets \cup {None} /\ s.subscribed \subseteq Paths /\ s.due \in BOOLEAN
         /\ s.from \in Int /\ Held(s) \subseteq Tickets /\ Exists(s.tree) \subseteq Paths
BY DEF Stores, Held, Exists

\* A fresh ticket is nobody's.
LEMMA FreshIs ==
  ASSUME HelperAssumption, Free # {}
  PROVE  Fresh \in Tickets /\ Fresh \notin Held(ui) /\ Fresh # None
<1>1. Free \subseteq Tickets /\ Tickets \subseteq Nat \ {0} /\ \A t \in Free : t \notin Held(ui)
  BY DEF Free, HelperAssumption
<1>. HIDE DEF Free
<1>2. Free \in SUBSET Nat
  BY <1>1
<1>3. \E t \in Free : \A u \in Free : t <= u
  BY <1>2, LeastNat
<1>4. Fresh \in Free
  BY <1>3 DEF Fresh
<1>. QED BY <1>1, <1>4 DEF None

\* One command for each property: there is an order to send them in.
LEMMA EachIs ==
  ASSUME HelperAssumption, NEW P \in SUBSET Paths
  PROVE  /\ gen \in Int => SubscribeEach(P) \in Seq(Commands)
         /\ \A p \in P : \E i \in 1..Len(SubscribeEach(P)) : SubscribeEach(P)[i] = Subscribe(p)
         /\ Mentioned(SubscribeEach(P)) = {}
<1>. DEFINE n == Cardinality(P)
            All(q) == q \in [1..n -> P] /\ \A p \in P : \E i \in DOMAIN q : q[i] = p
            q == CHOOSE q \in [1..Cardinality(P) -> P] : \A p \in P : \E i \in DOMAIN q : q[i] = p
            e == SubscribeEach(P)
<1>1. IsFiniteSet(P)
  BY FS_Subset DEF HelperAssumption
<1>2. n \in Nat
  BY <1>1, FS_CardinalityType
<1>3. \E f : ExistsBijection(1..n, P) /\ f \in Bijection(1..n, P)
  BY <1>1, <1>2, FS_NatBijection, FS_CardinalityType DEF ExistsBijection
<1>4. PICK f : f \in Bijection(1..n, P)
  BY <1>3
<1>5. All(f)
  BY <1>4 DEF Bijection, Injection, Surjection
<1>6. All(q)
  BY <1>5
<1>7. e = [i \in DOMAIN q |-> Subscribe(q[i])]
  BY DEF SubscribeEach
<1>. HIDE DEF q, n
<1>8. DOMAIN q = 1..n /\ \A i \in 1..n : q[i] \in Paths
  BY <1>6
<1>9. gen \in Int => \A i \in 1..n : Subscribe(q[i]) \in Commands
  BY <1>8 DEF Subscribe, Commands
<1>. HIDE DEF e
<1>10. DOMAIN e = 1..n /\ \A i \in 1..n : e[i] = Subscribe(q[i])
  BY <1>7, <1>8
<1>11. gen \in Int => e \in Seq(Commands)
  <2>. HAVE gen \in Int
  <2>1. e \in [1..n -> Commands]
    BY <1>7, <1>8, <1>9
  <2>. QED BY <1>2, <2>1
<1>12. e \in Seq({e[i] : i \in 1..n}) /\ Len(e) = n
  <2>1. e \in [1..n -> {e[i] : i \in 1..n}]
    BY <1>7, <1>8
  <2>. QED BY <1>2, <2>1, <1>10
<1>13. \A p \in P : \E i \in 1..Len(e) : e[i] = Subscribe(p)
  BY <1>6, <1>10, <1>12
<1>14. Mentioned(e) = {}
  BY <1>10 DEF Mentioned, Subscribe
<1>. QED BY <1>11, <1>13, <1>14 DEF e

------------------------------------------------------------------------------
\* The update channel, in order.

\* What an update does to the store.
LEMMA OnUpdateIs ==
  ASSUME NEW s \in Stores, NEW u \in Events, NEW t, u.k = "ready" => t \in Tickets
  PROVE  /\ OnUpdate(s, u, t) \in Stores
         /\ OnUpdate(s, u, t).from = s.from
         /\ u.k = "ready" => /\ OnUpdate(s, u, t).root = t /\ OnUpdate(s, u, t).poll = None
                             /\ OnUpdate(s, u, t).subscribed = {}
                             /\ OnUpdate(s, u, t).status # "Live"
                             /\ OnUpdate(s, u, t).tree = s.tree
         /\ u.k # "ready" => /\ OnUpdate(s, u, t).root = s.root
                             /\ OnUpdate(s, u, t).poll = s.poll
                             /\ OnUpdate(s, u, t).subscribed = s.subscribed
                             /\ OnUpdate(s, u, t).status = "Live" => s.status = "Live"
         /\ \A p \in Paths : OnUpdate(s, u, t).tree[p] = s.tree[p]
                               \/ (u.k = "values" /\ p \in DOMAIN u.values)
<1>1. /\ u.k \in {"connecting", "ready", "backingOff", "values"}
      /\ u.k = "values" => /\ DOMAIN u.values \subseteq Paths
                           /\ \A p \in DOMAIN u.values : u.values[p] \in Shown
  BY EventsAre
<1>2. CASE u.k = "connecting"
  BY <1>2 DEF OnUpdate, Stores, Statuses
<1>3. CASE u.k = "ready"
  <2>1. OnUpdate(s, u, t) = OnReady(s, t)
    BY <1>3 DEF OnUpdate
  <2>. QED BY <1>3, <2>1 DEF OnReady, Stores, Statuses
<1>4. CASE u.k = "backingOff"
  BY <1>4 DEF OnUpdate, Stores, Statuses
<1>5. CASE u.k = "values"
  <2>. DEFINE tree == PushAll(s.tree, u.values)
  <2>1. OnUpdate(s, u, t) = [s EXCEPT !.tree = tree]
    BY <1>5 DEF OnUpdate
  <2>2. s.tree \in Trees
    BY DEF Stores
  <2>3. tree = [p \in Paths |-> IF p \in DOMAIN u.values THEN u.values[p] ELSE s.tree[p]]
    BY DEF PushAll
  <2>4. tree \in Trees /\ \A p \in Paths : tree[p] = s.tree[p] \/ p \in DOMAIN u.values
    BY <1>1, <1>5, <2>2, <2>3 DEF Trees
  <2>. HIDE DEF tree
  <2>. QED BY <1>5, <2>1, <2>4 DEF Stores
<1>. QED BY <1>1, <1>2, <1>3, <1>4, <1>5

\* What is in the values that wait in the update channel.
Pushed(us) == {p \in Paths : \E i \in 1..Len(us) : us[i].k = "values" /\ p \in DOMAIN us[i].values}

\* A drain of the update channel: a `ready` in it starts the store anew, and
\* without one the store holds and has asked for what it did.
LEMMA DrainedIs ==
  ASSUME Types, NEW t, SawReady => t \in Tickets
  PROVE  /\ Drained(t) \in Stores
         /\ Drained(t).from = ui.from
         /\ SawReady => /\ Drained(t).root = t /\ Drained(t).poll = None
                        /\ Drained(t).subscribed = {} /\ Drained(t).status # "Live"
         /\ ~SawReady => /\ Drained(t).root = ui.root /\ Drained(t).poll = ui.poll
                         /\ Drained(t).subscribed = ui.subscribed
                         /\ Drained(t).status = "Live" => ui.status = "Live"
         /\ Exists(Drained(t).tree) \subseteq Exists(ui.tree) \cup Pushed(updates)
<1>. DEFINE N == Len(updates)
            Sums(f) == f = [n \in 0..N |-> IF n = 0 THEN ui ELSE OnUpdate(f[n - 1], updates[n], t)]
            after == CHOOSE f : Sums(f)
            F == [n \in 1..N |-> [s \in Stores |-> OnUpdate(s, updates[n], t)]]
<1>1. /\ N \in Nat /\ ui \in Stores
      /\ \A n \in 1..N : updates[n] \in Events /\ (updates[n].k = "ready" => t \in Tickets)
  BY DEF Types, SawReady
<1>2. Drained(t) = after[N]
  BY DEF Drained
<1>3. SawReady <=> \E n \in 1..N : updates[n].k = "ready"
  BY DEF Types, SawReady
<1>4. Pushed(updates) = {p \in Paths : \E i \in 1..N : updates[i].k = "values"
                                                        /\ p \in DOMAIN updates[i].values}
  BY DEF Pushed
<1>. HIDE DEF N
<1>5. /\ F \in [1..N -> [Stores -> Stores]]
      /\ \A n \in 1..N, s \in Stores : F[n][s] = OnUpdate(s, updates[n], t)
  <2>1. ASSUME NEW n \in 1..N, NEW s \in Stores PROVE OnUpdate(s, updates[n], t) \in Stores
    BY <1>1, OnUpdateIs
  <2>. HIDE DEF Stores
  <2>. QED BY <2>1
<1>. HIDE DEF F, Stores
<1>6. PICK f : Follows(f, N, Stores, ui, F)
  BY <1>1, <1>5, RecursiveFunction
<1>7. f \in [0..N -> Stores] /\ f[0] = ui /\ \A n \in 1..N : f[n] = OnUpdate(f[n - 1], updates[n], t)
  <2>1. f \in [0..N -> Stores] /\ f[0] = ui /\ \A n \in 1..N : f[n] = F[n][f[n - 1]]
    BY <1>6 DEF Follows
  <2>2. \A n \in 1..N : n - 1 \in 0..N /\ f[n - 1] \in Stores
    BY <1>1, <2>1
  <2>. QED BY <1>5, <2>1, <2>2
<1>8. Sums(f)
  <2>1. \A n \in 0..N : n = 0 \/ n \in 1..N
    BY <1>1
  <2>2. \A n \in 0..N : f[n] = IF n = 0 THEN ui ELSE OnUpdate(f[n - 1], updates[n], t)
    BY <1>7, <2>1
  <2>. QED BY <1>7, <2>2
<1>9. Sums(after)
  <2>. HIDE DEF Sums
  <2>. QED BY <1>8
<1>. HIDE DEF after
<1>10. after[0] = ui /\ \A n \in 1..N : after[n] = OnUpdate(after[n - 1], updates[n], t)
  <2>1. 0 \in 0..N /\ \A n \in 1..N : n \in 0..N /\ n # 0
    BY <1>1
  <2>. QED BY <1>9, <2>1
<1>. HIDE DEF Sums
<1>. DEFINE Saw(n) == \E i \in 1..n : updates[i].k = "ready"
            Brought(n, p) == \E i \in 1..n : updates[i].k = "values" /\ p \in DOMAIN updates[i].values
            Sofar(s, n) ==
              /\ s \in Stores /\ s.from = ui.from
              /\ Saw(n) => s.root = t /\ s.poll = None /\ s.subscribed = {} /\ s.status # "Live"
              /\ ~Saw(n) => /\ s.root = ui.root /\ s.poll = ui.poll /\ s.subscribed = ui.subscribed
                            /\ s.status = "Live" => ui.status = "Live"
              /\ \A p \in Paths : s.tree[p] = ui.tree[p] \/ Brought(n, p)
            T == {n \in 0..N : Sofar(after[n], n)}
<1>11. 0 \in T
  <2>1. Sofar(ui, 0) /\ 0 \in 0..N
    BY <1>1
  <2>. HIDE DEF Sofar
  <2>. QED BY <1>10, <2>1
<1>12. ASSUME NEW n \in 0..(N - 1), n \in T PROVE n + 1 \in T
  <2>1. n + 1 \in 1..N /\ n + 1 \in 0..N /\ (n + 1) - 1 = n /\ n \in Nat
    BY <1>1
  <2>2. PICK s : s = after[n]
    OBVIOUS
  <2>3. PICK u : u = updates[n + 1]
    OBVIOUS
  <2>4. PICK r : r = OnUpdate(s, u, t)
    OBVIOUS
  <2>5. after[n + 1] = r /\ Sofar(s, n) /\ u \in Events /\ (u.k = "ready" => t \in Tickets)
    BY <1>1, <1>10, <1>12, <2>1, <2>2, <2>3, <2>4
  <2>6. s \in Stores
    BY <2>5
  <2>7. /\ r \in Stores /\ r.from = s.from
        /\ u.k = "ready" => r.root = t /\ r.poll = None /\ r.subscribed = {} /\ r.status # "Live"
        /\ u.k # "ready" => /\ r.root = s.root /\ r.poll = s.poll /\ r.subscribed = s.subscribed
                            /\ r.status = "Live" => s.status = "Live"
        /\ \A p \in Paths : r.tree[p] = s.tree[p] \/ (u.k = "values" /\ p \in DOMAIN u.values)
    BY <2>4, <2>5, <2>6, OnUpdateIs
  <2>8. \A i \in 1..(n + 1) : i \in 1..n \/ i = n + 1
    BY <2>1
  <2>9. \A i \in 1..n : i \in 1..(n + 1)
    BY <2>1
  <2>10. n + 1 \in 1..(n + 1)
    BY <2>1
  <2>11. Saw(n + 1) <=> Saw(n) \/ u.k = "ready"
    BY <2>3, <2>8, <2>9, <2>10
  <2>12. \A p \in Paths : Brought(n, p) \/ (u.k = "values" /\ p \in DOMAIN u.values) => Brought(n + 1, p)
    BY <2>3, <2>9, <2>10
  <2>. HIDE DEF Saw, Brought
  <2>13. /\ s.from = ui.from
         /\ Saw(n) => s.root = t /\ s.poll = None /\ s.subscribed = {} /\ s.status # "Live"
         /\ ~Saw(n) => /\ s.root = ui.root /\ s.poll = ui.poll /\ s.subscribed = ui.subscribed
                       /\ s.status = "Live" => ui.status = "Live"
         /\ \A p \in Paths : s.tree[p] = ui.tree[p] \/ Brought(n, p)
    BY <2>5
  <2>14. \A p \in Paths : r.tree[p] = ui.tree[p] \/ Brought(n + 1, p)
    <3>. TAKE p \in Paths
    <3>1. r.tree[p] = s.tree[p] \/ (u.k = "values" /\ p \in DOMAIN u.values)
      BY <2>7
    <3>2. s.tree[p] = ui.tree[p] \/ Brought(n, p)
      BY <2>13
    <3>. QED BY <2>12, <3>1, <3>2
  <2>15. Sofar(r, n + 1)
    <3>1. CASE u.k = "ready"
      BY <2>7, <2>11, <2>13, <2>14, <3>1
    <3>2. CASE u.k # "ready"
      BY <2>7, <2>11, <2>13, <2>14, <3>2
    <3>. QED BY <3>1, <3>2
  <2>. HIDE DEF Sofar
  <2>. QED BY <2>1, <2>5, <2>15
<1>13. Sofar(after[N], N)
  <2>. HIDE DEF Sofar
  <2>1. \A n \in 0..N : n \in T
    <3>. HIDE DEF T
    <3>. QED BY <1>1, <1>11, <1>12, InductionTo
  <2>. QED BY <1>1, <2>1
<1>14. PICK s : s = Drained(t)
  OBVIOUS
<1>15. Sofar(s, N)
  BY <1>2, <1>13, <1>14
<1>16. Exists(s.tree) \subseteq Exists(ui.tree) \cup Pushed(updates)
  <2>1. \A p \in Paths : s.tree[p] = ui.tree[p] \/ Brought(N, p)
    BY <1>15
  <2>. QED BY <1>4, <2>1 DEF Exists
<1>17. SawReady <=> Saw(N)
  BY <1>3
<1>. HIDE DEF Brought, Saw
<1>. QED BY <1>14, <1>15, <1>16, <1>17

------------------------------------------------------------------------------
\* Replies.

\* The tree's reply: the store is live with it and has subscribed all of it.
LEMMA TakeRootIs ==
  ASSUME Types, NEW r, r = TakeRoot(ui)
  PROVE  /\ r \in Stores /\ r.poll = ui.poll /\ r.root \in {ui.root, None}
         /\ ui.subscribed \subseteq r.subscribed
         /\ r.status = "Live" =>
              \/ ui.status = "Live" /\ r.tree = ui.tree /\ r.from = ui.from
              \/ /\ Exists(r.tree) \subseteq r.subscribed
                 /\ \E t \in Tickets : mail[t].st = "reply" /\ r.from = mail[t].gen
<1>1. ui \in Stores /\ mail \in [Tickets -> Mails] /\ ui.root \in Tickets \cup {None}
  BY DEF Types, Stores
<1>2. CASE ui.root = None \/ mail[ui.root] = NoMail
  BY <1>1, <1>2 DEF TakeRoot
<1>. DEFINE Given == ui.root # None /\ mail[ui.root] # NoMail
<1>3. Given => ui.root \in Tickets
  BY <1>1
<1>4. PICK m : m = mail[ui.root]
  OBVIOUS
<1>5. Given => m \in Mails /\ m # NoMail
  BY <1>1, <1>3, <1>4
<1>6. CASE Given /\ m = Error
  <2>1. r = [ui EXCEPT !.root = None, !.status = "Failed"]
    BY <1>4, <1>5, <1>6 DEF TakeRoot
  <2>. QED BY <1>1, <2>1 DEF Stores, Statuses
<1>7. CASE Given /\ m # Error
  <2>1. m.st = "reply" /\ m.tree \in Trees /\ m.gen \in Int
    BY <1>5, <1>7, MailsAre
  <2>. DEFINE new == Exists(m.tree)
              t == [ui EXCEPT !.root = None, !.tree = m.tree, !.status = "Live", !.due = FALSE,
                              !.from = m.gen]
  <2>2. r = SubscribeTo(t)
    BY <1>4, <1>5, <1>7 DEF TakeRoot
  <2>3. /\ t \in Stores /\ t.poll = ui.poll /\ t.root = None /\ t.tree = m.tree /\ t.from = m.gen
        /\ t.subscribed = ui.subscribed
    BY <1>1, <2>1 DEF Stores, Statuses
  <2>4. new \subseteq Paths
    BY DEF Exists
  <2>5. r = [t EXCEPT !.subscribed = ui.subscribed \cup new]
    BY <2>2, <2>3 DEF SubscribeTo
  <2>. HIDE DEF t, new
  <2>6. /\ r \in Stores /\ r.poll = ui.poll /\ r.root = None /\ r.tree = m.tree
        /\ r.subscribed = ui.subscribed \cup new /\ r.from = m.gen
    BY <1>1, <2>3, <2>4, <2>5 DEF Stores
  <2>. QED BY <1>3, <1>4, <1>7, <2>1, <2>6 DEF new
<1>. QED BY <1>2, <1>4, <1>6, <1>7

\* A re-read's reply replaces a subtree; what it changed is subscribed.
LEMMA RereadIs ==
  ASSUME Types, NEW s \in Stores, NEW r, r = Reread(s)
  PROVE  /\ r \in Stores /\ r.root = s.root /\ r.poll \in {s.poll, None}
         /\ s.subscribed \subseteq r.subscribed /\ r.status = s.status
         /\ r.tree = s.tree \/ Exists(r.tree) \subseteq r.subscribed
         /\ r.from = s.from \/ \E t \in Tickets : mail[t].st = "reply" /\ r.from = mail[t].gen
<1>1. /\ mail \in [Tickets -> Mails] /\ s.poll \in Tickets \cup {None} /\ s.tree \in Trees
      /\ s.subscribed \subseteq Paths
  <2>1. mail \in [Tickets -> Mails]
    BY Zenon DEF Types
  <2>2. s.poll \in Tickets \cup {None}
    BY DEF Stores
  <2>3. s.tree \in Trees
    BY DEF Stores
  <2>4. s.subscribed \subseteq Paths
    BY DEF Stores
  <2>. QED BY <2>1, <2>2, <2>3, <2>4
<1>2. CASE s.status # "Live" \/ s.poll = None \/ mail[s.poll] = NoMail
  <2>1. r = s
    BY <1>2 DEF Reread, TakePoll
  <2>. QED BY <1>1, <2>1
<1>. DEFINE Given == ~(s.status # "Live" \/ s.poll = None \/ mail[s.poll] = NoMail)
<1>3. Given => s.poll \in Tickets
  BY <1>1
<1>4. PICK m : m = mail[s.poll]
  OBVIOUS
<1>5. Given => m \in Mails /\ m # NoMail
  BY <1>1, <1>3, <1>4
<1>6. CASE Given /\ m = Error
  <2>1. r = [s EXCEPT !.poll = None]
    BY <1>4, <1>5, <1>6 DEF Reread, TakePoll
  <2>. QED BY <1>1, <2>1 DEF Stores
<1>7. CASE Given /\ m # Error
  <2>1. m.st = "reply" /\ m.tree \in Trees /\ m.gen \in Int
    BY <1>5, <1>7, MailsAre
  <2>. DEFINE tree == [p \in Paths |-> IF p \in Polled THEN m.tree[p] ELSE s.tree[p]]
              t == [s EXCEPT !.poll = None, !.from = m.gen, !.tree = tree]
  <2>2. tree \in Trees
    BY <1>1, <2>1 DEF Trees
  <2>3. r = IF tree = s.tree THEN t ELSE SubscribeTo(t)
    <3>1. [s EXCEPT !.poll = None, !.from = m.gen,
                    !.tree = [p \in Paths |-> IF p \in Polled THEN m.tree[p] ELSE @[p]]] = t
      BY DEF Stores
    <3>2. t.tree = tree
      BY DEF Stores
    <3>. HIDE DEF t, tree
    <3>. QED BY <1>4, <1>5, <1>7, <3>1, <3>2 DEF Reread, TakePoll
  <2>. HIDE DEF tree
  <2>4. /\ t \in Stores /\ t.poll = None /\ t.root = s.root /\ t.tree = tree /\ t.from = m.gen
        /\ t.status = s.status /\ t.subscribed = s.subscribed
    BY <1>1, <2>1, <2>2 DEF Stores
  <2>5. CASE tree = s.tree
    BY <1>3, <1>4, <1>7, <2>1, <2>3, <2>4, <2>5
  <2>6. CASE tree # s.tree
    <3>. DEFINE new == Exists(tree)
    <3>1. r = [t EXCEPT !.subscribed = s.subscribed \cup new]
      BY <2>3, <2>4, <2>6 DEF SubscribeTo
    <3>2. new \subseteq Paths
      BY DEF Exists
    <3>. HIDE DEF t, new
    <3>3. /\ r \in Stores /\ r.poll = None /\ r.root = s.root /\ r.tree = tree /\ r.from = m.gen
          /\ r.status = s.status /\ r.subscribed = s.subscribed \cup new
      BY <1>1, <2>4, <3>1, <3>2 DEF Stores
    <3>. QED BY <1>3, <1>4, <1>7, <2>1, <3>3 DEF new
  <2>. QED BY <2>5, <2>6
<1>. QED BY <1>2, <1>4, <1>6, <1>7

\* The store's new state, and what it has sent.
LEMMA BecomesIs ==
  ASSUME Types, NEW s \in Stores, NEW cmds \in Seq(Commands), Becomes(s, cmds, mail)
  PROVE  /\ ui' = s /\ mail' \in [Tickets -> Mails] /\ tx' \in Seq(Commands)
         /\ \A t \in Tickets : mail'[t] # NoMail => t \in Held(s)
         /\ \A t \in Tickets : mail'[t].st = "reply" => mail'[t] = mail[t] /\ t \in Held(s)
<1>. DEFINE m == IF Connected THEN mail
                 ELSE [t \in Tickets |-> IF t \in Mentioned(cmds) THEN Error ELSE mail[t]]
<1>1. ui' = s /\ mail' = Delivered(s, m) /\ tx' = IF Connected THEN tx \o cmds ELSE tx
  BY DEF Becomes
<1>2. mail \in [Tickets -> Mails] /\ tx \in Seq(Commands) /\ {NoMail, Error} \subseteq Mails
  BY DEF Types, Mails
<1>3. m \in [Tickets -> Mails] /\ \A t \in Tickets : m[t] = mail[t] \/ m[t] = Error
  BY <1>2
<1>4. tx' \in Seq(Commands)
  BY <1>1, <1>2
<1>5. NoMail.st = "none" /\ Error.st = "error"
  BY DEF NoMail, Error
<1>. HIDE DEF m
<1>6. mail' = [t \in Tickets |-> IF t \in Held(s) THEN m[t] ELSE NoMail]
  BY <1>1 DEF Delivered
<1>. HIDE DEF Mails, NoMail, Error, Held
<1>7. mail' \in [Tickets -> Mails]
  BY <1>2, <1>3, <1>6
<1>8. \A t \in Tickets : mail'[t] # NoMail => t \in Held(s)
  BY <1>6
<1>9. \A t \in Tickets : mail'[t].st = "reply" => mail'[t] = mail[t] /\ t \in Held(s)
  BY <1>3, <1>5, <1>6
<1>. QED BY <1>1, <1>4, <1>7, <1>8, <1>9

\* What a connection has been asked to subscribe stays covered, and what it is
\* asked now is.
LEMMA SendingCovers ==
  ASSUME Types, NEW s, NEW cmds \in Seq(Commands), Becomes(s, cmds, mail),
         conn = "ready", UNCHANGED <<gen, up, subs>>
  PROVE  /\ Covered \subseteq Covered'
         /\ \A p \in Paths : (\E i \in 1..Len(cmds) : cmds[i] = Subscribe(p)) => p \in Covered'
<1>1. tx' = tx \o cmds /\ tx \in Seq(Commands)
  BY DEF Becomes, Connected, Types
<1>2. /\ Len(tx') = Len(tx) + Len(cmds) /\ Len(tx) \in Nat /\ Len(cmds) \in Nat
      /\ \A i \in 1..Len(tx) : tx'[i] = tx[i]
      /\ \A i \in 1..Len(cmds) : tx'[Len(tx) + i] = cmds[i]
  BY <1>1
<1>3. \A i \in 1..Len(tx) : i \in 1..Len(tx')
  BY <1>2
<1>4. \A i \in 1..Len(cmds) : Len(tx) + i \in 1..Len(tx')
  BY <1>2
<1>5. Asked(tx) \subseteq Asked(tx)'
  BY <1>2, <1>3 DEF Asked
<1>6. AskedUp' = AskedUp
  BY DEF AskedUp
<1>7. ASSUME NEW p \in Paths, NEW i \in 1..Len(cmds), cmds[i] = Subscribe(p) PROVE p \in Asked(tx)'
  <2>1. tx'[Len(tx) + i] = Subscribe(p)
    BY <1>2, <1>7
  <2>2. Subscribe(p).k = "subscribe" /\ Subscribe(p).p = p /\ Subscribe(p).gen = gen
    BY DEF Subscribe
  <2>. QED BY <1>4, <2>1, <2>2 DEF Asked
<1>. QED BY <1>5, <1>6, <1>7 DEF Covered

------------------------------------------------------------------------------
\* The UI thread.

LEMMA GetIs ==
  ASSUME NEW t \in Tickets
  PROVE  <<Get(t)>> \in Seq(Commands)
<1>1. Get(t) \in Commands
  BY DEF Get, Commands
<1>. HIDE DEF Commands
<1>. QED BY <1>1

LEMMA DrainUpdatesStep == ASSUME HelperAssumption, StoreInv, DrainUpdates PROVE StoreInv'
<1>. DEFINE s == Drained(Fresh)
            cmds == IF SawReady THEN <<Get(Fresh)>> ELSE <<>>
<1>1. /\ Types /\ OfSession /\ Subscribed /\ updates' = <<>> /\ Becomes(s, cmds, mail)
      /\ SawReady => Free # {}
      /\ UNCHANGED <<conn, gen, pending, up, down, subs, val>>
  BY DEF StoreInv, DrainUpdates, sock
<1>2. SawReady => Fresh \in Tickets /\ Fresh \notin Held(ui)
  BY <1>1, FreshIs
<1>3. /\ s \in Stores /\ s.from = ui.from
      /\ SawReady => s.root = Fresh /\ s.poll = None /\ s.subscribed = {} /\ s.status # "Live"
      /\ ~SawReady => /\ s.root = ui.root /\ s.poll = ui.poll /\ s.subscribed = ui.subscribed
                      /\ s.status = "Live" => ui.status = "Live"
      /\ Exists(s.tree) \subseteq Exists(ui.tree) \cup Pushed(updates)
  BY <1>1, <1>2, DrainedIs
<1>4. cmds \in Seq(Commands)
  <2>1. CASE SawReady
    BY <1>2, <2>1, GetIs
  <2>2. CASE ~SawReady
    BY <2>2
  <2>. QED BY <2>1, <2>2
<1>. HIDE DEF s, cmds
<1>5. /\ ui' = s /\ mail' \in [Tickets -> Mails] /\ tx' \in Seq(Commands)
      /\ \A t \in Tickets : mail'[t] # NoMail => t \in Held(s)
      /\ \A t \in Tickets : mail'[t].st = "reply" => mail'[t] = mail[t] /\ t \in Held(s)
  BY <1>1, <1>3, <1>4, BecomesIs
<1>6. updates' \in Seq(Events) /\ ~SawReady'
  BY <1>1 DEF SawReady
<1>7. Types'
  <2>. HIDE DEF Stores, Mails, Commands, Wire, Trees, Events
  <2>. QED BY <1>1, <1>3, <1>5, <1>6 DEF Types
<1>8. OfSession'
  <2>1. ASSUME NEW t \in Tickets, mail'[t].st = "reply" PROVE mail'[t].gen = gen'
    <3>1. mail'[t] = mail[t] /\ t \in Held(s) /\ mail[t] # NoMail
      BY <1>5, <2>1 DEF NoMail
    <3>2. CASE SawReady
      <4>1. t = Fresh /\ t \notin Held(ui)
        BY <1>2, <1>3, <3>1, <3>2 DEF Held
      <4>. QED BY <1>1, <3>1, <4>1 DEF OfSession
    <3>3. CASE ~SawReady
      BY <1>1, <2>1, <3>1, <3>3 DEF OfSession
    <3>. QED BY <3>2, <3>3
  <2>2. ui'.status = "Live" => ui'.from = gen'
    BY <1>1, <1>3, <1>5 DEF OfSession
  <2>. QED BY <1>5, <2>1, <2>2 DEF OfSession
<1>9. Subscribed'
  <2>. SUFFICES ASSUME conn = "ready" PROVE Subscribed'
    BY <1>1 DEF Subscribed
  <2>1. Covered \subseteq Covered'
    BY <1>1, <1>3, <1>4, SendingCovers
  <2>2. /\ \A i \in 1..Len(down) : down[i].k = "push" => down[i].p \in subs
        /\ ~SawReady =>
             /\ ui.subscribed \subseteq Covered
             /\ ui.status = "Live" => Exists(ui.tree) \subseteq Covered
             /\ \A i \in 1..Len(updates) : updates[i].k = "values" => DOMAIN updates[i].values \subseteq subs
    BY <1>1 DEF Subscribed
  <2>3. ~SawReady => Pushed(updates) \subseteq Covered
    BY <2>2 DEF Pushed, Covered
  <2>4. s.subscribed \subseteq Covered' /\ (s.status = "Live" => Exists(s.tree) \subseteq Covered')
    BY <1>3, <2>1, <2>2, <2>3
  <2>5. Len(updates') = 0
    BY <1>1
  <2>. HIDE DEF Covered
  <2>6. \A i \in 1..Len(down') : down'[i].k = "push" => down'[i].p \in subs'
    BY <1>1, <2>2
  <2>. QED BY <1>5, <2>4, <2>5, <2>6 DEF Subscribed
<1>. QED BY <1>7, <1>8, <1>9 DEF StoreInv

LEMMA DrainRestStep == ASSUME HelperAssumption, StoreInv, DrainRest PROVE StoreInv'
<1>. DEFINE q == TakeRoot(ui)
            r == Reread(q)
            s == IF Asks(r) THEN [r EXCEPT !.due = FALSE, !.poll = Fresh] ELSE r
            asked == IF Asks(r) THEN <<Get(Fresh)>> ELSE <<>>
            each == SubscribeEach(s.subscribed \ ui.subscribed)
<1>1. /\ Types /\ OfSession /\ Subscribed
      /\ Asks(r) => Free # {}
  BY DEF StoreInv, DrainRest
<1>2. Becomes(s, each \o asked, mail) /\ UNCHANGED <<updates, conn, gen, pending, up, down, subs, val>>
  BY DEF DrainRest, sock
<1>3. Asks(r) => Fresh \in Tickets /\ Fresh \notin Held(ui)
  BY <1>1, FreshIs
<1>4. /\ q \in Stores /\ q.poll = ui.poll /\ q.root \in {ui.root, None}
      /\ ui.subscribed \subseteq q.subscribed
      /\ q.status = "Live" =>
           \/ ui.status = "Live" /\ q.tree = ui.tree /\ q.from = ui.from
           \/ /\ Exists(q.tree) \subseteq q.subscribed
              /\ \E t \in Tickets : mail[t].st = "reply" /\ q.from = mail[t].gen
  BY <1>1, TakeRootIs
<1>5. /\ r \in Stores /\ r.root = q.root /\ r.poll \in {q.poll, None}
      /\ q.subscribed \subseteq r.subscribed /\ r.status = q.status
      /\ r.tree = q.tree \/ Exists(r.tree) \subseteq r.subscribed
      /\ r.from = q.from \/ \E t \in Tickets : mail[t].st = "reply" /\ r.from = mail[t].gen
  <2>. HIDE DEF q
  <2>. QED BY <1>1, <1>4, RereadIs
<1>. HIDE DEF q, r
<1>6. /\ s \in Stores /\ s.root = r.root /\ s.poll \in {r.poll, Fresh} /\ (~Asks(r) => s.poll = r.poll)
      /\ s.subscribed = r.subscribed /\ s.status = r.status /\ s.tree = r.tree /\ s.from = r.from
  <2>1. CASE Asks(r)
    BY <1>3, <1>5, <2>1 DEF Stores
  <2>2. CASE ~Asks(r)
    BY <1>5, <2>2
  <2>. QED BY <2>1, <2>2
<1>7. asked \in Seq(Commands)
  <2>1. CASE Asks(r)
    BY <1>3, <2>1, GetIs
  <2>2. CASE ~Asks(r)
    BY <2>2
  <2>. QED BY <2>1, <2>2
<1>8. s.subscribed \ ui.subscribed \in SUBSET Paths /\ gen \in Int
  BY <1>1, <1>6, StoresAre DEF Types
<1>. HIDE DEF s, asked
<1>9. /\ each \in Seq(Commands)
      /\ \A p \in s.subscribed \ ui.subscribed : \E i \in 1..Len(each) : each[i] = Subscribe(p)
  BY <1>8, EachIs
<1>. HIDE DEF each
<1>10. /\ each \o asked \in Seq(Commands)
       /\ \A p \in s.subscribed \ ui.subscribed :
            \E i \in 1..Len(each \o asked) : (each \o asked)[i] = Subscribe(p)
  <2>1. /\ each \o asked \in Seq(Commands) /\ Len(each \o asked) = Len(each) + Len(asked)
        /\ Len(asked) \in Nat /\ Len(each) \in Nat
        /\ \A i \in 1..Len(each) : (each \o asked)[i] = each[i]
    BY <1>7, <1>9
  <2>2. \A i \in 1..Len(each) : i \in 1..Len(each \o asked)
    BY <2>1
  <2>. QED BY <1>9, <2>1, <2>2
<1>. DEFINE cmds == each \o asked
<1>. HIDE DEF cmds
<1>11. /\ ui' = s /\ mail' \in [Tickets -> Mails] /\ tx' \in Seq(Commands)
       /\ \A t \in Tickets : mail'[t] # NoMail => t \in Held(s)
       /\ \A t \in Tickets : mail'[t].st = "reply" => mail'[t] = mail[t] /\ t \in Held(s)
  BY <1>1, <1>2, <1>6, <1>10, BecomesIs
<1>12. Types'
  <2>. HIDE DEF Stores, Mails, Commands, Wire, Trees, Events
  <2>. QED BY <1>1, <1>2, <1>6, <1>11 DEF Types
<1>13. \A t \in Tickets : mail[t].st = "reply" => mail[t].gen = gen \/ SawReady
  BY <1>1 DEF OfSession
<1>14. s.status = "Live" => s.from = gen \/ SawReady
  BY <1>1, <1>4, <1>5, <1>6, <1>13 DEF OfSession
<1>15. SawReady' <=> SawReady
  BY <1>2 DEF SawReady
<1>16. OfSession'
  BY <1>2, <1>11, <1>13, <1>14, <1>15 DEF OfSession
<1>17. Subscribed'
  <2>. SUFFICES ASSUME conn = "ready" PROVE Subscribed'
    BY <1>2 DEF Subscribed
  <2>1. /\ Covered \subseteq Covered'
        /\ \A p \in s.subscribed \ ui.subscribed : p \in Covered'
    BY <1>1, <1>2, <1>8, <1>10, SendingCovers
  <2>2. /\ \A i \in 1..Len(down) : down[i].k = "push" => down[i].p \in subs
        /\ ~SawReady =>
             /\ ui.subscribed \subseteq Covered
             /\ ui.status = "Live" => Exists(ui.tree) \subseteq Covered
             /\ \A i \in 1..Len(updates) : updates[i].k = "values" => DOMAIN updates[i].values \subseteq subs
    BY <1>1 DEF Subscribed
  <2>. HIDE DEF Covered
  <2>3. ~SawReady => s.subscribed \subseteq Covered'
    BY <2>1, <2>2
  <2>4. ~SawReady /\ s.status = "Live" => Exists(s.tree) \subseteq Covered'
    <3>. HAVE ~SawReady /\ s.status = "Live"
    <3>1. Exists(s.tree) \subseteq s.subscribed \/ Exists(s.tree) \subseteq Covered
      BY <1>4, <1>5, <1>6, <2>2
    <3>. QED BY <2>1, <2>3, <3>1
  <2>. QED BY <1>2, <1>11, <1>15, <2>2, <2>3, <2>4 DEF Subscribed
<1>. QED BY <1>12, <1>16, <1>17 DEF StoreInv

------------------------------------------------------------------------------
\* Small facts about the channels.

LEMMA Longer ==
  ASSUME NEW S, NEW q \in Seq(S), NEW x \in S
  PROVE  /\ Append(q, x) \in Seq(S)
         /\ \A i \in 1..Len(Append(q, x)) : \/ i \in 1..Len(q) /\ Append(q, x)[i] = q[i]
                                            \/ i = Len(q) + 1 /\ Append(q, x)[i] = x
         /\ \A i \in 1..Len(q) : i \in 1..Len(Append(q, x)) /\ Append(q, x)[i] = q[i]
         /\ Len(q) + 1 \in 1..Len(Append(q, x)) /\ Append(q, x)[Len(q) + 1] = x
<1>1. /\ Append(q, x) \in Seq(S) /\ Len(Append(q, x)) = Len(q) + 1 /\ Len(q) \in Nat
      /\ \A i \in 1..Len(q) : Append(q, x)[i] = q[i]
      /\ Append(q, x)[Len(q) + 1] = x
  BY AppendProperties
<1>. QED BY <1>1

LEMMA Shorter ==
  ASSUME NEW S, NEW q \in Seq(S), q # <<>>
  PROVE  /\ Head(q) \in S /\ Head(q) = q[1] /\ Tail(q) \in Seq(S)
         /\ \A i \in 1..Len(Tail(q)) : i + 1 \in 1..Len(q) /\ Tail(q)[i] = q[i + 1]
         /\ \A i \in 1..Len(q) : i = 1 \/ (i - 1 \in 1..Len(Tail(q)) /\ Tail(q)[i - 1] = q[i])
<1>1. /\ Head(q) \in S /\ Head(q) = q[1] /\ Tail(q) \in Seq(S) /\ Len(Tail(q)) = Len(q) - 1
      /\ Len(q) \in Nat /\ Len(q) > 0
      /\ \A i \in 1..Len(Tail(q)) : Tail(q)[i] = q[i + 1]
  BY HeadTailProperties
<1>. QED BY <1>1

\* News for the store.
LEMMA UpdatesGrow ==
  ASSUME Types, NEW u \in Events, updates' = Append(updates, u)
  PROVE  /\ updates' \in Seq(Events)
         /\ SawReady' <=> SawReady \/ u.k = "ready"
         /\ \A i \in 1..Len(updates') : updates'[i] = u \/ (i \in 1..Len(updates) /\ updates'[i] = updates[i])
<1>1. updates \in Seq(Events) /\ DOMAIN updates = 1..Len(updates)
  BY DEF Types
<1>2. /\ updates' \in Seq(Events)
      /\ \A i \in 1..Len(updates') : \/ i \in 1..Len(updates) /\ updates'[i] = updates[i]
                                     \/ i = Len(updates) + 1 /\ updates'[i] = u
      /\ \A i \in 1..Len(updates) : i \in 1..Len(updates') /\ updates'[i] = updates[i]
      /\ Len(updates) + 1 \in 1..Len(updates') /\ updates'[Len(updates) + 1] = u
  BY <1>1, Longer
<1>3. DOMAIN updates' = 1..Len(updates')
  BY <1>2
<1>. QED BY <1>1, <1>2, <1>3 DEF SawReady

\* A failure is told to those tickets that the store still holds.
LEMMA FailsIs ==
  ASSUME Types, NEW ids
  PROVE  /\ Fails(mail, ids) \in [Tickets -> Mails]
         /\ \A t \in Tickets : \/ Fails(mail, ids)[t] = mail[t]
                               \/ t \in Held(ui) /\ Fails(mail, ids)[t].st = "error"
<1>1. mail \in [Tickets -> Mails] /\ Error \in Mails /\ Error.st = "error"
  BY DEF Types, Mails, Error
<1>. HIDE DEF Mails, Held, Error
<1>. QED BY <1>1 DEF Fails

\* A step that gives the store no new answer.
LEMMA CurrentStays ==
  ASSUME OfSession, ui' = ui, gen' = gen, SawReady => SawReady',
         \A t \in Tickets : mail'[t] = mail[t] \/ (t \in Held(ui) /\ mail'[t].st = "error")
  PROVE  OfSession'
<1>1. \A t \in Tickets : mail'[t].st = "reply" => mail'[t] = mail[t]
  OBVIOUS
<1>2. \A t \in Tickets : mail'[t] # NoMail => t \in Held(ui)
  BY DEF OfSession
<1>. HIDE DEF Held
<1>. QED BY <1>1, <1>2 DEF OfSession

------------------------------------------------------------------------------
\* The owner and the clock.

LEMMA PollComesDueStep == ASSUME StoreInv, PollComesDue PROVE StoreInv'
<1>1. /\ Types /\ OfSession /\ Subscribed /\ ui' = [ui EXCEPT !.due = TRUE]
      /\ UNCHANGED <<updates, mail, conn, gen, tx, pending, up, down, subs, val>>
  BY DEF StoreInv, PollComesDue, net, sock
<1>2. /\ ui' \in Stores /\ ui'.status = ui.status /\ ui'.from = ui.from /\ ui'.tree = ui.tree
      /\ ui'.subscribed = ui.subscribed /\ ui'.root = ui.root /\ ui'.poll = ui.poll
  BY <1>1 DEF Types, Stores
<1>3. Types'
  <2>. HIDE DEF Stores, Mails, Commands, Wire, Trees, Events
  <2>. QED BY <1>1, <1>2 DEF Types
<1>4. Held(ui') = Held(ui) /\ SawReady' = SawReady /\ Covered' = Covered
  BY <1>1, <1>2 DEF Held, SawReady, Covered, Asked, AskedUp
<1>. HIDE DEF Held, SawReady, Covered
<1>5. OfSession'
  BY <1>1, <1>2, <1>4 DEF OfSession
<1>6. Subscribed'
  BY <1>1, <1>2, <1>4 DEF Subscribed
<1>. QED BY <1>3, <1>5, <1>6 DEF StoreInv

LEMMA SetStep ==
  ASSUME HelperAssumption, StoreInv, NEW p \in Paths, NEW v \in Values, Set(p, v)
  PROVE  StoreInv'
<1>. DEFINE s == [ui EXCEPT !.tree[p] = v]
            cmds == <<SetTo(p, v)>>
<1>1. /\ Types /\ OfSession /\ Subscribed /\ ui.tree[p] # Absent /\ Becomes(s, cmds, mail)
      /\ UNCHANGED <<updates, conn, gen, pending, up, down, subs, val>>
  BY DEF StoreInv, Set, sock
<1>2. v # Absent /\ v \in Shown
  BY DEF HelperAssumption, Absent, Shown
<1>3. /\ s \in Stores /\ s.status = ui.status /\ s.from = ui.from /\ s.subscribed = ui.subscribed
      /\ s.root = ui.root /\ s.poll = ui.poll
      /\ s.tree = [ui.tree EXCEPT ![p] = v]
  BY <1>1, <1>2 DEF Types, Stores, Trees
<1>4. Exists(s.tree) = Exists(ui.tree)
  <2>1. ui.tree \in [Paths -> Shown]
    BY <1>1 DEF Types, Stores, Trees
  <2>. HIDE DEF s
  <2>. QED BY <1>1, <1>2, <1>3, <2>1 DEF Exists
<1>5. SetTo(p, v) \in Commands
  BY <1>1 DEF SetTo, Commands, Types
<1>6. cmds \in Seq(Commands)
  <2>. HIDE DEF Commands
  <2>. QED BY <1>5
<1>. HIDE DEF s, cmds
<1>7. /\ ui' = s /\ mail' \in [Tickets -> Mails] /\ tx' \in Seq(Commands)
      /\ \A t \in Tickets : mail'[t] # NoMail => t \in Held(s)
      /\ \A t \in Tickets : mail'[t].st = "reply" => mail'[t] = mail[t] /\ t \in Held(s)
  BY <1>1, <1>3, <1>6, BecomesIs
<1>8. Types'
  <2>. HIDE DEF Stores, Mails, Commands, Wire, Trees, Events
  <2>. QED BY <1>1, <1>3, <1>7 DEF Types
<1>9. SawReady' = SawReady
  BY <1>1 DEF SawReady
<1>. HIDE DEF SawReady, Held
<1>10. OfSession'
  BY <1>1, <1>3, <1>7, <1>9 DEF OfSession
<1>11. conn = "ready" => Covered \subseteq Covered'
  BY <1>1, <1>3, <1>6, SendingCovers
<1>. HIDE DEF Covered
<1>12. Subscribed'
  BY <1>1, <1>3, <1>4, <1>7, <1>9, <1>11 DEF Subscribed
<1>. QED BY <1>8, <1>10, <1>12 DEF StoreInv

\* A new handle, or none: nothing is owed or shown as live.
LEMMA DropsStep ==
  ASSUME StoreInv, NEW status \in {"Connecting", "Offline"}, Drops(status),
         conn' \in {"backoff", "none"}
  PROVE  StoreInv'
<1>1. /\ Types /\ OfSession /\ Subscribed /\ ui' = [Closed(status, ui.tree, ui.from) EXCEPT !.due = ui.due]
      /\ mail' = [t \in Tickets |-> NoMail]
      /\ updates' = <<>> /\ tx' = <<>> /\ pending' = {} /\ up' = <<>> /\ down' = <<>> /\ subs' = {}
      /\ UNCHANGED <<gen, val>>
  BY DEF StoreInv, Drops
<1>2. ui' \in Stores /\ ui'.status # "Live"
  BY <1>1 DEF Types, Closed, Stores, Statuses
<1>3. mail' \in [Tickets -> Mails] /\ \A t \in Tickets : mail'[t] = NoMail /\ mail'[t].st # "reply"
  BY <1>1 DEF Mails, NoMail
<1>4. Types'
  <2>. HIDE DEF Stores, Mails, Commands, Wire, Trees, Events
  <2>. QED BY <1>1, <1>2, <1>3 DEF Types
<1>5. OfSession'
  BY <1>2, <1>3 DEF OfSession
<1>6. Subscribed'
  BY DEF Subscribed
<1>. QED BY <1>4, <1>5, <1>6 DEF StoreInv

------------------------------------------------------------------------------
\* The network thread.

LEMMA NewsIs ==
  ASSUME NEW k \in {"connecting", "ready", "backingOff"}
  PROVE  News(k) \in Events /\ News(k).k = k
BY DEF News, Events

LEMMA DialStep == ASSUME StoreInv, Dial PROVE StoreInv'
<1>1. /\ Types /\ OfSession /\ Subscribed /\ conn' = "dialing"
      /\ updates' = Append(updates, News("connecting"))
      /\ UNCHANGED <<ui, mail, gen, tx, pending, up, down, subs, val>>
  BY DEF StoreInv, Dial, sock
<1>2. updates' \in Seq(Events) /\ (SawReady => SawReady')
  BY <1>1, NewsIs, UpdatesGrow
<1>3. Types'
  <2>. HIDE DEF Stores, Mails, Commands, Wire, Trees, Events
  <2>. QED BY <1>1, <1>2 DEF Types
<1>4. OfSession'
  BY <1>1, <1>2, CurrentStays
<1>5. Subscribed'
  BY <1>1 DEF Subscribed
<1>. QED BY <1>3, <1>4, <1>5 DEF StoreInv

LEMMA DialFailsStep == ASSUME StoreInv, DialFails PROVE StoreInv'
<1>1. /\ Types /\ OfSession /\ Subscribed /\ conn' = "backoff"
      /\ updates' = Append(updates, News("backingOff"))
      /\ UNCHANGED <<ui, mail, gen, tx, pending, up, down, subs, val>>
  BY DEF StoreInv, DialFails, sock
<1>2. updates' \in Seq(Events) /\ (SawReady => SawReady')
  BY <1>1, NewsIs, UpdatesGrow
<1>3. Types'
  <2>. HIDE DEF Stores, Mails, Commands, Wire, Trees, Events
  <2>. QED BY <1>1, <1>2 DEF Types
<1>4. OfSession'
  BY <1>1, <1>2, CurrentStays
<1>5. Subscribed'
  BY <1>1 DEF Subscribed
<1>. QED BY <1>3, <1>4, <1>5 DEF StoreInv

\* A new session: its `ready` stands before all that the store has of the last.
LEMMA DialSucceedsStep == ASSUME StoreInv, DialSucceeds PROVE StoreInv'
<1>1. /\ Types /\ OfSession /\ Subscribed /\ conn' = "ready" /\ gen' = gen + 1
      /\ updates' = Append(updates, News("ready"))
      /\ pending' = {} /\ up' = <<>> /\ down' = <<>> /\ subs' = {}
      /\ UNCHANGED <<ui, mail, tx, val>>
  BY DEF StoreInv, DialSucceeds, sock
<1>2. updates' \in Seq(Events) /\ SawReady'
  BY <1>1, NewsIs, UpdatesGrow
<1>3. Types'
  <2>. HIDE DEF Stores, Mails, Commands, Wire, Trees, Events
  <2>. QED BY <1>1, <1>2 DEF Types
<1>4. OfSession'
  BY <1>1, <1>2 DEF OfSession
<1>5. Len(down') = 0
  BY <1>1
<1>6. Subscribed'
  BY <1>2, <1>5 DEF Subscribed
<1>. QED BY <1>3, <1>4, <1>6 DEF StoreInv

LEMMA LostStep == ASSUME StoreInv, Lost PROVE StoreInv'
<1>1. /\ Types /\ OfSession /\ Subscribed /\ conn' = "backoff" /\ mail' = Fails(mail, pending)
      /\ updates' = Append(updates, News("backingOff"))
      /\ pending' = {} /\ up' = <<>> /\ down' = <<>> /\ subs' = {}
      /\ UNCHANGED <<ui, gen, tx, val>>
  BY DEF StoreInv, Lost, sock
<1>2. updates' \in Seq(Events) /\ (SawReady => SawReady')
  BY <1>1, NewsIs, UpdatesGrow
<1>3. /\ mail' \in [Tickets -> Mails]
      /\ \A t \in Tickets : mail'[t] = mail[t] \/ (t \in Held(ui) /\ mail'[t].st = "error")
  BY <1>1, FailsIs
<1>4. Types'
  <2>. HIDE DEF Stores, Mails, Commands, Wire, Trees, Events
  <2>. QED BY <1>1, <1>2, <1>3 DEF Types
<1>5. OfSession'
  BY <1>1, <1>2, <1>3, CurrentStays
<1>6. Subscribed'
  BY <1>1 DEF Subscribed
<1>. QED BY <1>4, <1>5, <1>6 DEF StoreInv

LEMMA RejectStep == ASSUME StoreInv, Reject PROVE StoreInv'
<1>1. /\ Types /\ OfSession /\ Subscribed /\ conn = "backoff" /\ tx # <<>> /\ tx' = Tail(tx)
      /\ mail' = IF Head(tx).k = "get" THEN Fails(mail, {Head(tx).id}) ELSE mail
      /\ UNCHANGED <<ui, updates, conn, gen, pending, up, down, subs, val>>
  BY DEF StoreInv, Reject, sock
<1>2. tx' \in Seq(Commands)
  BY <1>1, Shorter DEF Types
<1>3. /\ mail' \in [Tickets -> Mails]
      /\ \A t \in Tickets : mail'[t] = mail[t] \/ (t \in Held(ui) /\ mail'[t].st = "error")
  <2>1. CASE Head(tx).k = "get"
    BY <1>1, <2>1, FailsIs
  <2>2. CASE Head(tx).k # "get"
    BY <1>1, <2>2 DEF Types
  <2>. QED BY <2>1, <2>2
<1>4. Types'
  <2>. HIDE DEF Stores, Mails, Commands, Wire, Trees, Events
  <2>. QED BY <1>1, <1>2, <1>3 DEF Types
<1>5. SawReady' = SawReady
  BY <1>1 DEF SawReady
<1>6. OfSession'
  BY <1>1, <1>3, <1>5, CurrentStays
<1>7. Subscribed'
  BY <1>1 DEF Subscribed
<1>. QED BY <1>4, <1>6, <1>7 DEF StoreInv

\* A subscription of this session moves from the request channel to the socket.
LEMMA TakeStep == ASSUME StoreInv, Take PROVE StoreInv'
<1>. DEFINE c == Head(tx)
<1>1. /\ Types /\ OfSession /\ Subscribed /\ conn = "ready" /\ tx # <<>> /\ tx' = Tail(tx)
      /\ UNCHANGED <<ui, updates, mail, conn, gen, down, subs, val>>
  BY DEF StoreInv, Take
<1>2. IF c.k = "get" THEN up' = Append(up, c) /\ pending' = pending \cup {c.id}
      ELSE /\ up' = IF c.gen = gen THEN Append(up, c) ELSE up
           /\ UNCHANGED pending
  BY DEF Take
<1>3. /\ c \in Commands /\ c = tx[1] /\ tx' \in Seq(Commands)
      /\ \A i \in 1..Len(tx) : i = 1 \/ (i - 1 \in 1..Len(tx') /\ tx'[i - 1] = tx[i])
  BY <1>1, Shorter DEF Types
<1>. HIDE DEF c
<1>4. c.k \in {"get", "subscribe", "set"} /\ (c.k = "get" => c.id \in Tickets)
  BY <1>3, CommandsAre
<1>5. /\ up' \in Seq(Commands)
      /\ \A i \in 1..Len(up) : i \in 1..Len(up') /\ up'[i] = up[i]
      /\ c.k = "subscribe" /\ c.gen = gen => \E i \in 1..Len(up') : up'[i] = c
  <2>1. up \in Seq(Commands)
    BY <1>1 DEF Types
  <2>2. CASE up' = Append(up, c)
    <3>1. /\ Append(up, c) \in Seq(Commands)
          /\ \A i \in 1..Len(up) : i \in 1..Len(Append(up, c)) /\ Append(up, c)[i] = up[i]
          /\ Len(up) + 1 \in 1..Len(Append(up, c)) /\ Append(up, c)[Len(up) + 1] = c
      BY <1>3, <2>1, Longer
    <3>. QED BY <2>2, <3>1
  <2>3. CASE up' # Append(up, c)
    BY <1>2, <2>1, <2>3
  <2>. QED BY <2>2, <2>3
<1>6. pending' \subseteq Tickets
  BY <1>1, <1>2, <1>4 DEF Types
<1>7. Types'
  <2>. HIDE DEF Stores, Mails, Commands, Wire, Trees, Events
  <2>. QED BY <1>1, <1>3, <1>5, <1>6 DEF Types
<1>8. SawReady' = SawReady
  BY <1>1 DEF SawReady
<1>9. OfSession'
  BY <1>1, <1>8, CurrentStays
<1>10. Covered \subseteq Covered'
  <2>1. AskedUp \subseteq AskedUp'
    BY <1>5 DEF AskedUp
  <2>2. ASSUME NEW p \in Asked(tx) PROVE p \in Covered'
    <3>1. PICK i \in 1..Len(tx) : tx[i].k = "subscribe" /\ tx[i].p = p /\ tx[i].gen = gen
      BY <2>2 DEF Asked
    <3>2. p \in Paths
      BY <2>2 DEF Asked
    <3>3. CASE i = 1
      <4>1. \E j \in 1..Len(up') : up'[j] = c
        BY <1>3, <1>5, <3>1, <3>3
      <4>2. p \in AskedUp'
        BY <1>3, <3>1, <3>2, <3>3, <4>1 DEF AskedUp
      <4>. QED BY <4>2 DEF Covered
    <3>4. CASE i # 1
      <4>1. i - 1 \in 1..Len(tx') /\ tx'[i - 1] = tx[i]
        BY <1>3, <3>4
      <4>2. p \in Asked(tx)'
        BY <1>1, <3>1, <3>2, <4>1 DEF Asked
      <4>. QED BY <4>2 DEF Covered
    <3>. QED BY <3>3, <3>4
  <2>. QED BY <1>1, <2>1, <2>2 DEF Covered
<1>. HIDE DEF Covered, SawReady
<1>11. Subscribed'
  BY <1>1, <1>8, <1>10 DEF Subscribed
<1>. QED BY <1>7, <1>9, <1>11 DEF StoreInv

LEMMA ExpireStep == ASSUME StoreInv, NEW t \in Tickets, Expire(t) PROVE StoreInv'
<1>1. /\ Types /\ OfSession /\ Subscribed /\ pending' = pending \ {t} /\ mail' = Fails(mail, {t})
      /\ UNCHANGED <<ui, updates, conn, gen, tx, up, down, subs, val>>
  BY DEF StoreInv, Expire, sock
<1>2. /\ mail' \in [Tickets -> Mails]
      /\ \A u \in Tickets : mail'[u] = mail[u] \/ (u \in Held(ui) /\ mail'[u].st = "error")
  BY <1>1, FailsIs
<1>3. Types'
  <2>. HIDE DEF Stores, Mails, Commands, Wire, Trees, Events
  <2>. QED BY <1>1, <1>2 DEF Types
<1>4. SawReady' = SawReady /\ Covered' = Covered
  BY <1>1 DEF SawReady, Covered, Asked, AskedUp
<1>5. OfSession'
  BY <1>1, <1>2, <1>4, CurrentStays
<1>. HIDE DEF Covered, SawReady
<1>6. Subscribed'
  BY <1>1, <1>4 DEF Subscribed
<1>. QED BY <1>3, <1>5, <1>6 DEF StoreInv

\* What a read of n frames brings: for each property pushed, the last value.
LEMMA PushedByIs ==
  ASSUME Types, NEW n \in 1..Len(down)
  PROVE  /\ PushedBy(n) \in Pushes
         /\ \A p \in DOMAIN PushedBy(n) : \E i \in 1..Len(down) : down[i].k = "push" /\ down[i].p = p
<1>. DEFINE pushed(p) == {i \in 1..n : down[i].k = "push" /\ down[i].p = p}
            last(p) == CHOOSE i \in pushed(p) : \A j \in pushed(p) : j <= i
            D == {q \in Paths : pushed(q) # {}}
            f == PushedBy(n)
<1>1. f = [p \in D |-> down[last(p)].v]
  BY DEF PushedBy
<1>2. \A i \in 1..n : i \in 1..Len(down) /\ down[i] \in Wire
  BY DEF Types
<1>3. ASSUME NEW p \in D PROVE last(p) \in pushed(p)
  <2>. DEFINE S == pushed(p)
              T == {n - i : i \in S}
  <2>1. S # {} /\ \A i \in S : i \in 1..n
    OBVIOUS
  <2>2. n \in Nat
    OBVIOUS
  <2>. HIDE DEF S
  <2>3. T \in SUBSET Nat /\ T # {}
    BY <2>1, <2>2
  <2>4. PICK x \in T : \A y \in T : x <= y
    BY <2>3, LeastNat
  <2>5. PICK i \in S : x = n - i
    OBVIOUS
  <2>6. \A j \in S : j <= i
    <3>. TAKE j \in S
    <3>1. n - j \in T
      OBVIOUS
    <3>2. n - i <= n - j
      BY <2>4, <2>5, <3>1
    <3>. QED BY <2>1, <2>2, <3>2
  <2>7. \E k \in S : \A j \in S : j <= k
    BY <2>6
  <2>8. last(p) = CHOOSE k \in S : \A j \in S : j <= k
    BY DEF S
  <2>9. (CHOOSE k \in S : \A j \in S : j <= k) \in S
    BY <2>7
  <2>. QED BY <2>8, <2>9 DEF S
<1>4. ASSUME NEW p \in D
      PROVE  /\ down[last(p)].v \in Shown
             /\ \E i \in 1..Len(down) : down[i].k = "push" /\ down[i].p = p
  <2>1. last(p) \in 1..n /\ down[last(p)].k = "push" /\ down[last(p)].p = p
    BY <1>3
  <2>. HIDE DEF last
  <2>. QED BY <1>2, <2>1, WireIs
<1>5. D \in SUBSET Paths
  OBVIOUS
<1>. HIDE DEF D, f, last
<1>6. f \in [D -> Shown] /\ DOMAIN f = D
  BY <1>1, <1>4
<1>7. f \in Pushes
  BY <1>5, <1>6 DEF Pushes
<1>. QED BY <1>4, <1>6, <1>7 DEF f

LEMMA IngestStep == ASSUME StoreInv, NEW n \in 1..Len(down), Ingest(n) PROVE StoreInv'
<1>. DEFINE got(t) == \E i \in Answers(n) : down[i].id = t /\ t \in Held(ui)
            first(t) == CHOOSE i \in Answers(n) : down[i].id = t
            letter(t) == IF down[first(t)].k = "reply" THEN Letter(down[first(t)].tree, gen) ELSE Error
            u == [k |-> "values", values |-> PushedBy(n)]
<1>1. /\ Types /\ OfSession /\ Subscribed /\ conn = "ready" /\ down' = SubSeq(down, n + 1, Len(down))
      /\ pending' \subseteq pending
      /\ mail' = [t \in Tickets |-> IF got(t) THEN letter(t) ELSE mail[t]]
      /\ updates' = IF PushedBy(n) = <<>> THEN updates ELSE Append(updates, u)
      /\ UNCHANGED <<ui, conn, gen, tx, up, subs, val>>
  BY DEF StoreInv, Ingest
<1>2. /\ down \in Seq(Wire) /\ n \in Nat /\ n <= Len(down) /\ gen \in Int
      /\ mail \in [Tickets -> Mails] /\ {NoMail, Error} \subseteq Mails
  BY <1>1 DEF Types, Mails
<1>3. ASSUME NEW t \in Tickets, got(t)
      PROVE  letter(t) \in Mails /\ (letter(t).st = "reply" => letter(t).gen = gen)
  <2>. DEFINE i == first(t)
  <2>1. i \in Answers(n)
    BY <1>3
  <2>. HIDE DEF i
  <2>2. i \in 1..n /\ down[i].k \in {"reply", "refused"}
    BY <2>1 DEF Answers
  <2>3. down[i] \in Wire
    BY <1>2, <2>2
  <2>4. CASE down[i].k = "reply"
    <3>1. down[i].tree \in Trees /\ letter(t) = Letter(down[i].tree, gen)
      BY <2>3, <2>4, WireIs DEF i
    <3>. QED BY <1>2, <3>1 DEF Letter, Mails
  <2>5. CASE down[i].k # "reply"
    BY <1>2, <2>5 DEF i, Error
  <2>. QED BY <2>4, <2>5
<1>4. \A t \in Tickets : got(t) => t \in Held(ui)
  OBVIOUS
<1>. HIDE DEF got, letter
<1>5. mail' \in [Tickets -> Mails]
  <2>. HIDE DEF Mails
  <2>. QED BY <1>1, <1>2, <1>3
<1>6. PushedBy(n) \in Pushes /\ DOMAIN PushedBy(n) \subseteq subs
  <2>1. \A p \in DOMAIN PushedBy(n) : \E i \in 1..Len(down) : down[i].k = "push" /\ down[i].p = p
    BY <1>1, PushedByIs
  <2>2. \A i \in 1..Len(down) : down[i].k = "push" => down[i].p \in subs
    BY <1>1 DEF Subscribed
  <2>. QED BY <1>1, <2>1, <2>2, PushedByIs
<1>7. u \in Events /\ u.k # "ready" /\ u.values = PushedBy(n)
  BY <1>6 DEF Events
<1>. HIDE DEF u
<1>8. /\ updates' \in Seq(Events) /\ (SawReady' <=> SawReady)
      /\ \A i \in 1..Len(updates') : updates'[i] = u \/ (i \in 1..Len(updates) /\ updates'[i] = updates[i])
  <2>1. CASE updates' = Append(updates, u)
    BY <1>1, <1>7, <2>1, UpdatesGrow
  <2>2. CASE updates' = updates
    BY <1>1, <2>2 DEF Types, SawReady
  <2>. QED BY <1>1, <2>1, <2>2
<1>9. /\ down' \in Seq(Wire)
      /\ \A i \in 1..Len(down') : \E j \in 1..Len(down) : down'[i] = down[j]
  <2>1. /\ down' \in Seq(Wire) /\ Len(down') = Len(down) - n
        /\ \A i \in 1..(Len(down) - n) : down'[i] = down[n + i]
    <3>. HIDE DEF Wire
    <3>. QED BY <1>1, <1>2
  <2>2. \A i \in 1..(Len(down) - n) : n + i \in 1..Len(down)
    BY <1>2
  <2>. QED BY <2>1, <2>2
<1>10. Types'
  <2>. HIDE DEF Stores, Mails, Commands, Wire, Trees, Events
  <2>. QED BY <1>1, <1>5, <1>8, <1>9 DEF Types
<1>11. OfSession'
  <2>1. \A t \in Tickets : mail'[t] = IF got(t) THEN letter(t) ELSE mail[t]
    BY <1>1
  <2>2. \A t \in Tickets : mail'[t] # NoMail => t \in Held(ui)
    BY <1>1, <1>4, <2>1 DEF OfSession
  <2>3. \A t \in Tickets : mail'[t].st = "reply" => mail'[t].gen = gen \/ SawReady
    BY <1>1, <1>3, <2>1 DEF OfSession
  <2>4. ui.status = "Live" => ui.from = gen \/ SawReady
    BY <1>1 DEF OfSession
  <2>. HIDE DEF SawReady, Held
  <2>. QED BY <1>1, <1>8, <2>2, <2>3, <2>4 DEF OfSession
<1>12. Subscribed'
  <2>1. /\ \A i \in 1..Len(down) : down[i].k = "push" => down[i].p \in subs
        /\ ~SawReady =>
             /\ ui.subscribed \subseteq Covered
             /\ ui.status = "Live" => Exists(ui.tree) \subseteq Covered
             /\ \A i \in 1..Len(updates) : updates[i].k = "values" => DOMAIN updates[i].values \subseteq subs
    BY <1>1 DEF Subscribed
  <2>2. Covered' = Covered
    BY <1>1 DEF Covered, Asked, AskedUp
  <2>3. \A i \in 1..Len(down') : down'[i].k = "push" => down'[i].p \in subs'
    BY <1>1, <1>9, <2>1
  <2>. HIDE DEF SawReady, Covered
  <2>4. ~SawReady => \A i \in 1..Len(updates') :
                       updates'[i].k = "values" => DOMAIN updates'[i].values \subseteq subs'
    BY <1>1, <1>6, <1>7, <1>8, <2>1
  <2>. QED BY <1>1, <1>8, <2>1, <2>2, <2>3, <2>4 DEF Subscribed
<1>. QED BY <1>10, <1>11, <1>12 DEF StoreInv

------------------------------------------------------------------------------
\* The helper.

\* One more frame from the helper, for a property subscribed if it is a push.
LEMMA FrameSent ==
  ASSUME Types, Subscribed, conn = "ready", NEW f \in Wire, f.k = "push" => f.p \in subs',
         subs \subseteq subs', down' = Append(down, f)
  PROVE  /\ down' \in Seq(Wire)
         /\ \A i \in 1..Len(down') : down'[i].k = "push" => down'[i].p \in subs'
<1>1. down \in Seq(Wire)
  BY DEF Types
<1>2. /\ down' \in Seq(Wire)
      /\ \A i \in 1..Len(down') : \/ i \in 1..Len(down) /\ down'[i] = down[i]
                                  \/ i = Len(down) + 1 /\ down'[i] = f
  BY <1>1, Longer
<1>3. \A i \in 1..Len(down) : down[i].k = "push" => down[i].p \in subs
  BY DEF Subscribed
<1>. QED BY <1>2, <1>3

LEMMA ServeStep == ASSUME StoreInv, Serve PROVE StoreInv'
<1>. DEFINE c == Head(up)
<1>1. /\ Types /\ OfSession /\ Subscribed /\ conn = "ready" /\ up # <<>> /\ up' = Tail(up)
      /\ UNCHANGED <<ui, updates, mail, conn, gen, tx, pending>>
  BY DEF StoreInv, Serve, net
<1>2. \/ /\ c.k = "get"
         /\ down' = Append(down, [k |-> "reply", id |-> c.id, tree |-> val])
         /\ UNCHANGED <<val, subs>>
      \/ /\ c.k = "subscribe"
         /\ subs' = subs \cup {c.p}
         /\ down' = Append(down, Push(c.p, val[c.p]))
         /\ UNCHANGED val
      \/ /\ c.k = "set"
         /\ val' = [val EXCEPT ![c.p] = c.v]
         /\ down' = IF c.p \in subs /\ val[c.p] # c.v THEN Append(down, Push(c.p, c.v)) ELSE down
         /\ UNCHANGED subs
  BY DEF Serve
<1>3. /\ c \in Commands /\ c = up[1] /\ up' \in Seq(Commands)
      /\ \A i \in 1..Len(up) : i = 1 \/ (i - 1 \in 1..Len(up') /\ up'[i - 1] = up[i])
  BY <1>1, Shorter DEF Types
<1>. HIDE DEF c
<1>4. /\ c.k = "get" => c.id \in Tickets
      /\ c.k = "subscribe" => c.p \in Paths
      /\ c.k = "set" => c.p \in Paths /\ c.v \in Values
  BY <1>3, CommandsAre
<1>5. val \in [Paths -> Shown] /\ Values \subseteq Shown /\ subs \subseteq Paths /\ down \in Seq(Wire)
  BY <1>1 DEF Types, Trees, Shown
<1>6. /\ val' \in Trees /\ subs' \subseteq Paths /\ subs \subseteq subs'
      /\ c.k = "subscribe" => c.p \in subs'
      /\ down' \in Seq(Wire) /\ \A i \in 1..Len(down') : down'[i].k = "push" => down'[i].p \in subs'
  <2>1. CASE c.k = "get"
    <3>1. [k |-> "reply", id |-> c.id, tree |-> val] \in Wire
      BY <1>4, <1>5, <2>1 DEF Wire, Trees
    <3>2. /\ down' = Append(down, [k |-> "reply", id |-> c.id, tree |-> val])
          /\ val' = val /\ subs' = subs
      BY <1>2, <2>1
    <3>3. /\ down' \in Seq(Wire)
          /\ \A i \in 1..Len(down') : down'[i].k = "push" => down'[i].p \in subs'
      BY <1>1, <3>1, <3>2, FrameSent
    <3>. QED BY <1>5, <2>1, <3>2, <3>3 DEF Trees
  <2>2. CASE c.k = "subscribe"
    <3>1. Push(c.p, val[c.p]) \in Wire /\ Push(c.p, val[c.p]).p = c.p
      BY <1>4, <1>5, <2>2 DEF Wire, Push
    <3>2. down' = Append(down, Push(c.p, val[c.p])) /\ val' = val /\ subs' = subs \cup {c.p}
      BY <1>2, <2>2
    <3>3. /\ down' \in Seq(Wire)
          /\ \A i \in 1..Len(down') : down'[i].k = "push" => down'[i].p \in subs'
      BY <1>1, <3>1, <3>2, FrameSent
    <3>. QED BY <1>4, <1>5, <2>2, <3>2, <3>3 DEF Trees
  <2>3. CASE c.k = "set"
    <3>1. Push(c.p, c.v) \in Wire /\ Push(c.p, c.v).p = c.p
      BY <1>4, <1>5, <2>3 DEF Wire, Push
    <3>2. /\ val' = [val EXCEPT ![c.p] = c.v] /\ subs' = subs
          /\ down' = IF c.p \in subs /\ val[c.p] # c.v THEN Append(down, Push(c.p, c.v)) ELSE down
      BY <1>2, <2>3
    <3>3. val' \in Trees
      BY <1>4, <1>5, <2>3, <3>2 DEF Trees
    <3>4. /\ down' \in Seq(Wire)
          /\ \A i \in 1..Len(down') : down'[i].k = "push" => down'[i].p \in subs'
      <4>1. CASE c.p \in subs /\ val[c.p] # c.v
        BY <1>1, <3>1, <3>2, <4>1, FrameSent
      <4>2. CASE ~(c.p \in subs /\ val[c.p] # c.v)
        BY <1>1, <1>5, <3>2, <4>2 DEF Subscribed
      <4>. QED BY <4>1, <4>2
    <3>. QED BY <1>5, <2>3, <3>2, <3>3, <3>4
  <2>. QED BY <1>2, <2>1, <2>2, <2>3
<1>7. Types'
  <2>. HIDE DEF Stores, Mails, Commands, Wire, Trees, Events
  <2>. QED BY <1>1, <1>3, <1>6 DEF Types
<1>8. SawReady' = SawReady
  BY <1>1 DEF SawReady
<1>9. OfSession'
  BY <1>1, <1>8, CurrentStays
<1>10. Covered \subseteq Covered'
  <2>1. Asked(tx)' = Asked(tx)
    BY <1>1 DEF Asked
  <2>2. ASSUME NEW p \in AskedUp PROVE p \in Covered'
    <3>1. PICK i \in 1..Len(up) : up[i].k = "subscribe" /\ up[i].p = p
      BY <2>2 DEF AskedUp
    <3>2. p \in Paths
      BY <2>2 DEF AskedUp
    <3>3. CASE i = 1
      BY <1>3, <1>6, <3>1, <3>3 DEF Covered
    <3>4. CASE i # 1
      <4>1. i - 1 \in 1..Len(up') /\ up'[i - 1] = up[i]
        BY <1>3, <3>4
      <4>2. p \in AskedUp'
        BY <3>1, <3>2, <4>1 DEF AskedUp
      <4>. QED BY <4>2 DEF Covered
    <3>. QED BY <3>3, <3>4
  <2>. QED BY <1>6, <2>1, <2>2 DEF Covered
<1>. HIDE DEF Covered, SawReady
<1>11. Subscribed'
  BY <1>1, <1>6, <1>8, <1>10 DEF Subscribed
<1>. QED BY <1>7, <1>9, <1>11 DEF StoreInv

LEMMA RefuseStep == ASSUME StoreInv, Refuse PROVE StoreInv'
<1>. DEFINE f == [k |-> "refused", id |-> Head(up).id]
<1>1. /\ Types /\ OfSession /\ Subscribed /\ conn = "ready" /\ up # <<>> /\ up' = Tail(up)
      /\ Head(up).k = "get" /\ down' = Append(down, f)
      /\ UNCHANGED <<ui, updates, mail, conn, gen, tx, pending, subs, val>>
  BY DEF StoreInv, Refuse, net
<1>2. /\ Head(up) \in Commands /\ Head(up) = up[1] /\ up' \in Seq(Commands)
      /\ \A i \in 1..Len(up) : i = 1 \/ (i - 1 \in 1..Len(up') /\ up'[i - 1] = up[i])
  BY <1>1, Shorter DEF Types
<1>3. f \in Wire /\ f.k # "push"
  BY <1>1, <1>2, CommandsAre DEF Wire
<1>. HIDE DEF f
<1>4. /\ down' \in Seq(Wire)
      /\ \A i \in 1..Len(down') : down'[i].k = "push" => down'[i].p \in subs'
  BY <1>1, <1>3, FrameSent
<1>5. Types'
  <2>. HIDE DEF Stores, Mails, Commands, Wire, Trees, Events
  <2>. QED BY <1>1, <1>2, <1>4 DEF Types
<1>6. SawReady' = SawReady
  BY <1>1 DEF SawReady
<1>7. OfSession'
  BY <1>1, <1>6, CurrentStays
<1>8. AskedUp \subseteq AskedUp'
  BY <1>1, <1>2 DEF AskedUp
<1>9. Covered \subseteq Covered'
  BY <1>1, <1>8 DEF Covered, Asked
<1>. HIDE DEF Covered, SawReady
<1>10. Subscribed'
  BY <1>1, <1>4, <1>6, <1>9 DEF Subscribed
<1>. QED BY <1>5, <1>7, <1>10 DEF StoreInv

LEMMA ChangeStep == ASSUME StoreInv, NEW p \in Paths, NEW v \in Values, Change(p, v) PROVE StoreInv'
<1>1. /\ Types /\ OfSession /\ Subscribed /\ val' = [val EXCEPT ![p] = v]
      /\ down' = IF p \in subs THEN Append(down, Push(p, v)) ELSE down
      /\ UNCHANGED <<ui, updates, mail, conn, gen, tx, pending, up, subs>>
  BY DEF StoreInv, Change, net
<1>2. Push(p, v) \in Wire /\ Push(p, v).p = p
  BY DEF Push, Wire, Shown
<1>3. down \in Seq(Wire) /\ val \in [Paths -> Shown] /\ v \in Shown
  BY <1>1 DEF Types, Trees, Shown
<1>4. /\ down' \in Seq(Wire)
      /\ conn = "ready" => \A i \in 1..Len(down') : down'[i].k = "push" => down'[i].p \in subs'
  <2>1. CASE p \in subs
    <3>1. down' \in Seq(Wire)
      <4>. HIDE DEF Wire
      <4>. QED BY <1>1, <1>2, <1>3, <2>1
    <3>2. conn = "ready" => \A i \in 1..Len(down') : down'[i].k = "push" => down'[i].p \in subs'
      BY <1>1, <1>2, <2>1, FrameSent
    <3>. QED BY <3>1, <3>2
  <2>2. CASE p \notin subs
    BY <1>1, <1>3, <2>2 DEF Subscribed
  <2>. QED BY <2>1, <2>2
<1>5. val' \in Trees
  BY <1>1, <1>3 DEF Trees
<1>6. Types'
  <2>. HIDE DEF Stores, Mails, Commands, Wire, Trees, Events
  <2>. QED BY <1>1, <1>4, <1>5 DEF Types
<1>7. SawReady' = SawReady /\ Covered' = Covered
  BY <1>1 DEF SawReady, Covered, Asked, AskedUp
<1>8. OfSession'
  BY <1>1, <1>7, CurrentStays
<1>. HIDE DEF Covered, SawReady
<1>9. Subscribed'
  BY <1>1, <1>4, <1>7 DEF Subscribed
<1>. QED BY <1>6, <1>8, <1>9 DEF StoreInv

------------------------------------------------------------------------------
\* The store's properties.

LEMMA StoreInit == ASSUME HelperAssumption, Init PROVE StoreInv
<1>1. val \in Trees /\ [p \in Paths |-> Absent] \in Trees
  BY DEF Init, Trees, Shown
<1>2. ui \in Stores /\ ui.status # "Live"
  BY <1>1 DEF Init, Closed, Stores, Statuses
<1>3. mail \in [Tickets -> Mails] /\ \A t \in Tickets : mail[t] = NoMail /\ mail[t].st # "reply"
  BY DEF Init, Mails, NoMail
<1>4. Types
  <2>. HIDE DEF Stores, Mails, Commands, Wire, Trees, Events
  <2>. QED BY <1>1, <1>2, <1>3 DEF Init, Types
<1>5. OfSession
  BY <1>2, <1>3 DEF OfSession
<1>6. Subscribed
  BY DEF Init, Subscribed
<1>. QED BY <1>4, <1>5, <1>6 DEF StoreInv

LEMMA StoreStep == ASSUME HelperAssumption, StoreInv, [Next]_vars PROVE StoreInv'
<1>1. CASE Drain
  BY <1>1, DrainUpdatesStep, DrainRestStep DEF Drain
<1>2. CASE PollComesDue
  BY <1>2, PollComesDueStep
<1>3. CASE Owner
  <2>1. CASE Connect
    BY <2>1, DropsStep DEF Connect
  <2>2. CASE Disconnect
    BY <2>2, DropsStep DEF Disconnect
  <2>. QED BY <1>3, <2>1, <2>2, SetStep DEF Owner
<1>4. CASE Network
  <2>1. CASE Receive
    BY <2>1, IngestStep DEF Receive
  <2>2. CASE \E t \in Tickets : Expire(t)
    BY <2>2, ExpireStep
  <2>. QED BY <1>4, <2>1, <2>2, DialStep, DialFailsStep, DialSucceedsStep, LostStep, RejectStep,
              TakeStep DEF Network
<1>5. CASE Helper
  BY <1>5, ServeStep, RefuseStep, ChangeStep DEF Helper
<1>6. CASE UNCHANGED vars
  BY <1>6 DEF vars, net, sock, StoreInv, Types, OfSession, Subscribed, SawReady, Covered, Asked, AskedUp
<1>. QED BY <1>1, <1>2, <1>3, <1>4, <1>5, <1>6 DEF Next

LEMMA StoreHolds == Spec => []StoreInv
<1>1. Init => StoreInv
  BY HelperAssumption, StoreInit
<1>2. StoreInv /\ [Next]_vars => StoreInv'
  BY HelperAssumption, StoreStep
<1>. QED BY <1>1, <1>2, PTL DEF Spec

\* The console's view of the helper is of the session it is connected with: a
\* store that is live, with no news waiting for it, shows what this session's
\* answers and pushes made of it, whatever replies were under way when the last
\* one was lost.
THEOREM HelperReadTruly == Spec => []ReadFromThisSession
<1>1. StoreInv => ReadFromThisSession
  BY DEF StoreInv, OfSession, ReadFromThisSession, SawReady
<1>. QED BY <1>1, StoreHolds, PTL

\* Nothing that the console shows of the helper goes stale unnoticed: a live
\* store with nothing under way has a subscription in force for every property
\* that exists in its tree, those that a re-read found included.
THEOREM HelperSubscribed == Spec => []SubscribedToAll
<1>1. StoreInv => SubscribedToAll
  <2>. SUFFICES ASSUME StoreInv, Quiet, ui.status = "Live" PROVE Exists(ui.tree) \subseteq subs
    BY DEF SubscribedToAll
  <2>1. ~SawReady /\ Asked(tx) = {} /\ AskedUp = {}
    BY DEF Quiet, SawReady, Asked, AskedUp
  <2>. QED BY <2>1 DEF StoreInv, Subscribed, Covered, Quiet
<1>. QED BY <1>1, StoreHolds, PTL
=============================================================================

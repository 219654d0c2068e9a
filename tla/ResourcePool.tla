---------------------------- MODULE ResourcePool ----------------------------
(***************************************************************************)
(* The host's ledger of one DSP's memory pools:                            *)
(* src/driver/ua_resource_pool.c.                                          *)
(*                                                                         *)
(* A pool is a linked list of extents.  Pool 0 (code) is listed upwards    *)
(* and filled from its low end; pools 1-3 (data) are listed downwards and  *)
(* filled from their high end, above a scratch area that is never handed   *)
(* out.  A caller holds leases; an extent that several callers share goes  *)
(* back with the last of them.  Releases merge list neighbours, which is   *)
(* right only while list neighbours are memory neighbours.                 *)
(*                                                                         *)
(* One call runs at a time (the owner's mutex).  A batch is the one call   *)
(* of several steps: it keeps the mutex, so that no other call happens     *)
(* until it has succeeded or taken everything back.                        *)
(***************************************************************************)
EXTENDS Integers, Sequences, FiniteSets, SequencesExt

CONSTANTS Kinds,       \* the pools of the instance, of 0..3
          Geometry,    \* what the register window says of each pool
          Identities,  \* resource objects
          Sizes,       \* words a caller may ask for
          Scratches,   \* words of scratch a caller may ask for
          MaxTickets,  \* bound on ua_pool_hold_ids
          MaxBatch     \* bound on the requests of a batch (UA_POOL_BATCH_MAX)

\* ua_pool_even_up, and the rounding of the capacity.
EvenUp(n)   == n + (n % 2)
EvenDown(n) == n - (n % 2)

Base(k)       == EvenUp(Geometry[k].base)
Words(k)      == EvenDown(Geometry[k].words)
ScratchMin(k) == EvenUp(Geometry[k].scratch)
Limit(k)      == Base(k) + Words(k)

\* What ua_pool_owner_create accepts.
ASSUME PoolAssumption ==
  /\ Kinds \subseteq 0..3
  /\ Geometry \in [Kinds -> [base : Nat, words : Nat, scratch : Nat]]
  /\ \A k \in Kinds : k = 0 => Geometry[k].scratch = 0
  /\ \A k \in Kinds : ScratchMin(k) + 2 <= Words(k)
  /\ Sizes \subseteq Nat \ {0} /\ Scratches \subseteq Nat
  /\ MaxTickets \in Nat /\ MaxBatch \in Nat

VARIABLES pool,      \* ua_pool_owner.pool: the list of extents of each pool
          holds,     \* ua_pool_owner.holds
          scratch,   \* ua_pool_owner.scratch
          ticket,    \* ua_pool_hold_ids
          stale,     \* ua_pool_owner.invalidated
          leases,    \* every lease a caller was ever given
          call       \* the call that has the mutex

vars == <<pool, holds, scratch, ticket, stale, leases, call>>

------------------------------------------------------------------------------
NoOne == "none"   \* the identity of a free extent

Extents == [base : Nat, words : Nat, cookie : Nat, identity : Identities \cup {NoOne},
            requested : Nat, refs : Nat, shared : BOOLEAN, terminal : BOOLEAN]
Free(e) == e.cookie = 0

\* An extent is known by its pool and its base while it is allocated: nothing
\* allocated ever moves.
Holds    == [cookie : Nat, kind : Kinds, base : Nat]
Leases   == [cookie : Nat, kind : Kinds, base : Nat, words : Nat]
Requests == [kind : Kinds, words : Sizes, identity : Identities, shared : BOOLEAN]

\* The call in progress.  A batch knows how many of its requests are still to
\* come (which ones shows as they are reached) and the leases it has; `pool`
\* and `holds` are what it found (history: no action of the ledger reads them).
Idle == [op |-> "idle"]
Batch(todo, got, p, h) == [op |-> "batch", todo |-> todo, got |-> got, pool |-> p, holds |-> h]
Undo(got, p, h)        == [op |-> "undo", got |-> got, pool |-> p, holds |-> h]

WholePool(k) ==
  [base |-> Base(k) + ScratchMin(k), words |-> Words(k) - ScratchMin(k), cookie |-> 0,
   identity |-> NoOne, requested |-> 0, refs |-> 0, shared |-> FALSE, terminal |-> TRUE]

\* ua_pool_owner_create.
Init ==
  /\ pool = [k \in Kinds |-> <<WholePool(k)>>]
  /\ holds = {} /\ ticket = 0 /\ stale = FALSE /\ leases = {}
  /\ scratch = [k \in Kinds |-> ScratchMin(k)]
  /\ call = Idle

------------------------------------------------------------------------------
\* ua_pool_reserve_locked.

Positions(k) == DOMAIN pool[k]

\* The extent a shared request finds for its resource.
IsHome(k, i, identity) == ~Free(pool[k][i]) /\ pool[k][i].identity = identity
Home(k, i, identity) ==
  IsHome(k, i, identity) /\ \A j \in Positions(k) : j < i => ~IsHome(k, j, identity)

\* Room for w words; the terminal extent must stay non-empty.
Room(e, w) == Free(e) /\ e.words >= w /\ (e.terminal => e.words > w)
FirstFit(k, i, w) ==
  Room(pool[k][i], w) /\ \A j \in Positions(k) : j < i => ~Room(pool[k][j], w)

\* A free extent taken for request r, under the next ticket.
Take(e, r) ==
  [e EXCEPT !.cookie = ticket + 1, !.identity = r.identity, !.requested = r.words,
            !.refs = 1, !.shared = r.shared]

\* Seeded fault of Carved: data is carved from the low end as well.
CarvedLow(e, w, r) == Take([e EXCEPT !.words = w, !.terminal = FALSE], r)

\* The part of e a request of w words gets, and the part that stays free.
Carved(e, w, r) ==
  Take([e EXCEPT !.base = IF r.kind = 0 THEN @ ELSE @ + e.words - w,
                 !.words = w, !.terminal = FALSE], r)
Rest(k, e, w) ==
  [e EXCEPT !.base = IF k = 0 THEN @ + w ELSE @, !.words = @ - w]

\* The caller is given the extent e: a hold on it, and a lease to return it.
Lease(k, e) == [cookie |-> ticket + 1, kind |-> k, base |-> e.base, words |-> e.words]
Give(k, e) ==
  /\ ticket < MaxTickets /\ ticket' = ticket + 1
  /\ holds' = holds \cup {[cookie |-> ticket + 1, kind |-> k, base |-> e.base]}
  /\ leases' = leases \cup {Lease(k, e)}

\* Seeded fault of Joins: an extent that is not shared is joined.
JoinsAny(r, i) ==
  r.shared /\ Home(r.kind, i, r.identity) /\ pool[r.kind][i].requested = r.words

\* The extent a shared request joins; a resource of another size or one that is
\* not shared refuses it.
Joins(r, i) ==
  LET e == pool[r.kind][i] IN
  r.shared /\ Home(r.kind, i, r.identity) /\ e.shared /\ e.requested = r.words
IsNew(r) == r.shared => \A i \in Positions(r.kind) : ~IsHome(r.kind, i, r.identity)
Fits(r, i)      == IsNew(r) /\ FirstFit(r.kind, i, EvenUp(r.words))
FitsWhole(r, i) == Fits(r, i) /\ pool[r.kind][i].words = EvenUp(r.words)

Share(r, i) ==
  LET e == pool[r.kind][i] IN
  /\ Joins(r, i)
  /\ pool' = [pool EXCEPT ![r.kind] = ReplaceAt(@, i, [e EXCEPT !.refs = @ + 1])]
  /\ Give(r.kind, e)

TakeWhole(r, i) ==
  LET t == Take(pool[r.kind][i], r) IN
  /\ FitsWhole(r, i)
  /\ pool' = [pool EXCEPT ![r.kind] = ReplaceAt(@, i, t)]
  /\ Give(r.kind, t)

Split(r, i) ==
  LET w == EvenUp(r.words)
      e == pool[r.kind][i]
      t == Carved(e, w, r) IN
  /\ Fits(r, i) /\ ~FitsWhole(r, i)
  /\ pool' = [pool EXCEPT ![r.kind] = InsertAt(ReplaceAt(@, i, Rest(r.kind, e, w)), i, t)]
  /\ Give(r.kind, t)

Granted(r) == \E i \in Positions(r.kind) : Share(r, i) \/ TakeWhole(r, i) \/ Split(r, i)

\* A request fails for want of memory for the hold (-ENOMEM), or with a ticket
\* used up: -EEXIST, -ENOSPC, or no memory for the extent that a split needs.
Refused(r) ==
  /\ \/ ticket' = ticket
     \/ /\ ticket < MaxTickets /\ ticket' = ticket + 1
        /\ \A i \in Positions(r.kind) : ~Joins(r, i) /\ ~FitsWhole(r, i)
  /\ UNCHANGED <<pool, holds, leases>>

------------------------------------------------------------------------------
\* ua_pool_release_locked.

\* e gives back its words.
Freed(e) == [e EXCEPT !.cookie = 0, !.identity = NoOne, !.requested = 0,
                      !.refs = 0, !.shared = FALSE]

\* Two list neighbours as one; the later of the two says whether it is the
\* terminal extent.
Merge(e, f) == [f EXCEPT !.base = IF e.base < @ THEN e.base ELSE @, !.words = @ + e.words]

\* Seeded fault of MergeNext: the extent behind is never merged.
MergeNextNot(s, i) == s

\* The list s with the freed extent at i merged with a free extent behind it,
\* and with a free extent before it.
MergeNext(s, i) ==
  IF i < Len(s) /\ Free(s[i + 1])
  THEN RemoveAt(ReplaceAt(s, i + 1, Merge(s[i], s[i + 1])), i) ELSE s
MergePrevious(s, i) ==
  IF i > 1 /\ Free(s[i - 1])
  THEN RemoveAt(ReplaceAt(s, i, Merge(s[i - 1], s[i])), i - 1) ELSE s

\* Seeded fault of GiveBack: the extent goes back with the first hold.
GiveBackFirst(k, i) ==
  pool' = [pool EXCEPT ![k] = MergePrevious(MergeNext(ReplaceAt(@, i, Freed(@[i])), i), i)]

\* One reference less; the last one frees the extent.
GiveBack(k, i) ==
  LET e == pool[k][i] IN
  pool' = [pool EXCEPT ![k] =
             IF e.refs > 1 THEN ReplaceAt(@, i, [e EXCEPT !.refs = @ - 1])
             ELSE MergePrevious(MergeNext(ReplaceAt(@, i, Freed(e)), i), i)]

\* The hold and the extent a lease stands for.
Matches(lease, h, i) ==
  LET e == pool[lease.kind][i] IN
  /\ h.cookie = lease.cookie
  /\ ~Free(e) /\ h.kind = lease.kind /\ e.base = h.base
  /\ e.base = lease.base /\ e.words = lease.words

Released(lease) ==
  /\ \E h \in holds, i \in Positions(lease.kind) :
       /\ Matches(lease, h, i)
       /\ holds' = holds \ {h}
       /\ GiveBack(lease.kind, i)
  /\ UNCHANGED <<ticket, leases>>

------------------------------------------------------------------------------
\* The calls.

Enter == call = Idle /\ ~stale

Reserve(r) ==
  /\ Enter
  /\ Granted(r) \/ Refused(r)
  /\ UNCHANGED <<scratch, stale, call>>

\* A lease that was given back already is refused (-ESTALE).
Release(lease) ==
  /\ Enter
  /\ Released(lease)
  /\ UNCHANGED <<scratch, stale, call>>

\* Seeded fault of GrowsBy: nobody asks whether the terminal extent has the room.
GrowsByAny(k, t, grow) == t.terminal /\ Free(t) /\ t.base = Base(k) + scratch[k]

\* ua_pool_set_scratch: the scratch area grows into the terminal extent, which
\* stays non-empty, and shrinks back into it.
GrowsBy(k, t, grow) ==
  t.terminal /\ Free(t) /\ t.base = Base(k) + scratch[k] /\ t.words > grow

WantedScratch(k, n) == IF EvenUp(n) < ScratchMin(k) THEN ScratchMin(k) ELSE EvenUp(n)
SetScratch(k, n) ==
  LET t == Last(pool[k])
      grow == WantedScratch(k, n) - scratch[k] IN
  /\ Enter
  /\ k # 0
  /\ GrowsBy(k, t, grow)
  /\ pool' = [pool EXCEPT ![k] = ReplaceAt(@, Len(@), [t EXCEPT !.base = @ + grow, !.words = @ - grow])]
  /\ scratch' = [scratch EXCEPT ![k] = WantedScratch(k, n)]
  /\ UNCHANGED <<holds, ticket, stale, leases, call>>

\* ua_pool_read_usage: the largest even request that fits now, which changes
\* nothing.  Its seeded fault offers the words the terminal extent must keep.
LargestRequestWhole(k) ==
  Max({0} \cup {EvenDown(pool[k][i].words) : i \in {j \in Positions(k) : Free(pool[k][j])}})

LargestRequest(k) ==
  LET fits(e) == IF e.terminal THEN IF e.words >= 2 THEN EvenDown(e.words) - 2 ELSE 0
                 ELSE EvenDown(e.words)
  IN Max({0} \cup {fits(pool[k][i]) : i \in {j \in Positions(k) : Free(pool[k][j])}})

\* ua_pool_owner_invalidate: every later call fails.
Invalidate ==
  /\ Enter
  /\ stale' = TRUE
  /\ UNCHANGED <<pool, holds, scratch, ticket, leases, call>>

\* ua_pool_reserve_batch, of n requests.
BatchBegins(n) ==
  /\ Enter
  /\ call' = Batch(n, <<>>, pool, holds)
  /\ UNCHANGED <<pool, holds, scratch, ticket, stale, leases>>

BatchReserves(r) ==
  /\ call.op = "batch" /\ call.todo > 0
  /\ Granted(r)
  /\ \E lease \in leases' \ leases :
       call' = Batch(call.todo - 1, Append(call.got, lease), call.pool, call.holds)
  /\ UNCHANGED <<scratch, stale>>

BatchFails(r) ==
  /\ call.op = "batch" /\ call.todo > 0
  /\ Refused(r)
  /\ call' = Undo(call.got, call.pool, call.holds)
  /\ UNCHANGED <<scratch, stale>>

\* Seeded fault of BatchUndoes: of several holds the first one is kept.
BatchUndoesButOne ==
  /\ call.op = "undo" /\ Len(call.got) > 1
  /\ Released(Last(call.got))
  /\ call' = Undo(IF Len(call.got) = 2 THEN <<>> ELSE Front(call.got), call.pool, call.holds)
  /\ UNCHANGED <<scratch, stale>>

\* A batch that failed gives its holds back, the last one first.
BatchUndoes ==
  /\ call.op = "undo" /\ call.got # <<>>
  /\ Released(Last(call.got))
  /\ call' = Undo(Front(call.got), call.pool, call.holds)
  /\ UNCHANGED <<scratch, stale>>

BatchReturns ==
  /\ \/ call.op = "batch" /\ call.todo = 0
     \/ call.op = "undo" /\ call.got = <<>>
  /\ call' = Idle
  /\ UNCHANGED <<pool, holds, scratch, ticket, stale, leases>>

Next ==
  \/ \E r \in Requests : Reserve(r) \/ BatchReserves(r) \/ BatchFails(r)
  \/ \E lease \in leases : Release(lease)
  \/ \E k \in Kinds, n \in Scratches : SetScratch(k, n)
  \/ Invalidate
  \/ \E n \in 1..MaxBatch : BatchBegins(n)
  \/ BatchUndoes \/ BatchReturns

Spec == Init /\ [][Next]_vars

------------------------------------------------------------------------------
\* Properties.

TypeOK ==
  /\ pool \in [Kinds -> Seq(Extents)] /\ \A k \in Kinds : pool[k] # <<>>
  /\ holds \subseteq Holds /\ leases \subseteq Leases
  /\ scratch \in [Kinds -> Nat] /\ ticket \in Nat /\ stale \in BOOLEAN
  /\ call.op \in {"idle", "batch", "undo"}
  /\ call.op = "batch" => call.todo \in Nat
  /\ call.op \in {"batch", "undo"} => call.got \in Seq(Leases)

\* List neighbours are memory neighbours, and the list covers the pool from its
\* scratch area to its end: no word belongs to two extents and none is lost.
\* Merging in release relies on it ("List neighbours are memory neighbours").
End(e) == e.base + e.words
Bottom(k) == Base(k) + scratch[k]
Meets(up, e, f)       == IF up THEN f.base = End(e) ELSE e.base = End(f)
Starts(up, e, lo, hi) == IF up THEN e.base = lo ELSE End(e) = hi
Stops(up, e, lo, hi)  == IF up THEN End(e) = hi ELSE e.base = lo
Tiles(s, up, lo, hi) ==
  /\ \A i \in 1..(Len(s) - 1) : Meets(up, s[i], s[i + 1])
  /\ Starts(up, s[1], lo, hi) /\ Stops(up, s[Len(s)], lo, hi)
Tiled == \A k \in Kinds : Tiles(pool[k], k = 0, Bottom(k), Limit(k))

\* The terminal extent, and only it, is the last of its list; it is free and not
\* empty.  No extent is empty, and no two free neighbours are left unmerged.
WellKept(k) ==
  LET s == pool[k] IN
  /\ \A i \in DOMAIN s : s[i].words > 0 /\ (s[i].terminal <=> i = Len(s))
  /\ Free(s[Len(s)])
  /\ \A i \in 1..(Len(s) - 1) : ~(Free(s[i]) /\ Free(s[i + 1]))
Merged == \A k \in Kinds : WellKept(k)

\* An extent has as many references as it has holds, every hold stands for an
\* allocated extent, and no two holds have one ticket.
HoldsOn(k, e) == {h \in holds : h.kind = k /\ h.base = e.base}
RefsAreHolds ==
  /\ \A k \in Kinds : \A i \in Positions(k) :
       LET e == pool[k][i] IN
       e.refs = IF Free(e) THEN 0 ELSE Cardinality(HoldsOn(k, e))
  /\ \A h \in holds : \E i \in Positions(h.kind) :
       ~Free(pool[h.kind][i]) /\ pool[h.kind][i].base = h.base
  /\ \A g, h \in holds : g.cookie = h.cookie => g = h

\* "Reserve every request or none": a batch that failed leaves the lists and the
\* holds as it found them, merged extents and all.
AllOrNothing ==
  call.op = "undo" /\ call.got = <<>> => pool = call.pool /\ holds = call.holds

\* ua_pool_read_usage reports the largest even request that fits, and its sums
\* account for the whole pool.
WordsOf(s) ==
  LET sum[n \in 0..Len(s)] == IF n = 0 THEN 0 ELSE sum[n - 1] + s[n].words IN sum[Len(s)]
UsageTruthful ==
  \A k \in Kinds :
    /\ \A w \in {n \in 1..Words(k) : n % 2 = 0} :
         w <= LargestRequest(k) <=> \E i \in Positions(k) : Room(pool[k][i], w)
    /\ scratch[k] + WordsOf(pool[k]) = Words(k)

------------------------------------------------------------------------------
\* What the ledger promises its callers (module PoolLedger).

ExtentAt(k, base) == CHOOSE e \in {pool[k][i] : i \in Positions(k)} : e.base = base
Held(h) ==
  LET e == ExtentAt(h.kind, h.base)
  IN [kind |-> h.kind, words |-> e.base..(End(e) - 1), identity |-> e.identity, shared |-> e.shared]
Owned == [c \in {h.cookie : h \in holds} |-> Held(CHOOSE h \in holds : h.cookie = c)]

Ledger == INSTANCE PoolLedger WITH
  owned <- Owned, used <- ticket, bottom <- [k \in Kinds |-> Bottom(k)],
  Limits <- [k \in Kinds |-> Limit(k)], Bases <- [k \in Kinds |-> Base(k)]
LedgerSpec == Ledger!Spec
=============================================================================

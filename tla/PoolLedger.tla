----------------------------- MODULE PoolLedger -----------------------------
(***************************************************************************)
(* What a DSP memory ledger promises its callers, whatever lists it keeps  *)
(* (src/driver/ua_resource_pool.c): words that are handed out are in the   *)
(* pool and above its scratch area, belong to nobody else unless the       *)
(* resource is shared, stay where they are until they are given back, and  *)
(* are known by a ticket that is never used again.                         *)
(***************************************************************************)
EXTENDS Integers

CONSTANTS Kinds, Bases, Limits

VARIABLES owned,   \* ticket -> what its holder has
          used,    \* tickets used so far
          bottom   \* the end of each pool's scratch area

vars == <<owned, used, bottom>>

Tickets == DOMAIN owned
Taken(k) == UNION {owned[c].words : c \in {d \in Tickets : owned[d].kind = k}}

Init ==
  /\ owned = [c \in {} |-> {}]
  /\ used = 0
  /\ \A k \in Kinds : bottom[k] \in Bases[k]..Limits[k]

\* A new ticket for what is given.
Issue(what) ==
  /\ used' = used + 1
  /\ owned' = [c \in Tickets \cup {used + 1} |-> IF c = used + 1 THEN what ELSE owned[c]]
  /\ UNCHANGED bottom

\* Consecutive words of pool what.kind, above its scratch area, that nobody has.
Available(what) ==
  \E first, last \in bottom[what.kind]..(Limits[what.kind] - 1) :
    /\ first <= last /\ what.words = first..last
    /\ what.words \cap Taken(what.kind) = {}

\* Which of the words that would do is the ledger's choice.
Grant == \E what \in {owned'[c] : c \in DOMAIN owned'} : Issue(what) /\ Available(what)

\* Another holder of a shared resource.
Join == \E c \in Tickets : owned[c].shared /\ Issue(owned[c])

\* A refused request may have used a ticket.
Waste == used' = used + 1 /\ UNCHANGED <<owned, bottom>>

Return ==
  /\ \E c \in Tickets : owned' = [d \in Tickets \ {c} |-> owned[d]]
  /\ UNCHANGED <<used, bottom>>

\* The scratch area grows and shrinks below everything that is taken.
Rescratch ==
  /\ \E k \in Kinds : \E b \in Bases[k]..Limits[k] :
       /\ \A w \in Taken(k) : b <= w
       /\ bottom' = [bottom EXCEPT ![k] = b]
  /\ UNCHANGED <<owned, used>>

Next == Grant \/ Join \/ Waste \/ Return \/ Rescratch

Spec == Init /\ [][Next]_vars
=============================================================================

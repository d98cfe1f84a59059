------------------------------ MODULE ARCManager ------------------------------
(***************************************************************************)
(* CPUOffloadingManager with the ARC policy (kv_offload/cpu/policies/      *)
(* arc.py): t1 holds the blocks used once, t2 those used again, b1 and b2    *)
(* remember what was evicted from each ("ghosts"), and target is the size    *)
(* the policy wants t1 to have; ghost hits move it.                         *)
(*                                                                         *)
(* target_t1_size is a float in the code: it grows and shrinks by quotients  *)
(* of ghost list lengths.  Here it counts units of 1/Scale, with Scale       *)
(* divisible by every length a ghost list can have, so quotients are exact.  *)
(***************************************************************************)
EXTENDS CPUOffloadingManager, OrderedKeys

CONSTANT Scale  \* units of target per block

ASSUME ScaleAssumption ==
    /\ Scale \in Nat \ {0}
    /\ \A n \in 1..NumBlocks : Scale % n = 0

VARIABLES
    t1, t2,  \* keys in the cache, least recently used first
    b1, b2,  \* ghost keys, oldest first
    target   \* target_t1_size, in units of 1/Scale

arcLists == <<t1, t2, b1, b2, target>>
arcVars == <<vars, t1, t2, b1, b2, target>>

MaxOf(a, b) == IF a >= b THEN a ELSE b
MinOf(a, b) == IF a <= b THEN a ELSE b

ARCInit ==
    /\ Init
    /\ t1 = <<>> /\ t2 = <<>> /\ b1 = <<>> /\ b2 = <<>>
    /\ target = 0

-----------------------------------------------------------------------------

Evictable(s, keys) == Within(s, Idle \ keys)

\* evict: n times, take the oldest candidate left in t1 while t1, less what was
\* taken from it, has reached its target, and otherwise (or when t1 has no
\* candidate left) the oldest left in t2.  Stops short when that list has none.
ARCSelect(keys) ==
    LET c1 == Evictable(t1, keys)
        c2 == Evictable(t2, keys)
        taken[i \in 0..NumBlocks] ==
            IF i = 0 THEN <<>>
            ELSE LET s == taken[i - 1]
                     n1 == Cardinality(Range(s) \cap Range(c1))
                     n2 == Len(s) - n1
                     fromT1 == Len(t1) - n1 >= target \div Scale /\ n1 < Len(c1)
                 IN IF fromT1 THEN Append(s, c1[n1 + 1])
                    ELSE IF n2 < Len(c2) THEN Append(s, c2[n2 + 1])
                    ELSE s
    IN [n \in 0..NumBlocks |-> taken[n]]

ToEvict(keys) == MaxOf(NumToEvict(keys), 0)
ARCEvictSucceeds(keys) ==
    /\ ToEvict(keys) <= NumBlocks
    /\ Len(ARCSelect(keys)[ToEvict(keys)]) = ToEvict(keys)
ARCEvicted(keys) == ARCSelect(keys)[ToEvict(keys)]

\* Ghost lists keep their newest NumBlocks entries.
Trim(ghosts) == SubSeq(ghosts, MaxOf(Len(ghosts) - NumBlocks, 0) + 1, Len(ghosts))

ARCPrepareStore(j, keys, new) ==
    /\ NumToEvict(keys) <= numEvictable
    /\ ARCEvictSucceeds(keys)
    /\ PrepareStore(j, keys, new, ARCEvicted(keys))
    /\ LET evicted == ARCEvicted(keys)
           ghost1 == b1 \o Within(evicted, Range(t1))
           ghost2 == b2 \o Within(evicted, Range(t2))
           trimmed(ghosts) == IF evicted = <<>> THEN ghosts ELSE Trim(ghosts)
       IN /\ t1' = Without(t1, Range(evicted)) \o new
          /\ t2' = Without(t2, Range(evicted))
          /\ b1' = Without(trimmed(ghost1), Range(new))
          /\ b2' = Without(trimmed(ghost2), Range(new))
    /\ UNCHANGED target

\* Mutant: the target is not capped at the capacity.
UncappedTarget(p) == p.target + MaxOf(Scale, (Scale * Len(p.b2)) \div Len(p.b1))

\* A ghost hit in b1 raises the target, one in b2 lowers it.
Raised(p) == MinOf(p.target + MaxOf(Scale, (Scale * Len(p.b2)) \div Len(p.b1)), NumBlocks * Scale)
Lowered(p) == MaxOf(p.target - MaxOf(Scale, (Scale * Len(p.b1)) \div Len(p.b2)), 0)

\* touch of one key, on a record of the lists: a ready block of t1 moves to t2,
\* one still being written stays in t1; a ghost hit moves the target.
TouchOne(k, p) ==
    CASE k \in Range(p.t1) /\ IsReady(k) ->
           [p EXCEPT !.t1 = Without(@, {k}), !.t2 = Append(@, k)]
      [] k \in Range(p.t1) /\ ~IsReady(k) ->
           [p EXCEPT !.t1 = Append(Without(@, {k}), k)]
      [] k \in Range(p.t2) ->
           [p EXCEPT !.t2 = Append(Without(@, {k}), k)]
      [] k \in Range(p.b1) ->
           [p EXCEPT !.b1 = Append(Without(@, {k}), k), !.target = Raised(p)]
      [] k \in Range(p.b2) ->
           [p EXCEPT !.b2 = Append(Without(@, {k}), k), !.target = Lowered(p)]
      [] OTHER -> p

\* touch walks the keys in reverse.
ARCTouch(order) ==
    LET p == FoldRight(TouchOne, order,
                       [t1 |-> t1, t2 |-> t2, b1 |-> b1, b2 |-> b2, target |-> target])
    IN /\ t1' = p.t1 /\ t2' = p.t2
       /\ b1' = p.b1 /\ b2' = p.b2
       /\ target' = p.target
       /\ UNCHANGED vars

\* Mutant: a failed store stays in its list.
ARCStoreFailedStays(j, order) == CompleteStoreFailed(j, order) /\ UNCHANGED arcLists

\* remove: a failed store leaves no ghost.
ARCCompleteStoreFailed(j, order) ==
    /\ CompleteStoreFailed(j, order)
    /\ t1' = Without(t1, Range(order))
    /\ t2' = Without(t2, Range(order) \ Range(t1))
    /\ UNCHANGED <<b1, b2, target>>

ARCReset ==
    /\ ResetCache
    /\ t1' = <<>> /\ t2' = <<>> /\ b1' = <<>> /\ b2' = <<>>
    /\ target' = 0

\* Loads and finished stores do not move blocks between the lists.
ARCPrepareLoad(j, keys) == PrepareLoad(j, keys) /\ UNCHANGED arcLists
ARCCompleteLoad(j) == CompleteLoad(j) /\ UNCHANGED arcLists
ARCCompleteStore(j) == CompleteStore(j) /\ UNCHANGED arcLists

ARCNext ==
    \/ \E j \in JobIds :
         \/ \E keys \in SUBSET Keys : ARCPrepareLoad(j, keys)
         \/ ARCCompleteLoad(j)
         \/ \E keys \in SUBSET Keys :
              \E new \in SetToSeqs(KeysToStore(keys)) : ARCPrepareStore(j, keys, new)
         \/ ARCCompleteStore(j)
         \/ \E order \in SetToSeqs(PendingOf(stores[j])) : ARCCompleteStoreFailed(j, order)
    \/ \E keys \in SUBSET Keys : \E order \in SetToSeqs(keys) : ARCTouch(order)
    \/ ARCReset

ARCSpec == ARCInit /\ [][ARCNext]_arcVars

-----------------------------------------------------------------------------

\* t1 and t2 split the cache between them, no key is a ghost of either list
\* while it is in the cache or a ghost twice, and ghosts and target stay bounded.
ListsPartitionTheCache ==
    /\ IsInjective(t1 \o t2) /\ Range(t1 \o t2) = Present
    /\ IsInjective(b1 \o b2) /\ Range(b1 \o b2) \cap Present = {}
    /\ Len(b1) <= NumBlocks /\ Len(b2) <= NumBlocks
    /\ target \in 0..(NumBlocks * Scale)

\* A full cache with nothing in flight, and one block to make room for.
IdleCacheForOneBlock(keys) ==
    /\ Cardinality(Present) = NumBlocks /\ Present # {}
    /\ Present \subseteq Idle \ keys
    /\ Cardinality(keys) = 1

\* What evict returns, whatever the lists and the target have become, is as many
\* idle blocks as are missing, none of them in the request; and the target never
\* starves an idle cache of one block.  evict may give up on several blocks
\* although enough are idle, see EvictsWheneverPossible.
ARCEvictKeepsItsContract ==
    \A keys \in SUBSET Keys :
       /\ NumToEvict(keys) <= numEvictable /\ ARCEvictSucceeds(keys)
          => CanEvict(keys, ARCEvicted(keys))
       /\ IdleCacheForOneBlock(keys) => ARCEvictSucceeds(keys)

\* Not kept by ARC: a policy must evict whenever enough idle blocks outside the
\* request exist, since evict returns None only "if n evictions cannot be
\* satisfied" (policies/base.py).
EvictsWheneverPossible ==
    \A keys \in SUBSET Keys :
       NumToEvict(keys) <= Cardinality(Idle \ keys) => ARCEvictSucceeds(keys)
=============================================================================

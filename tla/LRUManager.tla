------------------------------ MODULE LRUManager ------------------------------
(***************************************************************************)
(* CPUOffloadingManager with the LRU policy (kv_offload/cpu/policies/      *)
(* lru.py): an ordered list of the idle keys, least recently used first.    *)
(* A key enters the list at its end when its store or its last load          *)
(* completes; touch moves idle keys to the end; a load takes it out.         *)
(*                                                                         *)
(* Transfer jobs keep their keys in a Python set, so the keys of one job    *)
(* become idle in an arbitrary order.                                      *)
(***************************************************************************)
EXTENDS CPUOffloadingManager, OrderedKeys

VARIABLE evictableBlocks  \* idle keys, least recently used first

lruVars == <<vars, evictableBlocks>>



LRUInit == Init /\ evictableBlocks = <<>>

-----------------------------------------------------------------------------

\* evict: the first n unprotected keys of the list, or nothing at all.
LRUCandidates(keys) == Without(evictableBlocks, keys)

\* Mutant: evict keeps one candidate back.
KeepsOneBack(keys) == NumToEvict(keys) < Len(LRUCandidates(keys))

LRUEvictSucceeds(keys) == NumToEvict(keys) <= Len(LRUCandidates(keys))

LRUEvicted(keys) ==
    IF NumToEvict(keys) <= 0 THEN <<>>
    ELSE SubSeq(LRUCandidates(keys), 1, NumToEvict(keys))

\* Mutant: prepare_load leaves the blocks in the list.
LRUPrepareLoadUnmarked(j, keys) == PrepareLoad(j, keys) /\ UNCHANGED evictableBlocks

LRUPrepareLoad(j, keys) ==
    /\ PrepareLoad(j, keys)
    /\ evictableBlocks' = Without(evictableBlocks, keys)

LRUCompleteLoad(j, order) ==
    /\ CompleteLoad(j)
    /\ evictableBlocks' = evictableBlocks \o order

\* prepare_store gives up early on the idle count, and otherwise if the policy
\* finds too few unprotected candidates.
LRUPrepareStore(j, keys, new) ==
    /\ NumToEvict(keys) <= numEvictable
    /\ LRUEvictSucceeds(keys)
    /\ PrepareStore(j, keys, new, LRUEvicted(keys))
    /\ evictableBlocks' = Without(evictableBlocks, Range(LRUEvicted(keys)))

LRUCompleteStore(j, order) ==
    /\ CompleteStore(j)
    /\ evictableBlocks' = evictableBlocks \o order

LRUCompleteStoreFailed(j, order) ==
    /\ CompleteStoreFailed(j, order)
    /\ evictableBlocks' = Without(evictableBlocks, Range(order))

\* touch walks the keys in reverse, so the first of them ends up most recent.
LRUTouch(order) ==
    /\ evictableBlocks' = Without(evictableBlocks, Range(order))
                            \o Reverse(Within(order, Range(evictableBlocks)))
    /\ UNCHANGED vars

LRUReset == ResetCache /\ evictableBlocks' = <<>>

LRUNext ==
    \/ \E j \in JobIds :
         \/ \E keys \in SUBSET Keys : LRUPrepareLoad(j, keys)
         \/ \E order \in SetToSeqs({k \in loads[j] : blocks[k].ref = 1}) :
              LRUCompleteLoad(j, order)
         \/ \E keys \in SUBSET Keys :
              \E new \in SetToSeqs(KeysToStore(keys)) : LRUPrepareStore(j, keys, new)
         \/ \E order \in SetToSeqs(PendingOf(stores[j])) :
              LRUCompleteStore(j, order) \/ LRUCompleteStoreFailed(j, order)
    \/ \E keys \in SUBSET Keys : \E order \in SetToSeqs(keys) : LRUTouch(order)
    \/ LRUReset

LRUSpec == LRUInit /\ [][LRUNext]_lruVars

-----------------------------------------------------------------------------

\* The list holds exactly the idle blocks, each once: evict never meets a
\* missing or busy block (its assertion ref_cnt == 0), and mark_non_evictable
\* always finds the key it deletes.
EvictableListIsExact ==
    /\ IsInjective(evictableBlocks)
    /\ Range(evictableBlocks) = Idle

\* evict keeps its contract: whenever enough idle blocks outside the request
\* exist it finds as many as are missing, idle and outside the request; it gives
\* up only "if n evictions cannot be satisfied" (policies/base.py).  So LRU is an
\* eviction the manager allows, and prepare_store refuses only what it must.
LRUEvictKeepsItsContract ==
    \A keys \in SUBSET Keys :
       NumToEvict(keys) <= Cardinality(Idle \ keys)
       => LRUEvictSucceeds(keys) /\ CanEvict(keys, LRUEvicted(keys))
=============================================================================

------------------------ MODULE CPUOffloadingManager ------------------------
(***************************************************************************)
(* The host-RAM tier of the KV cache: CPUOffloadingManager                 *)
(* (kv_offload/cpu/manager.py).  A pool of NumBlocks CPU slots holds        *)
(* offloaded blocks by key.  A slot's ref_cnt is -1 while a store writes it, *)
(* and otherwise the number of loads reading it; only ref_cnt 0 slots may be *)
(* evicted.                                                                *)
(*                                                                         *)
(* The replacement policy is abstract here: which idle blocks prepare_store *)
(* evicts, and whether it finds enough of them, is left open.  LRUManager   *)
(* and ARCManager fix it.                                                  *)
(*                                                                         *)
(* The caller is the OffloadingConnectorScheduler.  What it does to the     *)
(* manager is recorded by the transfer jobs it has in flight: a job loads   *)
(* or stores a set of keys, prepare_* starts it and complete_* ends it.     *)
(***************************************************************************)
EXTENDS Integers, SequencesExt

CONSTANTS
    Keys,       \* offload keys (block hashes)
    NumBlocks,  \* slots of the CPU buffer
    JobIds      \* transfer jobs that can be in flight at the same time

ASSUME KeysAssumption == IsFiniteSet(Keys)
ASSUME NumBlocksAssumption == NumBlocks \in Nat
ASSUME JobIdsAssumption == IsFiniteSet(JobIds)

VARIABLES
    blocks,        \* key -> [ref, id]; its domain is what policy.get finds
    freeList,      \* _free_list: ids of slots given back, reused from the end
    numAllocated,  \* _num_allocated_blocks: slots handed out at least once
    numEvictable,  \* _num_evictable_cache_blocks
    numPending,    \* _num_write_pending_blocks
    loads,         \* keys each job in flight is loading
    stores         \* keys each job in flight is storing

mgrVars == <<blocks, freeList, numAllocated, numEvictable, numPending>>
jobVars == <<loads, stores>>
vars == <<blocks, freeList, numAllocated, numEvictable, numPending, loads, stores>>

-----------------------------------------------------------------------------

Slots == 0..(NumBlocks - 1)
BlockStatus == [ref : Int, id : Slots]

Present == DOMAIN blocks
IsReady(k) == blocks[k].ref >= 0

Idle == {k \in Present : blocks[k].ref = 0}
WritePending == {k \in Present : blocks[k].ref = -1}

\* What lookup answers for one key.
Lookup(k) == IF k \notin Present THEN "MISS"
             ELSE IF IsReady(k) THEN "HIT" ELSE "HIT_PENDING"

NumFree == Len(freeList) + NumBlocks - numAllocated

IdleJob(j) == loads[j] = {} /\ stores[j] = {}

Pinners(k) == {j \in JobIds : k \in loads[j]}
Writers(k) == {j \in JobIds : k \in stores[j]}

Init ==
    /\ blocks = [k \in {} |-> [ref |-> 0, id |-> 0]]
    /\ freeList = <<>>
    /\ numAllocated = 0
    /\ numEvictable = 0
    /\ numPending = 0
    /\ loads = [j \in JobIds |-> {}]
    /\ stores = [j \in JobIds |-> {}]

-----------------------------------------------------------------------------
(***************************************************************************)
(* What each method does to the manager's state.  The connector model       *)
(* reuses these with its own job table.                                    *)
(***************************************************************************)

\* Mutant: a block that is still being written can be loaded.
CanLoadPending(keys) == keys \subseteq Present

\* Mutant: the reference count is a flag.
PrepareLoadFlag(keys) ==
    /\ blocks' = [k \in Present |->
                    IF k \in keys THEN [blocks[k] EXCEPT !.ref = 1] ELSE blocks[k]]
    /\ numEvictable' = numEvictable - Cardinality(keys \cap Idle)
    /\ UNCHANGED <<freeList, numAllocated, numPending>>

\* prepare_load: every key present and ready; ref_cnt + 1.
CanLoad(keys) == \A k \in keys : k \in Present /\ IsReady(k)

PrepareLoadEffect(keys) ==
    /\ blocks' = [k \in Present |->
                    IF k \in keys THEN [blocks[k] EXCEPT !.ref = @ + 1]
                    ELSE blocks[k]]
    /\ numEvictable' = numEvictable - Cardinality(keys \cap Idle)
    /\ UNCHANGED <<freeList, numAllocated, numPending>>

\* Mutant: every completed load counts its blocks as idle again.
CompleteLoadOvercounts(keys) ==
    /\ blocks' = [k \in Present |->
                    IF k \in keys THEN [blocks[k] EXCEPT !.ref = @ - 1] ELSE blocks[k]]
    /\ numEvictable' = numEvictable + Cardinality(keys)
    /\ UNCHANGED <<freeList, numAllocated, numPending>>

\* complete_load: ref_cnt - 1, idle again when it reaches 0.
CompleteLoadEffect(keys) ==
    /\ blocks' = [k \in Present |->
                    IF k \in keys THEN [blocks[k] EXCEPT !.ref = @ - 1]
                    ELSE blocks[k]]
    /\ numEvictable' = numEvictable
                         + Cardinality({k \in keys \cap Present : blocks[k].ref = 1})
    /\ UNCHANGED <<freeList, numAllocated, numPending>>

\* The keys prepare_store drops as already stored leave the rest to store.
KeysToStore(keys) == keys \ Present
NumToEvict(keys) == Cardinality(KeysToStore(keys)) - NumFree

\* policy.evict may return any of these for a request with these keys: exactly
\* as many idle, unprotected blocks as are missing, in any order.
CanEvict(keys, evicted) ==
    /\ Range(evicted) \subseteq Idle \ keys
    /\ Len(evicted) = IF NumToEvict(keys) > 0 THEN NumToEvict(keys) ELSE 0

EvictionChoices(keys) ==
    UNION {SetToSeqs(E) : E \in SUBSET (Idle \ keys)}

\* _free_block for every evicted key, then _allocate_blocks: fresh slots
\* first, then from the end of the free list; the i-th new key gets the i-th slot.
FreedList(evicted) == freeList \o [i \in 1..Len(evicted) |-> blocks[evicted[i]].id]

\* Mutant: fresh slots are handed out beyond the end of the pool.
AllFresh(new) == Len(new)

NumFresh(new) == IF Len(new) <= NumBlocks - numAllocated
                 THEN Len(new) ELSE NumBlocks - numAllocated
NumReused(new) == Len(new) - NumFresh(new)

\* Mutant: slots are read from the front of the free list and dropped from its end.
SlotFromFront(i, new, freed) ==
    IF i <= NumFresh(new) THEN numAllocated + i - 1 ELSE freed[i - NumFresh(new)]

SlotFor(i, new, freed) ==
    IF i <= NumFresh(new) THEN numAllocated + i - 1
    ELSE freed[Len(freed) - (i - NumFresh(new)) + 1]

PrepareStoreEffect(new, evicted) ==
    LET freed == FreedList(evicted)
    IN /\ blocks' = [k \in (Present \ Range(evicted)) \cup Range(new) |->
                       IF k \in Range(new)
                       THEN [ref |-> -1,
                             id |-> SlotFor(CHOOSE i \in DOMAIN new : new[i] = k,
                                            new, freed)]
                       ELSE blocks[k]]
       /\ freeList' = [i \in 1..(Len(freed) - NumReused(new)) |-> freed[i]]
       /\ numAllocated' = numAllocated + NumFresh(new)
       /\ numEvictable' = numEvictable - Len(evicted)
       /\ numPending' = numPending + Len(new)

\* complete_store, success: the pending keys become ready and idle.
\* The guard of the code skips keys that are gone or ready already.
PendingOf(keys) == {k \in keys \cap Present : ~IsReady(k)}

StoredEffect(keys) ==
    /\ blocks' = [k \in Present |->
                    IF k \in PendingOf(keys) THEN [blocks[k] EXCEPT !.ref = 0]
                    ELSE blocks[k]]
    /\ numPending' = numPending - Cardinality(PendingOf(keys))
    /\ numEvictable' = numEvictable + Cardinality(PendingOf(keys))
    /\ UNCHANGED <<freeList, numAllocated>>

\* Mutant: the slots of a failed store are not given back.
StoreFailedLeaks(keys, order) ==
    /\ blocks' = [k \in Present \ PendingOf(keys) |-> blocks[k]]
    /\ numPending' = numPending - Cardinality(PendingOf(keys))
    /\ UNCHANGED <<freeList, numAllocated, numEvictable>>

\* complete_store, failure: the pending keys are removed and their slots given
\* back, in the order (a set's) in which the keys come.
StoreFailedEffect(keys, order) ==
    /\ blocks' = [k \in Present \ PendingOf(keys) |-> blocks[k]]
    /\ freeList' = freeList \o [i \in 1..Len(order) |-> blocks[order[i]].id]
    /\ numPending' = numPending - Cardinality(PendingOf(keys))
    /\ UNCHANGED <<numAllocated, numEvictable>>

ResetEffect ==
    /\ blocks' = [k \in {} |-> [ref |-> 0, id |-> 0]]
    /\ freeList' = <<>>
    /\ numAllocated' = 0
    /\ numEvictable' = 0
    /\ numPending' = 0

-----------------------------------------------------------------------------
(***************************************************************************)
(* The methods as the connector calls them.                                *)
(***************************************************************************)

PrepareLoad(j, keys) ==
    /\ IdleJob(j)
    /\ keys # {}
    /\ CanLoad(keys)
    /\ PrepareLoadEffect(keys)
    /\ loads' = [loads EXCEPT ![j] = keys]
    /\ UNCHANGED stores

CompleteLoad(j) ==
    /\ loads[j] # {}
    /\ CompleteLoadEffect(loads[j])
    /\ loads' = [loads EXCEPT ![j] = {}]
    /\ UNCHANGED stores

\* A prepare_store that returns keys to store.  When every key is stored
\* already, or not enough blocks can be evicted, it changes nothing.
PrepareStore(j, keys, new, evicted) ==
    /\ IdleJob(j)
    /\ KeysToStore(keys) # {}
    /\ CanEvict(keys, evicted)
    /\ PrepareStoreEffect(new, evicted)
    /\ stores' = [stores EXCEPT ![j] = KeysToStore(keys)]
    /\ UNCHANGED loads

CompleteStore(j) ==
    /\ stores[j] # {}
    /\ StoredEffect(stores[j])
    /\ stores' = [stores EXCEPT ![j] = {}]
    /\ UNCHANGED loads

CompleteStoreFailed(j, order) ==
    /\ stores[j] # {}
    /\ StoreFailedEffect(stores[j], order)
    /\ stores' = [stores EXCEPT ![j] = {}]
    /\ UNCHANGED loads

\* reset_cache: all blocks go, whatever their ref_cnt.  The connector never
\* completes a job from before the reset (its stale job threshold).
ResetCache ==
    /\ ResetEffect
    /\ loads' = [j \in JobIds |-> {}]
    /\ stores' = [j \in JobIds |-> {}]

Next ==
    \/ \E j \in JobIds :
         \/ \E keys \in SUBSET Keys : PrepareLoad(j, keys)
         \/ CompleteLoad(j)
         \/ \E keys \in SUBSET Keys :
              \E new \in SetToSeqs(KeysToStore(keys)), evicted \in EvictionChoices(keys) :
                 PrepareStore(j, keys, new, evicted)
         \/ CompleteStore(j)
         \/ \E order \in SetToSeqs(PendingOf(stores[j])) : CompleteStoreFailed(j, order)
    \/ ResetCache

Spec == Init /\ [][Next]_vars

-----------------------------------------------------------------------------
(***************************************************************************)
(* Properties.                                                             *)
(***************************************************************************)

TypeOK ==
    /\ Present \subseteq Keys
    /\ blocks \in [Present -> BlockStatus]
    /\ freeList \in Seq(Slots)
    /\ numAllocated \in 0..NumBlocks
    /\ numEvictable \in Int
    /\ numPending \in Int
    /\ loads \in [JobIds -> SUBSET Keys]
    /\ stores \in [JobIds -> SUBSET Keys]

\* No CPU slot serves two keys, and none that serves a key is also on the free
\* list or on it twice: two transfers can never be pointed at the same slot.
SlotsAreExclusive ==
    /\ \A k1, k2 \in Present : blocks[k1].id = blocks[k2].id => k1 = k2
    /\ IsInjective(freeList)
    /\ \A k \in Present, i \in 1..Len(freeList) : blocks[k].id # freeList[i]
    /\ \A k \in Present : blocks[k].id < numAllocated
    /\ \A i \in 1..Len(freeList) : freeList[i] < numAllocated

\* No slot leaks: every slot handed out serves a key or is on the free list,
\* through evictions, failed stores and resets.
NoSlotLeaks == Cardinality(Present) + Len(freeList) = numAllocated

\* The counters the code keeps by hand are exact: numEvictable decides whether
\* prepare_store gives up, numPending feeds the usage gauges.
CountersAreExact ==
    /\ numEvictable = Cardinality(Idle)
    /\ numPending = Cardinality(WritePending)

\* A block's reference count is exactly the loads in flight that read it: a
\* block that is being read is never idle, and one nobody reads never stays pinned.
RefCountsAreExact ==
    \A k \in Present : blocks[k].ref = IF Writers(k) # {} THEN -1
                                       ELSE Cardinality(Pinners(k))

\* What a job in flight transfers is in the cache: the assertions of
\* complete_load hold, and complete_store finds every key still pending.  Two
\* jobs never store one key and no key is loaded and stored at once.
JobsHoldTheirBlocks ==
    /\ \A j \in JobIds : loads[j] \cup stores[j] \subseteq Present
    /\ \A k \in Keys : Writers(k) # {} => Pinners(k) = {} /\ Cardinality(Writers(k)) = 1

\* A transfer's slot is never given to another key while the transfer is in
\* flight (reset_cache, which ends every job, excepted).
SlotsStayPutDuringTransfers ==
    [][\A j \in JobIds :
         \A k \in (loads[j] \cap loads'[j]) \cup (stores[j] \cap stores'[j]) :
            k \in DOMAIN blocks' /\ blocks'[k].id = blocks[k].id]_vars

\* The manager implements the contract the connector relies on.
Store == INSTANCE OffloadStore WITH
           ready <- {k \in Present : IsReady(k)},
           reading <- loads,
           writing <- stores,
           Capacity <- NumBlocks

ImplementsStore == Store!StoreSpec

=============================================================================

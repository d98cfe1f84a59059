---------------------- MODULE CPUOffloadingManagerProofs ----------------------
(***************************************************************************)
(* Proofs about CPUOffloadingManager, for any set of keys, any number of     *)
(* slots and any number of jobs in flight.                                 *)
(***************************************************************************)
EXTENDS CPUOffloadingManager, FiniteSetTheorems, SequenceTheorems, TLAPS

-----------------------------------------------------------------------------
(***************************************************************************)
(* Lemmas about the data.                                                  *)
(***************************************************************************)

\* An arrangement of a finite set lists each of its elements once.
LEMMA Arrangement ==
    ASSUME NEW S, IsFiniteSet(S), NEW s \in SetToSeqs(S)
    PROVE  /\ s \in Seq(S)
           /\ Len(s) = Cardinality(S)
           /\ Len(s) \in Nat
           /\ DOMAIN s = 1..Len(s)
           /\ Range(s) = S
           /\ IsInjective(s)
<1> DEFINE n == Cardinality(S)
<1>1. n \in Nat
  BY FS_CardinalityType
<1>2. s \in [1..n -> S] /\ IsInjective(s)
  BY DEF SetToSeqs, IsInjective
<1>3. s \in Seq(S) /\ Len(s) = n /\ DOMAIN s = 1..Len(s)
  BY <1>1, <1>2
<1>4. IsFiniteSet(1..n) /\ Cardinality(1..n) = n
  BY <1>1, FS_Interval
<1>5. s \in Surjection(1..n, S)
  <2>1. s \in Injection(1..n, S)
    BY <1>2 DEF Injection
  <2> QED  BY <2>1, <1>4, FS_Injection
<1>6. Range(s) = S
  BY <1>2, <1>5 DEF Range, Surjection
<1> QED  BY <1>1, <1>2, <1>3, <1>6

\* Cardinalities of disjoint sets add up.
LEMMA DisjointUnion ==
    ASSUME NEW S, NEW T, IsFiniteSet(S), IsFiniteSet(T), S \cap T = {}
    PROVE  /\ IsFiniteSet(S \cup T)
           /\ Cardinality(S \cup T) = Cardinality(S) + Cardinality(T)
           /\ Cardinality(S) \in Nat /\ Cardinality(T) \in Nat
<1>1. Cardinality(S) \in Nat /\ Cardinality(T) \in Nat
  BY FS_CardinalityType
<1>2. Cardinality(S \cap T) = 0
  BY FS_EmptySet
<1>3. /\ IsFiniteSet(S \cup T)
      /\ Cardinality(S \cup T) = Cardinality(S) + Cardinality(T) - Cardinality(S \cap T)
  BY FS_Union
<1> QED  BY <1>1, <1>2, <1>3

\* Removing a subset removes as many elements.
LEMMA SubsetDifference ==
    ASSUME NEW S, NEW T, IsFiniteSet(S), T \subseteq S
    PROVE  Cardinality(S \ T) = Cardinality(S) - Cardinality(T)
<1>1. S \cap T = T
  OBVIOUS
<1>2. Cardinality(S \ T) = Cardinality(S) - Cardinality(S \cap T)
  BY FS_Difference
<1> QED  BY <1>1, <1>2

\* What the policy evicts are blocks of the cache, each named once.
LEMMA EvictionChoice ==
    ASSUME TypeOK, NEW keys \in SUBSET Keys, NEW evicted \in EvictionChoices(keys)
    PROVE  /\ evicted \in Seq(Present)
           /\ Range(evicted) \subseteq Idle \ keys
           /\ Len(evicted) = Cardinality(Range(evicted))
           /\ Len(evicted) \in Nat
           /\ IsInjective(evicted)
<1>1. PICK E \in SUBSET (Idle \ keys) : evicted \in SetToSeqs(E)
  BY DEF EvictionChoices
<1>2. E \subseteq Present /\ IsFiniteSet(E)
  BY <1>1, KeysAssumption, FS_Subset DEF TypeOK, Idle
<1>3. /\ evicted \in Seq(E) /\ Len(evicted) = Cardinality(E) /\ Len(evicted) \in Nat
      /\ Range(evicted) = E /\ IsInjective(evicted)
  BY <1>1, <1>2, Arrangement
<1>4. evicted \in Seq(Present)
  BY <1>2, <1>3, SeqMonotonic
<1> QED  BY <1>1, <1>3, <1>4

\* Freed slots join the free list in the order of their keys.
LEMMA FreedListType ==
    ASSUME TypeOK, NEW evicted \in Seq(Present)
    PROVE  /\ FreedList(evicted) \in Seq(Slots)
           /\ Len(FreedList(evicted)) = Len(freeList) + Len(evicted)
           /\ \A i \in 1..(Len(freeList) + Len(evicted)) :
                FreedList(evicted)[i] = IF i <= Len(freeList) THEN freeList[i]
                                        ELSE blocks[evicted[i - Len(freeList)]].id
<1> DEFINE ids == [i \in 1..Len(evicted) |-> blocks[evicted[i]].id]
<1>1. freeList \in Seq(Slots)
  BY DEF TypeOK
<1>2. ids \in Seq(Slots) /\ Len(ids) = Len(evicted)
  BY DEF TypeOK, BlockStatus
<1>3. FreedList(evicted) = freeList \o ids
  BY DEF FreedList
<1> HIDE DEF ids
<1>4. /\ freeList \o ids \in Seq(Slots)
      /\ Len(freeList \o ids) = Len(freeList) + Len(ids)
      /\ \A i \in 1..Len(freeList) + Len(ids) :
           (freeList \o ids)[i] = IF i <= Len(freeList) THEN freeList[i]
                                  ELSE ids[i - Len(freeList)]
  BY <1>1, <1>2, ConcatProperties
<1> QED  BY <1>1, <1>2, <1>3, <1>4, LenProperties DEF ids

\* What a store that may go ahead does with the slots: enough of them are fresh
\* or on the free list, and each new key gets one.
LEMMA StoreShape ==
    ASSUME TypeOK, NEW keys \in SUBSET Keys,
           NEW new \in SetToSeqs(KeysToStore(keys)),
           NEW evicted \in EvictionChoices(keys), CanEvict(keys, evicted)
    PROVE  /\ new \in Seq(Keys)
           /\ Range(new) = KeysToStore(keys)
           /\ IsInjective(new)
           /\ DOMAIN new = 1..Len(new)
           /\ Len(new) \in Nat
           /\ Len(new) = Cardinality(KeysToStore(keys))
           /\ NumFresh(new) \in 0..Len(new)
           /\ numAllocated + NumFresh(new) \in 0..NumBlocks
           /\ NumReused(new) \in 0..Len(FreedList(evicted))
           /\ NumReused(new) > 0 => numAllocated + NumFresh(new) = NumBlocks
           /\ \A i \in 1..Len(new) : SlotFor(i, new, FreedList(evicted)) \in Slots
<1> DEFINE N == KeysToStore(keys)
           freed == FreedList(evicted)
<1>1. N \subseteq Keys /\ IsFiniteSet(N)
  BY KeysAssumption, FS_Subset DEF KeysToStore
<1>2. /\ new \in Seq(N) /\ Len(new) = Cardinality(N) /\ Len(new) \in Nat
      /\ DOMAIN new = 1..Len(new) /\ Range(new) = N /\ IsInjective(new)
  BY <1>1, Arrangement
<1>3. new \in Seq(Keys)
  BY <1>1, <1>2, SeqMonotonic
<1>4. evicted \in Seq(Present) /\ Len(evicted) \in Nat
  BY EvictionChoice
<1>5. /\ freed \in Seq(Slots) /\ Len(freed) = Len(freeList) + Len(evicted)
  BY <1>4, FreedListType
<1>6. Len(evicted) >= Len(new) - (Len(freeList) + NumBlocks - numAllocated)
  <2>1. NumToEvict(keys) = Len(new) - (Len(freeList) + NumBlocks - numAllocated)
    BY <1>2 DEF NumToEvict, NumFree
  <2>2. Len(evicted) = IF NumToEvict(keys) > 0 THEN NumToEvict(keys) ELSE 0
    BY DEF CanEvict
  <2>3. Len(freeList) \in Nat /\ numAllocated \in Nat
    BY NumBlocksAssumption DEF TypeOK
  <2> QED  BY <1>2, <2>1, <2>2, <2>3, NumBlocksAssumption
<1>7. /\ NumFresh(new) \in 0..Len(new)
      /\ numAllocated + NumFresh(new) \in 0..NumBlocks
      /\ NumReused(new) \in 0..Len(freed)
      /\ NumReused(new) > 0 => numAllocated + NumFresh(new) = NumBlocks
  <2>1. Len(freeList) \in Nat /\ numAllocated \in 0..NumBlocks
    BY DEF TypeOK
  <2> HIDE DEF freed
  <2> QED  BY <1>2, <1>4, <1>5, <1>6, <2>1, NumBlocksAssumption DEF NumFresh, NumReused
<1>8. ASSUME NEW i \in 1..Len(new) PROVE SlotFor(i, new, freed) \in Slots
  <2> HIDE DEF freed
  <2>1. numAllocated \in Nat
    BY NumBlocksAssumption DEF TypeOK
  <2>2. CASE i <= NumFresh(new)
    BY <1>2, <1>7, <2>1, <2>2, NumBlocksAssumption DEF SlotFor, Slots
  <2>3. CASE ~(i <= NumFresh(new))
    <3>1. Len(freed) - (i - NumFresh(new)) + 1 \in 1..Len(freed)
      BY <1>2, <1>5, <1>7, <2>3 DEF NumReused
    <3> QED  BY <1>5, <2>3, <3>1, ElementOfSeq DEF SlotFor
  <2> QED  BY <2>2, <2>3
<1> QED  BY <1>2, <1>3, <1>7, <1>8

-----------------------------------------------------------------------------
(***************************************************************************)
(* Type correctness.  It carries more than types: the slots handed out never  *)
(* exceed the pool, and every index into the free list is one of it.          *)
(***************************************************************************)

\* The empty pool is well typed.
LEMMA InitTypeOK == Init => TypeOK
<1> SUFFICES ASSUME Init PROVE TypeOK
  OBVIOUS
<1>1. Present = {}
  BY DEF Init, Present
<1>2. blocks \in [Present -> BlockStatus]
  BY <1>1 DEF Init
<1>3. freeList \in Seq(Slots) /\ numAllocated \in 0..NumBlocks
  BY NumBlocksAssumption DEF Init
<1> QED  BY <1>1, <1>2, <1>3 DEF Init, TypeOK

\* Every method keeps the types; prepare_store does because StoreShape bounds
\* the slots it takes.
LEMMA NextTypeOK == TypeOK /\ [Next]_vars => TypeOK'
<1> SUFFICES ASSUME TypeOK, [Next]_vars PROVE TypeOK'
  OBVIOUS
<1>0. /\ Present \subseteq Keys /\ blocks \in [Present -> BlockStatus]
      /\ freeList \in Seq(Slots) /\ numAllocated \in 0..NumBlocks
      /\ numEvictable \in Int /\ numPending \in Int
      /\ loads \in [JobIds -> SUBSET Keys] /\ stores \in [JobIds -> SUBSET Keys]
  BY DEF TypeOK
<1>c. \A S \in SUBSET Keys : IsFiniteSet(S) /\ Cardinality(S) \in Nat
  BY KeysAssumption, FS_Subset, FS_CardinalityType
<1>1. ASSUME NEW j \in JobIds, NEW keys \in SUBSET Keys, PrepareLoad(j, keys) PROVE TypeOK'
  <2>1. /\ blocks' = [k \in Present |-> IF k \in keys THEN [blocks[k] EXCEPT !.ref = @ + 1]
                                         ELSE blocks[k]]
        /\ UNCHANGED <<freeList, numAllocated, numPending>>
    BY <1>1 DEF PrepareLoad, PrepareLoadEffect
  <2>2. Present' = Present /\ blocks' \in [Present -> BlockStatus]
    <3>1. \A k \in Present : blocks[k] \in BlockStatus /\ [blocks[k] EXCEPT !.ref = @ + 1] \in BlockStatus
      BY <1>0 DEF BlockStatus
    <3> QED  BY <2>1, <3>1 DEF Present
  <2>3. numEvictable' \in Int
    BY <1>0, <1>1, <1>c DEF PrepareLoad, PrepareLoadEffect
  <2>4. loads' \in [JobIds -> SUBSET Keys] /\ stores' = stores
    BY <1>0, <1>1 DEF PrepareLoad
  <2> QED  BY <1>0, <2>1, <2>2, <2>3, <2>4 DEF TypeOK
<1>2. ASSUME NEW j \in JobIds, CompleteLoad(j) PROVE TypeOK'
  <2>1. /\ blocks' = [k \in Present |-> IF k \in loads[j] THEN [blocks[k] EXCEPT !.ref = @ - 1]
                                         ELSE blocks[k]]
        /\ UNCHANGED <<freeList, numAllocated, numPending>>
    BY <1>2 DEF CompleteLoad, CompleteLoadEffect
  <2>2. Present' = Present /\ blocks' \in [Present -> BlockStatus]
    <3>1. \A k \in Present : blocks[k] \in BlockStatus /\ [blocks[k] EXCEPT !.ref = @ - 1] \in BlockStatus
      BY <1>0 DEF BlockStatus
    <3> QED  BY <2>1, <3>1 DEF Present
  <2>3. numEvictable' \in Int
    <3>1. {k \in loads[j] \cap Present : blocks[k].ref = 1} \in SUBSET Keys
      BY <1>0
    <3> QED  BY <1>0, <1>2, <1>c, <3>1 DEF CompleteLoad, CompleteLoadEffect
  <2>4. loads' \in [JobIds -> SUBSET Keys] /\ stores' = stores
    BY <1>0, <1>2 DEF CompleteLoad
  <2> QED  BY <1>0, <2>1, <2>2, <2>3, <2>4 DEF TypeOK
<1>3. ASSUME NEW j \in JobIds, NEW keys \in SUBSET Keys,
             NEW new \in SetToSeqs(KeysToStore(keys)), NEW evicted \in EvictionChoices(keys),
             PrepareStore(j, keys, new, evicted)
      PROVE  TypeOK'
  <2> DEFINE freed == FreedList(evicted)
             kept == Present \ Range(evicted)
             at(k) == CHOOSE i \in DOMAIN new : new[i] = k
  <2>0. CanEvict(keys, evicted)
    BY <1>3 DEF PrepareStore
  <2>1. /\ Range(new) = KeysToStore(keys) /\ DOMAIN new = 1..Len(new) /\ Len(new) \in Nat
        /\ NumFresh(new) \in 0..Len(new) /\ numAllocated + NumFresh(new) \in 0..NumBlocks
        /\ NumReused(new) \in 0..Len(freed)
        /\ \A i \in 1..Len(new) : SlotFor(i, new, freed) \in Slots
    BY <2>0, StoreShape
  <2>2. /\ freed \in Seq(Slots) /\ Len(evicted) \in Nat
    BY EvictionChoice, FreedListType
  <2>3. /\ blocks' = [k \in kept \cup Range(new) |->
                        IF k \in Range(new) THEN [ref |-> -1, id |-> SlotFor(at(k), new, freed)]
                        ELSE blocks[k]]
        /\ freeList' = [i \in 1..(Len(freed) - NumReused(new)) |-> freed[i]]
        /\ numAllocated' = numAllocated + NumFresh(new)
        /\ numEvictable' = numEvictable - Len(evicted)
        /\ numPending' = numPending + Len(new)
        /\ stores' = [stores EXCEPT ![j] = KeysToStore(keys)] /\ loads' = loads
    BY <1>3 DEF PrepareStore, PrepareStoreEffect
  <2> HIDE DEF freed
  <2>4. \A k \in Range(new) : at(k) \in 1..Len(new)
    BY <2>1 DEF Range
  <2>5. Present' = kept \cup Range(new) /\ blocks' \in [Present' -> BlockStatus]
    <3>1. \A k \in Range(new) : SlotFor(at(k), new, freed) \in Slots
      BY <2>1, <2>4
    <3> HIDE DEF at
    <3> QED  BY <1>0, <2>3, <3>1 DEF Present, BlockStatus
  <2>6. Present' \subseteq Keys
    BY <1>0, <2>1, <2>5 DEF KeysToStore
  <2>7. freeList' \in Seq(Slots)
    <3>1. Len(freed) - NumReused(new) \in Nat /\ Len(freed) \in Nat
      BY <2>1, <2>2
    <3>2. \A i \in 1..(Len(freed) - NumReused(new)) : freed[i] \in Slots
      BY <2>1, <2>2, <3>1
    <3> QED  BY <2>3, <3>1, <3>2
  <2>8. stores' \in [JobIds -> SUBSET Keys] /\ loads' \in [JobIds -> SUBSET Keys]
    BY <1>0, <2>3 DEF KeysToStore
  <2>9. numEvictable' \in Int /\ numPending' \in Int /\ numAllocated' \in 0..NumBlocks
    BY <1>0, <2>1, <2>2, <2>3
  <2> QED  BY <2>5, <2>6, <2>7, <2>8, <2>9 DEF TypeOK
<1>4. ASSUME NEW j \in JobIds, CompleteStore(j) PROVE TypeOK'
  <2>1. /\ blocks' = [k \in Present |-> IF k \in PendingOf(stores[j])
                                         THEN [blocks[k] EXCEPT !.ref = 0] ELSE blocks[k]]
        /\ UNCHANGED <<freeList, numAllocated>>
    BY <1>4 DEF CompleteStore, StoredEffect
  <2>2. Present' = Present /\ blocks' \in [Present -> BlockStatus]
    <3>1. \A k \in Present : blocks[k] \in BlockStatus /\ [blocks[k] EXCEPT !.ref = 0] \in BlockStatus
      BY <1>0 DEF BlockStatus
    <3> QED  BY <2>1, <3>1 DEF Present
  <2>3. numEvictable' \in Int /\ numPending' \in Int
    <3>1. PendingOf(stores[j]) \in SUBSET Keys
      BY <1>0 DEF PendingOf
    <3> QED  BY <1>0, <1>4, <1>c, <3>1 DEF CompleteStore, StoredEffect
  <2>4. stores' \in [JobIds -> SUBSET Keys] /\ loads' = loads
    BY <1>0, <1>4 DEF CompleteStore
  <2> QED  BY <1>0, <2>1, <2>2, <2>3, <2>4 DEF TypeOK
<1>5. ASSUME NEW j \in JobIds, NEW order \in SetToSeqs(PendingOf(stores[j])),
             CompleteStoreFailed(j, order)
      PROVE  TypeOK'
  <2> DEFINE gone == PendingOf(stores[j])
  <2>1. gone \subseteq Present /\ gone \in SUBSET Keys
    BY <1>0 DEF PendingOf
  <2>2. order \in Seq(Present)
    BY <1>c, <2>1, Arrangement, SeqMonotonic
  <2>3. /\ blocks' = [k \in Present \ gone |-> blocks[k]]
        /\ freeList' = freeList \o [i \in 1..Len(order) |-> blocks[order[i]].id]
        /\ numPending' = numPending - Cardinality(gone)
        /\ UNCHANGED <<numAllocated, numEvictable>>
        /\ stores' = [stores EXCEPT ![j] = {}] /\ loads' = loads
    BY <1>5 DEF CompleteStoreFailed, StoreFailedEffect
  <2>4. freeList' \in Seq(Slots)
    BY <2>2, <2>3, FreedListType DEF FreedList
  <2>5. Present' \subseteq Keys /\ blocks' \in [Present' -> BlockStatus]
    BY <1>0, <2>3 DEF Present
  <2> QED  BY <1>0, <1>c, <2>1, <2>3, <2>4, <2>5 DEF TypeOK
<1>6. CASE ResetCache
  <2>1. Present' = {}
    BY <1>6 DEF ResetCache, ResetEffect, Present
  <2>2. blocks' \in [Present' -> BlockStatus]
    BY <1>6, <2>1 DEF ResetCache, ResetEffect
  <2>3. freeList' \in Seq(Slots) /\ numAllocated' \in 0..NumBlocks
    BY <1>6, NumBlocksAssumption DEF ResetCache, ResetEffect
  <2> QED  BY <1>6, <2>1, <2>2, <2>3 DEF ResetCache, ResetEffect, TypeOK
<1>7. CASE UNCHANGED vars
  BY <1>7 DEF vars, TypeOK, Present
<1> QED  BY <1>1, <1>2, <1>3, <1>4, <1>5, <1>6, <1>7 DEF Next

\* The manager's state stays well formed: no more slots are handed out than the
\* pool has and no slot number is outside of it, whatever prepare_store evicts.
THEOREM TypeCorrect == Spec => []TypeOK
<1> QED  BY InitTypeOK, NextTypeOK, PTL DEF Spec

-----------------------------------------------------------------------------
(***************************************************************************)
(* The safety invariants hold together: a reference count is exact because   *)
(* jobs hold their blocks, the idle counter because reference counts are,     *)
(* and slots stay exclusive because only idle blocks are evicted.            *)
(***************************************************************************)

Inv ==
    /\ TypeOK
    /\ SlotsAreExclusive
    /\ NoSlotLeaks
    /\ CountersAreExact
    /\ RefCountsAreExact
    /\ JobsHoldTheirBlocks

\* The sets the invariants count are finite.
LEMMA FiniteSets ==
    ASSUME TypeOK
    PROVE  /\ \A S \in SUBSET Present : IsFiniteSet(S) /\ Cardinality(S) \in Nat
           /\ \A J \in SUBSET JobIds : IsFiniteSet(J) /\ Cardinality(J) \in Nat
           /\ IsFiniteSet(Idle) /\ IsFiniteSet(WritePending)
<1>1. IsFiniteSet(Present)
  BY KeysAssumption, FS_Subset DEF TypeOK
<1>2. \A S \in SUBSET Present : IsFiniteSet(S) /\ Cardinality(S) \in Nat
  BY <1>1, FS_Subset, FS_CardinalityType
<1>3. \A J \in SUBSET JobIds : IsFiniteSet(J) /\ Cardinality(J) \in Nat
  BY JobIdsAssumption, FS_Subset, FS_CardinalityType
<1> QED  BY <1>2, <1>3 DEF Idle, WritePending

\* A block is being written, or its reference count is the number of its readers.
LEMMA RefCount ==
    ASSUME Inv, NEW k \in Present
    PROVE  /\ Cardinality(Pinners(k)) \in Nat /\ IsFiniteSet(Pinners(k))
           /\ Writers(k) # {} => blocks[k].ref = -1 /\ Pinners(k) = {}
           /\ Writers(k) = {} => blocks[k].ref = Cardinality(Pinners(k))
           /\ IsReady(k) <=> Writers(k) = {}
           /\ Pinners(k) # {} => blocks[k].ref \in Nat \ {0} /\ Writers(k) = {}
<1>1. Pinners(k) \in SUBSET JobIds
  BY DEF Pinners
<1>2. IsFiniteSet(Pinners(k)) /\ Cardinality(Pinners(k)) \in Nat
  BY <1>1, FiniteSets DEF Inv
<1>3. Cardinality(Pinners(k)) = 0 <=> Pinners(k) = {}
  BY <1>2, FS_EmptySet
<1>4. k \in Keys
  BY DEF Inv, TypeOK
<1>5. Writers(k) # {} => Pinners(k) = {}
  BY <1>4 DEF Inv, JobsHoldTheirBlocks
<1>6. blocks[k].ref = IF Writers(k) # {} THEN -1 ELSE Cardinality(Pinners(k))
  BY DEF Inv, RefCountsAreExact
<1> QED  BY <1>2, <1>3, <1>5, <1>6 DEF IsReady

\* Steps that leave every key in its slot keep the slots exclusive.
LEMMA SameSlots ==
    ASSUME SlotsAreExclusive, NoSlotLeaks, Present' = Present,
           \A k \in Present : blocks'[k].id = blocks[k].id,
           UNCHANGED <<freeList, numAllocated>>
    PROVE  SlotsAreExclusive' /\ NoSlotLeaks'
<1>1. SlotsAreExclusive'
  BY DEF SlotsAreExclusive
<1> QED  BY <1>1 DEF NoSlotLeaks

\* prepare_load: one more reader for each key, and none of them idle.
LEMMA PrepareLoadInv ==
    ASSUME Inv, TypeOK', NEW j \in JobIds, NEW keys \in SUBSET Keys, PrepareLoad(j, keys)
    PROVE  Inv'
<1>1. /\ IdleJob(j) /\ \A k \in keys : k \in Present /\ IsReady(k)
      /\ blocks' = [k \in Present |-> IF k \in keys THEN [blocks[k] EXCEPT !.ref = @ + 1]
                                      ELSE blocks[k]]
      /\ numEvictable' = numEvictable - Cardinality(keys \cap Idle)
      /\ UNCHANGED <<freeList, numAllocated, numPending, stores>>
      /\ loads' = [loads EXCEPT ![j] = keys]
  BY DEF PrepareLoad, PrepareLoadEffect, CanLoad
<1>2. /\ blocks \in [Present -> BlockStatus] /\ Present' = Present
      /\ loads \in [JobIds -> SUBSET Keys] /\ Present \subseteq Keys
  BY <1>1 DEF Inv, TypeOK, Present
<1>3. \A k \in Present : /\ blocks'[k].id = blocks[k].id
                         /\ blocks'[k].ref = IF k \in keys THEN blocks[k].ref + 1 ELSE blocks[k].ref
                         /\ blocks[k].ref \in Int
  BY <1>1, <1>2 DEF BlockStatus
<1>4. \A k : Writers(k)' = Writers(k)
  BY <1>1 DEF Writers
<1>5. \A k : /\ j \notin Pinners(k)
             /\ Pinners(k)' = IF k \in keys THEN Pinners(k) \cup {j} ELSE Pinners(k)
  BY <1>1, <1>2 DEF Pinners, IdleJob
<1>6. SlotsAreExclusive' /\ NoSlotLeaks'
  BY <1>1, <1>2, <1>3, SameSlots DEF Inv
<1>7. RefCountsAreExact'
  <2>1. SUFFICES ASSUME NEW k \in Present
                 PROVE  blocks'[k].ref = IF Writers(k) # {} THEN -1 ELSE Cardinality(Pinners(k)')
    BY <1>2, <1>4 DEF RefCountsAreExact
  <2>2. CASE k \in keys
    <3>1. Writers(k) = {} /\ blocks[k].ref = Cardinality(Pinners(k)) /\ IsFiniteSet(Pinners(k))
      BY <1>1, <2>2, RefCount
    <3>2. Cardinality(Pinners(k) \cup {j}) = Cardinality(Pinners(k)) + 1
      BY <1>5, <3>1, FS_AddElement
    <3> QED  BY <1>3, <1>5, <2>2, <3>1, <3>2
  <2>3. CASE k \notin keys
    BY <1>3, <1>5, <2>3, RefCount
  <2> QED  BY <2>2, <2>3
<1>8. JobsHoldTheirBlocks'
  <2>1. \A i \in JobIds : loads'[i] \cup stores'[i] \subseteq Present
    BY <1>1, <1>2 DEF Inv, JobsHoldTheirBlocks
  <2>2. ASSUME NEW k \in Keys, Writers(k) # {}
        PROVE  Pinners(k)' = {} /\ Cardinality(Writers(k)) = 1
    <3>1. Pinners(k) = {} /\ Cardinality(Writers(k)) = 1
      BY <2>2 DEF Inv, JobsHoldTheirBlocks
    <3>2. k \notin keys
      BY <1>1, <2>2, RefCount
    <3> QED  BY <1>5, <3>1, <3>2
  <2> QED  BY <1>2, <1>4, <2>1, <2>2 DEF JobsHoldTheirBlocks
<1>9. CountersAreExact'
  <2>1. \A k \in keys : blocks[k].ref >= 0
    BY <1>1 DEF IsReady
  <2>2. Idle' = Idle \ keys
    BY <1>1, <1>2, <1>3, <2>1 DEF Idle
  <2>3. WritePending' = WritePending
    BY <1>1, <1>2, <1>3, <2>1 DEF WritePending
  <2>4. Cardinality(Idle \ keys) = Cardinality(Idle) - Cardinality(Idle \cap keys)
    BY FiniteSets, FS_Difference DEF Inv
  <2>5. Idle \cap keys = keys \cap Idle
    OBVIOUS
  <2> QED  BY <1>1, <2>2, <2>3, <2>4, <2>5 DEF Inv, CountersAreExact
<1> QED  BY <1>6, <1>7, <1>8, <1>9 DEF Inv

\* complete_load: one reader less, and idle again after the last one.
LEMMA CompleteLoadInv ==
    ASSUME Inv, TypeOK', NEW j \in JobIds, CompleteLoad(j)
    PROVE  Inv'
<1> DEFINE keys == loads[j]
           last == {k \in keys \cap Present : blocks[k].ref = 1}
<1>1. /\ blocks' = [k \in Present |-> IF k \in keys THEN [blocks[k] EXCEPT !.ref = @ - 1]
                                      ELSE blocks[k]]
      /\ numEvictable' = numEvictable + Cardinality(last)
      /\ UNCHANGED <<freeList, numAllocated, numPending, stores>>
      /\ loads' = [loads EXCEPT ![j] = {}]
  BY DEF CompleteLoad, CompleteLoadEffect
<1>2. /\ blocks \in [Present -> BlockStatus] /\ Present' = Present
      /\ loads \in [JobIds -> SUBSET Keys] /\ Present \subseteq Keys
      /\ keys \subseteq Present
  BY <1>1 DEF Inv, TypeOK, Present, JobsHoldTheirBlocks
<1>3. \A k \in Present : /\ blocks'[k].id = blocks[k].id
                         /\ blocks'[k].ref = IF k \in keys THEN blocks[k].ref - 1 ELSE blocks[k].ref
                         /\ blocks[k].ref \in Int
  BY <1>1, <1>2 DEF BlockStatus
<1>4. \A k : Writers(k)' = Writers(k)
  BY <1>1 DEF Writers
<1>5. \A k : /\ k \in keys => j \in Pinners(k)
             /\ Pinners(k)' = IF k \in keys THEN Pinners(k) \ {j} ELSE Pinners(k)
  BY <1>1, <1>2 DEF Pinners
<1>6. SlotsAreExclusive' /\ NoSlotLeaks'
  BY <1>1, <1>2, <1>3, SameSlots DEF Inv
<1>7. \A k \in keys : Writers(k) = {} /\ blocks[k].ref \in Nat \ {0}
  BY <1>2, <1>5, RefCount
<1>8. RefCountsAreExact'
  <2>1. SUFFICES ASSUME NEW k \in Present
                 PROVE  blocks'[k].ref = IF Writers(k) # {} THEN -1 ELSE Cardinality(Pinners(k)')
    BY <1>2, <1>4 DEF RefCountsAreExact
  <2>2. CASE k \in keys
    <3>1. Writers(k) = {} /\ blocks[k].ref = Cardinality(Pinners(k)) /\ IsFiniteSet(Pinners(k))
      BY <1>7, <2>2, RefCount
    <3>2. Cardinality(Pinners(k) \ {j}) = Cardinality(Pinners(k)) - 1
      BY <1>5, <2>2, <3>1, FS_RemoveElement
    <3> QED  BY <1>3, <1>5, <2>2, <3>1, <3>2
  <2>3. CASE k \notin keys
    BY <1>3, <1>5, <2>3, RefCount
  <2> QED  BY <2>2, <2>3
<1>9. JobsHoldTheirBlocks'
  <2>1. \A i \in JobIds : loads'[i] \cup stores'[i] \subseteq Present
    BY <1>1, <1>2 DEF Inv, JobsHoldTheirBlocks
  <2>2. \A k \in Keys : Writers(k) # {} => Pinners(k)' = {} /\ Cardinality(Writers(k)) = 1
    BY <1>5 DEF Inv, JobsHoldTheirBlocks
  <2> QED  BY <1>2, <1>4, <2>1, <2>2 DEF JobsHoldTheirBlocks
<1>10. CountersAreExact'
  <2>1. Idle' = Idle \cup last /\ Idle \cap last = {}
    <3>1. \A k \in Present : blocks'[k].ref = 0 <=> (blocks[k].ref = 0 \/ (k \in keys /\ blocks[k].ref = 1))
      BY <1>3, <1>7
    <3> HIDE DEF keys
    <3> QED  BY <1>2, <3>1 DEF Idle
  <2>2. WritePending' = WritePending
    <3>1. \A k \in Present : blocks'[k].ref = -1 <=> blocks[k].ref = -1
      BY <1>3, <1>7
    <3> QED  BY <1>2, <3>1 DEF WritePending
  <2>3. IsFiniteSet(last) /\ Cardinality(last) \in Nat /\ IsFiniteSet(Idle) /\ Cardinality(Idle) \in Nat
    BY FiniteSets, FS_CardinalityType DEF Inv
  <2>4. Cardinality(Idle \cup last) = Cardinality(Idle) + Cardinality(last)
    BY <2>1, <2>3, DisjointUnion
  <2> QED  BY <1>1, <2>1, <2>2, <2>4 DEF Inv, CountersAreExact
<1> QED  BY <1>6, <1>8, <1>9, <1>10 DEF Inv

\* While a job stores a key, that key is pending and no other job has it.
LEMMA StoredKeys ==
    ASSUME Inv, NEW j \in JobIds
    PROVE  /\ PendingOf(stores[j]) = stores[j]
           /\ stores[j] \subseteq Present
           /\ \A k \in stores[j] : /\ blocks[k].ref = -1
                                   /\ Writers(k) = {j}
                                   /\ Pinners(k) = {}
<1>1. stores[j] \subseteq Present /\ stores[j] \subseteq Keys
  BY DEF Inv, TypeOK, JobsHoldTheirBlocks
<1>2. ASSUME NEW k \in stores[j]
      PROVE  blocks[k].ref = -1 /\ Writers(k) = {j} /\ Pinners(k) = {} /\ ~IsReady(k)
  <2>1. j \in Writers(k)
    BY DEF Writers
  <2>2. Pinners(k) = {} /\ Cardinality(Writers(k)) = 1
    BY <1>1, <2>1 DEF Inv, JobsHoldTheirBlocks
  <2>3. IsFiniteSet(Writers(k))
    BY FiniteSets DEF Inv, Writers
  <2>4. Writers(k) = {j}
    BY <2>1, <2>2, <2>3, FS_Singleton
  <2> QED  BY <1>1, <2>1, <2>2, <2>4, RefCount
<1> QED  BY <1>1, <1>2 DEF PendingOf

\* complete_store, success: the keys of the job become readable and idle.
LEMMA CompleteStoreInv ==
    ASSUME Inv, TypeOK', NEW j \in JobIds, CompleteStore(j)
    PROVE  Inv'
<1> DEFINE keys == stores[j]
<1>1. /\ blocks' = [k \in Present |-> IF k \in keys THEN [blocks[k] EXCEPT !.ref = 0]
                                      ELSE blocks[k]]
      /\ numEvictable' = numEvictable + Cardinality(keys)
      /\ numPending' = numPending - Cardinality(keys)
      /\ UNCHANGED <<freeList, numAllocated, loads>>
      /\ stores' = [stores EXCEPT ![j] = {}]
  BY StoredKeys DEF CompleteStore, StoredEffect
<1>2. /\ blocks \in [Present -> BlockStatus] /\ Present' = Present
      /\ stores \in [JobIds -> SUBSET Keys] /\ Present \subseteq Keys
      /\ keys \subseteq Present
  BY <1>1, StoredKeys DEF Inv, TypeOK, Present
<1>3. \A k \in Present : /\ blocks'[k].id = blocks[k].id
                         /\ blocks'[k].ref = IF k \in keys THEN 0 ELSE blocks[k].ref
  BY <1>1, <1>2 DEF BlockStatus
<1>4. \A k : Pinners(k)' = Pinners(k)
  BY <1>1 DEF Pinners
<1>5. \A k : Writers(k)' = IF k \in keys THEN {} ELSE Writers(k)
  <2>1. \A k : Writers(k)' = Writers(k) \ {j}
    BY <1>1, <1>2 DEF Writers
  <2>2. \A k : k \notin keys => j \notin Writers(k)
    BY DEF Writers
  <2>3. \A k \in keys : Writers(k) = {j}
    BY StoredKeys
  <2> QED  BY <2>1, <2>2, <2>3
<1>6. SlotsAreExclusive' /\ NoSlotLeaks'
  BY <1>1, <1>2, <1>3, SameSlots DEF Inv
<1>7. RefCountsAreExact'
  <2>1. SUFFICES ASSUME NEW k \in Present
                 PROVE  blocks'[k].ref = IF Writers(k)' # {} THEN -1 ELSE Cardinality(Pinners(k))
    BY <1>2, <1>4 DEF RefCountsAreExact
  <2>2. CASE k \in keys
    <3>1. Pinners(k) = {} /\ Cardinality({}) = 0
      BY <2>2, StoredKeys, FS_EmptySet
    <3> QED  BY <1>3, <1>5, <2>2, <3>1
  <2>3. CASE k \notin keys
    BY <1>3, <1>5, <2>3 DEF Inv, RefCountsAreExact
  <2> QED  BY <2>2, <2>3
<1>8. JobsHoldTheirBlocks'
  <2>1. \A i \in JobIds : loads'[i] \cup stores'[i] \subseteq Present
    BY <1>1, <1>2 DEF Inv, JobsHoldTheirBlocks
  <2> QED  BY <1>2, <1>4, <1>5, <2>1 DEF Inv, JobsHoldTheirBlocks
<1>9. CountersAreExact'
  <2>1. \A k \in keys : blocks[k].ref = -1
    BY StoredKeys
  <2>2. Idle' = Idle \cup keys /\ Idle \cap keys = {}
    BY <1>2, <1>3, <2>1 DEF Idle
  <2>3. WritePending' = WritePending \ keys /\ keys \subseteq WritePending
    BY <1>2, <1>3, <2>1 DEF WritePending
  <2>4. IsFiniteSet(keys) /\ IsFiniteSet(Idle) /\ IsFiniteSet(WritePending)
    BY <1>2, FiniteSets DEF Inv
  <2>5. Cardinality(Idle') = Cardinality(Idle) + Cardinality(keys)
    BY <2>2, <2>4, DisjointUnion
  <2>6. Cardinality(WritePending') = Cardinality(WritePending) - Cardinality(keys)
    BY <2>3, <2>4, SubsetDifference
  <2> QED  BY <1>1, <2>5, <2>6 DEF Inv, CountersAreExact
<1> QED  BY <1>6, <1>7, <1>8, <1>9 DEF Inv

\* Freeing the slots of some keys keeps the free list apart from the other keys.
LEMMA FreedListExclusive ==
    ASSUME TypeOK, SlotsAreExclusive, NEW evicted \in Seq(Present), IsInjective(evicted)
    PROVE  /\ IsInjective(FreedList(evicted))
           /\ \A i \in 1..Len(FreedList(evicted)) :
                /\ FreedList(evicted)[i] < numAllocated
                /\ \A k \in Present \ Range(evicted) : blocks[k].id # FreedList(evicted)[i]
<1> DEFINE freed == FreedList(evicted)
           n == Len(freeList)
           m == Len(evicted)
<1>1. n \in Nat /\ m \in Nat /\ DOMAIN evicted = 1..m /\ DOMAIN freeList = 1..n
      /\ \A i \in 1..m : evicted[i] \in Present
  BY DEF TypeOK
<1>2. /\ Len(freed) = n + m /\ DOMAIN freed = 1..(n + m)
      /\ \A i \in 1..(n + m) : freed[i] = IF i <= n THEN freeList[i] ELSE blocks[evicted[i - n]].id
  BY FreedListType, LenProperties
<1>3. /\ \A k1, k2 \in Present : blocks[k1].id = blocks[k2].id => k1 = k2
      /\ \A i1, i2 \in 1..n : freeList[i1] = freeList[i2] => i1 = i2
      /\ \A k \in Present, i \in 1..n : blocks[k].id # freeList[i]
      /\ \A k \in Present : blocks[k].id < numAllocated
      /\ \A i \in 1..n : freeList[i] < numAllocated
  BY <1>1 DEF SlotsAreExclusive, IsInjective
<1>4. \A i1, i2 \in 1..m : evicted[i1] = evicted[i2] => i1 = i2
  BY <1>1 DEF IsInjective
<1> HIDE DEF freed, n, m
<1>5. \A i \in 1..(n + m) : i <= n \/ (i - n \in 1..m)
  BY <1>1
<1>6. ASSUME NEW i1 \in 1..(n + m), NEW i2 \in 1..(n + m), freed[i1] = freed[i2]
      PROVE  i1 = i2
  <2>1. CASE i1 <= n /\ i2 <= n
    BY <1>1, <1>2, <1>3, <1>6, <2>1
  <2>2. CASE ~(i1 <= n) /\ ~(i2 <= n)
    <3>1. evicted[i1 - n] = evicted[i2 - n]
      BY <1>1, <1>2, <1>3, <1>5, <1>6, <2>2
    <3> QED  BY <1>1, <1>4, <1>5, <2>2, <3>1
  <2>3. CASE i1 <= n /\ ~(i2 <= n)
    BY <1>1, <1>2, <1>3, <1>5, <1>6, <2>3
  <2>4. CASE ~(i1 <= n) /\ i2 <= n
    BY <1>1, <1>2, <1>3, <1>5, <1>6, <2>4
  <2> QED  BY <2>1, <2>2, <2>3, <2>4
<1>7. ASSUME NEW i \in 1..(n + m)
      PROVE  /\ freed[i] < numAllocated
             /\ \A k \in Present \ Range(evicted) : blocks[k].id # freed[i]
  <2>1. CASE i <= n
    BY <1>1, <1>2, <1>3, <2>1
  <2>2. CASE ~(i <= n)
    <3>1. i - n \in 1..m /\ evicted[i - n] \in Range(evicted) /\ evicted[i - n] \in Present
      BY <1>1, <1>5, <2>2 DEF Range
    <3>2. freed[i] = blocks[evicted[i - n]].id
      BY <1>2, <2>2
    <3> QED  BY <1>3, <3>1, <3>2
  <2> QED  BY <2>1, <2>2
<1>8. IsInjective(freed)
  BY <1>2, <1>6 DEF IsInjective
<1>9. \A i \in 1..Len(freed) :
        /\ freed[i] < numAllocated
        /\ \A k \in Present \ Range(evicted) : blocks[k].id # freed[i]
  BY <1>2, <1>7
<1> QED  BY <1>8, <1>9 DEF freed

\* complete_store, failure: the keys go and their slots return to the free list.
LEMMA CompleteStoreFailedInv ==
    ASSUME Inv, TypeOK', NEW j \in JobIds, NEW order \in SetToSeqs(PendingOf(stores[j])),
           CompleteStoreFailed(j, order)
    PROVE  Inv'
<1> DEFINE keys == stores[j]
<1>1. /\ blocks' = [k \in Present \ keys |-> blocks[k]]
      /\ freeList' = FreedList(order)
      /\ numPending' = numPending - Cardinality(keys)
      /\ UNCHANGED <<numAllocated, numEvictable, loads>>
      /\ stores' = [stores EXCEPT ![j] = {}]
  BY StoredKeys DEF CompleteStoreFailed, StoreFailedEffect, FreedList
<1>2. /\ Present' = Present \ keys /\ Present \subseteq Keys
      /\ \A k \in Present' : blocks'[k] = blocks[k]
      /\ stores \in [JobIds -> SUBSET Keys] /\ keys \subseteq Present
  BY <1>1, StoredKeys DEF Inv, TypeOK, Present
<1>3. /\ order \in Seq(Present) /\ Len(order) = Cardinality(keys) /\ Len(order) \in Nat
      /\ Range(order) = keys /\ IsInjective(order) /\ IsFiniteSet(keys)
  <2>1. IsFiniteSet(keys) /\ order \in SetToSeqs(keys)
    BY <1>2, StoredKeys, FiniteSets DEF Inv
  <2> QED  BY <1>2, <2>1, Arrangement, SeqMonotonic
<1>4. \A k : Pinners(k)' = Pinners(k)
  BY <1>1 DEF Pinners
<1>5. \A k : k \notin keys => Writers(k)' = Writers(k)
  BY <1>1, <1>2 DEF Writers
<1>6. \A k \in keys : Writers(k)' = {} /\ Pinners(k) = {}
  <2>1. \A k : Writers(k)' = Writers(k) \ {j}
    BY <1>1, <1>2 DEF Writers
  <2> QED  BY <2>1, StoredKeys
<1>7. SlotsAreExclusive'
  <2>1. /\ IsInjective(freeList')
        /\ \A i \in 1..Len(freeList') : /\ freeList'[i] < numAllocated
                                       /\ \A k \in Present \ keys : blocks[k].id # freeList'[i]
    BY <1>1, <1>3, FreedListExclusive DEF Inv
  <2> HIDE DEF keys
  <2> QED  BY <1>1, <1>2, <2>1 DEF Inv, SlotsAreExclusive
<1>8. NoSlotLeaks'
  <2>1. Len(freeList') = Len(freeList) + Cardinality(keys)
    BY <1>1, <1>3, FreedListType DEF Inv
  <2>2. Cardinality(Present') = Cardinality(Present) - Cardinality(keys)
    BY <1>2, FiniteSets, SubsetDifference DEF Inv
  <2>3. Len(freeList) \in Nat /\ Cardinality(Present) \in Nat /\ Cardinality(keys) \in Nat
    BY <1>3, FiniteSets DEF Inv, TypeOK
  <2> QED  BY <1>1, <2>1, <2>2, <2>3 DEF Inv, NoSlotLeaks
<1>9. RefCountsAreExact'
  BY <1>2, <1>4, <1>5 DEF Inv, RefCountsAreExact
<1>10. JobsHoldTheirBlocks'
  <2>1. ASSUME NEW i \in JobIds PROVE loads'[i] \cup stores'[i] \subseteq Present'
    <3>1. loads'[i] \cup stores'[i] \subseteq Present
      BY <1>1, <1>2 DEF Inv, JobsHoldTheirBlocks
    <3>2. \A k \in keys : k \notin loads'[i] /\ k \notin stores'[i]
      BY <1>4, <1>6 DEF Pinners, Writers
    <3> QED  BY <1>2, <3>1, <3>2
  <2>2. ASSUME NEW k \in Keys, Writers(k)' # {}
        PROVE  Pinners(k)' = {} /\ Cardinality(Writers(k)') = 1
    BY <1>4, <1>5, <1>6, <2>2 DEF Inv, JobsHoldTheirBlocks
  <2> QED  BY <2>1, <2>2 DEF JobsHoldTheirBlocks
<1>11. CountersAreExact'
  <2>1. \A k \in keys : blocks[k].ref = -1
    BY StoredKeys
  <2>2. Idle' = Idle
    BY <1>2, <2>1 DEF Idle
  <2>3. WritePending' = WritePending \ keys /\ keys \subseteq WritePending
    BY <1>2, <2>1 DEF WritePending
  <2>4. Cardinality(WritePending') = Cardinality(WritePending) - Cardinality(keys)
    BY <2>3, FiniteSets, SubsetDifference DEF Inv
  <2> QED  BY <1>1, <2>2, <2>4 DEF Inv, CountersAreExact
<1> QED  BY <1>7, <1>8, <1>9, <1>10, <1>11 DEF Inv

\* reset_cache: the empty pool, whatever was in flight.
LEMMA ResetCacheInv ==
    ASSUME TypeOK', ResetCache
    PROVE  Inv'
<1>1. /\ blocks' = [k \in {} |-> [ref |-> 0, id |-> 0]] /\ freeList' = <<>>
      /\ numAllocated' = 0 /\ numEvictable' = 0 /\ numPending' = 0
      /\ loads' = [j \in JobIds |-> {}] /\ stores' = [j \in JobIds |-> {}]
  BY DEF ResetCache, ResetEffect
<1>2. Present' = {} /\ Len(freeList') = 0 /\ DOMAIN freeList' = {}
  BY <1>1 DEF Present
<1>3. SlotsAreExclusive'
  BY <1>2 DEF SlotsAreExclusive, IsInjective
<1>4. Idle' = {} /\ WritePending' = {} /\ Cardinality({}) = 0
  BY <1>2, FS_EmptySet DEF Idle, WritePending
<1>5. \A k : Writers(k)' = {}
  BY <1>1 DEF Writers
<1> QED  BY <1>1, <1>2, <1>3, <1>4, <1>5
            DEF Inv, NoSlotLeaks, CountersAreExact, RefCountsAreExact, JobsHoldTheirBlocks

\* The slots a store hands out are distinct, were free, and are free no more.
LEMMA NewSlotsExclusive ==
    ASSUME TypeOK, SlotsAreExclusive, NEW keys \in SUBSET Keys,
           NEW new \in SetToSeqs(KeysToStore(keys)),
           NEW evicted \in EvictionChoices(keys), CanEvict(keys, evicted)
    PROVE  LET freed == FreedList(evicted)
               slot(i) == SlotFor(i, new, freed)
           IN  /\ \A i1, i2 \in 1..Len(new) : slot(i1) = slot(i2) => i1 = i2
               /\ \A i \in 1..Len(new) :
                    /\ slot(i) < numAllocated + NumFresh(new)
                    /\ \A k \in Present \ Range(evicted) : blocks[k].id # slot(i)
                    /\ \A x \in 1..(Len(freed) - NumReused(new)) : freed[x] # slot(i)
<1> DEFINE freed == FreedList(evicted)
           slot(i) == SlotFor(i, new, freed)
           n == Len(new)
           m == Len(freed)
           fresh == NumFresh(new)
           from(i) == m - (i - fresh) + 1
<1>1. /\ n \in Nat /\ fresh \in 0..n /\ numAllocated \in Nat
      /\ NumReused(new) = n - fresh /\ n - fresh <= m
  BY StoreShape, NumBlocksAssumption DEF TypeOK, NumReused
<1>2. evicted \in Seq(Present) /\ IsInjective(evicted)
  BY EvictionChoice
<1>3. freed \in Seq(Slots) /\ m \in Nat /\ DOMAIN freed = 1..m
  BY <1>2, FreedListType
<1>4. /\ \A x1, x2 \in 1..m : freed[x1] = freed[x2] => x1 = x2
      /\ \A x \in 1..m : /\ freed[x] \in Int
                         /\ freed[x] < numAllocated
                         /\ \A k \in Present \ Range(evicted) : blocks[k].id # freed[x]
  <2>1. \A x \in 1..m : freed[x] \in Slots
    BY <1>3, ElementOfSeq
  <2>2. /\ IsInjective(freed)
        /\ \A x \in 1..m : /\ freed[x] < numAllocated
                           /\ \A k \in Present \ Range(evicted) : blocks[k].id # freed[x]
    BY <1>2, FreedListExclusive
  <2>3. \A x \in 1..m : freed[x] \in Int
    BY <2>1, NumBlocksAssumption DEF Slots
  <2>4. \A x1, x2 \in 1..m : freed[x1] = freed[x2] => x1 = x2
    BY <1>3, <2>2 DEF IsInjective
  <2> QED  BY <2>2, <2>3, <2>4
<1>5. \A k \in Present : blocks[k].id \in Int /\ blocks[k].id < numAllocated
  BY DEF TypeOK, BlockStatus, Slots, SlotsAreExclusive
<1>6. \A i \in 1..n : /\ i <= fresh => slot(i) = numAllocated + i - 1
                      /\ i > fresh => slot(i) = freed[from(i)] /\ from(i) \in (m - (n - fresh) + 1)..m
                      /\ from(i) \in Int
  <2>1. SUFFICES ASSUME NEW i \in 1..n
                 PROVE  /\ i <= fresh => slot(i) = numAllocated + i - 1
                        /\ i > fresh => slot(i) = freed[from(i)] /\ from(i) \in (m - (n - fresh) + 1)..m
                        /\ from(i) \in Int
    OBVIOUS
  <2>2. i \in Int /\ fresh \in Int /\ n \in Int /\ m \in Int /\ i >= 1 /\ i <= n
    BY <1>1, <1>3
  <2>3. from(i) \in Int /\ (i > fresh => from(i) \in (m - (n - fresh) + 1)..m)
    BY <2>2
  <2>4. CASE i <= fresh
    BY <2>2, <2>3, <2>4 DEF SlotFor
  <2>5. CASE i > fresh
    BY <2>2, <2>3, <2>5 DEF SlotFor
  <2> QED  BY <2>2, <2>4, <2>5
<1> HIDE DEF freed, slot, n, m, fresh
<1>7. ASSUME NEW i \in 1..n, i <= fresh
      PROVE  /\ slot(i) = numAllocated + i - 1
             /\ slot(i) >= numAllocated /\ slot(i) < numAllocated + fresh
             /\ \A k \in Present \ Range(evicted) : blocks[k].id # slot(i)
             /\ \A x \in 1..m : freed[x] # slot(i)
  BY <1>1, <1>4, <1>5, <1>6, <1>7
<1>8. ASSUME NEW i \in 1..n, i > fresh
      PROVE  /\ slot(i) = freed[from(i)] /\ from(i) \in 1..m /\ from(i) > m - (n - fresh)
             /\ slot(i) < numAllocated
             /\ slot(i) < numAllocated + fresh
             /\ \A k \in Present \ Range(evicted) : blocks[k].id # slot(i)
             /\ \A x \in 1..(m - (n - fresh)) : freed[x] # slot(i)
  <2>1. slot(i) = freed[from(i)] /\ from(i) \in 1..m /\ from(i) > m - (n - fresh)
    BY <1>1, <1>3, <1>6, <1>8
  <2> HIDE DEF from
  <2>2. \A x \in 1..(m - (n - fresh)) : x \in 1..m /\ x # from(i)
    BY <1>1, <1>3, <2>1
  <2> QED  BY <1>1, <1>4, <2>1, <2>2
<1>9. ASSUME NEW i1 \in 1..n, NEW i2 \in 1..n, slot(i1) = slot(i2)
      PROVE  i1 = i2
  <2>1. CASE i1 <= fresh /\ i2 <= fresh
    BY <1>1, <1>7, <1>9, <2>1
  <2>2. CASE i1 > fresh /\ i2 > fresh
    <3>1. from(i1) = from(i2)
      BY <1>4, <1>8, <1>9, <2>2
    <3> QED  BY <1>1, <1>3, <3>1
  <2>3. CASE i1 <= fresh /\ i2 > fresh
    BY <1>1, <1>7, <1>8, <1>9, <2>3
  <2>4. CASE i1 > fresh /\ i2 <= fresh
    BY <1>1, <1>7, <1>8, <1>9, <2>4
  <2> QED  BY <1>1, <2>1, <2>2, <2>3, <2>4
<1>10. ASSUME NEW i \in 1..n
       PROVE  /\ slot(i) < numAllocated + fresh
              /\ \A k \in Present \ Range(evicted) : blocks[k].id # slot(i)
              /\ \A x \in 1..(m - (n - fresh)) : freed[x] # slot(i)
  <2>1. \A x \in 1..(m - (n - fresh)) : x \in 1..m
    BY <1>1, <1>3
  <2>2. CASE i <= fresh
    BY <1>7, <2>1, <2>2
  <2>3. CASE i > fresh
    BY <1>8, <2>3
  <2> QED  BY <1>1, <2>2, <2>3
<1> QED  BY <1>1, <1>9, <1>10 DEF freed, slot, n, m, fresh

\* prepare_store: idle blocks make room, and each new key gets a slot of its own.
LEMMA PrepareStoreInv ==
    ASSUME Inv, TypeOK', NEW j \in JobIds, NEW keys \in SUBSET Keys,
           NEW new \in SetToSeqs(KeysToStore(keys)), NEW evicted \in EvictionChoices(keys),
           PrepareStore(j, keys, new, evicted)
    PROVE  Inv'
<1> DEFINE freed == FreedList(evicted)
           kept == Present \ Range(evicted)
           N == KeysToStore(keys)
           at(k) == CHOOSE i \in DOMAIN new : new[i] = k
           slot(i) == SlotFor(i, new, freed)
           left == Len(freed) - NumReused(new)
<1>0. CanEvict(keys, evicted) /\ IdleJob(j)
  BY DEF PrepareStore
<1>1. /\ Range(new) = N /\ IsInjective(new) /\ DOMAIN new = 1..Len(new) /\ Len(new) \in Nat
      /\ Len(new) = Cardinality(N) /\ IsFiniteSet(N)
      /\ NumFresh(new) \in 0..Len(new) /\ NumReused(new) \in 0..Len(freed)
      /\ NumReused(new) = Len(new) - NumFresh(new)
      /\ \A i \in 1..Len(new) : slot(i) \in Slots
  <2>1. IsFiniteSet(N)
    BY KeysAssumption, FS_Subset DEF KeysToStore
  <2> QED  BY <1>0, <2>1, StoreShape DEF Inv, NumReused
<1>2. /\ Range(evicted) \subseteq Idle \ keys /\ Len(evicted) = Cardinality(Range(evicted))
      /\ Len(evicted) \in Nat /\ evicted \in Seq(Present) /\ IsInjective(evicted)
  BY EvictionChoice DEF Inv
<1>3. /\ freed \in Seq(Slots) /\ Len(freed) = Len(freeList) + Len(evicted)
      /\ Len(freed) \in Nat /\ DOMAIN freed = 1..Len(freed)
  BY <1>2, FreedListType DEF Inv
<1>4. /\ blocks' = [k \in kept \cup Range(new) |->
                      IF k \in Range(new) THEN [ref |-> -1, id |-> slot(at(k))] ELSE blocks[k]]
      /\ freeList' = [x \in 1..left |-> freed[x]]
      /\ numAllocated' = numAllocated + NumFresh(new)
      /\ numEvictable' = numEvictable - Len(evicted)
      /\ numPending' = numPending + Len(new)
      /\ stores' = [stores EXCEPT ![j] = N] /\ loads' = loads
  BY DEF PrepareStore, PrepareStoreEffect
<1>5. \A k \in N : at(k) \in 1..Len(new) /\ new[at(k)] = k
  BY <1>1 DEF Range
<1>6. \A k1, k2 \in N : at(k1) = at(k2) => k1 = k2
  BY <1>5
<1>7. /\ \A i1, i2 \in 1..Len(new) : slot(i1) = slot(i2) => i1 = i2
      /\ \A i \in 1..Len(new) : /\ slot(i) < numAllocated + NumFresh(new)
                               /\ \A k \in kept : blocks[k].id # slot(i)
      /\ \A i \in 1..Len(new), x \in 1..left : freed[x] # slot(i)
  BY <1>0, NewSlotsExclusive DEF Inv
<1>8. /\ IsInjective(freed)
      /\ \A x \in 1..Len(freed) : freed[x] < numAllocated /\ \A k \in kept : blocks[k].id # freed[x]
  BY <1>2, FreedListExclusive DEF Inv
<1> HIDE DEF freed, slot, at
<1>9. /\ Present' = kept \cup N /\ N \cap Present = {} /\ kept \subseteq Present
      /\ N \subseteq Keys /\ Present \subseteq Keys
      /\ \A k \in kept : blocks'[k] = blocks[k]
      /\ \A k \in N : blocks'[k].id = slot(at(k)) /\ blocks'[k].ref = -1
  BY <1>1, <1>4 DEF Present, KeysToStore, Inv, TypeOK
<1>10. /\ stores \in [JobIds -> SUBSET Keys] /\ loads[j] = {} /\ stores[j] = {}
       /\ numAllocated \in Nat /\ blocks \in [Present -> BlockStatus]
  BY <1>0, NumBlocksAssumption DEF Inv, TypeOK, IdleJob
<1>11. left \in 0..Len(freed) /\ Len(freeList') = left /\ DOMAIN freeList' = 1..left
       /\ \A x \in 1..left : freeList'[x] = freed[x] /\ x \in 1..Len(freed)
  BY <1>1, <1>3, <1>4
<1>12. SlotsAreExclusive'
  <2>1. \A k1, k2 \in Present' : blocks'[k1].id = blocks'[k2].id => k1 = k2
    <3>1. \A k1, k2 \in kept : blocks[k1].id = blocks[k2].id => k1 = k2
      BY <1>9 DEF Inv, SlotsAreExclusive
    <3> QED  BY <1>5, <1>6, <1>7, <1>9, <3>1
  <2>2. IsInjective(freeList')
    BY <1>3, <1>8, <1>11 DEF IsInjective
  <2>3. \A k \in Present', x \in 1..Len(freeList') : blocks'[k].id # freeList'[x]
    <3>1. SUFFICES ASSUME NEW k \in Present', NEW x \in 1..left
                   PROVE  blocks'[k].id # freed[x]
      BY <1>11
    <3>2. CASE k \in kept
      BY <1>8, <1>9, <1>11, <3>2
    <3>3. CASE k \in N
      <4>1. blocks'[k].id = slot(at(k)) /\ at(k) \in 1..Len(new)
        BY <1>5, <1>9, <3>3
      <4> QED  BY <1>7, <4>1
    <3> QED  BY <1>9, <3>2, <3>3
  <2>4. \A k \in Present' : blocks'[k].id < numAllocated'
    <3>1. \A k \in kept : blocks[k].id < numAllocated /\ blocks[k].id \in Int
      BY <1>9, <1>10 DEF Inv, SlotsAreExclusive, BlockStatus, Slots
    <3>2. numAllocated' = numAllocated + NumFresh(new) /\ numAllocated \in Int /\ NumFresh(new) \in Nat
      BY <1>1, <1>4, <1>10
    <3>3. \A k \in kept : blocks'[k].id < numAllocated'
      BY <1>9, <3>1, <3>2
    <3>4. \A k \in N : blocks'[k].id < numAllocated'
      BY <1>5, <1>7, <1>9, <3>2
    <3> QED  BY <1>9, <3>3, <3>4
  <2>5. \A x \in 1..Len(freeList') : freeList'[x] < numAllocated'
    <3>1. \A x \in 1..Len(freed) : freed[x] \in Int
      BY <1>3, ElementOfSeq, NumBlocksAssumption DEF Slots
    <3>2. numAllocated' = numAllocated + NumFresh(new) /\ numAllocated \in Int /\ NumFresh(new) \in Nat
      BY <1>1, <1>4, <1>10
    <3>3. \A x \in 1..left : freed[x] < numAllocated'
      BY <1>8, <1>11, <3>1, <3>2
    <3> QED  BY <1>11, <3>3
  <2> QED  BY <2>1, <2>2, <2>3, <2>4, <2>5 DEF SlotsAreExclusive
<1>13. NoSlotLeaks'
  <2>1. /\ IsFiniteSet(Present) /\ IsFiniteSet(kept) /\ Cardinality(Present) \in Nat
        /\ Len(freeList) \in Nat /\ Range(evicted) \subseteq Present
    BY <1>2, FiniteSets DEF Inv, TypeOK, Idle
  <2>2. Cardinality(kept) = Cardinality(Present) - Len(evicted)
    BY <1>2, <2>1, SubsetDifference
  <2>3. Cardinality(Present') = Cardinality(kept) + Len(new)
    <3>1. kept \cap N = {}
      BY <1>9
    <3>2. Cardinality(kept \cup N) = Cardinality(kept) + Cardinality(N)
      BY <1>1, <2>1, <3>1, DisjointUnion
    <3> QED  BY <1>1, <1>9, <3>2
  <2>4. Cardinality(Present) + Len(freeList) = numAllocated
    BY DEF Inv, NoSlotLeaks
  <2>5. /\ Len(freeList') = Len(freeList) + Len(evicted) - (Len(new) - NumFresh(new))
        /\ numAllocated' = numAllocated + NumFresh(new)
        /\ Len(evicted) \in Int /\ Len(new) \in Int /\ NumFresh(new) \in Int
    <3>1. Len(freeList') = Len(freed) - NumReused(new)
      BY <1>11
    <3>2. /\ NumReused(new) = Len(new) - NumFresh(new)
          /\ Len(evicted) \in Int /\ Len(new) \in Int /\ NumFresh(new) \in Int
      BY <1>1, <1>2
    <3>3. Len(freed) = Len(freeList) + Len(evicted)
      BY <1>3
    <3>4. numAllocated' = numAllocated + NumFresh(new)
      BY <1>4
    <3> QED  BY <3>1, <3>2, <3>3, <3>4
  <2>6. Cardinality(Present') = Cardinality(Present) - Len(evicted) + Len(new)
    BY <2>2, <2>3
  <2>7. Cardinality(Present') + Len(freeList') = numAllocated'
    BY <1>10, <2>1, <2>4, <2>5, <2>6, SMTT(60)
  <2> QED  BY <2>7 DEF NoSlotLeaks
<1>14. \A k \in N : \A i \in JobIds : k \notin loads[i] /\ k \notin stores[i]
  BY <1>9 DEF Inv, JobsHoldTheirBlocks
<1>15. /\ \A k : Pinners(k)' = Pinners(k)
       /\ \A k : k \notin N => Writers(k)' = Writers(k)
       /\ \A k \in N : Writers(k)' = {j} /\ Pinners(k) = {}
  BY <1>4, <1>10, <1>14 DEF Pinners, Writers
<1>16. \A k \in Range(evicted) : /\ k \in Present /\ blocks[k].ref = 0
                                 /\ Writers(k) = {} /\ Pinners(k) = {}
  <2>1. ASSUME NEW k \in Range(evicted)
        PROVE  k \in Present /\ blocks[k].ref = 0 /\ Writers(k) = {} /\ Pinners(k) = {}
    <3>1. k \in Present /\ blocks[k].ref = 0
      BY <1>2 DEF Idle
    <3> QED  BY <3>1, RefCount
  <2> QED  BY <2>1
<1>17. RefCountsAreExact'
  BY <1>9, <1>15 DEF Inv, RefCountsAreExact
<1>18. JobsHoldTheirBlocks'
  <2>1. ASSUME NEW i \in JobIds PROVE loads'[i] \cup stores'[i] \subseteq Present'
    <3>1. loads[i] \cup stores[i] \subseteq Present
      BY DEF Inv, JobsHoldTheirBlocks
    <3>2. \A k \in Range(evicted) : k \notin loads[i] /\ k \notin stores[i]
      BY <1>16 DEF Pinners, Writers
    <3>3. loads'[i] = loads[i] /\ (stores'[i] = stores[i] \/ stores'[i] = N)
      BY <1>4, <1>10
    <3> QED  BY <1>9, <3>1, <3>2, <3>3
  <2>2. ASSUME NEW k \in Keys, Writers(k)' # {}
        PROVE  Pinners(k)' = {} /\ Cardinality(Writers(k)') = 1
    <3>1. CASE k \in N
      BY <1>15, <3>1, FS_Singleton
    <3>2. CASE k \notin N
      BY <1>15, <2>2, <3>2 DEF Inv, JobsHoldTheirBlocks
    <3> QED  BY <3>1, <3>2
  <2> QED  BY <2>1, <2>2 DEF JobsHoldTheirBlocks
<1>19. CountersAreExact'
  <2>1. Idle' = Idle \ Range(evicted) /\ Range(evicted) \subseteq Idle
    BY <1>2, <1>9 DEF Idle
  <2>2. WritePending' = WritePending \cup N /\ WritePending \cap N = {}
    BY <1>9, <1>16 DEF WritePending
  <2>3. Cardinality(Idle') = Cardinality(Idle) - Len(evicted)
    BY <1>2, <2>1, FiniteSets, SubsetDifference DEF Inv
  <2>4. Cardinality(WritePending') = Cardinality(WritePending) + Len(new)
    BY <1>1, <2>2, FiniteSets, DisjointUnion DEF Inv
  <2> QED  BY <1>4, <2>3, <2>4 DEF Inv, CountersAreExact
<1> QED  BY <1>12, <1>13, <1>17, <1>18, <1>19 DEF Inv

\* The invariant holds in the empty pool.
LEMMA InitInv == Init => Inv
<1> SUFFICES ASSUME Init PROVE Inv
  OBVIOUS
<1>1. Present = {} /\ freeList = <<>> /\ Len(freeList) = 0 /\ DOMAIN freeList = {}
  BY DEF Init, Present
<1>2. SlotsAreExclusive
  BY <1>1 DEF SlotsAreExclusive, IsInjective
<1>3. Idle = {} /\ WritePending = {} /\ Cardinality({}) = 0
  BY <1>1, FS_EmptySet DEF Idle, WritePending
<1>4. \A k : Writers(k) = {}
  BY DEF Init, Writers
<1> QED  BY <1>1, <1>2, <1>3, <1>4, InitTypeOK
            DEF Init, Inv, NoSlotLeaks, CountersAreExact, RefCountsAreExact, JobsHoldTheirBlocks

\* The invariant is inductive.
LEMMA NextInv == Inv /\ [Next]_vars => Inv'
<1> SUFFICES ASSUME Inv, [Next]_vars PROVE Inv'
  OBVIOUS
<1>1. TypeOK'
  BY NextTypeOK DEF Inv
<1>2. CASE UNCHANGED vars
  <2>1. /\ Present' = Present /\ Idle' = Idle /\ WritePending' = WritePending
        /\ \A k : Pinners(k)' = Pinners(k) /\ Writers(k)' = Writers(k)
    BY <1>2 DEF vars, Present, Idle, WritePending, Pinners, Writers
  <2>2. SlotsAreExclusive' /\ NoSlotLeaks'
    BY <1>2, <2>1 DEF vars, Inv, SlotsAreExclusive, NoSlotLeaks
  <2>3. CountersAreExact' /\ RefCountsAreExact' /\ JobsHoldTheirBlocks'
    BY <1>2, <2>1 DEF vars, Inv, CountersAreExact, RefCountsAreExact, JobsHoldTheirBlocks
  <2> QED  BY <1>1, <2>2, <2>3 DEF Inv
<1>3. CASE Next
  BY <1>1, <1>3, PrepareLoadInv, CompleteLoadInv, PrepareStoreInv, CompleteStoreInv,
     CompleteStoreFailedInv, ResetCacheInv DEF Next
<1> QED  BY <1>2, <1>3

\* The invariant holds throughout, for every method in any order.
THEOREM InvHolds == Spec => []Inv
<1> QED  BY InitInv, NextInv, PTL DEF Spec

\* No CPU slot ever serves two keys, or is free while it serves one.
THEOREM ExclusiveSlots == Spec => []SlotsAreExclusive
<1> QED  BY InvHolds, PTL DEF Inv

\* No slot handed out is ever lost.
THEOREM NoLeaks == Spec => []NoSlotLeaks
<1> QED  BY InvHolds, PTL DEF Inv

\* The counters kept by hand always agree with the blocks.
THEOREM ExactCounters == Spec => []CountersAreExact
<1> QED  BY InvHolds, PTL DEF Inv

\* The reference counts always agree with the jobs in flight (prepare_load,
\* complete_load, prepare_store, complete_store).
THEOREM ExactRefCounts == Spec => []RefCountsAreExact
<1> QED  BY InvHolds, PTL DEF Inv

\* What a job in flight transfers is in the cache, and no key is stored twice, or
\* stored and loaded, at once: the assertions of complete_load and complete_store.
THEOREM JobBlocksStay == Spec => []JobsHoldTheirBlocks
<1> QED  BY InvHolds, PTL DEF Inv

-----------------------------------------------------------------------------
(***************************************************************************)
(* What one step does to the blocks, in the terms the two theorems below     *)
(* need: which keys stay and in which slot, and which can be read after it.   *)
(***************************************************************************)

Ready == {k \in Present : IsReady(k)}

\* prepare_store drops only readable blocks no job has, and adds pending ones.
LEMMA PrepareStoreStep ==
    ASSUME Inv, NEW j \in JobIds, NEW keys \in SUBSET Keys,
           NEW new \in SetToSeqs(KeysToStore(keys)), NEW evicted \in EvictionChoices(keys),
           PrepareStore(j, keys, new, evicted)
    PROVE  /\ Present' = (Present \ Range(evicted)) \cup KeysToStore(keys)
           /\ \A k \in Present \ Range(evicted) : blocks'[k] = blocks[k]
           /\ Ready' = Ready \ Range(evicted)
           /\ Range(evicted) \subseteq Ready
           /\ \A k \in Range(evicted), i \in JobIds : k \notin loads[i] /\ k \notin stores[i]
           /\ loads[j] = {} /\ stores[j] = {}
           /\ loads' = loads
           /\ stores' = [stores EXCEPT ![j] = KeysToStore(keys)]
<1> DEFINE N == KeysToStore(keys)
           kept == Present \ Range(evicted)
           at(k) == CHOOSE i \in DOMAIN new : new[i] = k
           slot(k) == SlotFor(at(k), new, FreedList(evicted))
<1>1. CanEvict(keys, evicted) /\ IdleJob(j)
  BY DEF PrepareStore
<1>2. Range(new) = N
  BY <1>1, StoreShape DEF Inv
<1>3. /\ blocks' = [k \in kept \cup Range(new) |->
                      IF k \in Range(new) THEN [ref |-> -1, id |-> slot(k)] ELSE blocks[k]]
      /\ loads' = loads /\ stores' = [stores EXCEPT ![j] = N]
  BY DEF PrepareStore, PrepareStoreEffect
<1> HIDE DEF slot
<1>4. /\ Present' = kept \cup N /\ N \cap Present = {}
      /\ \A k \in kept : blocks'[k] = blocks[k]
      /\ \A k \in N : blocks'[k].ref = -1
  BY <1>2, <1>3 DEF Present, KeysToStore
<1>5. Ready' = Ready \ Range(evicted)
  BY <1>4 DEF Ready, IsReady
<1>6. ASSUME NEW k \in Range(evicted)
      PROVE  k \in Ready /\ \A i \in JobIds : k \notin loads[i] /\ k \notin stores[i]
  <2>1. k \in Present /\ blocks[k].ref = 0
    BY EvictionChoice DEF Inv, Idle
  <2>2. Pinners(k) = {} /\ Writers(k) = {}
    BY <2>1, RefCount
  <2> QED  BY <2>1, <2>2 DEF Ready, IsReady, Pinners, Writers
<1> QED  BY <1>1, <1>3, <1>4, <1>5, <1>6 DEF IdleJob

\* A failed store drops its own keys, which no other job has.
LEMMA CompleteStoreFailedStep ==
    ASSUME Inv, NEW j \in JobIds, NEW order \in SetToSeqs(PendingOf(stores[j])),
           CompleteStoreFailed(j, order)
    PROVE  /\ Present' = Present \ stores[j]
           /\ \A k \in Present' : blocks'[k] = blocks[k]
           /\ Ready' = Ready
           /\ \A k \in stores[j], i \in JobIds : k \notin loads[i] /\ (i # j => k \notin stores[i])
           /\ loads' = loads
           /\ stores' = [stores EXCEPT ![j] = {}]
<1>1. /\ blocks' = [k \in Present \ stores[j] |-> blocks[k]]
      /\ loads' = loads /\ stores' = [stores EXCEPT ![j] = {}]
  BY StoredKeys DEF CompleteStoreFailed, StoreFailedEffect
<1>2. Present' = Present \ stores[j] /\ \A k \in Present' : blocks'[k] = blocks[k]
  BY <1>1 DEF Present
<1>3. \A k \in stores[j] : blocks[k].ref = -1 /\ Writers(k) = {j} /\ Pinners(k) = {}
  BY StoredKeys
<1>4. Ready' = Ready
  BY <1>2, <1>3 DEF Ready, IsReady
<1> QED  BY <1>1, <1>2, <1>3, <1>4 DEF Pinners, Writers

\* Loads that start or end, and stores that succeed, move no block.
LEMMA SamePlaceStep ==
    ASSUME Inv, NEW j \in JobIds,
           \/ \E keys \in SUBSET Keys : PrepareLoad(j, keys)
           \/ CompleteLoad(j)
           \/ CompleteStore(j)
    PROVE  /\ Present' = Present
           /\ \A k \in Present : blocks'[k].id = blocks[k].id
<1>0. blocks \in [Present -> BlockStatus]
  BY DEF Inv, TypeOK
<1>1. ASSUME NEW keys \in SUBSET Keys, PrepareLoad(j, keys)
      PROVE  Present' = Present /\ \A k \in Present : blocks'[k].id = blocks[k].id
  <2>1. blocks' = [k \in Present |-> IF k \in keys THEN [blocks[k] EXCEPT !.ref = @ + 1]
                                     ELSE blocks[k]]
    BY <1>1 DEF PrepareLoad, PrepareLoadEffect
  <2> QED  BY <1>0, <2>1 DEF Present, BlockStatus
<1>2. CASE CompleteLoad(j)
  <2>1. blocks' = [k \in Present |-> IF k \in loads[j] THEN [blocks[k] EXCEPT !.ref = @ - 1]
                                     ELSE blocks[k]]
    BY <1>2 DEF CompleteLoad, CompleteLoadEffect
  <2> QED  BY <1>0, <2>1 DEF Present, BlockStatus
<1>3. CASE CompleteStore(j)
  <2>1. blocks' = [k \in Present |-> IF k \in PendingOf(stores[j])
                                     THEN [blocks[k] EXCEPT !.ref = 0] ELSE blocks[k]]
    BY <1>3 DEF CompleteStore, StoredEffect
  <2> QED  BY <1>0, <2>1 DEF Present, BlockStatus
<1> QED  BY <1>1, <1>2, <1>3

-----------------------------------------------------------------------------
(***************************************************************************)
(* Slots stay put.                                                         *)
(***************************************************************************)

KeysKept(i) == (loads[i] \cap loads'[i]) \cup (stores[i] \cap stores'[i])

\* One step moves no block of a job that is in flight before and after it.
LEMMA StepKeepsSlots ==
    ASSUME Inv, [Next]_vars, NEW i \in JobIds, NEW k \in KeysKept(i)
    PROVE  k \in DOMAIN blocks' /\ blocks'[k].id = blocks[k].id
<1>1. k \in Present /\ (k \in loads[i] \/ k \in stores[i])
  BY DEF KeysKept, Inv, JobsHoldTheirBlocks
<1>2. /\ loads \in [JobIds -> SUBSET Keys] /\ stores \in [JobIds -> SUBSET Keys]
  BY DEF Inv, TypeOK
<1>3. SUFFICES k \in Present' /\ blocks'[k].id = blocks[k].id
  BY DEF Present
<1>4. ASSUME NEW j \in JobIds,
             \/ \E keys \in SUBSET Keys : PrepareLoad(j, keys)
             \/ CompleteLoad(j)
             \/ CompleteStore(j)
      PROVE  k \in Present' /\ blocks'[k].id = blocks[k].id
  BY <1>1, <1>4, SamePlaceStep
<1>5. ASSUME NEW j \in JobIds, NEW keys \in SUBSET Keys,
             NEW new \in SetToSeqs(KeysToStore(keys)), NEW evicted \in EvictionChoices(keys),
             PrepareStore(j, keys, new, evicted)
      PROVE  k \in Present' /\ blocks'[k].id = blocks[k].id
  <2>1. k \notin Range(evicted)
    BY <1>1, <1>5, PrepareStoreStep
  <2> QED  BY <1>1, <1>5, <2>1, PrepareStoreStep
<1>6. ASSUME NEW j \in JobIds, NEW order \in SetToSeqs(PendingOf(stores[j])),
             CompleteStoreFailed(j, order)
      PROVE  k \in Present' /\ blocks'[k].id = blocks[k].id
  <2>1. k \notin stores[j]
    <3>1. stores'[j] = {} /\ loads' = loads
      BY <1>2, <1>6, CompleteStoreFailedStep
    <3>2. \A x \in stores[j] : x \notin loads[i] /\ (i # j => x \notin stores[i])
      BY <1>6, CompleteStoreFailedStep
    <3> QED  BY <3>1, <3>2 DEF KeysKept
  <2> QED  BY <1>1, <1>6, <2>1, CompleteStoreFailedStep
<1>7. CASE ResetCache
  BY <1>7 DEF ResetCache, KeysKept
<1>8. CASE UNCHANGED vars
  BY <1>1, <1>8 DEF vars, Present
<1> QED  BY <1>4, <1>5, <1>6, <1>7, <1>8 DEF Next

\* While a transfer is in flight the slots it reads or writes keep their keys.
THEOREM SlotsStayPut == Spec => SlotsStayPutDuringTransfers
<1>1. Inv /\ [Next]_vars =>
        [\A j \in JobIds :
           \A k \in (loads[j] \cap loads'[j]) \cup (stores[j] \cap stores'[j]) :
              k \in DOMAIN blocks' /\ blocks'[k].id = blocks[k].id]_vars
  BY StepKeepsSlots DEF KeysKept
<1> QED  BY <1>1, InvHolds, PTL DEF Spec, SlotsStayPutDuringTransfers

-----------------------------------------------------------------------------
(***************************************************************************)
(* Refinement: the manager keeps the promises of OffloadStore.             *)
(***************************************************************************)

\* The empty pool is an empty store.
LEMMA InitRefines == Init => Store!StoreInit
  BY DEF Init, Store!StoreInit, Present

\* Whatever is kept in distinct slots of the pool fits into it.
LEMMA Fits ==
    ASSUME NEW P, IsFiniteSet(P), NEW S \in SUBSET P, NEW n \in Nat,
           NEW allocated \in 0..NumBlocks, Cardinality(P) + n = allocated
    PROVE  Cardinality(S) <= NumBlocks
<1>1. Cardinality(S) <= Cardinality(P) /\ Cardinality(S) \in Nat /\ Cardinality(P) \in Nat
  BY FS_Subset, FS_CardinalityType
<1> QED  BY <1>1, NumBlocksAssumption

\* prepare_store starts a write for which there is room.
LEMMA PrepareStoreRefines ==
    ASSUME Inv, Inv', NEW j \in JobIds, NEW keys \in SUBSET Keys,
           NEW new \in SetToSeqs(KeysToStore(keys)), NEW evicted \in EvictionChoices(keys),
           PrepareStore(j, keys, new, evicted)
    PROVE  Store!StartWrite(j, KeysToStore(keys), Range(evicted))
<1> DEFINE N == KeysToStore(keys)
           E == Range(evicted)
<1>1. /\ Present' = (Present \ E) \cup N
      /\ Ready' = Ready \ E /\ E \subseteq Ready
      /\ \A k \in E, i \in JobIds : k \notin loads[i] /\ k \notin stores[i]
      /\ loads[j] = {} /\ stores[j] = {} /\ loads' = loads
      /\ stores' = [stores EXCEPT ![j] = N]
  BY PrepareStoreStep
<1>2. N \cap Present = {}
  BY DEF KeysToStore
<1>3. \A i \in JobIds : stores[i] \subseteq Present
  BY DEF Inv, JobsHoldTheirBlocks
<1>4. Cardinality((Ready \ E) \cup (UNION {stores[i] : i \in JobIds}) \cup N) <= NumBlocks
  <2>1. (Ready \ E) \cup (UNION {stores[i] : i \in JobIds}) \cup N \subseteq Present'
    <3>1. \A i \in JobIds : stores[i] \subseteq Present \ E
      BY <1>1, <1>3
    <3> QED  BY <1>1, <3>1 DEF Ready
  <2>2. /\ IsFiniteSet(Present') /\ Len(freeList') \in Nat /\ numAllocated' \in 0..NumBlocks
        /\ Cardinality(Present') + Len(freeList') = numAllocated'
    BY KeysAssumption, FS_Subset DEF Inv, TypeOK, NoSlotLeaks
  <2> QED  BY <2>1, <2>2, Fits
<1>5. N \cap (Ready \cup UNION {stores[i] : i \in JobIds}) = {}
  BY <1>2, <1>3 DEF Ready
<1>6. E \subseteq Ready \ UNION {loads[i] : i \in JobIds}
  BY <1>1
<1>7. \A S : Store!Cardinality(S) = Cardinality(S)
  BY DEF Store!Cardinality, Cardinality, Store!IsFiniteSet, IsFiniteSet
<1> QED  BY <1>1, <1>4, <1>5, <1>6, <1>7
            DEF Ready, Store!StartWrite, Store!Free, Store!InUse, Store!Written

\* Every method is a step of the abstract store.
LEMMA NextRefines ==
    ASSUME Inv, Inv', [Next]_vars
    PROVE  [Store!StoreNext]_(Store!storeVars)
<1>0. /\ loads \in [JobIds -> SUBSET Keys] /\ stores \in [JobIds -> SUBSET Keys]
      /\ blocks \in [Present -> BlockStatus]
  BY DEF Inv, TypeOK
<1>1. ASSUME NEW j \in JobIds, NEW keys \in SUBSET Keys, PrepareLoad(j, keys)
      PROVE  Store!StartRead(j, keys)
  <2>1. /\ IdleJob(j) /\ keys \subseteq Ready /\ stores' = stores
        /\ loads' = [loads EXCEPT ![j] = keys]
        /\ blocks' = [k \in Present |-> IF k \in keys THEN [blocks[k] EXCEPT !.ref = @ + 1]
                                        ELSE blocks[k]]
    BY <1>1 DEF PrepareLoad, PrepareLoadEffect, CanLoad, Ready
  <2>2. Ready' = Ready
    <3>1. Present' = Present /\ \A k \in Present : blocks'[k].ref >= 0 <=> blocks[k].ref >= 0
      BY <1>0, <2>1 DEF Present, BlockStatus, Ready, IsReady
    <3> QED  BY <3>1 DEF Ready, IsReady
  <2> QED  BY <2>1, <2>2 DEF IdleJob, Ready, Store!StartRead, Store!Free
<1>2. ASSUME NEW j \in JobIds, CompleteLoad(j)
      PROVE  Store!EndRead(j)
  <2>1. /\ stores' = stores /\ loads' = [loads EXCEPT ![j] = {}]
        /\ blocks' = [k \in Present |-> IF k \in loads[j] THEN [blocks[k] EXCEPT !.ref = @ - 1]
                                        ELSE blocks[k]]
    BY <1>2 DEF CompleteLoad, CompleteLoadEffect
  <2>2. \A k \in loads[j] : k \in Present /\ blocks[k].ref \in Nat \ {0}
    <3>1. \A k \in loads[j] : k \in Present /\ j \in Pinners(k)
      BY DEF Inv, JobsHoldTheirBlocks, Pinners
    <3> QED  BY <3>1, RefCount
  <2>3. Ready' = Ready
    <3>1. Present' = Present /\ \A k \in Present : blocks'[k].ref >= 0 <=> blocks[k].ref >= 0
      BY <1>0, <2>1, <2>2 DEF Present, BlockStatus
    <3> QED  BY <3>1 DEF Ready, IsReady
  <2> QED  BY <2>1, <2>3 DEF Ready, Store!EndRead
<1>3. ASSUME NEW j \in JobIds, NEW keys \in SUBSET Keys,
             NEW new \in SetToSeqs(KeysToStore(keys)), NEW evicted \in EvictionChoices(keys),
             PrepareStore(j, keys, new, evicted)
      PROVE  \E N, E \in SUBSET Keys : Store!StartWrite(j, N, E)
  <2>1. KeysToStore(keys) \in SUBSET Keys /\ Range(evicted) \in SUBSET Keys
    BY <1>3, PrepareStoreStep DEF KeysToStore, Ready, Inv, TypeOK
  <2> QED  BY <1>3, <2>1, PrepareStoreRefines
<1>4. ASSUME NEW j \in JobIds, CompleteStore(j)
      PROVE  Store!Commit(j)
  <2>1. /\ loads' = loads /\ stores' = [stores EXCEPT ![j] = {}]
        /\ blocks' = [k \in Present |-> IF k \in stores[j] THEN [blocks[k] EXCEPT !.ref = 0]
                                        ELSE blocks[k]]
    BY <1>4, StoredKeys DEF CompleteStore, StoredEffect
  <2>2. Ready' = Ready \cup stores[j]
    <3>1. /\ Present' = Present /\ stores[j] \subseteq Present
          /\ \A k \in Present : blocks'[k].ref >= 0 <=> k \in stores[j] \/ blocks[k].ref >= 0
      BY <1>0, <2>1, StoredKeys DEF Present, BlockStatus
    <3> QED  BY <3>1 DEF Ready, IsReady
  <2> QED  BY <2>1, <2>2 DEF Ready, Store!Commit
<1>5. ASSUME NEW j \in JobIds, NEW order \in SetToSeqs(PendingOf(stores[j])),
             CompleteStoreFailed(j, order)
      PROVE  Store!Abort(j)
  <2>1. Ready' = Ready /\ loads' = loads /\ stores' = [stores EXCEPT ![j] = {}]
    BY <1>5, CompleteStoreFailedStep
  <2> QED  BY <2>1 DEF Ready, Store!Abort
<1>6. ASSUME ResetCache
      PROVE  Store!Clear
  <2>1. Present' = {} /\ loads' = [j \in JobIds |-> {}] /\ stores' = [j \in JobIds |-> {}]
    BY <1>6 DEF ResetCache, ResetEffect, Present
  <2> QED  BY <2>1 DEF Store!Clear
<1>7. CASE UNCHANGED vars
  BY <1>7 DEF vars, Store!storeVars, Present, IsReady
<1> QED  BY <1>1, <1>2, <1>3, <1>4, <1>5, <1>6, <1>7 DEF Next, Store!StoreNext

\* The host tier keeps its contract for any pool and any number of jobs: keys in
\* use are never evicted, and a key is readable only once its store is done.
THEOREM Refinement == Spec => ImplementsStore
<1>1. Inv /\ Inv' /\ [Next]_vars => [Store!StoreNext]_(Store!storeVars)
  BY NextRefines
<1> QED  BY <1>1, InitRefines, InvHolds, PTL DEF Spec, ImplementsStore, Store!StoreSpec
=============================================================================

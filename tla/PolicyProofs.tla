------------------------------ MODULE PolicyProofs ------------------------------
(***************************************************************************)
(* Proofs about LRUManager and ARCManager, for any set of keys, any number of  *)
(* slots, any number of jobs in flight and any unit of ARC's target: each       *)
(* policy's lists stay exact, so what it evicts is what the manager allows,      *)
(* and every theorem about the manager holds with it.                        *)
(***************************************************************************)
EXTENDS LRUManager, ARCManager, CPUOffloadingManagerProofs, DataProofs

-----------------------------------------------------------------------------
(***************************************************************************)
(* LRU: the list of idle keys is exact.                                    *)
(***************************************************************************)

LRUInv ==
    /\ Inv
    /\ evictableBlocks \in Seq(Keys)
    /\ EvictableListIsExact

\* An exact list has every evictable block among the candidates, once.
LEMMA Candidates ==
    ASSUME LRUInv, NEW keys \in SUBSET Keys
    PROVE  /\ LRUCandidates(keys) \in Seq(Keys)
           /\ IsInjective(LRUCandidates(keys))
           /\ Range(LRUCandidates(keys)) = Idle \ keys
           /\ Len(LRUCandidates(keys)) = Cardinality(Idle \ keys)
<1>1. /\ LRUCandidates(keys) \in Seq(Keys)
      /\ IsInjective(LRUCandidates(keys))
      /\ Range(LRUCandidates(keys)) = Idle \ keys
  BY WithoutKeys DEF LRUInv, EvictableListIsExact, LRUCandidates
<1> QED  BY <1>1, LengthIsCount

\* What a successful evict returns is a choice the manager allows.
LEMMA EvictedIsAllowed ==
    ASSUME LRUInv, NEW keys \in SUBSET Keys, LRUEvictSucceeds(keys)
    PROVE  /\ LRUEvicted(keys) \in Seq(Keys)
           /\ LRUEvicted(keys) \in EvictionChoices(keys)
           /\ CanEvict(keys, LRUEvicted(keys))
<1> DEFINE n == NumToEvict(keys)
           c == LRUCandidates(keys)
           evicted == LRUEvicted(keys)
<1>1. n \in Int
  <2>1. Cardinality(KeysToStore(keys)) \in Nat
    BY KeysAssumption, FS_Subset, FS_CardinalityType DEF KeysToStore
  <2>2. Len(freeList) \in Nat /\ numAllocated \in Int
    BY NumBlocksAssumption DEF LRUInv, Inv, TypeOK
  <2> QED  BY <2>1, <2>2, NumBlocksAssumption DEF NumToEvict, NumFree
<1>2. c \in Seq(Keys) /\ IsInjective(c) /\ Range(c) = Idle \ keys /\ Len(c) \in Nat
  <2>1. c \in Seq(Keys) /\ IsInjective(c) /\ Range(c) = Idle \ keys
    BY Candidates
  <2> QED  BY <2>1, LenProperties
<1>3. evicted = IF n <= 0 THEN <<>> ELSE SubSeq(c, 1, n)
  BY DEF LRUEvicted
<1>4. n <= Len(c)
  BY DEF LRUEvictSucceeds
<1> HIDE DEF n, c, evicted
<1>5. /\ evicted \in Seq(Keys) /\ IsInjective(evicted) /\ Range(evicted) \subseteq Range(c)
      /\ Len(evicted) = IF n > 0 THEN n ELSE 0
  <2>1. CASE n <= 0
    BY <1>1, <1>3, <2>1 DEF IsInjective, Range
  <2>2. CASE n > 0
    <3>1. n \in 0..Len(c)
      BY <1>1, <1>2, <1>4, <2>2
    <3>2. ~(n <= 0)
      BY <1>1, <2>2
    <3> QED  BY <1>2, <1>3, <2>2, <3>1, <3>2, FirstKeys
  <2> QED  BY <1>1, <2>1, <2>2
<1>6. CanEvict(keys, evicted)
  BY <1>2, <1>5 DEF CanEvict, n
<1>7. evicted \in SetToSeqs(Range(evicted))
  BY <1>5, ListIsArrangement
<1>8. evicted \in EvictionChoices(keys)
  BY <1>2, <1>5, <1>7 DEF EvictionChoices
<1> QED  BY <1>5, <1>6, <1>8 DEF evicted

\* Every step of the LRU manager is a step of the manager whatever its policy.
LEMMA LRUStep ==
    ASSUME LRUInv, [LRUNext]_lruVars
    PROVE  [Next]_vars
<1>1. ASSUME NEW j \in JobIds, NEW keys \in SUBSET Keys,
             NEW new \in SetToSeqs(KeysToStore(keys)), LRUPrepareStore(j, keys, new)
      PROVE  Next
  <2>1. /\ LRUEvicted(keys) \in EvictionChoices(keys)
        /\ PrepareStore(j, keys, new, LRUEvicted(keys))
    BY <1>1, EvictedIsAllowed DEF LRUPrepareStore
  <2> QED  BY <2>1 DEF Next
<1>2. ASSUME NEW keys \in SUBSET Keys, NEW order \in SetToSeqs(keys), LRUTouch(order)
      PROVE  UNCHANGED vars
  BY <1>2 DEF LRUTouch
<1>3. CASE LRUReset
  BY <1>3 DEF LRUReset, Next
<1>4. ASSUME NEW j \in JobIds,
             \/ \E keys \in SUBSET Keys : LRUPrepareLoad(j, keys)
             \/ \E order \in SetToSeqs({k \in loads[j] : blocks[k].ref = 1}) :
                  LRUCompleteLoad(j, order)
             \/ \E order \in SetToSeqs(PendingOf(stores[j])) :
                  LRUCompleteStore(j, order) \/ LRUCompleteStoreFailed(j, order)
      PROVE  Next
  BY <1>4 DEF LRUPrepareLoad, LRUCompleteLoad, LRUCompleteStore, LRUCompleteStoreFailed, Next
<1>5. CASE UNCHANGED lruVars
  BY <1>5 DEF lruVars
<1> QED  BY <1>1, <1>2, <1>3, <1>4, <1>5 DEF LRUNext

\* The keys that a job's end makes idle are not in the list yet.
LEMMA JoinsTheList ==
    ASSUME LRUInv, NEW S \in SUBSET Keys, NEW order \in SetToSeqs(S), S \cap Idle = {},
           Idle' = Idle \cup S, evictableBlocks' = evictableBlocks \o order
    PROVE  evictableBlocks' \in Seq(Keys) /\ EvictableListIsExact'
<1>1. order \in Seq(S) /\ Range(order) = S /\ IsInjective(order)
  BY KeysAssumption, FS_Subset, Arrangement
<1>2. order \in Seq(Keys)
  BY <1>1, SeqMonotonic
<1>3. /\ evictableBlocks \in Seq(Keys) /\ IsInjective(evictableBlocks)
      /\ Range(evictableBlocks) = Idle
  BY DEF LRUInv, EvictableListIsExact
<1>4. /\ evictableBlocks' \in Seq(Keys) /\ Range(evictableBlocks') = Idle \cup S
      /\ IsInjective(evictableBlocks')
  BY <1>1, <1>2, <1>3, JoinedKeys
<1> QED  BY <1>4 DEF EvictableListIsExact

\* Deleting the keys that stop being idle keeps the list exact.
LEMMA LeavesTheList ==
    ASSUME LRUInv, NEW S, Idle' = Idle \ S, evictableBlocks' = Without(evictableBlocks, S)
    PROVE  evictableBlocks' \in Seq(Keys) /\ EvictableListIsExact'
BY WithoutKeys DEF LRUInv, EvictableListIsExact

\* No step makes the list and the reference counts disagree.
LEMMA LRUStepInv ==
    ASSUME LRUInv, Inv', [LRUNext]_lruVars
    PROVE  LRUInv'
<1>0. /\ Inv /\ evictableBlocks \in Seq(Keys) /\ EvictableListIsExact
      /\ blocks \in [Present -> BlockStatus] /\ Present \subseteq Keys
      /\ loads \in [JobIds -> SUBSET Keys] /\ stores \in [JobIds -> SUBSET Keys]
  BY DEF LRUInv, Inv, TypeOK
<1>r. \A k \in Present : blocks[k].ref \in Int
  BY <1>0 DEF BlockStatus
<1>p. SUFFICES evictableBlocks' \in Seq(Keys) /\ EvictableListIsExact'
  BY DEF LRUInv
<1>1. ASSUME NEW j \in JobIds, NEW keys \in SUBSET Keys, LRUPrepareLoad(j, keys)
      PROVE  evictableBlocks' \in Seq(Keys) /\ EvictableListIsExact'
  <2>1. /\ \A k \in keys : k \in Present /\ blocks[k].ref >= 0
        /\ blocks' = [k \in Present |-> IF k \in keys THEN [blocks[k] EXCEPT !.ref = @ + 1]
                                        ELSE blocks[k]]
        /\ evictableBlocks' = Without(evictableBlocks, keys)
    BY <1>1 DEF LRUPrepareLoad, PrepareLoad, PrepareLoadEffect, CanLoad, IsReady
  <2>2. Idle' = Idle \ keys
    <3>1. Present' = Present
      BY <2>1 DEF Present
    <3>2. \A k \in Present : blocks'[k].ref = 0 <=> blocks[k].ref = 0 /\ k \notin keys
      BY <1>0, <1>r, <2>1 DEF BlockStatus
    <3> QED  BY <3>1, <3>2 DEF Idle
  <2> QED  BY <2>1, <2>2, LeavesTheList
<1>2. ASSUME NEW j \in JobIds, NEW order \in SetToSeqs({k \in loads[j] : blocks[k].ref = 1}),
             LRUCompleteLoad(j, order)
      PROVE  evictableBlocks' \in Seq(Keys) /\ EvictableListIsExact'
  <2> DEFINE S == {k \in loads[j] : blocks[k].ref = 1}
  <2>1. /\ blocks' = [k \in Present |-> IF k \in loads[j] THEN [blocks[k] EXCEPT !.ref = @ - 1]
                                        ELSE blocks[k]]
        /\ evictableBlocks' = evictableBlocks \o order
    BY <1>2 DEF LRUCompleteLoad, CompleteLoad, CompleteLoadEffect
  <2>2. loads[j] \subseteq Present /\ S \in SUBSET Keys /\ S \cap Idle = {}
    BY <1>0 DEF Inv, JobsHoldTheirBlocks, Idle
  <2>3. Idle' = Idle \cup S
    <3>1. Present' = Present
      BY <2>1 DEF Present
    <3>2. \A k \in loads[j] : blocks[k].ref # 0
      <4>1. \A k \in loads[j] : k \in Present /\ j \in Pinners(k)
        BY <2>2 DEF Pinners
      <4> QED  BY <1>0, <4>1, RefCount
    <3>3. \A k \in Present : blocks'[k].ref = 0 <=> k \in S \/ blocks[k].ref = 0
      BY <1>0, <1>r, <2>1, <3>2 DEF BlockStatus
    <3> QED  BY <2>2, <3>1, <3>3 DEF Idle
  <2> QED  BY <2>1, <2>2, <2>3, JoinsTheList
<1>3. ASSUME NEW j \in JobIds, NEW keys \in SUBSET Keys,
             NEW new \in SetToSeqs(KeysToStore(keys)), LRUPrepareStore(j, keys, new)
      PROVE  evictableBlocks' \in Seq(Keys) /\ EvictableListIsExact'
  <2> DEFINE evicted == LRUEvicted(keys)
  <2>1. /\ blocks' = [k \in (Present \ Range(evicted)) \cup Range(new) |->
                       IF k \in Range(new)
                       THEN [ref |-> -1,
                             id |-> SlotFor(CHOOSE i \in DOMAIN new : new[i] = k,
                                            new, FreedList(evicted))]
                       ELSE blocks[k]]
        /\ evictableBlocks' = Without(evictableBlocks, Range(evicted))
    BY <1>3 DEF LRUPrepareStore, PrepareStore, PrepareStoreEffect
  <2>2. Range(new) = KeysToStore(keys)
    BY KeysAssumption, FS_Subset, Arrangement DEF KeysToStore
  <2>3. Idle' = Idle \ Range(evicted)
    <3>1. Present' = (Present \ Range(evicted)) \cup Range(new)
      BY <2>1 DEF Present
    <3>2. \A k \in Range(new) : k \notin Present /\ blocks'[k].ref = -1
      BY <2>1, <2>2 DEF KeysToStore
    <3>3. \A k \in Present \ Range(evicted) : blocks'[k].ref = blocks[k].ref
      BY <2>1, <2>2 DEF KeysToStore
    <3> QED  BY <3>1, <3>2, <3>3 DEF Idle
  <2> QED  BY <2>1, <2>3, LeavesTheList
<1>4. ASSUME NEW j \in JobIds, NEW order \in SetToSeqs(PendingOf(stores[j])),
             LRUCompleteStore(j, order)
      PROVE  evictableBlocks' \in Seq(Keys) /\ EvictableListIsExact'
  <2> DEFINE S == PendingOf(stores[j])
  <2>1. /\ blocks' = [k \in Present |-> IF k \in S THEN [blocks[k] EXCEPT !.ref = 0]
                                        ELSE blocks[k]]
        /\ evictableBlocks' = evictableBlocks \o order
    BY <1>4 DEF LRUCompleteStore, CompleteStore, StoredEffect
  <2>2. S \subseteq Present /\ S \in SUBSET Keys /\ S \cap Idle = {}
    BY <1>0, <1>r DEF PendingOf, Idle, IsReady
  <2>3. Idle' = Idle \cup S
    <3>1. Present' = Present
      BY <2>1 DEF Present
    <3>2. \A k \in Present : blocks'[k].ref = IF k \in S THEN 0 ELSE blocks[k].ref
      BY <1>0, <2>1 DEF BlockStatus
    <3> QED  BY <2>2, <3>1, <3>2 DEF Idle
  <2> QED  BY <2>1, <2>2, <2>3, JoinsTheList
<1>5. ASSUME NEW j \in JobIds, NEW order \in SetToSeqs(PendingOf(stores[j])),
             LRUCompleteStoreFailed(j, order)
      PROVE  evictableBlocks' \in Seq(Keys) /\ EvictableListIsExact'
  <2> DEFINE S == PendingOf(stores[j])
  <2>1. /\ blocks' = [k \in Present \ S |-> blocks[k]]
        /\ evictableBlocks' = Without(evictableBlocks, Range(order))
    BY <1>5 DEF LRUCompleteStoreFailed, CompleteStoreFailed, StoreFailedEffect
  <2>2. Range(order) = S
    <3>1. S \in SUBSET Keys
      BY <1>0 DEF PendingOf
    <3> QED  BY <3>1, KeysAssumption, FS_Subset, Arrangement
  <2>3. Idle' = Idle \ S
    BY <2>1 DEF Idle, Present
  <2> QED  BY <2>1, <2>2, <2>3, LeavesTheList
<1>6. ASSUME NEW keys \in SUBSET Keys, NEW order \in SetToSeqs(keys), LRUTouch(order)
      PROVE  evictableBlocks' \in Seq(Keys) /\ EvictableListIsExact'
  <2> DEFINE rest == Without(evictableBlocks, Range(order))
             moved == Within(order, Range(evictableBlocks))
  <2>1. evictableBlocks' = rest \o Reverse(moved) /\ Idle' = Idle
    BY <1>6 DEF LRUTouch, vars, Idle, Present
  <2>2. order \in Seq(Keys) /\ IsInjective(order)
    <3>1. order \in Seq(keys) /\ IsInjective(order)
      BY KeysAssumption, FS_Subset, Arrangement
    <3> QED  BY <3>1, SeqMonotonic
  <2>3. rest \in Seq(Keys) /\ Range(rest) = Idle \ Range(order) /\ IsInjective(rest)
    BY <1>0, WithoutKeys DEF EvictableListIsExact
  <2>4. moved \in Seq(Keys) /\ Range(moved) = Range(order) \cap Idle /\ IsInjective(moved)
    BY <1>0, <2>2, WithinKeys DEF EvictableListIsExact
  <2> HIDE DEF rest, moved
  <2>5. /\ Reverse(moved) \in Seq(Keys) /\ Range(Reverse(moved)) = Range(order) \cap Idle
        /\ IsInjective(Reverse(moved))
    BY <2>4, ReversedKeys
  <2>6. /\ rest \o Reverse(moved) \in Seq(Keys) /\ IsInjective(rest \o Reverse(moved))
        /\ Range(rest \o Reverse(moved)) = Idle
    <3>1. /\ Range(rest) \cap Range(Reverse(moved)) = {}
          /\ Range(rest) \cup Range(Reverse(moved)) = Idle
      BY <2>3, <2>5
    <3> QED  BY <2>3, <2>5, <3>1, JoinedKeys
  <2> QED  BY <2>1, <2>6 DEF EvictableListIsExact
<1>7. CASE LRUReset
  <2>1. Idle' = {} /\ evictableBlocks' = <<>>
    BY <1>7 DEF LRUReset, ResetCache, ResetEffect, Idle, Present
  <2> QED  BY <2>1 DEF EvictableListIsExact, IsInjective, Range
<1>8. CASE UNCHANGED lruVars
  BY <1>0, <1>8 DEF lruVars, vars, EvictableListIsExact, Idle, Present
<1> QED  BY <1>1, <1>2, <1>3, <1>4, <1>5, <1>6, <1>7, <1>8 DEF LRUNext

-----------------------------------------------------------------------------

\* The invariant holds of every reachable state.
LEMMA LRUInvHolds == LRUSpec => []LRUInv
<1>1. LRUInit => LRUInv
  <2>1. LRUInit => Inv
    BY InitInv DEF LRUInit
  <2>2. LRUInit => Idle = {} /\ evictableBlocks = <<>>
    BY DEF LRUInit, Init, Idle, Present
  <2> QED  BY <2>1, <2>2 DEF LRUInv, EvictableListIsExact, IsInjective, Range
<1>2. LRUInv /\ [LRUNext]_lruVars => LRUInv'
  <2> SUFFICES ASSUME LRUInv, [LRUNext]_lruVars PROVE LRUInv'
    OBVIOUS
  <2>1. [Next]_vars
    BY LRUStep
  <2>2. Inv'
    BY <2>1, NextInv DEF LRUInv
  <2> QED  BY <2>2, LRUStepInv
<1> QED  BY <1>1, <1>2, PTL DEF LRUSpec

\* The list of idle keys, kept beside the reference counts by hooks, never loses
\* a key, never keeps one in use and never names one twice.
THEOREM ListIsExact == LRUSpec => []EvictableListIsExact
<1>1. LRUInv => EvictableListIsExact
  BY DEF LRUInv
<1> QED  BY <1>1, LRUInvHolds, PTL

\* evict finds enough blocks whenever there are enough, and only ones it may take.
THEOREM LRUEvictionContract == LRUSpec => []LRUEvictKeepsItsContract
<1>1. LRUInv => LRUEvictKeepsItsContract
  <2> SUFFICES ASSUME LRUInv, NEW keys \in SUBSET Keys,
                      NumToEvict(keys) <= Cardinality(Idle \ keys)
               PROVE  LRUEvictSucceeds(keys) /\ CanEvict(keys, LRUEvicted(keys))
    BY DEF LRUEvictKeepsItsContract
  <2>1. LRUEvictSucceeds(keys)
    BY Candidates DEF LRUEvictSucceeds
  <2> QED  BY <2>1, EvictedIsAllowed
<1> QED  BY <1>1, LRUInvHolds, PTL

\* The manager with the LRU policy is the manager: all that is proved of it for
\* an arbitrary policy, the refinement of OffloadStore included, holds with LRU.
THEOREM LRUImplementsManager == LRUSpec => Spec
<1>1. LRUInit => Init
  BY DEF LRUInit
<1>2. LRUInv /\ [LRUNext]_lruVars => [Next]_vars
  BY LRUStep
<1> QED  BY <1>1, <1>2, LRUInvHolds, PTL DEF LRUSpec, Spec

\* So with the LRU policy, too, the host tier keeps the contract of OffloadStore.
THEOREM LRUImplementsStore == LRUSpec => ImplementsStore
BY LRUImplementsManager, Refinement

-----------------------------------------------------------------------------
(***************************************************************************)
(* ARC: the four lists stay consistent with the cache whatever touch does to   *)
(* them.                                                                   *)
(***************************************************************************)

ListRecords == [t1 : Seq(Keys), t2 : Seq(Keys), b1 : Seq(Keys), b2 : Seq(Keys),
                target : 0..(NumBlocks * Scale)]

\* The lists in a record are those of a cache that holds the keys of cached.
GoodLists(p, cached) ==
    /\ p \in ListRecords
    /\ IsInjective(p.t1) /\ IsInjective(p.t2) /\ IsInjective(p.b1) /\ IsInjective(p.b2)
    /\ Range(p.t1) \cap Range(p.t2) = {} /\ Range(p.t1) \cup Range(p.t2) = cached
    /\ Range(p.b1) \cap Range(p.b2) = {} /\ (Range(p.b1) \cup Range(p.b2)) \cap cached = {}
    /\ Len(p.b1) <= NumBlocks /\ Len(p.b2) <= NumBlocks

Lists == [t1 |-> t1, t2 |-> t2, b1 |-> b1, b2 |-> b2, target |-> target]

ARCInv == Inv /\ GoodLists(Lists, Present)

\* An empty cache has empty lists.
LEMMA EmptyListsAreGood ==
    GoodLists([t1 |-> <<>>, t2 |-> <<>>, b1 |-> <<>>, b2 |-> <<>>, target |-> 0], {})
<1>1. <<>> \in Seq(Keys) /\ IsInjective(<<>>) /\ Range(<<>>) = {} /\ Len(<<>>) = 0
  BY DEF IsInjective, Range
<1>2. 0 \in 0..(NumBlocks * Scale) /\ 0 <= NumBlocks
  BY NumBlocksAssumption, ScaleAssumption
<1> QED  BY <1>1, <1>2 DEF GoodLists, ListRecords

\* The invariant is the property that the run checks, list by list.
LEMMA InvariantIsPartition == ARCInv => ListsPartitionTheCache
<1> SUFFICES ASSUME ARCInv PROVE ListsPartitionTheCache
  OBVIOUS
<1>1. /\ t1 \in Seq(Keys) /\ t2 \in Seq(Keys) /\ b1 \in Seq(Keys) /\ b2 \in Seq(Keys)
      /\ target \in 0..(NumBlocks * Scale)
      /\ IsInjective(t1) /\ IsInjective(t2) /\ IsInjective(b1) /\ IsInjective(b2)
      /\ Range(t1) \cap Range(t2) = {} /\ Range(t1) \cup Range(t2) = Present
      /\ Range(b1) \cap Range(b2) = {} /\ (Range(b1) \cup Range(b2)) \cap Present = {}
      /\ Len(b1) <= NumBlocks /\ Len(b2) <= NumBlocks
  BY DEF ARCInv, GoodLists, ListRecords, Lists
<1>2. IsInjective(t1 \o t2) /\ Range(t1 \o t2) = Present
  <2>1. /\ Range(t1 \o t2) = Range(t1) \cup Range(t2)
        /\ IsInjective(t1 \o t2) <=> /\ IsInjective(t1) /\ IsInjective(t2)
                                     /\ Range(t1) \cap Range(t2) = {}
    BY <1>1, JoinedKeys
  <2> QED  BY <1>1, <2>1
<1>3. IsInjective(b1 \o b2) /\ Range(b1 \o b2) \cap Present = {}
  <2>1. /\ Range(b1 \o b2) = Range(b1) \cup Range(b2)
        /\ IsInjective(b1 \o b2) <=> /\ IsInjective(b1) /\ IsInjective(b2)
                                     /\ Range(b1) \cap Range(b2) = {}
    BY <1>1, JoinedKeys
  <2> QED  BY <1>1, <2>1
<1> QED  BY <1>1, <1>2, <1>3 DEF ListsPartitionTheCache

-----------------------------------------------------------------------------
(***************************************************************************)
(* evict.                                                                  *)
(***************************************************************************)

\* What is missing is a number.
LEMMA NumToEvictType ==
    ASSUME ARCInv, NEW keys \in SUBSET Keys
    PROVE  NumToEvict(keys) \in Int
<1>1. Cardinality(KeysToStore(keys)) \in Nat
  BY KeysAssumption, FS_Subset, FS_CardinalityType DEF KeysToStore
<1>2. Len(freeList) \in Nat /\ numAllocated \in Int
  BY NumBlocksAssumption DEF ARCInv, Inv, TypeOK
<1> QED  BY <1>1, <1>2, NumBlocksAssumption DEF NumToEvict, NumFree

\* The first n keys of a list.
First(c, n) == {c[i] : i \in 1..n}

\* What evict has taken after some rounds: the first keys of either candidate list.
Taken(c1, c2) ==
    {s \in Seq(Keys) :
        /\ IsInjective(s)
        /\ \E n1 \in 0..Len(c1), n2 \in 0..Len(c2) :
              Len(s) = n1 + n2 /\ Range(s) = First(c1, n1) \cup First(c2, n2)}

\* One round of evict's loop.
Round(c1, c2, s) ==
    LET n1 == Cardinality(Range(s) \cap Range(c1))
        n2 == Len(s) - n1
        fromT1 == Len(t1) - n1 >= target \div Scale /\ n1 < Len(c1)
    IN IF fromT1 THEN Append(s, c1[n1 + 1])
       ELSE IF n2 < Len(c2) THEN Append(s, c2[n2 + 1])
       ELSE s

\* The candidates of the two lists are idle keys outside the request, each once.
LEMMA CandidateLists ==
    ASSUME ARCInv, NEW keys \in SUBSET Keys
    PROVE  /\ Evictable(t1, keys) \in Seq(Keys) /\ Evictable(t2, keys) \in Seq(Keys)
           /\ IsInjective(Evictable(t1, keys)) /\ IsInjective(Evictable(t2, keys))
           /\ Range(Evictable(t1, keys)) \cap Range(Evictable(t2, keys)) = {}
           /\ Range(Evictable(t1, keys)) \cup Range(Evictable(t2, keys)) = Idle \ keys
<1>1. /\ t1 \in Seq(Keys) /\ t2 \in Seq(Keys) /\ IsInjective(t1) /\ IsInjective(t2)
      /\ Range(t1) \cap Range(t2) = {} /\ Range(t1) \cup Range(t2) = Present
  BY DEF ARCInv, GoodLists, ListRecords, Lists
<1>2. /\ Evictable(t1, keys) \in Seq(Keys) /\ IsInjective(Evictable(t1, keys))
      /\ Range(Evictable(t1, keys)) = Range(t1) \cap (Idle \ keys)
  BY <1>1, WithinKeys DEF Evictable
<1>3. /\ Evictable(t2, keys) \in Seq(Keys) /\ IsInjective(Evictable(t2, keys))
      /\ Range(Evictable(t2, keys)) = Range(t2) \cap (Idle \ keys)
  BY <1>1, WithinKeys DEF Evictable
<1>4. Idle \subseteq Present
  BY DEF Idle
<1> QED  BY <1>1, <1>2, <1>3, <1>4

\* In what was taken, the keys of either list are its first ones, so the next
\* one of the list is a new key.
LEMMA TakenCounts ==
    ASSUME NEW c1 \in Seq(Keys), NEW c2 \in Seq(Keys), IsInjective(c1), IsInjective(c2),
           Range(c1) \cap Range(c2) = {}, NEW s \in Seq(Keys), IsInjective(s),
           NEW n1 \in 0..Len(c1), NEW n2 \in 0..Len(c2),
           Len(s) = n1 + n2, Range(s) = First(c1, n1) \cup First(c2, n2)
    PROVE  /\ Cardinality(Range(s) \cap Range(c1)) = n1
           /\ Len(s) - Cardinality(Range(s) \cap Range(c1)) = n2
<1>1. /\ Len(c1) \in Nat /\ Len(c2) \in Nat
      /\ Range(c1) = First(c1, Len(c1)) /\ Range(c2) = First(c2, Len(c2))
  BY DEF First, Range
<1>2. First(c1, n1) \subseteq Range(c1) /\ First(c2, n2) \subseteq Range(c2)
  BY <1>1 DEF First
<1>3. Range(s) \cap Range(c1) = First(c1, n1)
  BY <1>2
<1>4. Cardinality(First(c1, n1)) = n1
  <2> DEFINE f == [i \in 1..n1 |-> c1[i]]
  <2>1. f \in Bijection(1..n1, First(c1, n1))
    <3>1. \A i \in 1..n1 : i \in DOMAIN c1
      BY <1>1
    <3>2. \A i, m \in 1..n1 : c1[i] = c1[m] => i = m
      BY <3>1 DEF IsInjective
    <3> QED  BY <3>2 DEF First, Bijection, Injection, Surjection, IsInjective
  <2>2. ExistsBijection(1..n1, First(c1, n1))
    BY <2>1 DEF ExistsBijection
  <2>3. IsFiniteSet(1..n1) /\ Cardinality(1..n1) = n1
    BY <1>1, FS_Interval
  <2> QED  BY <2>2, <2>3, FS_Bijection
<1>5. n1 \in Int /\ n2 \in Int
  BY <1>1
<1>6. Cardinality(Range(s) \cap Range(c1)) = n1
  BY <1>3, <1>4
<1> QED  BY <1>5, <1>6

\* A round takes the next candidate of one list, or finds none.
LEMMA RoundKeepsTaken ==
    ASSUME NEW c1 \in Seq(Keys), NEW c2 \in Seq(Keys), IsInjective(c1), IsInjective(c2),
           Range(c1) \cap Range(c2) = {}, NEW s \in Taken(c1, c2)
    PROVE  Round(c1, c2, s) \in Taken(c1, c2)
<1>1. s \in Seq(Keys) /\ IsInjective(s)
  BY DEF Taken
<1>2. PICK n1 \in 0..Len(c1), n2 \in 0..Len(c2) :
         Len(s) = n1 + n2 /\ Range(s) = First(c1, n1) \cup First(c2, n2)
  BY DEF Taken
<1>3. /\ Cardinality(Range(s) \cap Range(c1)) = n1
      /\ Len(s) - Cardinality(Range(s) \cap Range(c1)) = n2
  BY <1>1, <1>2, TakenCounts
<1>4. /\ Len(c1) \in Nat /\ Len(c2) \in Nat /\ DOMAIN c1 = 1..Len(c1) /\ DOMAIN c2 = 1..Len(c2)
      /\ Range(c1) = First(c1, Len(c1)) /\ Range(c2) = First(c2, Len(c2))
  BY DEF First, Range
<1>5. CASE Round(c1, c2, s) = Append(s, c1[n1 + 1]) /\ n1 < Len(c1)
  <2>1. n1 + 1 \in 1..Len(c1) /\ c1[n1 + 1] \in Keys /\ c1[n1 + 1] \in Range(c1)
    BY <1>4, <1>5 DEF Range
  <2>2. c1[n1 + 1] \notin First(c1, n1)
    BY <1>4, <2>1 DEF First, IsInjective
  <2>3. c1[n1 + 1] \notin First(c2, n2)
    BY <1>4, <2>1 DEF First
  <2>4. /\ Append(s, c1[n1 + 1]) \in Seq(Keys) /\ IsInjective(Append(s, c1[n1 + 1]))
        /\ Range(Append(s, c1[n1 + 1])) = Range(s) \cup {c1[n1 + 1]}
        /\ Len(Append(s, c1[n1 + 1])) = Len(s) + 1
    BY <1>1, <1>2, <2>1, <2>2, <2>3, AddedKey, SMTT(60)
  <2>5. First(c1, n1) \cup {c1[n1 + 1]} = First(c1, n1 + 1)
    BY <1>4 DEF First
  <2>6. n1 + 1 \in 0..Len(c1) /\ Len(s) + 1 = (n1 + 1) + n2
    BY <1>2, <1>4, <2>1
  <2> QED  BY <1>2, <1>5, <2>4, <2>5, <2>6 DEF Taken
<1>6. CASE Round(c1, c2, s) = Append(s, c2[n2 + 1]) /\ n2 < Len(c2)
  <2>1. n2 + 1 \in 1..Len(c2) /\ c2[n2 + 1] \in Keys /\ c2[n2 + 1] \in Range(c2)
    BY <1>4, <1>6 DEF Range
  <2>2. c2[n2 + 1] \notin First(c2, n2)
    BY <1>4, <2>1 DEF First, IsInjective
  <2>3. c2[n2 + 1] \notin First(c1, n1)
    <3>1. First(c1, n1) \subseteq Range(c1)
      BY <1>4 DEF First
    <3> QED  BY <2>1, <3>1
  <2>4. /\ Append(s, c2[n2 + 1]) \in Seq(Keys) /\ IsInjective(Append(s, c2[n2 + 1]))
        /\ Range(Append(s, c2[n2 + 1])) = Range(s) \cup {c2[n2 + 1]}
        /\ Len(Append(s, c2[n2 + 1])) = Len(s) + 1
    BY <1>1, <1>2, <2>1, <2>2, <2>3, AddedKey, SMTT(60)
  <2>5. First(c2, n2) \cup {c2[n2 + 1]} = First(c2, n2 + 1)
    BY <1>4 DEF First
  <2>6. n2 + 1 \in 0..Len(c2) /\ Len(s) + 1 = n1 + (n2 + 1)
    BY <1>2, <1>4, <2>1
  <2> QED  BY <1>2, <1>6, <2>4, <2>5, <2>6 DEF Taken
<1>7. CASE Round(c1, c2, s) = s
  BY <1>7
<1> QED  BY <1>3, <1>5, <1>6, <1>7 DEF Round

\* evict's loop is what its rounds make it, and takes what Taken describes.
LEMMA SelectRounds ==
    ASSUME ARCInv, NEW keys \in SUBSET Keys
    PROVE  LET c1 == Evictable(t1, keys)
               c2 == Evictable(t2, keys)
           IN /\ ARCSelect(keys) \in [0..NumBlocks -> Taken(c1, c2)]
              /\ ARCSelect(keys)[0] = <<>>
              /\ \A i \in 1..NumBlocks :
                    ARCSelect(keys)[i] = Round(c1, c2, ARCSelect(keys)[i - 1])
<1> DEFINE c1 == Evictable(t1, keys)
           c2 == Evictable(t2, keys)
           A == Taken(c1, c2)
           step == [i \in 1..NumBlocks |-> [s \in A |-> Round(c1, c2, s)]]
           Is(f) == f = [i \in 0..NumBlocks |-> IF i = 0 THEN <<>> ELSE Round(c1, c2, f[i - 1])]
           loop == CHOOSE f : Is(f)
<1>1. /\ c1 \in Seq(Keys) /\ c2 \in Seq(Keys) /\ IsInjective(c1) /\ IsInjective(c2)
      /\ Range(c1) \cap Range(c2) = {}
  BY CandidateLists
<1>s. ARCSelect(keys) = [n \in 0..NumBlocks |-> loop[n]]
  BY DEF ARCSelect, Round
<1> HIDE DEF c1, c2
<1>2. \A s \in A : Round(c1, c2, s) \in A
  BY <1>1, RoundKeepsTaken
<1>3. <<>> \in A
  <2>1. <<>> \in Seq(Keys) /\ Len(<<>>) = 0 + 0 /\ IsInjective(<<>>) /\ Range(<<>>) = {}
    BY DEF IsInjective, Range
  <2>2. First(c1, 0) = {} /\ First(c2, 0) = {} /\ 0 \in 0..Len(c1) /\ 0 \in 0..Len(c2)
    BY <1>1 DEF First
  <2> QED  BY <2>1, <2>2 DEF Taken
<1> HIDE DEF A
<1>4. step \in Steps(1..NumBlocks, A)
  BY <1>2 DEF Steps
<1>5. PICK f \in [0..NumBlocks -> A] :
         f[0] = <<>> /\ \A i \in 1..NumBlocks : f[i] = step[i][f[i - 1]]
  <2> HIDE DEF step, Is, loop
  <2>1. \E f : Iterates(f, NumBlocks, <<>>, step, A)
    BY <1>3, <1>4, NumBlocksAssumption, Recursion
  <2> QED  BY <2>1 DEF Iterates
<1>6. Is(f)
  <2>1. \A i \in 0..NumBlocks : i # 0 => i \in 1..NumBlocks /\ i - 1 \in 0..NumBlocks
    BY NumBlocksAssumption
  <2>2. \A i \in 0..NumBlocks : i # 0 => step[i][f[i - 1]] = Round(c1, c2, f[i - 1])
    <3>1. \A i \in 0..NumBlocks : i # 0 => i \in 1..NumBlocks /\ f[i - 1] \in A
      BY <1>5, <2>1
    <3> QED  BY <3>1
  <2>3. f = [i \in 0..NumBlocks |-> f[i]]
    BY <1>5
  <2>4. \A i \in 0..NumBlocks : f[i] = IF i = 0 THEN <<>> ELSE Round(c1, c2, f[i - 1])
    BY <1>5, <2>1, <2>2
  <2> HIDE DEF step
  <2> QED  BY <2>3, <2>4
<1>7. Is(loop)
  <2> HIDE DEF Is
  <2> QED  BY <1>6
<1> HIDE DEF loop
<1>8. /\ DOMAIN loop = 0..NumBlocks /\ loop[0] = <<>>
      /\ \A i \in 1..NumBlocks : loop[i] = Round(c1, c2, loop[i - 1]) /\ i - 1 \in 0..NumBlocks
      /\ loop = [i \in 0..NumBlocks |-> loop[i]]
  BY <1>7, NumBlocksAssumption
<1> HIDE DEF Is
<1>9. \A i \in 0..NumBlocks : loop[i] \in A
  <2> DEFINE S == {i \in Nat : i <= NumBlocks => loop[i] \in A}
  <2>1. 0 \in S
    BY <1>3, <1>8
  <2>2. ASSUME NEW i \in Nat, i \in S PROVE i + 1 \in S
    <3>1. SUFFICES ASSUME i + 1 <= NumBlocks PROVE loop[i + 1] \in A
      OBVIOUS
    <3>2. i + 1 \in 1..NumBlocks /\ (i + 1) - 1 = i /\ loop[i] \in A
      BY <2>2, <3>1, NumBlocksAssumption
    <3> QED  BY <1>2, <1>8, <3>2
  <2>3. Nat \subseteq S
    <3> HIDE DEF S
    <3> QED  BY <2>1, <2>2, Induction
  <2> QED  BY <2>3, NumBlocksAssumption
<1>10. loop \in [0..NumBlocks -> A] /\ ARCSelect(keys) = loop
  BY <1>s, <1>8, <1>9
<1> QED  BY <1>8, <1>10 DEF A, c1, c2

\* What a successful evict returns is a choice the manager allows.
LEMMA ARCEvictedIsAllowed ==
    ASSUME ARCInv, NEW keys \in SUBSET Keys, ARCEvictSucceeds(keys)
    PROVE  /\ ARCEvicted(keys) \in Seq(Keys) /\ IsInjective(ARCEvicted(keys))
           /\ Range(ARCEvicted(keys)) \subseteq Idle \ keys
           /\ ARCEvicted(keys) \in EvictionChoices(keys)
           /\ CanEvict(keys, ARCEvicted(keys))
<1> DEFINE c1 == Evictable(t1, keys)
           c2 == Evictable(t2, keys)
           evicted == ARCEvicted(keys)
<1>1. NumToEvict(keys) \in Int
  BY NumToEvictType
<1>2. /\ ToEvict(keys) = (IF NumToEvict(keys) > 0 THEN NumToEvict(keys) ELSE 0)
      /\ ToEvict(keys) \in 0..NumBlocks
      /\ evicted = ARCSelect(keys)[ToEvict(keys)] /\ Len(evicted) = ToEvict(keys)
  BY <1>1, NumBlocksAssumption DEF ToEvict, MaxOf, ARCEvictSucceeds, ARCEvicted
<1>3. evicted \in Taken(c1, c2)
  BY <1>2, SelectRounds
<1>4. /\ c1 \in Seq(Keys) /\ c2 \in Seq(Keys)
      /\ Range(c1) \cup Range(c2) = Idle \ keys
  BY CandidateLists
<1> HIDE DEF evicted, c1, c2
<1>5. evicted \in Seq(Keys) /\ IsInjective(evicted)
  BY <1>3 DEF Taken
<1>6. Range(evicted) \subseteq Idle \ keys
  <2>1. PICK n1 \in 0..Len(c1), n2 \in 0..Len(c2) :
           Range(evicted) = First(c1, n1) \cup First(c2, n2)
    BY <1>3 DEF Taken
  <2>2. First(c1, n1) \subseteq Range(c1) /\ First(c2, n2) \subseteq Range(c2)
    BY <1>4 DEF First, Range
  <2> QED  BY <1>4, <2>1, <2>2
<1>7. CanEvict(keys, evicted)
  BY <1>2, <1>6 DEF CanEvict
<1>8. evicted \in EvictionChoices(keys)
  BY <1>5, <1>6, ListIsArrangement DEF EvictionChoices
<1> QED  BY <1>5, <1>6, <1>7, <1>8 DEF evicted

\* The target, in blocks, is never above the capacity.
LEMMA TargetInBlocks ==
    ASSUME NEW x \in 0..(NumBlocks * Scale)
    PROVE  x \div Scale \in 0..NumBlocks
BY NumBlocksAssumption, ScaleAssumption

\* An idle cache can always make room for one block.
LEMMA OneBlockIsFound ==
    ASSUME ARCInv, NEW keys \in SUBSET Keys, IdleCacheForOneBlock(keys)
    PROVE  ARCEvictSucceeds(keys)
<1> DEFINE c1 == Evictable(t1, keys)
           c2 == Evictable(t2, keys)
<1>1. /\ Cardinality(Present) = NumBlocks /\ Present # {}
      /\ Present = Idle \ keys /\ Cardinality(keys) = 1 /\ Idle \subseteq Present
  BY DEF IdleCacheForOneBlock, Idle
<1>2. Len(freeList) \in Nat /\ numAllocated \in Int /\ Present \subseteq Keys
  BY NumBlocksAssumption DEF ARCInv, Inv, TypeOK
<1>3. ToEvict(keys) = 1 /\ NumBlocks >= 1
  <2>1. KeysToStore(keys) = keys
    BY <1>1 DEF KeysToStore
  <2>2. NumFree = 0
    BY <1>1, <1>2, NumBlocksAssumption DEF ARCInv, Inv, NoSlotLeaks, NumFree
  <2>3. NumBlocks # 0
    <3>1. IsFiniteSet(Present)
      BY <1>2, KeysAssumption, FS_Subset
    <3> QED  BY <1>1, <3>1, FS_EmptySet
  <2> QED  BY <1>1, <2>1, <2>2, <2>3, NumBlocksAssumption DEF ToEvict, MaxOf, NumToEvict
<1>4. /\ t1 \in Seq(Keys) /\ t2 \in Seq(Keys) /\ IsInjective(t1) /\ IsInjective(t2)
      /\ Range(t1) \cup Range(t2) = Present /\ target \in 0..(NumBlocks * Scale)
  BY DEF ARCInv, GoodLists, ListRecords, Lists
<1>5. /\ c1 \in Seq(Keys) /\ IsInjective(c1) /\ Range(c1) = Range(t1)
      /\ c2 \in Seq(Keys) /\ IsInjective(c2) /\ Range(c2) = Range(t2)
  <2>1. Range(t1) \cap (Idle \ keys) = Range(t1) /\ Range(t2) \cap (Idle \ keys) = Range(t2)
    BY <1>1, <1>4
  <2>2. c1 \in Seq(Keys) /\ IsInjective(c1) /\ Range(c1) = Range(t1) \cap (Idle \ keys)
    BY <1>4, WithinKeys DEF Evictable
  <2>3. c2 \in Seq(Keys) /\ IsInjective(c2) /\ Range(c2) = Range(t2) \cap (Idle \ keys)
    BY <1>4, WithinKeys DEF Evictable
  <2> HIDE DEF c1, c2
  <2> QED  BY <2>1, <2>2, <2>3
<1>6. ARCSelect(keys)[1] = Round(c1, c2, <<>>)
  BY <1>3, NumBlocksAssumption, SelectRounds
<1> HIDE DEF c1, c2
<1>7. Len(c1) = Len(t1) /\ Len(c2) = Len(t2) /\ Len(t1) \in Nat /\ Len(t2) \in Nat
  BY <1>4, <1>5, LengthIsCount
<1>8. target \div Scale \in 0..NumBlocks
  BY <1>4, TargetInBlocks
<1>9. Round(c1, c2, <<>>) = IF Len(t1) >= target \div Scale /\ 0 < Len(t1) THEN <<c1[1]>>
                            ELSE IF 0 < Len(t2) THEN <<c2[1]>> ELSE <<>>
  <2>1. Range(<<>>) \cap Range(c1) = {} /\ Cardinality({}) = 0 /\ Len(<<>>) = 0
    BY FS_EmptySet DEF Range
  <2> DEFINE n1 == Cardinality(Range(<<>>) \cap Range(c1))
  <2>2. n1 = 0
    BY <2>1
  <2>3. Round(c1, c2, <<>>) = IF Len(t1) - n1 >= target \div Scale /\ n1 < Len(c1)
                              THEN Append(<<>>, c1[n1 + 1])
                              ELSE IF Len(<<>>) - n1 < Len(c2) THEN Append(<<>>, c2[Len(<<>>) - n1 + 1])
                              ELSE <<>>
    BY DEF Round
  <2> HIDE DEF n1
  <2> QED  BY <1>7, <2>1, <2>2, <2>3
<1>10. CASE Len(t2) = 0
  <2>1. Range(t2) = {}
    BY <1>4, <1>10 DEF Range
  <2>2. Len(t1) = NumBlocks
    BY <1>1, <1>4, <2>1, LengthIsCount
  <2>3. Len(t1) >= target \div Scale /\ 0 < Len(t1)
    BY <1>3, <1>8, <2>2, NumBlocksAssumption
  <2>4. Len(Round(c1, c2, <<>>)) = 1
    BY <1>9, <2>3
  <2> QED  BY <1>3, <1>6, <2>4 DEF ARCEvictSucceeds
<1>11. CASE 0 < Len(t2)
  <2>1. Len(Round(c1, c2, <<>>)) = 1
    BY <1>9, <1>11
  <2> QED  BY <1>3, <1>6, <2>1 DEF ARCEvictSucceeds
<1> QED  BY <1>7, <1>10, <1>11

-----------------------------------------------------------------------------
(***************************************************************************)
(* touch.                                                                  *)
(***************************************************************************)

\* A quotient of lengths is a number.
LEMMA QuotientType ==
    ASSUME NEW a \in Nat, NEW b \in Nat \ {0}
    PROVE  a \div b \in Nat
OBVIOUS

\* However far a ghost hit moves the target, it stays between nothing and the capacity.
LEMMA TargetStaysBounded ==
    ASSUME NEW p \in ListRecords
    PROVE  /\ Len(p.b1) # 0 => Raised(p) \in 0..(NumBlocks * Scale)
           /\ Len(p.b2) # 0 => Lowered(p) \in 0..(NumBlocks * Scale)
<1>1. /\ Len(p.b1) \in Nat /\ Len(p.b2) \in Nat /\ p.target \in 0..(NumBlocks * Scale)
  BY DEF ListRecords
<1>2. NumBlocks * Scale \in Nat /\ Scale \in Nat
  BY NumBlocksAssumption, ScaleAssumption
<1>3. Scale * Len(p.b1) \in Nat /\ Scale * Len(p.b2) \in Nat
  BY <1>1, <1>2
<1> DEFINE up == (Scale * Len(p.b2)) \div Len(p.b1)
           down == (Scale * Len(p.b1)) \div Len(p.b2)
           total == NumBlocks * Scale
<1>4. ASSUME Len(p.b1) # 0 PROVE Raised(p) \in 0..total
  <2>1. up \in Nat
    BY <1>1, <1>3, <1>4, QuotientType
  <2>2. Raised(p) = MinOf(p.target + MaxOf(Scale, up), total)
    BY DEF Raised
  <2>3. p.target \in 0..total /\ total \in Nat
    BY <1>1, <1>2
  <2> HIDE DEF up, total
  <2> QED  BY <1>2, <2>1, <2>2, <2>3 DEF MinOf, MaxOf
<1>5. ASSUME Len(p.b2) # 0 PROVE Lowered(p) \in 0..total
  <2>1. down \in Nat
    BY <1>1, <1>3, <1>5, QuotientType
  <2>2. Lowered(p) = MaxOf(p.target - MaxOf(Scale, down), 0)
    BY DEF Lowered
  <2>3. p.target \in 0..total /\ total \in Nat
    BY <1>1, <1>2
  <2> HIDE DEF down, total
  <2> QED  BY <1>2, <2>1, <2>2, <2>3 DEF MaxOf
<1> QED  BY <1>4, <1>5

\* touch of one key keeps the lists consistent: keys change places, none is lost.
LEMMA TouchOneKeepsLists ==
    ASSUME NEW cached, NEW k, NEW p, GoodLists(p, cached)
    PROVE  GoodLists(TouchOne(k, p), cached)
<1>1. /\ p \in ListRecords
      /\ p.t1 \in Seq(Keys) /\ p.t2 \in Seq(Keys) /\ p.b1 \in Seq(Keys) /\ p.b2 \in Seq(Keys)
      /\ IsInjective(p.t1) /\ IsInjective(p.t2) /\ IsInjective(p.b1) /\ IsInjective(p.b2)
      /\ Range(p.t1) \cap Range(p.t2) = {} /\ Range(p.t1) \cup Range(p.t2) = cached
      /\ Range(p.b1) \cap Range(p.b2) = {} /\ (Range(p.b1) \cup Range(p.b2)) \cap cached = {}
      /\ Len(p.b1) <= NumBlocks /\ Len(p.b2) <= NumBlocks
  BY DEF GoodLists, ListRecords
<1>2. CASE k \in Range(p.t1) /\ IsReady(k)
  <2> DEFINE u == Without(p.t1, {k})
             v == Append(p.t2, k)
  <2>1. u \in Seq(Keys) /\ IsInjective(u) /\ Range(u) = Range(p.t1) \ {k}
    BY <1>1, WithoutKeys
  <2>2. k \in Keys /\ k \notin Range(p.t2)
    <3>1. Range(p.t1) \subseteq Keys
      BY <1>1 DEF Range
    <3> QED  BY <1>1, <1>2, <3>1
  <2>3. v \in Seq(Keys) /\ IsInjective(v) /\ Range(v) = Range(p.t2) \cup {k}
    BY <1>1, <2>2, AddedKey
  <2>4. TouchOne(k, p) = [p EXCEPT !.t1 = u, !.t2 = v]
    BY <1>1, <1>2 DEF TouchOne, ListRecords
  <2> HIDE DEF u, v
  <2>5. Range(u) \cap Range(v) = {} /\ Range(u) \cup Range(v) = cached
    BY <1>1, <1>2, <2>1, <2>3
  <2> QED  BY <1>1, <2>1, <2>3, <2>4, <2>5 DEF GoodLists, ListRecords
<1>3. CASE k \in Range(p.t1) /\ ~IsReady(k)
  <2> DEFINE u == Append(Without(p.t1, {k}), k)
  <2>1. u \in Seq(Keys) /\ IsInjective(u) /\ Range(u) = Range(p.t1)
    BY <1>1, <1>3, MovedToEnd
  <2>2. TouchOne(k, p) = [p EXCEPT !.t1 = u]
    BY <1>1, <1>3 DEF TouchOne, ListRecords
  <2> HIDE DEF u
  <2> QED  BY <1>1, <2>1, <2>2 DEF GoodLists, ListRecords
<1>4. CASE k \in Range(p.t2)
  <2> DEFINE u == Append(Without(p.t2, {k}), k)
  <2>1. u \in Seq(Keys) /\ IsInjective(u) /\ Range(u) = Range(p.t2)
    BY <1>1, <1>4, MovedToEnd
  <2>2. k \notin Range(p.t1)
    BY <1>1, <1>4
  <2>3. TouchOne(k, p) = [p EXCEPT !.t2 = u]
    BY <1>1, <1>4, <2>2 DEF TouchOne, ListRecords
  <2> HIDE DEF u
  <2> QED  BY <1>1, <2>1, <2>3 DEF GoodLists, ListRecords
<1>5. CASE k \in Range(p.b1)
  <2> DEFINE u == Append(Without(p.b1, {k}), k)
  <2>1. u \in Seq(Keys) /\ IsInjective(u) /\ Range(u) = Range(p.b1) /\ Len(u) = Len(p.b1)
    BY <1>1, <1>5, MovedToEnd
  <2>2. k \notin Range(p.t1) /\ k \notin Range(p.t2)
    BY <1>1, <1>5
  <2>3. TouchOne(k, p) = [p EXCEPT !.b1 = u, !.target = Raised(p)]
    BY <1>1, <1>5, <2>2 DEF TouchOne, ListRecords
  <2>4. Len(p.b1) # 0
    BY <1>1, <1>5 DEF Range
  <2>5. Raised(p) \in 0..(NumBlocks * Scale)
    BY <1>1, <2>4, TargetStaysBounded
  <2> HIDE DEF u
  <2> QED  BY <1>1, <2>1, <2>3, <2>5 DEF GoodLists, ListRecords
<1>6. CASE k \in Range(p.b2)
  <2> DEFINE u == Append(Without(p.b2, {k}), k)
  <2>1. u \in Seq(Keys) /\ IsInjective(u) /\ Range(u) = Range(p.b2) /\ Len(u) = Len(p.b2)
    BY <1>1, <1>6, MovedToEnd
  <2>2. k \notin Range(p.t1) /\ k \notin Range(p.t2) /\ k \notin Range(p.b1)
    BY <1>1, <1>6
  <2>3. TouchOne(k, p) = [p EXCEPT !.b2 = u, !.target = Lowered(p)]
    BY <1>1, <1>6, <2>2 DEF TouchOne, ListRecords
  <2>4. Len(p.b2) # 0
    BY <1>1, <1>6 DEF Range
  <2>5. Lowered(p) \in 0..(NumBlocks * Scale)
    BY <1>1, <2>4, TargetStaysBounded
  <2> HIDE DEF u
  <2> QED  BY <1>1, <2>1, <2>3, <2>5 DEF GoodLists, ListRecords
<1>7. CASE k \notin Range(p.t1) \cup Range(p.t2) \cup Range(p.b1) \cup Range(p.b2)
  <2>1. TouchOne(k, p) = p
    BY <1>7, Zenon DEF TouchOne
  <2> QED  BY <2>1
<1> QED  BY <1>2, <1>3, <1>4, <1>5, <1>6, <1>7

\* So does touch of any list of keys: it walks the keys from the last to the
\* first, which is a fold that takes the lowest position off last.
LEMMA TouchKeepsLists ==
    ASSUME NEW cached, NEW order \in Seq(Keys), NEW p, GoodLists(p, cached)
    PROVE  GoodLists(FoldRight(TouchOne, order, p), cached)
<1> DEFINE D == DOMAIN order
           A == {q \in ListRecords : GoodLists(q, cached)}
           pick == [s \in (SUBSET D) \ {{}} |-> Min(s)]
           step == [i \in D |-> [q \in A |-> TouchOne(order[i], q)]]
           Is(f) == f = [s \in SUBSET D |-> IF s = {} THEN p
                                            ELSE TouchOne(order[Min(s)], f[s \ {Min(s)}])]
           fold == CHOOSE f : Is(f)
<1>1. FoldRight(TouchOne, order, p) = fold[D]
  BY DEF FoldRight, MapThenFoldSet
<1>2. IsFiniteSet(D) /\ D \in SUBSET Nat
  <2>1. D = 1..Len(order) /\ Len(order) \in Nat
    OBVIOUS
  <2> QED  BY <2>1, FS_Interval
<1>3. \A s \in (SUBSET D) \ {{}} : Min(s) \in s
  BY <1>2, LeastPosition DEF Min
<1>4. Picks(pick, D)
  BY <1>3 DEF Picks
<1>5. p \in A /\ \A q \in A, i \in D : TouchOne(order[i], q) \in A
  <2>1. \A q : GoodLists(q, cached) => q \in A
    BY DEF GoodLists
  <2> QED  BY <2>1, TouchOneKeepsLists
<1>6. step \in Steps(D, A)
  BY <1>5 DEF Steps
<1>7. PICK f : FoldsBy(f, D, p, step, pick, A)
  <2> HIDE DEF D, A, step, pick
  <2> QED  BY <1>2, <1>4, <1>5, <1>6, SetRecursion
<1>8. Is(f)
  <2>1. /\ f \in [SUBSET D -> A] /\ f[{}] = p
        /\ \A s \in (SUBSET D) \ {{}} : f[s] = step[pick[s]][f[s \ {pick[s]}]]
    BY <1>7 DEF FoldsBy
  <2>2. \A s \in (SUBSET D) \ {{}} : /\ pick[s] = Min(s) /\ Min(s) \in D
                                     /\ s \ {Min(s)} \in SUBSET D
    BY <1>3
  <2> HIDE DEF A, pick
  <2>3. \A s \in (SUBSET D) \ {{}} : f[s] = TouchOne(order[Min(s)], f[s \ {Min(s)}])
    <3>1. \A s \in (SUBSET D) \ {{}} : f[s \ {Min(s)}] \in A /\ Min(s) \in D
      BY <2>1, <2>2
    <3>2. \A i \in D : \A q \in A : step[i][q] = TouchOne(order[i], q)
      OBVIOUS
    <3> HIDE DEF step
    <3> QED  BY <2>1, <2>2, <3>1, <3>2
  <2> HIDE DEF step, D
  <2>4. f = [s \in SUBSET D |-> f[s]]
    BY <2>1
  <2> QED  BY <2>1, <2>3, <2>4
<1>9. Is(fold)
  <2> HIDE DEF Is
  <2> QED  BY <1>8
<1> HIDE DEF fold
<1>10. /\ fold[{}] = p
       /\ \A s \in (SUBSET D) \ {{}} : fold[s] = TouchOne(order[Min(s)], fold[s \ {Min(s)}])
  BY <1>9
<1> HIDE DEF Is
<1>11. \A s \in (SUBSET D) \ {{}} : fold[s \ {pick[s]}] \in A => fold[s] \in A
  <2>1. \A s \in (SUBSET D) \ {{}} : pick[s] = Min(s) /\ Min(s) \in D
    BY <1>3
  <2> HIDE DEF pick, D, A
  <2> QED  BY <1>5, <1>10, <2>1
<1>12. fold[{}] \in A
  BY <1>5, <1>10
<1>13. fold[D] \in A
  <2> HIDE DEF pick, D, A
  <2>1. \A s \in SUBSET D : fold[s] \in A
    BY <1>2, <1>4, <1>11, <1>12, SetRecursionStaysIn
  <2> QED  BY <2>1
<1> QED  BY <1>1, <1>13

-----------------------------------------------------------------------------
(***************************************************************************)
(* The steps.                                                              *)
(***************************************************************************)

\* Every step of the ARC manager is a step of the manager whatever its policy.
LEMMA ARCStep ==
    ASSUME ARCInv, [ARCNext]_arcVars
    PROVE  [Next]_vars
<1>1. ASSUME NEW j \in JobIds, NEW keys \in SUBSET Keys,
             NEW new \in SetToSeqs(KeysToStore(keys)), ARCPrepareStore(j, keys, new)
      PROVE  Next
  <2>1. /\ ARCEvicted(keys) \in EvictionChoices(keys)
        /\ PrepareStore(j, keys, new, ARCEvicted(keys))
    BY <1>1, ARCEvictedIsAllowed DEF ARCPrepareStore
  <2> QED  BY <2>1 DEF Next
<1>2. ASSUME NEW keys \in SUBSET Keys, NEW order \in SetToSeqs(keys), ARCTouch(order)
      PROVE  UNCHANGED vars
  BY <1>2 DEF ARCTouch
<1>3. CASE ARCReset
  BY <1>3 DEF ARCReset, Next
<1>4. ASSUME NEW j \in JobIds,
             \/ \E keys \in SUBSET Keys : ARCPrepareLoad(j, keys)
             \/ ARCCompleteLoad(j)
             \/ ARCCompleteStore(j)
             \/ \E order \in SetToSeqs(PendingOf(stores[j])) : ARCCompleteStoreFailed(j, order)
      PROVE  Next
  BY <1>4 DEF ARCPrepareLoad, ARCCompleteLoad, ARCCompleteStore, ARCCompleteStoreFailed, Next
<1>5. CASE UNCHANGED arcVars
  BY <1>5 DEF arcVars
<1> QED  BY <1>1, <1>2, <1>3, <1>4, <1>5 DEF ARCNext

\* What is left of a ghost list cut to the capacity.
LEMMA TrimmedKeys ==
    ASSUME NEW s \in Seq(Keys), IsInjective(s)
    PROVE  /\ Trim(s) \in Seq(Keys) /\ IsInjective(Trim(s)) /\ Len(Trim(s)) <= NumBlocks
           /\ Range(Trim(s)) \subseteq Range(s)
<1> DEFINE n == MaxOf(Len(s) - NumBlocks, 0) + 1
           u == SubSeq(s, n, Len(s))
<1>1. Len(s) \in Nat /\ DOMAIN s = 1..Len(s)
  OBVIOUS
<1>2. n \in 1..(Len(s) + 1) /\ Len(s) - n + 1 <= NumBlocks
  BY <1>1, NumBlocksAssumption DEF MaxOf
<1>3. Trim(s) = u
  BY DEF Trim
<1> HIDE DEF n
<1>4. /\ u \in Seq(Keys) /\ Len(u) = Len(s) - n + 1
      /\ DOMAIN u = 1..(Len(s) - n + 1)
      /\ \A i \in 1..(Len(s) - n + 1) : u[i] = s[n + i - 1] /\ n + i - 1 \in 1..Len(s)
  BY <1>1, <1>2
<1> HIDE DEF u
<1>5. ASSUME NEW i \in DOMAIN u, NEW m \in DOMAIN u, u[i] = u[m]
      PROVE  i = m
  <2>1. n + i - 1 = n + m - 1
    BY <1>1, <1>4, <1>5 DEF IsInjective
  <2> QED  BY <1>2, <1>4, <2>1
<1>6. IsInjective(u)
  BY <1>5 DEF IsInjective
<1>7. Range(u) \subseteq Range(s)
  BY <1>1, <1>4 DEF Range
<1> QED  BY <1>2, <1>3, <1>4, <1>6, <1>7

\* A ghost list that takes in what was evicted, is cut to the capacity and gives
\* up what is stored anew.
Ghosts(b, evicted, T, S) ==
    Without(IF evicted = <<>> THEN b \o Within(evicted, T) ELSE Trim(b \o Within(evicted, T)), S)

\* It stays bounded, and what it remembers is gone from the cache.
LEMMA GhostsStayBounded ==
    ASSUME NEW b \in Seq(Keys), IsInjective(b), Len(b) <= NumBlocks,
           NEW evicted \in Seq(Keys), IsInjective(evicted), Range(evicted) \cap Range(b) = {},
           NEW T, NEW S
    PROVE  /\ Ghosts(b, evicted, T, S) \in Seq(Keys) /\ IsInjective(Ghosts(b, evicted, T, S))
           /\ Len(Ghosts(b, evicted, T, S)) <= NumBlocks
           /\ Range(Ghosts(b, evicted, T, S)) \subseteq (Range(b) \cup (Range(evicted) \cap T)) \ S
<1> DEFINE gone == Within(evicted, T)
           ghosts == b \o gone
           kept == IF evicted = <<>> THEN ghosts ELSE Trim(ghosts)
           left == Ghosts(b, evicted, T, S)
<1>1. /\ gone \in Seq(Keys) /\ IsInjective(gone) /\ Len(gone) <= Len(evicted)
      /\ Range(gone) = Range(evicted) \cap T
  BY WithinKeys
<1>g. left = Without(kept, S)
  BY DEF Ghosts
<1>k. kept = IF evicted = <<>> THEN ghosts ELSE Trim(ghosts)
  OBVIOUS
<1>u. ghosts = b \o gone
  OBVIOUS
<1> HIDE DEF gone, kept, left, ghosts
<1>2. /\ ghosts \in Seq(Keys) /\ IsInjective(ghosts) /\ Len(ghosts) = Len(b) + Len(gone)
      /\ Range(ghosts) = Range(b) \cup (Range(evicted) \cap T)
  <2>1. Range(b) \cap Range(gone) = {}
    BY <1>1
  <2>2. /\ ghosts \in Seq(Keys) /\ IsInjective(ghosts) /\ Len(ghosts) = Len(b) + Len(gone)
        /\ Range(ghosts) = Range(b) \cup Range(gone)
    BY <1>1, <1>u, <2>1, JoinedKeys
  <2> QED  BY <1>1, <2>2
<1>3. /\ kept \in Seq(Keys) /\ IsInjective(kept) /\ Len(kept) <= NumBlocks
      /\ Range(kept) \subseteq Range(ghosts)
  <2>1. CASE evicted = <<>>
    <3>1. Len(gone) = 0 /\ Len(b) \in Nat
      <4>1. Len(gone) \in Nat /\ Len(evicted) = 0
        BY <1>1, <2>1
      <4> QED  BY <1>1, <4>1
    <3>2. kept = ghosts
      BY <1>k, <2>1
    <3> QED  BY <1>2, <3>1, <3>2
  <2>2. CASE evicted # <<>>
    <3>1. kept = Trim(ghosts)
      BY <1>k, <2>2
    <3> QED  BY <1>2, <3>1, TrimmedKeys
  <2> QED  BY <2>1, <2>2
<1>4. /\ left \in Seq(Keys) /\ IsInjective(left) /\ Len(left) <= Len(kept)
      /\ Range(left) = Range(kept) \ S
  BY <1>3, <1>g, WithoutKeys
<1>5. Len(left) <= NumBlocks
  <2>1. Len(left) \in Nat /\ Len(kept) \in Nat
    BY <1>3, <1>4
  <2> QED  BY <1>3, <1>4, <2>1, NumBlocksAssumption
<1>6. Range(left) \subseteq (Range(b) \cup (Range(evicted) \cap T)) \ S
  BY <1>2, <1>3, <1>4
<1> QED  BY <1>4, <1>5, <1>6 DEF left

\* No step makes the lists and the cache disagree.
LEMMA ARCStepInv ==
    ASSUME ARCInv, Inv', [ARCNext]_arcVars
    PROVE  ARCInv'
<1>0. /\ t1 \in Seq(Keys) /\ t2 \in Seq(Keys) /\ b1 \in Seq(Keys) /\ b2 \in Seq(Keys)
      /\ target \in 0..(NumBlocks * Scale)
      /\ IsInjective(t1) /\ IsInjective(t2) /\ IsInjective(b1) /\ IsInjective(b2)
      /\ Range(t1) \cap Range(t2) = {} /\ Range(t1) \cup Range(t2) = Present
      /\ Range(b1) \cap Range(b2) = {} /\ (Range(b1) \cup Range(b2)) \cap Present = {}
      /\ Len(b1) <= NumBlocks /\ Len(b2) <= NumBlocks
  BY DEF ARCInv, GoodLists, ListRecords, Lists
<1>p. SUFFICES GoodLists(Lists', Present')
  BY DEF ARCInv, GoodLists, ListRecords, Lists
<1>1. ASSUME UNCHANGED arcLists, Present' = Present
      PROVE  GoodLists(Lists', Present')
  <2>1. Lists' = Lists
    BY <1>1 DEF arcLists, Lists
  <2> QED  BY <1>1, <2>1 DEF ARCInv
<1>2. ASSUME NEW j \in JobIds,
             \/ \E keys \in SUBSET Keys : ARCPrepareLoad(j, keys)
             \/ ARCCompleteLoad(j)
             \/ ARCCompleteStore(j)
      PROVE  GoodLists(Lists', Present')
  <2>1. UNCHANGED arcLists /\ Present' = Present
    BY <1>2 DEF ARCPrepareLoad, PrepareLoad, PrepareLoadEffect, ARCCompleteLoad, CompleteLoad,
                CompleteLoadEffect, ARCCompleteStore, CompleteStore, StoredEffect, Present
  <2> QED  BY <1>1, <2>1
<1>3. ASSUME NEW j \in JobIds, NEW keys \in SUBSET Keys,
             NEW new \in SetToSeqs(KeysToStore(keys)), ARCPrepareStore(j, keys, new)
      PROVE  GoodLists(Lists', Present')
  <2> DEFINE evicted == ARCEvicted(keys)
             E == Range(evicted)
             N == Range(new)
  <2>1. evicted \in Seq(Keys) /\ IsInjective(evicted) /\ E \subseteq Present
    <3>1. ARCEvictSucceeds(keys)
      BY <1>3 DEF ARCPrepareStore
    <3>2. Idle \subseteq Present
      BY DEF Idle
    <3> QED  BY <3>1, <3>2, ARCEvictedIsAllowed
  <2>2. new \in Seq(Keys) /\ IsInjective(new) /\ N \cap Present = {}
    <3>1. KeysToStore(keys) \subseteq Keys /\ IsFiniteSet(KeysToStore(keys))
      BY KeysAssumption, FS_Subset DEF KeysToStore
    <3>2. new \in Seq(KeysToStore(keys)) /\ IsInjective(new) /\ N = KeysToStore(keys)
      BY <3>1, Arrangement
    <3>3. new \in Seq(Keys)
      BY <3>1, <3>2, SeqMonotonic
    <3> QED  BY <3>2, <3>3 DEF KeysToStore
  <2>3. /\ Present' = (Present \ E) \cup N
        /\ t1' = Without(t1, E) \o new /\ t2' = Without(t2, E)
        /\ b1' = Ghosts(b1, evicted, Range(t1), N) /\ b2' = Ghosts(b2, evicted, Range(t2), N)
        /\ target' = target
    BY <1>3 DEF ARCPrepareStore, PrepareStore, PrepareStoreEffect, Present, Ghosts
  <2>e. E = Range(evicted)
    OBVIOUS
  <2> HIDE DEF evicted, N, E
  <2>4. /\ Without(t1, E) \in Seq(Keys) /\ IsInjective(Without(t1, E))
        /\ Range(Without(t1, E)) = Range(t1) \ E
    BY <1>0, WithoutKeys
  <2>5. t2' \in Seq(Keys) /\ IsInjective(t2') /\ Range(t2') = Range(t2) \ E
    BY <1>0, <2>3, WithoutKeys
  <2>6. t1' \in Seq(Keys) /\ IsInjective(t1') /\ Range(t1') = (Range(t1) \ E) \cup N
    <3>1. Range(Without(t1, E)) \cap N = {}
      BY <1>0, <2>2, <2>4
    <3> QED  BY <2>2, <2>3, <2>4, <3>1, JoinedKeys DEF N
  <2>7. /\ b1' \in Seq(Keys) /\ IsInjective(b1') /\ Len(b1') <= NumBlocks
        /\ Range(b1') \subseteq (Range(b1) \cup (E \cap Range(t1))) \ N
    <3> DEFINE g == Ghosts(b1, evicted, Range(t1), N)
    <3>1. Range(evicted) \cap Range(b1) = {}
      BY <1>0, <2>1, <2>e
    <3>2. /\ g \in Seq(Keys) /\ IsInjective(g) /\ Len(g) <= NumBlocks
          /\ Range(g) \subseteq (Range(b1) \cup (Range(evicted) \cap Range(t1))) \ N
      BY <1>0, <2>1, <3>1, GhostsStayBounded
    <3> HIDE DEF g
    <3> QED  BY <2>3, <2>e, <3>2 DEF g
  <2>8. /\ b2' \in Seq(Keys) /\ IsInjective(b2') /\ Len(b2') <= NumBlocks
        /\ Range(b2') \subseteq (Range(b2) \cup (E \cap Range(t2))) \ N
    <3> DEFINE g == Ghosts(b2, evicted, Range(t2), N)
    <3>1. Range(evicted) \cap Range(b2) = {}
      BY <1>0, <2>1, <2>e
    <3>2. /\ g \in Seq(Keys) /\ IsInjective(g) /\ Len(g) <= NumBlocks
          /\ Range(g) \subseteq (Range(b2) \cup (Range(evicted) \cap Range(t2))) \ N
      BY <1>0, <2>1, <3>1, GhostsStayBounded
    <3> HIDE DEF g
    <3> QED  BY <2>3, <2>e, <3>2 DEF g
  <2>9. Range(t1') \cap Range(t2') = {} /\ Range(t1') \cup Range(t2') = Present'
    BY <1>0, <2>2, <2>3, <2>5, <2>6
  <2>10. Range(b1') \cap Range(b2') = {}
    BY <1>0, <2>1, <2>7, <2>8
  <2>11. (Range(b1') \cup Range(b2')) \cap Present' = {}
    BY <1>0, <2>3, <2>7, <2>8
  <2> QED  BY <1>0, <2>3, <2>5, <2>6, <2>7, <2>8, <2>9, <2>10, <2>11
           DEF GoodLists, ListRecords, Lists
<1>4. ASSUME NEW j \in JobIds, NEW order \in SetToSeqs(PendingOf(stores[j])),
             ARCCompleteStoreFailed(j, order)
      PROVE  GoodLists(Lists', Present')
  <2> DEFINE S == Range(order)
             R == Range(order) \ Range(t1)
  <2>1. S = PendingOf(stores[j])
    <3>1. stores[j] \in SUBSET Keys
      BY DEF ARCInv, Inv, TypeOK
    <3>2. PendingOf(stores[j]) \in SUBSET Keys
      BY <3>1 DEF PendingOf
    <3> QED  BY <3>2, KeysAssumption, FS_Subset, Arrangement
  <2>2. /\ Present' = Present \ S
        /\ t1' = Without(t1, S) /\ t2' = Without(t2, R)
        /\ b1' = b1 /\ b2' = b2 /\ target' = target
    BY <1>4, <2>1 DEF ARCCompleteStoreFailed, CompleteStoreFailed, StoreFailedEffect, Present
  <2>3. R = S \ Range(t1)
    OBVIOUS
  <2> HIDE DEF S, R
  <2>4. t1' \in Seq(Keys) /\ IsInjective(t1') /\ Range(t1') = Range(t1) \ S
    BY <1>0, <2>2, WithoutKeys
  <2>5. t2' \in Seq(Keys) /\ IsInjective(t2') /\ Range(t2') = Range(t2) \ R
    BY <1>0, <2>2, WithoutKeys
  <2>6. /\ Range(t1') \cap Range(t2') = {} /\ Range(t1') \cup Range(t2') = Present'
        /\ (Range(b1') \cup Range(b2')) \cap Present' = {}
    BY <1>0, <2>2, <2>3, <2>4, <2>5
  <2> QED  BY <1>0, <2>2, <2>4, <2>5, <2>6 DEF GoodLists, ListRecords, Lists
<1>5. ASSUME NEW keys \in SUBSET Keys, NEW order \in SetToSeqs(keys), ARCTouch(order)
      PROVE  GoodLists(Lists', Present')
  <2> DEFINE p == FoldRight(TouchOne, order, Lists)
  <2>1. /\ t1' = p.t1 /\ t2' = p.t2 /\ b1' = p.b1 /\ b2' = p.b2 /\ target' = p.target
        /\ Present' = Present
    BY <1>5 DEF ARCTouch, Lists, vars, Present
  <2>2. order \in Seq(Keys)
    <3>1. order \in Seq(keys)
      BY KeysAssumption, FS_Subset, Arrangement
    <3> QED  BY <3>1, SeqMonotonic
  <2>3. GoodLists(p, Present)
    BY <2>2, TouchKeepsLists DEF ARCInv
  <2> HIDE DEF p
  <2>4. p \in ListRecords
    BY <2>3 DEF GoodLists
  <2>5. Lists' = p
    BY <2>1, <2>4 DEF Lists, ListRecords
  <2> QED  BY <2>1, <2>3, <2>5
<1>6. CASE ARCReset
  <2>1. /\ t1' = <<>> /\ t2' = <<>> /\ b1' = <<>> /\ b2' = <<>> /\ target' = 0
        /\ Present' = {}
    BY <1>6 DEF ARCReset, ResetCache, ResetEffect, Present
  <2> QED  BY <2>1, EmptyListsAreGood DEF Lists
<1>7. CASE UNCHANGED arcVars
  BY <1>1, <1>7 DEF arcVars, arcLists, vars, Present
<1> QED  BY <1>2, <1>3, <1>4, <1>5, <1>6, <1>7 DEF ARCNext

-----------------------------------------------------------------------------

\* The invariant holds of every reachable state.
LEMMA ARCInvHolds == ARCSpec => []ARCInv
<1>1. ARCInit => ARCInv
  <2> SUFFICES ASSUME ARCInit PROVE ARCInv
    OBVIOUS
  <2>1. Inv
    BY InitInv DEF ARCInit
  <2>2. /\ t1 = <<>> /\ t2 = <<>> /\ b1 = <<>> /\ b2 = <<>> /\ target = 0
        /\ Present = {}
    BY DEF ARCInit, Init, Present
  <2> QED  BY <2>1, <2>2, EmptyListsAreGood DEF ARCInv, Lists
<1>2. ARCInv /\ [ARCNext]_arcVars => ARCInv'
  <2> SUFFICES ASSUME ARCInv, [ARCNext]_arcVars PROVE ARCInv'
    OBVIOUS
  <2>1. [Next]_vars
    BY ARCStep
  <2>2. Inv'
    BY <2>1, NextInv DEF ARCInv
  <2> QED  BY <2>2, ARCStepInv
<1> QED  BY <1>1, <1>2, PTL DEF ARCSpec

\* The lists always split the cache between them, the ghosts are never cached,
\* and ghosts and target stay bounded, whatever is touched and in which order.
THEOREM ListsAreExact == ARCSpec => []ListsPartitionTheCache
BY ARCInvHolds, InvariantIsPartition, PTL

\* What evict returns may be evicted, and one block is always found in an idle cache.
THEOREM ARCEvictionContract == ARCSpec => []ARCEvictKeepsItsContract
<1>1. ARCInv => ARCEvictKeepsItsContract
  BY ARCEvictedIsAllowed, OneBlockIsFound DEF ARCEvictKeepsItsContract
<1> QED  BY <1>1, ARCInvHolds, PTL

\* The manager with the ARC policy is the manager: all that is proved of it for
\* an arbitrary policy, the refinement of OffloadStore included, holds with ARC.
THEOREM ARCImplementsManager == ARCSpec => Spec
<1>1. ARCInit => Init
  BY DEF ARCInit
<1>2. ARCInv /\ [ARCNext]_arcVars => [Next]_vars
  BY ARCStep
<1> QED  BY <1>1, <1>2, ARCInvHolds, PTL DEF ARCSpec, Spec

\* So with the ARC policy, too, the host tier keeps the contract of OffloadStore.
THEOREM ARCImplementsStore == ARCSpec => ImplementsStore
BY ARCImplementsManager, Refinement
=============================================================================

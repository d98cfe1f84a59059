------------------------ MODULE OffloadingConnectorProofs ------------------------
(***************************************************************************)
(* Proofs about OffloadingConnector: for any requests and prompts, any number *)
(* of GPU blocks, CPU slots, workers and jobs, any number of batches in flight  *)
(* and any number of resets.                                               *)
(***************************************************************************)
EXTENDS OffloadingConnector, DataProofs

\* What CPUOffloadingManagerProofs proves of any manager, of the one under the
\* connector.
MP == INSTANCE CPUOffloadingManagerProofs WITH
        NumBlocks <- NumSlots, loads <- JobLoads, stores <- JobStores

-----------------------------------------------------------------------------
(***************************************************************************)
(* Lemmas about the model's operators.                                     *)
(***************************************************************************)

\* A run of positions that all have a property, as long as it can be: any number
\* up to n before which nothing lacks it, and which is n or is followed by one
\* that lacks it.
LEMMA LongestRun ==
    ASSUME NEW n \in Nat, NEW have \in SUBSET (1..n)
    PROVE  \E k \in 0..n : /\ \A i \in 1..k : i \in have
                           /\ k < n => k + 1 \notin have
<1> DEFINE ends == {k \in 0..n : k = n \/ k + 1 \notin have}
<1>1. ends \in (SUBSET Nat) \ {{}}
  OBVIOUS
<1>2. PICK k \in ends : \A m \in ends : k <= m
  <2> HIDE DEF ends
  <2> QED  BY <1>1, LeastPosition
<1>3. ASSUME NEW i \in 1..k PROVE i \in have
  <2>1. i - 1 \in 0..n /\ i - 1 < k /\ (i - 1) + 1 = i
    BY <1>2
  <2> QED  BY <1>2, <2>1
<1> QED  BY <1>2, <1>3

\* A prompt is a list of keys, none twice.
LEMMA PromptKeys ==
    ASSUME NEW r \in Reqs
    PROVE  /\ Prompt[r] \in Seq(Keys) /\ IsInjective(Prompt[r])
           /\ NumChunks(r) \in Nat /\ DOMAIN Prompt[r] = 1..NumChunks(r)
           /\ \A i \in 1..NumChunks(r) : Prompt[r][i] \in Keys
           /\ Complete(r) \in Nat /\ Complete(r) = NumChunks(r) + 1
<1>1. Prompt[r] \in Seq(Keys) /\ IsInjective(Prompt[r])
  BY PromptAssumption
<1>2. /\ Len(Prompt[r]) \in Nat /\ DOMAIN Prompt[r] = 1..Len(Prompt[r])
      /\ \A i \in 1..Len(Prompt[r]) : Prompt[r][i] \in Keys
  BY <1>1
<1> QED  BY <1>1, <1>2 DEF NumChunks, Complete

\* The local hit is a prefix of the prompt, and as long as it can be.
LEMMA HitIsPrefix ==
    ASSUME NEW r \in Reqs
    PROVE  /\ LocalHit(r) \in 0..NumChunks(r)
           /\ \A i \in 1..LocalHit(r) : HasHash(Prompt[r][i])
           /\ LocalHit(r) < NumChunks(r) => ~HasHash(Prompt[r][LocalHit(r) + 1])
<1>1. NumChunks(r) \in Nat
  BY PromptKeys
<1> DEFINE have == {i \in 1..NumChunks(r) : HasHash(Prompt[r][i])}
<1>2. \E k \in 0..NumChunks(r) : /\ \A i \in 1..k : i \in have
                                 /\ k < NumChunks(r) => k + 1 \notin have
  <2>1. have \in SUBSET (1..NumChunks(r))
    OBVIOUS
  <2> QED  BY <1>1, <2>1, LongestRun
<1>3. \E n \in 0..NumChunks(r) : /\ \A i \in 1..n : HasHash(Prompt[r][i])
                                 /\ n < NumChunks(r) => ~HasHash(Prompt[r][n + 1])
  <2>1. PICK k \in 0..NumChunks(r) : /\ \A i \in 1..k : i \in have
                                     /\ k < NumChunks(r) => k + 1 \notin have
    BY <1>2
  <2>2. k < NumChunks(r) => k + 1 \in 1..NumChunks(r)
    BY <1>1
  <2> QED  BY <2>1, <2>2
<1> QED  BY <1>3 DEF LocalHit

\* The blocks of the local hit are cached under the first keys of the prompt.
LEMMA HitBlocksAreCached ==
    ASSUME NEW r \in Reqs
    PROVE  /\ HitBlocks(r) \in Seq(Blocks) /\ Len(HitBlocks(r)) = LocalHit(r)
           /\ \A i \in 1..LocalHit(r) : hashed[HitBlocks(r)[i]] = Prompt[r][i]
<1>1. LocalHit(r) \in Nat /\ \A i \in 1..LocalHit(r) : \E b \in Blocks : hashed[b] = Prompt[r][i]
  <2>1. NumChunks(r) \in Nat
    BY PromptKeys
  <2> QED  BY <2>1, HitIsPrefix DEF HasHash
<1>2. PICK n \in Nat : n = LocalHit(r)
  BY <1>1
<1>3. PICK bs : bs = HitBlocks(r)
  OBVIOUS
<1>4. bs = [i \in 1..n |-> CHOOSE b \in Blocks : hashed[b] = Prompt[r][i]]
  BY <1>2, <1>3 DEF HitBlocks
<1>5. ASSUME NEW i \in 1..n
      PROVE  bs[i] \in Blocks /\ hashed[bs[i]] = Prompt[r][i]
  <2>1. \E b \in Blocks : hashed[b] = Prompt[r][i]
    BY <1>1, <1>2
  <2>2. bs[i] = CHOOSE b \in Blocks : hashed[b] = Prompt[r][i]
    BY <1>4
  <2> QED  BY <2>1, <2>2
<1>6. bs \in [1..n -> Blocks]
  BY <1>4, <1>5
<1>7. bs \in Seq(Blocks) /\ Len(bs) = n
  BY <1>6, FunctionIsList
<1> QED  BY <1>2, <1>3, <1>5, <1>7

\* The remote run continues the local hit, up to the end of the prompt.
LEMMA RunIsPrefix ==
    ASSUME NEW r \in Reqs, NEW n \in 0..NumChunks(r)
    PROVE  /\ RemoteRun(r, n) \in 0..(NumChunks(r) - n)
           /\ \A i \in 1..RemoteRun(r, n) : Mgr!Lookup(Prompt[r][n + i]) # "MISS"
<1>1. NumChunks(r) \in Nat /\ n \in Nat
  BY PromptKeys
<1>2. PICK c \in Nat : c = NumChunks(r) - n
  BY <1>1
<1> DEFINE have == {i \in 1..c : Mgr!Lookup(Prompt[r][n + i]) # "MISS"}
<1>3. \E k \in 0..c : /\ \A i \in 1..k : i \in have
                      /\ k < c => k + 1 \notin have
  <2>1. have \in SUBSET (1..c)
    OBVIOUS
  <2> HIDE DEF have
  <2> QED  BY <1>2, <2>1, LongestRun
<1>4. \E h \in 0..(NumChunks(r) - n) :
        /\ \A i \in 1..h : Mgr!Lookup(Prompt[r][n + i]) # "MISS"
        /\ n + h < NumChunks(r) => Mgr!Lookup(Prompt[r][n + h + 1]) = "MISS"
  <2>1. PICK k \in 0..c : /\ \A i \in 1..k : i \in have
                          /\ k < c => k + 1 \notin have
    BY <1>3
  <2>2. k \in 0..(NumChunks(r) - n)
    BY <1>2
  <2>3. \A i \in 1..k : Mgr!Lookup(Prompt[r][n + i]) # "MISS"
    BY <2>1
  <2>4. ASSUME n + k < NumChunks(r) PROVE Mgr!Lookup(Prompt[r][n + k + 1]) = "MISS"
    <3>1. k < c /\ k + 1 \in 1..c /\ n + (k + 1) = n + k + 1
      BY <1>1, <1>2, <2>4
    <3> QED  BY <2>1, <3>1
  <2> QED  BY <2>2, <2>3, <2>4
<1> QED  BY <1>4 DEF RemoteRun

\* What an allocation for progress t can hand out on top of the blocks bs: as
\* many blocks as are lacking, each once, free and not in bs.
LEMMA AllocatedBlocks ==
    ASSUME NEW bs \in Seq(Blocks), NEW t \in Nat, NEW new \in Allocations(bs, t)
    PROVE  /\ new \in Seq(Blocks) /\ IsInjective(new) /\ Len(new) = Lacking(bs, t)
           /\ Range(new) \subseteq FreeBlocks \ Range(bs)
<1>1. PICK S \in kSubset(Lacking(bs, t), Available(bs)) : new \in SetToSeqs(S)
  BY DEF Allocations
<1>2. Len(bs) \in Nat /\ Lacking(bs, t) \in Nat
  BY DEF Lacking, MaxOf
<1>3. PICK n \in Nat : n = Lacking(bs, t)
  BY <1>2
<1>4. S \subseteq FreeBlocks \ Range(bs) /\ Cardinality(S) = n
  BY <1>1, <1>3 DEF kSubset, Available
<1>5. S \subseteq Blocks
  BY <1>4 DEF FreeBlocks
<1>6. new \in [1..n -> S] /\ \A i, j \in 1..n : i # j => new[i] # new[j]
  BY <1>1, <1>4 DEF SetToSeqs
<1>7. new \in Seq(S) /\ Len(new) = n /\ DOMAIN new = 1..n
  BY <1>6, FunctionIsList
<1>8. new \in [1..n -> Blocks]
  BY <1>5, <1>6
<1>9. new \in Seq(Blocks)
  BY <1>8, FunctionIsList
<1>10. IsInjective(new)
  BY <1>6, <1>7 DEF IsInjective
<1>11. Range(new) \subseteq S
  BY <1>6, <1>7 DEF Range
<1> QED  BY <1>3, <1>4, <1>7, <1>9, <1>10, <1>11

-----------------------------------------------------------------------------
(***************************************************************************)
(* Which steps change what.                                                *)
(***************************************************************************)

\* Which steps can change what.
LEMMA Changes ==
    ASSUME [Next]_vars
    PROVE  /\ \/ UNCHANGED <<pc, todo, cursor>>
              \/ \E r \in Reqs : SkipBlocked(r) \/ DeferLookup(r) \/
                    AdmitLoad(r) \/ AdmitRunning(r) \/ AdmitFails(r) \/
                    NothingToStore(r) \/ StoreRefused(r) \/ Store(r)
              \/ BeginSchedule \/ ScheduleRunning \/ PreemptForBlocks \/
                 TryWaiting \/ EndSchedule \/ BuildMeta \/ AssertionFails \/
                 Emit \/ BeginOutput \/ BeginTransfers \/ EndOutput
              \/ \E r \in Reqs, stop \in BOOLEAN : ProcessRequest(r, stop)
              \/ \E j \in JobIds : CompleteJob(j)
           /\ \/ UNCHANGED <<jobs, xfers, mgrVars>>
              \/ \E r \in Reqs : AdmitLoad(r) \/ Store(r)
              \/ Reset
              \/ \E j \in JobIds : CompleteJob(j)
           /\ \/ UNCHANGED <<fences>>
              \/ \E r \in Reqs : Abort(r) \/ Store(r)
              \/ Reset
              \/ \E r \in Reqs, stop \in BOOLEAN : ProcessRequest(r, stop)
              \/ \E j \in JobIds : CompleteJob(j)
           /\ \/ UNCHANGED <<status, known, running, tracked, finSignaled, finishedIds>>
              \/ \E r \in Reqs : Arrive(r) \/ Abort(r) \/ Promote(r) \/
                    AdmitLoad(r) \/ AdmitRunning(r)
              \/ Reset \/ PreemptForBlocks \/ Emit \/ EndOutput
              \/ \E r \in Reqs, stop \in BOOLEAN : ProcessRequest(r, stop)
              \/ \E j \in JobIds : CompleteJob(j)
           /\ \/ UNCHANGED <<computed, sched>>
              \/ \E r \in Reqs : Arrive(r) \/ AdmitLoad(r) \/ AdmitRunning(r)
              \/ Reset \/ ScheduleRunning \/ PreemptForBlocks \/ Emit
           /\ \/ UNCHANGED <<held, blockIds, hashed, curAlloc>>
              \/ \E r \in Reqs : Arrive(r) \/ Abort(r) \/ Promote(r) \/
                    DeferLookup(r) \/ AdmitLoad(r) \/ AdmitRunning(r) \/
                    AdmitFails(r)
              \/ Reset \/ ScheduleRunning \/ PreemptForBlocks \/ BuildMeta \/
                 Emit \/ EndOutput
              \/ \E r \in Reqs, stop \in BOOLEAN : ProcessRequest(r, stop)
           /\ \/ UNCHANGED <<deferred>>
              \/ \E r \in Reqs : Abort(r)
              \/ Reset \/ PreemptForBlocks \/ BeginOutput \/ EndOutput
              \/ \E r \in Reqs, stop \in BOOLEAN : ProcessRequest(r, stop)
           /\ \/ UNCHANGED <<stale, dropStale>>
              \/ \E r \in Reqs : Arrive(r)
              \/ Reset \/ PreemptForBlocks
              \/ \E r \in Reqs, stop \in BOOLEAN : ProcessRequest(r, stop)
           /\ \/ UNCHANGED <<recvd, received>>
              \/ \E r \in Reqs : Abort(r) \/ Promote(r)
              \/ EndOutput
              \/ \E j \in JobIds : CompleteJob(j)
           /\ \/ UNCHANGED <<nextStored, beingLoaded, preemptedIds, curFlush, curLoads, curStores>>
              \/ \E r \in Reqs : Arrive(r) \/ AdmitLoad(r) \/
                    NothingToStore(r) \/ Store(r)
              \/ Reset \/ PreemptForBlocks \/ BuildMeta \/ Emit
              \/ \E j \in JobIds : CompleteJob(j)
           /\ \/ UNCHANGED <<steps, pos, phase, unsub, storeQ, loadQ, done, gpu, cpu>>
              \/ Emit \/ BeginOutput \/ WorkersStep
           /\ \/ UNCHANGED <<out>>
              \/ BeginOutput \/ EndOutput
<1>1. ASSUME NEW r \in Reqs, Arrive(r)
       PROVE  UNCHANGED <<pc, todo, cursor, preemptedNow, out, received, held,
                          running, recvd, hashed, deferred, sched,
                          finishedIds, preemptedIds, resets, jobs,
                          fences, beingLoaded, curLoads,
                          curStores, curFlush, curAlloc, mgrVars,
                          phase, unsub, storeQ, loadQ, done, gpu,
                          cpu, pos, steps, xfers>>
  BY Zenon, <1>1 DEF Arrive, loopVars, reqVars, asyncVars, batchIds,
       connReqVars, jobTable, curVars, workerVars
<1>2. ASSUME NEW r \in Reqs, Abort(r)
       PROVE  UNCHANGED <<pc, todo, cursor, preemptedNow, out, received,
                          computed, stale, dropStale, hashed,
                          sched, preemptedIds, resets, tracked,
                          blockIds, nextStored, finSignaled, jobs,
                          beingLoaded, curLoads, curStores,
                          curFlush, curAlloc, mgrVars, phase,
                          unsub, storeQ, loadQ, done, gpu, cpu,
                          pos, steps, xfers>>
  BY Zenon, <1>2 DEF Abort, Finish, loopVars, reqVars, asyncVars, batchIds,
       connReqVars, jobTable, curVars, workerVars
<1>3. ASSUME Reset
       PROVE  UNCHANGED <<pc, todo, cursor, preemptedNow, out, received, known,
                          recvd, sched, finishedIds, blockIds,
                          finSignaled, curLoads, curStores,
                          curAlloc, phase, unsub, storeQ, loadQ,
                          done, gpu, cpu, pos, steps>>
  BY Zenon, <1>3 DEF Reset, ResetPrefixCache, Preempt, FreeRequestBlocks,
       KeepConnector, ConnectorReset, loopVars, reqVars, asyncVars, batchIds,
       connReqVars, jobTable, curVars, workerVars
<1>4. ASSUME BeginSchedule
       PROVE  UNCHANGED <<todo, out, received, status, known, computed, held,
                          running, stale, dropStale, recvd,
                          hashed, deferred, sched, finishedIds,
                          preemptedIds, resets, tracked, blockIds,
                          nextStored, finSignaled, jobs, fences,
                          beingLoaded, curLoads, curStores,
                          curFlush, curAlloc, mgrVars, phase,
                          unsub, storeQ, loadQ, done, gpu, cpu,
                          pos, steps, xfers>>
  BY Zenon, <1>4 DEF BeginSchedule, loopVars, reqVars, asyncVars, batchIds,
       connReqVars, jobTable, curVars, workerVars
<1>5. ASSUME ScheduleRunning
       PROVE  UNCHANGED <<pc, todo, preemptedNow, out, received, status, known,
                          computed, running, stale, dropStale,
                          recvd, deferred, finishedIds,
                          preemptedIds, resets, tracked, blockIds,
                          nextStored, finSignaled, jobs, fences,
                          beingLoaded, curLoads, curStores,
                          curFlush, curAlloc, mgrVars, phase,
                          unsub, storeQ, loadQ, done, gpu, cpu,
                          pos, steps, xfers>>
  BY Zenon, <1>5 DEF ScheduleRunning, loopVars, reqVars, asyncVars, batchIds,
       connReqVars, jobTable, curVars, workerVars
<1>6. ASSUME PreemptForBlocks
       PROVE  UNCHANGED <<todo, cursor, out, received, known, recvd, hashed,
                          sched, finishedIds, resets, tracked,
                          blockIds, nextStored, finSignaled, jobs,
                          fences, beingLoaded, curLoads,
                          curStores, curFlush, curAlloc, mgrVars,
                          phase, unsub, storeQ, loadQ, done, gpu,
                          cpu, pos, steps, xfers>>
  BY Zenon, <1>6 DEF PreemptForBlocks, Preempt, FreeRequestBlocks, loopVars,
       reqVars, asyncVars, batchIds, connReqVars, jobTable, curVars,
       workerVars
<1>7. ASSUME TryWaiting
       PROVE  UNCHANGED <<cursor, preemptedNow, out, received, status, known,
                          computed, held, running, stale,
                          dropStale, recvd, hashed, deferred,
                          sched, finishedIds, preemptedIds,
                          resets, tracked, blockIds, nextStored,
                          finSignaled, jobs, fences, beingLoaded,
                          curLoads, curStores, curFlush, curAlloc,
                          mgrVars, phase, unsub, storeQ, loadQ,
                          done, gpu, cpu, pos, steps, xfers>>
  BY Zenon, <1>7 DEF TryWaiting, loopVars, reqVars, asyncVars, batchIds,
       connReqVars, jobTable, curVars, workerVars
<1>8. ASSUME NEW r \in Reqs, Promote(r)
       PROVE  UNCHANGED <<pc, todo, cursor, preemptedNow, out, received, known,
                          computed, held, running, stale,
                          dropStale, deferred, sched, finishedIds,
                          preemptedIds, resets, tracked, blockIds,
                          nextStored, finSignaled, jobs, fences,
                          beingLoaded, curLoads, curStores,
                          curFlush, curAlloc, mgrVars, phase,
                          unsub, storeQ, loadQ, done, gpu, cpu,
                          pos, steps, xfers>>
  BY Zenon, <1>8 DEF Promote, loopVars, reqVars, asyncVars, batchIds,
       connReqVars, jobTable, curVars, workerVars
<1>9. ASSUME NEW r \in Reqs, SkipBlocked(r)
       PROVE  UNCHANGED <<pc, cursor, preemptedNow, out, received, status,
                          known, computed, held, running, stale,
                          dropStale, recvd, hashed, deferred,
                          sched, finishedIds, preemptedIds,
                          resets, tracked, blockIds, nextStored,
                          finSignaled, jobs, fences, beingLoaded,
                          curLoads, curStores, curFlush, curAlloc,
                          mgrVars, phase, unsub, storeQ, loadQ,
                          done, gpu, cpu, pos, steps, xfers>>
  BY Zenon, <1>9 DEF SkipBlocked, loopVars, reqVars, asyncVars, batchIds,
       connReqVars, jobTable, curVars, workerVars
<1>10. ASSUME NEW r \in Reqs, DeferLookup(r)
       PROVE  UNCHANGED <<pc, cursor, preemptedNow, out, received, status,
                          known, computed, held, running, stale,
                          dropStale, recvd, hashed, deferred,
                          sched, finishedIds, preemptedIds,
                          resets, tracked, nextStored,
                          finSignaled, jobs, fences, beingLoaded,
                          curLoads, curStores, curFlush, curAlloc,
                          mgrVars, phase, unsub, storeQ, loadQ,
                          done, gpu, cpu, pos, steps, xfers>>
  BY Zenon, <1>10 DEF DeferLookup, loopVars, reqVars, asyncVars, batchIds,
       connReqVars, jobTable, curVars, workerVars
<1>11. ASSUME NEW r \in Reqs, AdmitLoad(r)
       PROVE  UNCHANGED <<pc, cursor, preemptedNow, out, received, known,
                          running, stale, dropStale, recvd,
                          deferred, sched, finishedIds,
                          preemptedIds, resets, tracked,
                          finSignaled, fences, curStores,
                          curFlush, phase, unsub, storeQ, loadQ,
                          done, gpu, cpu, pos, steps>>
  BY Zenon, <1>11 DEF AdmitLoad, loopVars, reqVars, asyncVars, batchIds,
       connReqVars, jobTable, curVars, workerVars
<1>12. ASSUME NEW r \in Reqs, AdmitRunning(r)
       PROVE  UNCHANGED <<pc, cursor, preemptedNow, out, received, known, stale,
                          dropStale, recvd, deferred, finishedIds,
                          preemptedIds, resets, tracked,
                          nextStored, finSignaled, jobs, fences,
                          beingLoaded, curLoads, curStores,
                          curFlush, curAlloc, mgrVars, phase,
                          unsub, storeQ, loadQ, done, gpu, cpu,
                          pos, steps, xfers>>
  BY Zenon, <1>12 DEF AdmitRunning, loopVars, reqVars, asyncVars, batchIds,
       connReqVars, jobTable, curVars, workerVars
<1>13. ASSUME NEW r \in Reqs, AdmitFails(r)
       PROVE  UNCHANGED <<todo, cursor, preemptedNow, out, received, status,
                          known, computed, held, running, stale,
                          dropStale, recvd, hashed, deferred,
                          sched, finishedIds, preemptedIds,
                          resets, tracked, nextStored,
                          finSignaled, jobs, fences, beingLoaded,
                          curLoads, curStores, curFlush, curAlloc,
                          mgrVars, phase, unsub, storeQ, loadQ,
                          done, gpu, cpu, pos, steps, xfers>>
  BY Zenon, <1>13 DEF AdmitFails, loopVars, reqVars, asyncVars, batchIds,
       connReqVars, jobTable, curVars, workerVars
<1>14. ASSUME EndSchedule
       PROVE  UNCHANGED <<todo, cursor, preemptedNow, out, received, status,
                          known, computed, held, running, stale,
                          dropStale, recvd, hashed, deferred,
                          sched, finishedIds, preemptedIds,
                          resets, tracked, blockIds, nextStored,
                          finSignaled, jobs, fences, beingLoaded,
                          curLoads, curStores, curFlush, curAlloc,
                          mgrVars, phase, unsub, storeQ, loadQ,
                          done, gpu, cpu, pos, steps, xfers>>
  BY Zenon, <1>14 DEF EndSchedule, loopVars, reqVars, asyncVars, batchIds,
       connReqVars, jobTable, curVars, workerVars
<1>15. ASSUME BuildMeta
       PROVE  UNCHANGED <<cursor, preemptedNow, out, received, status, known,
                          computed, held, running, stale,
                          dropStale, recvd, hashed, deferred,
                          sched, finishedIds, preemptedIds,
                          resets, tracked, nextStored,
                          finSignaled, jobs, fences, beingLoaded,
                          curLoads, curStores, mgrVars, phase,
                          unsub, storeQ, loadQ, done, gpu, cpu,
                          pos, steps, xfers>>
  BY Zenon, <1>15 DEF BuildMeta, loopVars, reqVars, asyncVars, batchIds,
       connReqVars, jobTable, curVars, workerVars
<1>16. ASSUME AssertionFails
       PROVE  UNCHANGED <<todo, cursor, preemptedNow, out, received, status,
                          known, computed, held, running, stale,
                          dropStale, recvd, hashed, deferred,
                          sched, finishedIds, preemptedIds,
                          resets, tracked, blockIds, nextStored,
                          finSignaled, jobs, fences, beingLoaded,
                          curLoads, curStores, curFlush, curAlloc,
                          mgrVars, phase, unsub, storeQ, loadQ,
                          done, gpu, cpu, pos, steps, xfers>>
  BY Zenon, <1>16 DEF AssertionFails, loopVars, reqVars, asyncVars, batchIds,
       connReqVars, jobTable, curVars, workerVars
<1>17. ASSUME EngineFailed
       PROVE  UNCHANGED <<pc, todo, cursor, preemptedNow, out, received, status,
                          known, computed, held, running, stale,
                          dropStale, recvd, hashed, deferred,
                          sched, finishedIds, preemptedIds,
                          resets, tracked, blockIds, nextStored,
                          finSignaled, jobs, fences, beingLoaded,
                          curLoads, curStores, curFlush, curAlloc,
                          mgrVars, phase, unsub, storeQ, loadQ,
                          done, gpu, cpu, pos, steps, xfers>>
  BY Zenon, <1>17 DEF EngineFailed, vars, loopVars, reqVars, asyncVars,
       batchIds, connReqVars, jobTable, curVars, workerVars
<1>18. ASSUME NEW r \in Reqs, NothingToStore(r)
       PROVE  UNCHANGED <<pc, cursor, preemptedNow, out, received, status,
                          known, computed, held, running, stale,
                          dropStale, recvd, hashed, deferred,
                          sched, finishedIds, preemptedIds,
                          resets, tracked, blockIds, finSignaled,
                          jobs, fences, beingLoaded, curLoads,
                          curStores, curFlush, curAlloc, mgrVars,
                          phase, unsub, storeQ, loadQ, done, gpu,
                          cpu, pos, steps, xfers>>
  BY Zenon, <1>18 DEF NothingToStore, KeepForStores, loopVars, reqVars,
       asyncVars, batchIds, connReqVars, jobTable, curVars, workerVars
<1>19. ASSUME NEW r \in Reqs, StoreRefused(r)
       PROVE  UNCHANGED <<pc, cursor, preemptedNow, out, received, status,
                          known, computed, held, running, stale,
                          dropStale, recvd, hashed, deferred,
                          sched, finishedIds, preemptedIds,
                          resets, tracked, blockIds, nextStored,
                          finSignaled, jobs, fences, beingLoaded,
                          curLoads, curStores, curFlush, curAlloc,
                          mgrVars, phase, unsub, storeQ, loadQ,
                          done, gpu, cpu, pos, steps, xfers>>
  BY Zenon, <1>19 DEF StoreRefused, KeepForStores, loopVars, reqVars,
       asyncVars, batchIds, connReqVars, jobTable, curVars, workerVars
<1>20. ASSUME NEW r \in Reqs, Store(r)
       PROVE  UNCHANGED <<pc, cursor, preemptedNow, out, received, status,
                          known, computed, held, running, stale,
                          dropStale, recvd, hashed, deferred,
                          sched, finishedIds, preemptedIds,
                          resets, tracked, blockIds, finSignaled,
                          beingLoaded, curLoads, curAlloc, phase,
                          unsub, storeQ, loadQ, done, gpu, cpu,
                          pos, steps>>
  BY Zenon, <1>20 DEF Store, KeepForStores, loopVars, reqVars, asyncVars,
       batchIds, connReqVars, jobTable, curVars, workerVars
<1>21. ASSUME Emit
       PROVE  UNCHANGED <<todo, out, received, status, known, held, running,
                          stale, dropStale, recvd, hashed,
                          deferred, resets, blockIds, nextStored,
                          jobs, fences, beingLoaded, mgrVars,
                          phase, unsub, storeQ, loadQ, done, gpu,
                          cpu, pos, xfers>>
  BY Zenon, <1>21 DEF Emit, loopVars, reqVars, asyncVars, batchIds,
       connReqVars, jobTable, curVars, workerVars
<1>22. ASSUME BeginOutput
       PROVE  UNCHANGED <<cursor, preemptedNow, received, status, known,
                          computed, held, running, stale,
                          dropStale, recvd, hashed, sched,
                          finishedIds, preemptedIds, resets,
                          tracked, blockIds, nextStored,
                          finSignaled, jobs, fences, beingLoaded,
                          curLoads, curStores, curFlush, curAlloc,
                          mgrVars, phase, unsub, storeQ, loadQ,
                          done, gpu, cpu, xfers>>
  BY Zenon, <1>22 DEF BeginOutput, loopVars, reqVars, asyncVars, batchIds,
       connReqVars, jobTable, curVars, workerVars
<1>23. ASSUME NEW r \in Reqs, NEW stop \in BOOLEAN, ProcessRequest(r, stop)
       PROVE  UNCHANGED <<pc, cursor, preemptedNow, out, received, computed,
                          dropStale, recvd, hashed, sched,
                          preemptedIds, resets, tracked, blockIds,
                          nextStored, finSignaled, jobs,
                          beingLoaded, curLoads, curStores,
                          curFlush, curAlloc, mgrVars, phase,
                          unsub, storeQ, loadQ, done, gpu, cpu,
                          pos, steps, xfers>>
  BY Zenon, <1>23 DEF ProcessRequest, Finish, loopVars, reqVars, asyncVars,
       batchIds, connReqVars, jobTable, curVars, workerVars
<1>24. ASSUME BeginTransfers
       PROVE  UNCHANGED <<cursor, preemptedNow, out, received, status, known,
                          computed, held, running, stale,
                          dropStale, recvd, hashed, deferred,
                          sched, finishedIds, preemptedIds,
                          resets, tracked, blockIds, nextStored,
                          finSignaled, jobs, fences, beingLoaded,
                          curLoads, curStores, curFlush, curAlloc,
                          mgrVars, phase, unsub, storeQ, loadQ,
                          done, gpu, cpu, pos, steps, xfers>>
  BY Zenon, <1>24 DEF BeginTransfers, loopVars, reqVars, asyncVars, batchIds,
       connReqVars, jobTable, curVars, workerVars
<1>25. ASSUME NEW j \in JobIds, CompleteJob(j)
       PROVE  UNCHANGED <<pc, cursor, preemptedNow, out, status, known,
                          computed, held, running, stale,
                          dropStale, recvd, hashed, deferred,
                          sched, finishedIds, preemptedIds,
                          resets, blockIds, nextStored,
                          finSignaled, curLoads, curStores,
                          curFlush, curAlloc, phase, unsub,
                          storeQ, loadQ, done, gpu, cpu, pos,
                          steps>>
  BY Zenon, <1>25 DEF CompleteJob, loopVars, reqVars, asyncVars, batchIds,
       connReqVars, jobTable, curVars, workerVars
<1>26. ASSUME EndOutput
       PROVE  UNCHANGED <<todo, cursor, preemptedNow, status, computed, running,
                          stale, dropStale, hashed, sched,
                          finishedIds, preemptedIds, resets,
                          tracked, blockIds, nextStored,
                          finSignaled, jobs, fences, beingLoaded,
                          curLoads, curStores, curFlush, curAlloc,
                          mgrVars, phase, unsub, storeQ, loadQ,
                          done, gpu, cpu, pos, steps, xfers>>
  BY Zenon, <1>26 DEF EndOutput, FreeRequestBlocks, loopVars, reqVars,
       asyncVars, batchIds, connReqVars, jobTable, curVars, workerVars
<1>27. ASSUME WorkersStep
       PROVE  UNCHANGED <<pc, todo, cursor, preemptedNow, out, received, status,
                          known, computed, held, running, stale,
                          dropStale, recvd, hashed, deferred,
                          sched, finishedIds, preemptedIds,
                          resets, tracked, blockIds, nextStored,
                          finSignaled, jobs, fences, beingLoaded,
                          curLoads, curStores, curFlush, curAlloc,
                          mgrVars, xfers>>
  BY Zenon, <1>27 DEF WorkersStep, WorkerStep, SubmitStores, SubmitLoads,
       RunModel, Report, StoreTransfer, LoadTransfer, loopVars, reqVars,
       asyncVars, batchIds, connReqVars, jobTable, curVars, workerVars
<1>28. ASSUME UNCHANGED vars
        PROVE  UNCHANGED <<pc, todo, cursor, out, received, status, known,
                          computed, held, running, stale, dropStale, recvd,
                          hashed, deferred, sched, finishedIds,
                          preemptedIds, tracked, blockIds, nextStored,
                          finSignaled, jobs, fences, beingLoaded, curLoads,
                          curStores, curFlush, curAlloc, mgrVars, phase,
                          unsub, storeQ, loadQ, done, gpu, cpu, pos, steps,
                          xfers>>
  BY Zenon, <1>28 DEF vars, loopVars, reqVars, asyncVars, batchIds,
       connReqVars, jobTable, curVars, workerVars
<1>29.  \/ UNCHANGED <<pc, todo, cursor>>
        \/ \E r \in Reqs : SkipBlocked(r) \/ DeferLookup(r) \/ AdmitLoad(r) \/
              AdmitRunning(r) \/ AdmitFails(r) \/ NothingToStore(r) \/
              StoreRefused(r) \/ Store(r)
        \/ BeginSchedule \/ ScheduleRunning \/ PreemptForBlocks \/ TryWaiting
           \/ EndSchedule \/ BuildMeta \/ AssertionFails \/ Emit \/
           BeginOutput \/ BeginTransfers \/ EndOutput
        \/ \E r \in Reqs, stop \in BOOLEAN : ProcessRequest(r, stop)
        \/ \E j \in JobIds : CompleteJob(j)
  BY <1>1, <1>2, <1>3, <1>8, <1>17, <1>27, <1>28 DEF Next, ScheduleStep,
     OutputStep
<1>30.  \/ UNCHANGED <<jobs, xfers, mgrVars>>
        \/ \E r \in Reqs : AdmitLoad(r) \/ Store(r)
        \/ Reset
        \/ \E j \in JobIds : CompleteJob(j)
  BY <1>1, <1>2, <1>4, <1>5, <1>6, <1>7, <1>8, <1>9, <1>10, <1>12, <1>13,
     <1>14, <1>15, <1>16, <1>17, <1>18, <1>19, <1>21, <1>22, <1>23, <1>24,
     <1>26, <1>27, <1>28 DEF Next, ScheduleStep, OutputStep
<1>31.  \/ UNCHANGED <<fences>>
        \/ \E r \in Reqs : Abort(r) \/ Store(r)
        \/ Reset
        \/ \E r \in Reqs, stop \in BOOLEAN : ProcessRequest(r, stop)
        \/ \E j \in JobIds : CompleteJob(j)
  BY <1>1, <1>4, <1>5, <1>6, <1>7, <1>8, <1>9, <1>10, <1>11, <1>12, <1>13,
     <1>14, <1>15, <1>16, <1>17, <1>18, <1>19, <1>21, <1>22, <1>24, <1>26,
     <1>27, <1>28 DEF Next, ScheduleStep, OutputStep
<1>32.  \/ UNCHANGED <<status, known, running, tracked, finSignaled, finishedIds>>
        \/ \E r \in Reqs : Arrive(r) \/ Abort(r) \/ Promote(r) \/ AdmitLoad(r)
              \/ AdmitRunning(r)
        \/ Reset \/ PreemptForBlocks \/ Emit \/ EndOutput
        \/ \E r \in Reqs, stop \in BOOLEAN : ProcessRequest(r, stop)
        \/ \E j \in JobIds : CompleteJob(j)
  BY <1>4, <1>5, <1>7, <1>9, <1>10, <1>13, <1>14, <1>15, <1>16, <1>17, <1>18,
     <1>19, <1>20, <1>22, <1>24, <1>27, <1>28 DEF Next, ScheduleStep,
     OutputStep
<1>33.  \/ UNCHANGED <<computed, sched>>
        \/ \E r \in Reqs : Arrive(r) \/ AdmitLoad(r) \/ AdmitRunning(r)
        \/ Reset \/ ScheduleRunning \/ PreemptForBlocks \/ Emit
  BY <1>2, <1>4, <1>7, <1>8, <1>9, <1>10, <1>13, <1>14, <1>15, <1>16, <1>17,
     <1>18, <1>19, <1>20, <1>22, <1>23, <1>24, <1>25, <1>26, <1>27, <1>28 DEF
     Next, ScheduleStep, OutputStep
<1>34.  \/ UNCHANGED <<held, blockIds, hashed, curAlloc>>
        \/ \E r \in Reqs : Arrive(r) \/ Abort(r) \/ Promote(r) \/
              DeferLookup(r) \/ AdmitLoad(r) \/ AdmitRunning(r) \/
              AdmitFails(r)
        \/ Reset \/ ScheduleRunning \/ PreemptForBlocks \/ BuildMeta \/ Emit
           \/ EndOutput
        \/ \E r \in Reqs, stop \in BOOLEAN : ProcessRequest(r, stop)
  BY <1>4, <1>7, <1>9, <1>14, <1>16, <1>17, <1>18, <1>19, <1>20, <1>22, <1>24,
     <1>25, <1>27, <1>28 DEF Next, ScheduleStep, OutputStep
<1>35.  \/ UNCHANGED <<deferred>>
        \/ \E r \in Reqs : Abort(r)
        \/ Reset \/ PreemptForBlocks \/ BeginOutput \/ EndOutput
        \/ \E r \in Reqs, stop \in BOOLEAN : ProcessRequest(r, stop)
  BY <1>1, <1>4, <1>5, <1>7, <1>8, <1>9, <1>10, <1>11, <1>12, <1>13, <1>14,
     <1>15, <1>16, <1>17, <1>18, <1>19, <1>20, <1>21, <1>24, <1>25, <1>27,
     <1>28 DEF Next, ScheduleStep, OutputStep
<1>36.  \/ UNCHANGED <<stale, dropStale>>
        \/ \E r \in Reqs : Arrive(r)
        \/ Reset \/ PreemptForBlocks
        \/ \E r \in Reqs, stop \in BOOLEAN : ProcessRequest(r, stop)
  BY <1>2, <1>4, <1>5, <1>7, <1>8, <1>9, <1>10, <1>11, <1>12, <1>13, <1>14,
     <1>15, <1>16, <1>17, <1>18, <1>19, <1>20, <1>21, <1>22, <1>24, <1>25,
     <1>26, <1>27, <1>28 DEF Next, ScheduleStep, OutputStep
<1>37.  \/ UNCHANGED <<recvd, received>>
        \/ \E r \in Reqs : Abort(r) \/ Promote(r)
        \/ EndOutput
        \/ \E j \in JobIds : CompleteJob(j)
  BY <1>1, <1>3, <1>4, <1>5, <1>6, <1>7, <1>9, <1>10, <1>11, <1>12, <1>13,
     <1>14, <1>15, <1>16, <1>17, <1>18, <1>19, <1>20, <1>21, <1>22, <1>23,
     <1>24, <1>27, <1>28 DEF Next, ScheduleStep, OutputStep
<1>38.  \/ UNCHANGED <<nextStored, beingLoaded, preemptedIds, curFlush, curLoads, curStores>>
        \/ \E r \in Reqs : Arrive(r) \/ AdmitLoad(r) \/ NothingToStore(r) \/
              Store(r)
        \/ Reset \/ PreemptForBlocks \/ BuildMeta \/ Emit
        \/ \E j \in JobIds : CompleteJob(j)
  BY <1>2, <1>4, <1>5, <1>7, <1>8, <1>9, <1>10, <1>12, <1>13, <1>14, <1>16,
     <1>17, <1>19, <1>22, <1>23, <1>24, <1>26, <1>27, <1>28 DEF Next,
     ScheduleStep, OutputStep
<1>39.  \/ UNCHANGED <<steps, pos, phase, unsub, storeQ, loadQ, done, gpu, cpu>>
        \/ Emit \/ BeginOutput \/ WorkersStep
  BY <1>1, <1>2, <1>3, <1>4, <1>5, <1>6, <1>7, <1>8, <1>9, <1>10, <1>11,
     <1>12, <1>13, <1>14, <1>15, <1>16, <1>17, <1>18, <1>19, <1>20, <1>23,
     <1>24, <1>25, <1>26, <1>28 DEF Next, ScheduleStep, OutputStep
<1>40.  \/ UNCHANGED <<out>>
        \/ BeginOutput \/ EndOutput
  BY <1>1, <1>2, <1>3, <1>4, <1>5, <1>6, <1>7, <1>8, <1>9, <1>10, <1>11,
     <1>12, <1>13, <1>14, <1>15, <1>16, <1>17, <1>18, <1>19, <1>20, <1>21,
     <1>23, <1>24, <1>25, <1>27, <1>28 DEF Next, ScheduleStep, OutputStep
<1> QED  BY <1>29, <1>30, <1>31, <1>32, <1>33, <1>34, <1>35, <1>36, <1>37, <1>38, <1>39, <1>40

-----------------------------------------------------------------------------
(***************************************************************************)
(* The inductive invariant.                                                *)
(*                                                                         *)
(* Its core is where a transfer job is on a worker.  CompleteJob subtracts    *)
(* the workers that report a job from a counter, so what it needs to be right  *)
(* is that no worker ever reports a job twice, nor one the scheduler has no    *)
(* record of.  A worker names a job in up to nine places - the batch being     *)
(* built, the loads and stores of the batches in flight, what it put off, its   *)
(* two queues, what it is done with, the reports of the batches in flight and    *)
(* of the one being processed - and `at` assigns each job one of them: whoever   *)
(* names a job finds the worker among those the job still waits for.          *)
(***************************************************************************)

Work == [req : Reqs, from : Nat, to : Nat, blocks : Seq(Blocks)]
Batch == [work : SUBSET Work, loads : Seq(JobIds), stores : Seq(JobIds),
          flush : SUBSET JobIds, reports : [Workers -> SUBSET JobIds]]
Copy == [block : Blocks, slot : Slots]
Xfer == [req : Reqs, store : BOOLEAN, stale : BOOLEAN, left : SUBSET Workers,
         copies : SUBSET Copy]
Job == [req : Reqs, store : BOOLEAN, keys : SUBSET Keys, pending : Nat,
        srcBlocks : SUBSET Blocks]

Scheduling == pc \in {"running", "waiting", "build", "stores"}
Receiving == pc \in {"output", "complete"}

LoopsOK ==
    /\ Scheduling \/ Receiving \/ pc \in {"idle", "failed"}
    /\ cursor \in Nat \ {0}
    /\ pc # "complete" => todo \subseteq Reqs
    /\ pc = "complete" => \A j \in todo : \E s \in out : \E w \in Workers : j \in s.reports[w]
    /\ out \subseteq Batch
    /\ out # {} => Receiving
    /\ steps \in Seq(Batch)
    /\ Len(steps) <= MaxBatches
    /\ Scheduling => Len(steps) < MaxBatches

MembersOK ==
    /\ status \in [Reqs -> {"absent", "waiting", "remote", "running", "stopped", "aborted"}]
    /\ running \in Seq(Reqs)
    /\ known \subseteq Reqs /\ tracked \subseteq Reqs /\ finSignaled \subseteq Reqs
    /\ finishedIds \subseteq Reqs
    /\ \A r \in Range(running) : r \in known /\ status[r] = "running"
    /\ pc = "waiting" => \A r \in todo : r \in known /\ status[r] \in {"waiting", "remote"}
    /\ \A r \in known : Finished(r) \/ (r \in tracked /\ r \notin finishedIds \cup finSignaled)

DataOK ==
    /\ computed \in [Reqs -> Nat] /\ \A r \in Reqs : computed[r] <= Complete(r)
    /\ held \in [Reqs -> Seq(Blocks)] /\ blockIds \in [Reqs -> Seq(Blocks)]
    /\ hashed \in [Blocks -> Keys \cup {NoKey}]
    /\ curAlloc \subseteq Blocks
    /\ DOMAIN sched \subseteq Reqs
    /\ \A r \in DOMAIN sched : /\ sched[r].from \in 0..Complete(r)
                               /\ sched[r].to \in 0..Complete(r)
                               /\ sched[r].new \in Seq(Blocks)

CurrentOK ==
    /\ nextStored \in [Reqs -> Nat] /\ beingLoaded \subseteq Keys /\ preemptedIds \subseteq Reqs
    /\ curFlush \subseteq JobIds
    /\ curLoads \in Seq(JobIds) /\ IsInjective(curLoads)
    /\ curStores \in Seq(JobIds) /\ IsInjective(curStores)

WorkersOK ==
    /\ pos \in [Workers -> Nat]
    /\ phase \in [Workers -> {"idle", "flushing", "loading", "ran"}]
    /\ \A w \in Workers : pos[w] <= Len(steps) /\ (phase[w] # "idle" => pos[w] < Len(steps))
    /\ unsub \in [Workers -> Seq(JobIds)]
    /\ storeQ \in [Workers -> Seq(JobIds)]
    /\ loadQ \in [Workers -> Seq(JobIds)]
    /\ done \in [Workers -> SUBSET JobIds]
    /\ \A w \in Workers : IsInjective(unsub[w]) /\ IsInjective(storeQ[w]) /\ IsInjective(loadQ[w])
    /\ \A i \in DOMAIN steps : IsInjective(steps[i].loads) /\ IsInjective(steps[i].stores)

StorageOK ==
    /\ gpu \in [Workers -> [Blocks -> Keys \cup {NoKey, Garbage}]]
    /\ cpu \in [Workers -> [Slots -> Keys \cup {NoKey, Garbage}]]

TableOK ==
    /\ DOMAIN xfers \subseteq JobIds
    /\ \A j \in DOMAIN xfers : xfers[j] \in Xfer
    /\ DOMAIN jobs = {j \in DOMAIN xfers : ~xfers[j].stale}
    /\ \A j \in DOMAIN jobs : /\ jobs[j] \in Job /\ jobs[j].keys # {}
                              /\ jobs[j].req = xfers[j].req /\ jobs[j].store = xfers[j].store
                              /\ jobs[j].pending = Cardinality(xfers[j].left)
                              /\ jobs[j].req \in tracked

FencesOK ==
    \A f \in fences : f \in Blocks \X DOMAIN jobs /\ Finished(jobs[f[2]].req)

StaleOK == stale \in [Reqs -> 0..MaxBatches]

\* What is left to store was scheduled or is finished.
TurnsOK ==
    /\ \A r \in finishedIds : Finished(r)
    /\ pc = "stores" => \A r \in todo : r \in DOMAIN sched \/ Finished(r)

\* Where a job is on a worker.  Batch Len(steps) + 1 is the one being built; a
\* report of batch i is at i, and at 0 once the batch is the one being processed.
Done == -1
InLoadQ == -2
InStoreQ == -3
PutOff == -4
Nowhere == -5
ToBeLoaded(i) == -(2 * i) - 6
ToBeStored(i) == -(2 * i) - 7

\* How far worker w is with batch i: its loads, the stores it flushes and its
\* other stores are behind it.
LoadsTaken(w, i) == i <= pos[w] \/ (i = pos[w] + 1 /\ phase[w] \in {"loading", "ran"})
FlushesTaken(w, i) == i <= pos[w] \/ (i = pos[w] + 1 /\ phase[w] # "idle")
StoresTaken(w, i) == i <= pos[w] \/ (i = pos[w] + 1 /\ phase[w] = "ran")

\* A job some worker still has to perform is in the table, with that worker left.
Expected(w, at) == \A j \in JobIds : at[j] # Nowhere => j \in DOMAIN xfers /\ w \in xfers[j].left

OnWorker(w, at) ==
    /\ \A j \in Range(unsub[w]) : at[j] = PutOff
    /\ \A j \in Range(storeQ[w]) : at[j] = InStoreQ
    /\ \A j \in Range(loadQ[w]) : at[j] = InLoadQ
    /\ \A j \in done[w] : at[j] = Done

InBatches(w, at) ==
    \A i \in DOMAIN steps :
       /\ \A j \in steps[i].reports[w] : at[j] = i
       /\ ~LoadsTaken(w, i) => \A j \in Range(steps[i].loads) : at[j] = ToBeLoaded(i)
       /\ ~StoresTaken(w, i) => \A j \in Range(steps[i].stores) :
             at[j] = ToBeStored(i) \/ (FlushesTaken(w, i) /\ j \in steps[i].flush)

InCurrent(at) ==
    /\ \A j \in Range(curLoads) : at[j] = ToBeLoaded(Len(steps) + 1)
    /\ \A j \in Range(curStores) : at[j] = ToBeStored(Len(steps) + 1)

InOutput(w, at) ==
    \A s \in out : \A j \in s.reports[w] : at[j] = 0 \/ (pc = "complete" /\ j \notin todo)

Placed(w, at) == /\ at \in [JobIds -> Int]
                 /\ Expected(w, at) /\ OnWorker(w, at) /\ InBatches(w, at)
                 /\ InCurrent(at) /\ InOutput(w, at)

PlacesOK == \A w \in Workers : \E at : Placed(w, at)

Inv ==
    /\ LoopsOK /\ MembersOK /\ DataOK /\ CurrentOK /\ WorkersOK /\ StorageOK
    /\ TableOK /\ FencesOK /\ StaleOK /\ TurnsOK /\ PlacesOK
    /\ MP!Inv

\* The assumptions about the manager hold of the one under the connector.
LEMMA ManagerAssumptions == MP!KeysAssumption /\ MP!NumBlocksAssumption /\ MP!JobIdsAssumption
  BY IdsAssumption, SizesAssumption
     DEF MP!KeysAssumption, MP!NumBlocksAssumption, MP!JobIdsAssumption, MP!IsFiniteSet, IsFiniteSet

\* Nothing is in flight at the start.
LEMMA InitInv == Init => Inv
<1> SUFFICES ASSUME Init PROVE Inv
  OBVIOUS
<1> USE DEF Init, WorkerInit, Nothing
<1>1. LoopsOK
  BY SizesAssumption DEF LoopsOK, Scheduling, Receiving
<1>2. MembersOK
  BY DEF MembersOK, Range
<1>3. DataOK
  <2>1. \A r \in Reqs : Complete(r) \in Nat
    BY PromptKeys
  <2>2. \A r \in Reqs : computed[r] = 0
    OBVIOUS
  <2>3. \A r \in Reqs : 0 <= Complete(r)
    BY <2>1
  <2> QED  BY <2>2, <2>3 DEF DataOK
<1>4. CurrentOK
  BY DEF CurrentOK, IsInjective
<1>5. WorkersOK
  BY DEF WorkersOK, IsInjective
<1>6. StorageOK
  BY DEF StorageOK
<1>7. TableOK
  BY DEF TableOK
<1>8. FencesOK
  BY DEF FencesOK
<1>9. StaleOK
  BY SizesAssumption DEF StaleOK
<1>10. PlacesOK
  <2> SUFFICES ASSUME NEW w \in Workers PROVE \E at : Placed(w, at)
    BY DEF PlacesOK
  <2>1. Placed(w, [j \in JobIds |-> Nowhere])
    BY DEF Placed, Expected, OnWorker, InBatches, InCurrent, InOutput, Range, Nowhere
  <2> QED  BY <2>1
<1>11. MP!Inv
  <2>1. MP!Init
    BY DEF MP!Init, JobLoads, JobStores
  <2> QED  BY <2>1, ManagerAssumptions, MP!InitInv
<1>12. TurnsOK
  BY DEF TurnsOK
<1> QED  BY <1>1, <1>2, <1>3, <1>4, <1>5, <1>6, <1>7, <1>8, <1>9, <1>10, <1>11, <1>12 DEF Inv

-----------------------------------------------------------------------------
(***************************************************************************)
(* The batches in flight.                                                  *)
(***************************************************************************)

\* The batch an emission appends is what the schedule() built.
LEMMA EmittedBatch ==
    ASSUME Inv, Emit
    PROVE  \E b \in Batch :
             /\ steps' = Append(steps, b)
             /\ b.work = {[req |-> r, from |-> sched[r].from, to |-> sched[r].to,
                           blocks |-> held[r]] : r \in DOMAIN sched}
             /\ b.loads = curLoads /\ b.stores = curStores /\ b.flush = curFlush
             /\ \A w \in Workers : b.reports[w] = {}
<1>1. steps' = Append(steps,
            [work |-> {[req |-> r, from |-> sched[r].from, to |-> sched[r].to,
                        blocks |-> held[r]] : r \in DOMAIN sched},
             loads |-> curLoads, stores |-> curStores, flush |-> curFlush,
             reports |-> [w \in Workers |-> {}]])
  BY Zenon DEF Emit
<1>2. PICK work : work = {[req |-> r, from |-> sched[r].from, to |-> sched[r].to,
                           blocks |-> held[r]] : r \in DOMAIN sched}
  OBVIOUS
<1>3. work \subseteq Work
  <2> SUFFICES ASSUME NEW r \in DOMAIN sched
               PROVE  [req |-> r, from |-> sched[r].from, to |-> sched[r].to,
                       blocks |-> held[r]] \in Work
    BY <1>2
  <2>1. r \in Reqs /\ sched[r].from \in 0..Complete(r) /\ sched[r].to \in 0..Complete(r)
        /\ held[r] \in Seq(Blocks)
    BY DEF Inv, DataOK
  <2>2. Complete(r) \in Nat
    BY <2>1, PromptKeys
  <2>3. sched[r].from \in Nat /\ sched[r].to \in Nat
    BY <2>1, <2>2
  <2> QED  BY <2>1, <2>3 DEF Work
<1>4. curLoads \in Seq(JobIds) /\ curStores \in Seq(JobIds) /\ curFlush \subseteq JobIds
  BY DEF Inv, CurrentOK
<1>5. PICK b : b = [work |-> work, loads |-> curLoads, stores |-> curStores, flush |-> curFlush,
                    reports |-> [w \in Workers |-> {}]]
  OBVIOUS
<1>6. b \in Batch
  BY <1>3, <1>4, <1>5 DEF Batch
<1>7. steps' = Append(steps, b)
  BY Zenon, <1>1, <1>2, <1>5
<1> QED  BY <1>2, <1>5, <1>6, <1>7

\* A worker that reports fills in its reports of the batch it is in.
LEMMA ReportedBatch ==
    ASSUME Inv, NEW w \in Workers, Report(w)
    PROVE  /\ steps' \in Seq(Batch) /\ Len(steps') = Len(steps) /\ DOMAIN steps' = DOMAIN steps
           /\ pos[w] + 1 \in DOMAIN steps
           /\ \A i \in DOMAIN steps :
                /\ steps'[i].work = steps[i].work /\ steps'[i].flush = steps[i].flush
                /\ steps'[i].loads = steps[i].loads /\ steps'[i].stores = steps[i].stores
                /\ \A v \in Workers :
                     steps'[i].reports[v] = IF i = pos[w] + 1 /\ v = w THEN done[w]
                                            ELSE steps[i].reports[v]
<1>1. /\ steps \in Seq(Batch) /\ pos[w] \in Nat /\ done[w] \in SUBSET JobIds
      /\ phase[w] # "idle" => pos[w] < Len(steps)
  BY DEF Inv, LoopsOK, WorkersOK
<1>2. phase[w] = "ran" /\ steps' = [steps EXCEPT ![pos[w] + 1].reports[w] = done[w]]
  BY Zenon DEF Report
<1>3. PICK p : p = pos[w] + 1
  OBVIOUS
<1>4. Len(steps) \in Nat /\ DOMAIN steps = 1..Len(steps) /\ p \in 1..Len(steps)
  BY <1>1, <1>2, <1>3
<1>5. PICK d : d = done[w]
  OBVIOUS
<1>6. PICK s \in Batch : s = steps[p]
  BY <1>1, <1>4
<1>7. PICK t : t = [s EXCEPT !.reports[w] = d]
  OBVIOUS
<1>8. steps' = [steps EXCEPT ![p] = t]
  BY ONLY <1>2, <1>3, <1>5, <1>6, <1>7
<1>9. /\ t \in Batch
      /\ t.work = s.work /\ t.flush = s.flush /\ t.loads = s.loads /\ t.stores = s.stores
      /\ \A v \in Workers : t.reports[v] = IF v = w THEN d ELSE s.reports[v]
  <2>1. PICK reports : reports = [s.reports EXCEPT ![w] = d]
    OBVIOUS
  <2>2. s.reports \in [Workers -> SUBSET JobIds] /\ d \in SUBSET JobIds
    BY <1>1, <1>5, <1>6 DEF Batch
  <2>3. /\ reports \in [Workers -> SUBSET JobIds]
        /\ \A v \in Workers : reports[v] = IF v = w THEN d ELSE s.reports[v]
    BY <2>1, <2>2
  <2>4. t = [work |-> s.work, loads |-> s.loads, stores |-> s.stores, flush |-> s.flush,
             reports |-> reports]
    BY <1>6, <1>7, <2>1 DEF Batch
  <2> QED  BY <1>6, <2>3, <2>4 DEF Batch
<1>10. steps' \in Seq(Batch) /\ Len(steps') = Len(steps) /\ DOMAIN steps' = DOMAIN steps
       /\ \A i \in DOMAIN steps : steps'[i] = IF i = p THEN t ELSE steps[i]
  BY <1>1, <1>4, <1>8, <1>9
<1> QED  BY <1>3, <1>4, <1>5, <1>6, <1>9, <1>10

\* Processing an output takes the oldest batch, which every worker is done with.
LEMMA TakenBatch ==
    ASSUME Inv, BeginOutput
    PROVE  /\ Len(steps) \in Nat /\ Len(steps) > 0 /\ DOMAIN steps = 1..Len(steps)
           /\ steps[1] \in Batch /\ out' = {steps[1]}
           /\ steps' \in Seq(Batch) /\ Len(steps') = Len(steps) - 1
           /\ DOMAIN steps' = 1..(Len(steps) - 1)
           /\ \A i \in 1..(Len(steps) - 1) : steps'[i] = steps[i + 1]
           /\ \A w \in Workers : pos[w] > 0 /\ pos'[w] = pos[w] - 1
<1>1. steps \in Seq(Batch) /\ pos \in [Workers -> Nat]
  BY DEF Inv, LoopsOK, WorkersOK
<1>2. /\ steps # <<>> /\ out' = {Head(steps)} /\ steps' = Tail(steps)
      /\ \A w \in Workers : pos[w] > 0
      /\ pos' = [w \in Workers |-> pos[w] - 1]
  BY Zenon DEF BeginOutput
<1>3. /\ Len(steps) \in Nat /\ Len(steps) > 0 /\ DOMAIN steps = 1..Len(steps)
      /\ steps[1] \in Batch /\ Head(steps) = steps[1]
      /\ Tail(steps) \in Seq(Batch) /\ Len(Tail(steps)) = Len(steps) - 1
      /\ DOMAIN Tail(steps) = 1..(Len(steps) - 1)
      /\ \A i \in 1..(Len(steps) - 1) : Tail(steps)[i] = steps[i + 1]
  BY <1>1, <1>2
<1> QED  BY <1>2, <1>3

\* The batches in flight stay few and well formed.
LEMMA BatchesStep ==
    ASSUME Inv, [Next]_vars
    PROVE  /\ steps' \in Seq(Batch) /\ Len(steps') <= MaxBatches
           /\ \/ steps' = steps \/ Len(steps') = Len(steps)
              \/ Emit \/ BeginOutput
           /\ out' \subseteq Batch
<1>1. /\ steps \in Seq(Batch) /\ Len(steps) \in Nat /\ Len(steps) <= MaxBatches /\ MaxBatches \in Nat
      /\ Scheduling => Len(steps) < MaxBatches
      /\ out \subseteq Batch
  BY SizesAssumption DEF Inv, LoopsOK
<1>2. CASE Emit
  <2>1. PICK b \in Batch : steps' = Append(steps, b)
    BY <1>2, EmittedBatch
  <2>2. Scheduling
    BY <1>2 DEF Emit, Scheduling
  <2>3. steps' \in Seq(Batch) /\ Len(steps') = Len(steps) + 1
    BY <1>1, <2>1
  <2>4. out' = out
    BY <1>2 DEF Emit
  <2> QED  BY <1>1, <1>2, <2>2, <2>3, <2>4
<1>3. CASE BeginOutput
  BY <1>1, <1>3, TakenBatch
<1>4. CASE WorkersStep
  <2>1. PICK w \in Workers : WorkerStep(w)
    BY <1>4 DEF WorkersStep
  <2>2. out' = out
    BY <1>4 DEF WorkersStep, loopVars
  <2>3. CASE Report(w)
    BY <1>1, <2>2, <2>3, ReportedBatch
  <2>4. steps' = steps \/ Report(w)
    BY <2>1 DEF WorkerStep, SubmitStores, SubmitLoads, RunModel, StoreTransfer, LoadTransfer
  <2> QED  BY <1>1, <2>2, <2>3, <2>4
<1>5. CASE steps' = steps /\ (out' = out \/ BeginOutput \/ EndOutput)
  <2>1. EndOutput => out' = {}
    BY DEF EndOutput
  <2> QED  BY <1>1, <1>3, <1>5, <2>1
<1> QED  BY <1>1, <1>2, <1>3, <1>4, <1>5, Changes

\* Where schedule() and update_from_output() are, and what they have left.
LEMMA LoopsStep ==
    ASSUME Inv, [Next]_vars
    PROVE  LoopsOK'
<1>0. LoopsOK /\ MembersOK /\ DataOK
  BY DEF Inv
<1>1. steps' \in Seq(Batch) /\ Len(steps') <= MaxBatches /\ out' \subseteq Batch
  BY BatchesStep
<1> USE DEF Scheduling, Receiving
<1>2. Len(steps) \in Nat /\ MaxBatches \in Nat
  BY SizesAssumption, <1>0 DEF LoopsOK
<1>3. CASE UNCHANGED <<pc, todo, cursor>>
  <2>1. pc' = pc /\ todo' = todo /\ cursor' = cursor
    BY <1>3
  <2>2. ~BeginOutput /\ ~Emit
    <3>1. BeginOutput => pc = "idle" /\ pc' = "output"
      BY DEF BeginOutput
    <3>2. Emit => pc = "stores" /\ pc' = "idle"
      BY DEF Emit
    <3> QED  BY <1>3, <3>1, <3>2
  <2>3. EndOutput => pc = "complete" /\ pc' = "idle"
    BY DEF EndOutput
  <2>4. out' = out
    BY <1>3, <2>2, <2>3, Changes
  <2>5. Len(steps') = Len(steps)
    BY <2>2, BatchesStep
  <2> QED  BY <1>0, <1>1, <1>3, <2>1, <2>4, <2>5 DEF LoopsOK
<1>4. ASSUME Scheduling \/ BeginSchedule, out' = out, Len(steps') = Len(steps),
             pc' \in {"running", "waiting", "build", "stores", "failed"},
             cursor' \in Nat \ {0}, todo' \subseteq Reqs
      PROVE  LoopsOK'
  <2>1. Len(steps) < MaxBatches /\ out = {}
    <3>1. BeginSchedule => pc = "idle" /\ Len(steps) < MaxBatches
      BY DEF BeginSchedule, EngineFree
    <3> QED  BY <1>0, <1>4, <3>1 DEF LoopsOK
  <2> QED  BY <1>1, <1>4, <2>1 DEF LoopsOK
<1>5. ASSUME BeginSchedule \/ Scheduling, ~Emit
      PROVE  out' = out /\ Len(steps') = Len(steps)
  <2>1. ~BeginOutput /\ ~EndOutput
    <3>1. BeginOutput => pc = "idle" /\ pc' = "output"
      BY DEF BeginOutput
    <3>2. EndOutput => pc = "complete"
      BY DEF EndOutput
    <3>3. BeginSchedule => pc = "idle" /\ pc' = "running"
      BY DEF BeginSchedule, EngineFree
    <3> QED  BY <1>5, <3>1, <3>2, <3>3
  <2>2. out' = out
    BY <2>1, Changes
  <2>3. Len(steps') = Len(steps)
    BY <1>5, <2>1, BatchesStep
  <2> QED  BY <2>2, <2>3
<1>6. ASSUME BeginSchedule
      PROVE  LoopsOK'
  <2>1. pc = "idle" /\ pc' = "running" /\ cursor' = 1 /\ todo' = todo
    BY <1>6 DEF BeginSchedule, EngineFree
  <2>2. ~Emit
    BY <2>1 DEF Emit
  <2> QED  BY <1>0, <1>4, <1>5, <1>6, <2>1, <2>2 DEF LoopsOK
<1>7. ASSUME ScheduleRunning \/ PreemptForBlocks \/ TryWaiting \/ EndSchedule
              \/ BuildMeta \/ AssertionFails
      PROVE  LoopsOK'
  <2>1. Scheduling /\ cursor \in Nat \ {0} /\ todo \subseteq Reqs
    BY <1>0, <1>7 DEF LoopsOK, ScheduleRunning, PreemptForBlocks, TryWaiting, EndSchedule,
         BuildMeta, AssertionFails
  <2>2. cursor' \in {cursor, cursor + 1}
    BY <1>7 DEF ScheduleRunning, PreemptForBlocks, TryWaiting, EndSchedule, BuildMeta,
         AssertionFails
  <2>3. pc' \in {pc, "running", "waiting", "build", "stores", "failed"} /\ pc' # "idle"
    BY <1>7 DEF ScheduleRunning, PreemptForBlocks, TryWaiting, EndSchedule, BuildMeta,
         AssertionFails
  <2>4. todo' = todo \/ todo' \subseteq known \/ todo' = DOMAIN sched \cup finishedIds
    BY <1>7 DEF ScheduleRunning, PreemptForBlocks, TryWaiting, EndSchedule, BuildMeta,
         AssertionFails
  <2>5. todo' \subseteq Reqs
    BY <1>0, <2>1, <2>4 DEF MembersOK, DataOK
  <2>6. ~Emit
    BY <2>3 DEF Emit
  <2> QED  BY <1>4, <1>5, <2>1, <2>2, <2>3, <2>5, <2>6
<1>8. ASSUME NEW r \in Reqs,
             \/ SkipBlocked(r) \/ DeferLookup(r) \/ AdmitLoad(r) \/ AdmitRunning(r)
             \/ AdmitFails(r) \/ NothingToStore(r) \/ StoreRefused(r) \/ Store(r)
      PROVE  LoopsOK'
  <2>1. Scheduling /\ cursor \in Nat \ {0} /\ todo \subseteq Reqs
    BY <1>0, <1>8 DEF LoopsOK, SkipBlocked, DeferLookup, AdmitLoad, AdmitRunning, AdmitFails,
         CanTry, NothingToStore, StoreRefused, Store, StoreTurn
  <2>2. cursor' = cursor /\ pc' \in {pc, "build"} /\ todo' \in {todo, todo \ {r}}
    BY <1>8 DEF SkipBlocked, DeferLookup, AdmitLoad, AdmitRunning, AdmitFails,
         NothingToStore, StoreRefused, Store, StoreTurn, KeepForStores
  <2>3. ~Emit
    BY <2>1, <2>2 DEF Emit
  <2> QED  BY <1>4, <1>5, <2>1, <2>2, <2>3
<1>9. ASSUME Emit
      PROVE  LoopsOK'
  <2>1. pc = "stores" /\ pc' = "idle" /\ cursor' = 1 /\ todo' = {} /\ out' = out
    BY <1>9 DEF Emit
  <2> QED  BY <1>0, <1>1, <2>1 DEF LoopsOK
<1>10. ASSUME BeginOutput
       PROVE  LoopsOK'
  <2>1. pc' = "output" /\ cursor' = cursor /\ todo' = {p.req : p \in Head(steps).work}
    BY <1>10 DEF BeginOutput
  <2>2. Head(steps) = steps[1] /\ steps[1] \in Batch
    BY <1>10, <1>0, TakenBatch DEF LoopsOK
  <2>3. \A p \in Head(steps).work : p.req \in Reqs
    BY <2>2 DEF Batch, Work
  <2> QED  BY <1>0, <1>1, <2>1, <2>3 DEF LoopsOK
<1>11. ASSUME NEW r \in Reqs, NEW stop \in BOOLEAN, ProcessRequest(r, stop)
       PROVE  LoopsOK'
  <2>1. pc = "output" /\ UNCHANGED <<pc, cursor, out, steps>> /\ todo' = todo \ {r}
    BY <1>11 DEF ProcessRequest
  <2> QED  BY <1>0, <1>1, <2>1 DEF LoopsOK
<1>12. ASSUME BeginTransfers
       PROVE  LoopsOK'
  <2>1. pc' = "complete" /\ UNCHANGED <<cursor, out, steps>>
        /\ todo' = UNION {s.reports[w] : s \in out, w \in Workers}
    BY <1>12 DEF BeginTransfers
  <2> QED  BY <1>0, <1>1, <2>1 DEF LoopsOK
<1>13. ASSUME NEW j \in JobIds, CompleteJob(j)
       PROVE  LoopsOK'
  <2>1. pc = "complete" /\ UNCHANGED <<pc, cursor, out, steps>> /\ todo' = todo \ {j}
    BY <1>13 DEF CompleteJob
  <2> QED  BY <1>0, <1>1, <2>1 DEF LoopsOK
<1>14. ASSUME EndOutput
       PROVE  LoopsOK'
  <2>1. pc' = "idle" /\ out' = {} /\ todo' = {} /\ UNCHANGED <<cursor, steps>>
    BY <1>14 DEF EndOutput
  <2> QED  BY <1>0, <1>1, <2>1 DEF LoopsOK
<1> QED  BY <1>3, <1>6, <1>7, <1>8, <1>9, <1>10, <1>11, <1>12, <1>13, <1>14, Changes

-----------------------------------------------------------------------------
(***************************************************************************)
(* The requests.                                                           *)
(***************************************************************************)

\* A reset may preempt what runs, may clear the GPU cache, and reaches the
\* connector or not.
LEMMA ResetShape ==
    ASSUME Reset
    PROVE  /\ pc = "idle" /\ Len(steps) < MaxBatches
           /\ Preempt(Range(running), TRUE) \/ UNCHANGED <<reqVars, asyncVars, preemptedIds>>
           /\ hashed' = hashed \/ hashed' = [b \in Blocks |-> NoKey]
           /\ ConnectorReset \/ KeepConnector
<1>1. \E resetRunning, resetConnector \in BOOLEAN : ResetPrefixCache(resetRunning, resetConnector)
  BY DEF Reset
<1>2. PICK resetRunning, resetConnector \in BOOLEAN :
        ResetPrefixCache(resetRunning, resetConnector)
  BY <1>1
<1>3. PICK free : /\ GPUCacheReset(free)
                  /\ ConnectorReset \/ KeepConnector
  BY <1>2, Zenon DEF ResetPrefixCache
<1>4. EngineFree
      /\ (Preempt(Range(running), TRUE) \/ UNCHANGED <<reqVars, asyncVars, preemptedIds>>)
  BY <1>2, Zenon DEF ResetPrefixCache
<1> QED  BY <1>3, <1>4 DEF EngineFree, GPUCacheReset

\* Preempted requests wait again and run no more.
LEMMA PreemptedRequests ==
    ASSUME Inv, NEW S \in SUBSET Range(running), NEW drop, Preempt(S, drop)
    PROVE  /\ S \subseteq Reqs
           /\ status' = [r \in Reqs |-> IF r \in S THEN "waiting" ELSE status[r]]
           /\ running' \in Seq(Reqs) /\ Range(running') = Range(running) \ S
           /\ known' = known
<1>1. running \in Seq(Reqs)
  BY DEF Inv, MembersOK
<1>2. Range(running) \subseteq Reqs
  BY <1>1, ListPositions
<1>3. /\ status' = [r \in Reqs |-> IF r \in S THEN "waiting" ELSE status[r]]
      /\ running' = Without(running, S) /\ known' = known
  BY Zenon DEF Preempt
<1>4. Without(running, S) \in Seq(Reqs) /\ Range(Without(running, S)) = Range(running) \ S
  BY ONLY <1>1, WithoutKeys
<1> QED  BY <1>2, <1>3, <1>4

\* A finished request runs no more.
LEMMA FinishedRequests ==
    ASSUME Inv, NEW r \in Reqs, NEW final, NEW delayFree, Finish(r, final, delayFree)
    PROVE  /\ status' = [status EXCEPT ![r] = final]
           /\ running' \in Seq(Reqs) /\ Range(running') = Range(running) \ {r}
           /\ finishedIds' = finishedIds \cup {r}
           /\ known' = known \/ known' = known \ {r}
<1>1. running \in Seq(Reqs)
  BY DEF Inv, MembersOK
<1>2. /\ status' = [status EXCEPT ![r] = final] /\ finishedIds' = finishedIds \cup {r}
      /\ running' = Without(running, {r})
      /\ known' = known \/ known' = known \ {r}
  BY Zenon DEF Finish
<1>3. PICK S : S = {r}
  OBVIOUS
<1>4. Without(running, S) \in Seq(Reqs) /\ Range(Without(running, S)) = Range(running) \ S
  BY ONLY <1>1, WithoutKeys
<1> QED  BY <1>2, <1>3, <1>4

\* What a preemption for blocks takes is the last running request.
LEMMA PreemptedForBlocks ==
    ASSUME Inv, PreemptForBlocks
    PROVE  /\ \E v \in Range(running) : Preempt({v}, FALSE)
           /\ pc = "running" /\ pc' \in {"build", "running"}
<1>1. /\ pc = "running" /\ pc' \in {"build", "running"} /\ cursor <= Len(running)
      /\ Preempt({Last(running)}, FALSE)
  BY DEF PreemptForBlocks
<1>2. running \in Seq(Reqs) /\ cursor \in Nat \ {0}
  BY DEF Inv, MembersOK, LoopsOK
<1>3. Len(running) \in 1..Len(running) /\ Last(running) = running[Len(running)]
  BY <1>1, <1>2 DEF Last
<1>4. Last(running) \in Range(running)
  BY <1>2, <1>3, ListPositions
<1> QED  BY <1>1, <1>4

\* The loop over the waiting requests only drops some.
LEMMA WaitingLoop ==
    ASSUME Inv, [Next]_vars, pc' = "waiting"
    PROVE  \/ TryWaiting
           \/ /\ pc = "waiting" /\ todo' \subseteq todo
              /\ \A r \in Reqs : AdmitLoad(r) \/ AdmitRunning(r) => r \notin todo'
<1>1. CASE UNCHANGED <<pc, todo, cursor>>
  <2>1. \A r \in Reqs : AdmitLoad(r) \/ AdmitRunning(r) => r \in todo /\ todo' = todo \ {r}
    BY DEF AdmitLoad, AdmitRunning, CanTry
  <2> QED  BY <1>1, <2>1
<1>2. ASSUME NEW r \in Reqs,
             SkipBlocked(r) \/ DeferLookup(r) \/ AdmitLoad(r) \/ AdmitRunning(r)
      PROVE  pc = "waiting" /\ todo' = todo \ {r} /\ r \in todo
  BY <1>2 DEF SkipBlocked, DeferLookup, AdmitLoad, AdmitRunning, CanTry
<1>3. ASSUME NEW r \in Reqs,
             AdmitFails(r) \/ NothingToStore(r) \/ StoreRefused(r) \/ Store(r)
      PROVE  FALSE
  BY <1>3 DEF AdmitFails, NothingToStore, StoreRefused, Store, StoreTurn, KeepForStores
<1>4. ~BeginSchedule /\ ~ScheduleRunning /\ ~PreemptForBlocks /\ ~EndSchedule /\ ~BuildMeta
      /\ ~AssertionFails /\ ~Emit
  BY DEF BeginSchedule, ScheduleRunning, PreemptForBlocks, EndSchedule, BuildMeta,
       AssertionFails, Emit
<1>5. ~BeginOutput /\ ~BeginTransfers /\ ~EndOutput
  BY DEF BeginOutput, BeginTransfers, EndOutput
<1>6. \A r \in Reqs, stop \in BOOLEAN : ~ProcessRequest(r, stop)
  BY DEF ProcessRequest
<1>7. \A j \in JobIds : ~CompleteJob(j)
  BY DEF CompleteJob
<1>8. ASSUME NEW r \in Reqs, AdmitLoad(r) \/ AdmitRunning(r)
      PROVE  r \notin todo'
  BY <1>2, <1>8
<1> QED  BY <1>1, <1>2, <1>3, <1>4, <1>5, <1>6, <1>7, <1>8, Changes

\* Who runs is known and running, who waits is known and waiting, and the
\* connector tracks every request that is known and not finished.
LEMMA MembersStep ==
    ASSUME Inv, [Next]_vars
    PROVE  MembersOK'
<1>0. MembersOK /\ LoopsOK
  BY DEF Inv
<1> DEFINE Statuses == {"absent", "waiting", "remote", "running", "stopped", "aborted"}
           Left == {"waiting", "remote"}
<1>1. /\ status \in [Reqs -> Statuses] /\ running \in Seq(Reqs)
      /\ known \subseteq Reqs /\ tracked \subseteq Reqs /\ finSignaled \subseteq Reqs
      /\ finishedIds \subseteq Reqs
      /\ \A r \in Range(running) : r \in known /\ status[r] = "running"
      /\ \A r \in known : Finished(r) \/ (r \in tracked /\ r \notin finishedIds \cup finSignaled)
  BY <1>0 DEF MembersOK
<1>2. pc = "waiting" => \A r \in todo : r \in known /\ status[r] \in Left
  BY <1>0 DEF MembersOK
<1>3. TryWaiting => \A r \in todo' : r \in known /\ status[r] \in Left
  BY DEF TryWaiting
<1>4. CASE UNCHANGED <<status, known, running, tracked, finSignaled, finishedIds>>
  <2>1. pc' = "waiting" => \A r \in todo' : r \in known /\ status[r] \in Left
    BY <1>2, <1>3, WaitingLoop
  <2> QED  BY <1>0, <1>4, <2>1 DEF MembersOK, Finished
<1>5. ASSUME pc' # "waiting", status' \in [Reqs -> Statuses], running' \in Seq(Reqs),
             known' \subseteq known, tracked' \subseteq tracked,
             finSignaled' \subseteq Reqs, finishedIds' \subseteq Reqs,
             \A r \in Range(running') : r \in Range(running) /\ status'[r] = status[r] /\ r \in known',
             \A r \in known' : \/ Finished(r)'
                               \/ /\ ~Finished(r)
                                  /\ r \in tracked'
                                  /\ r \notin finishedIds' \cup finSignaled'
      PROVE  MembersOK'
  BY <1>1, <1>5 DEF MembersOK
<1>6. ASSUME NEW r \in Reqs, Arrive(r)
      PROVE  MembersOK'
  <2>1. /\ pc = "idle" /\ pc' = pc /\ r \notin known \cup tracked \cup finishedIds
        /\ status' = [status EXCEPT ![r] = "waiting"]
        /\ known' = known \cup {r} /\ tracked' = tracked \cup {r}
        /\ finSignaled' = finSignaled \ {r}
        /\ UNCHANGED <<running, finishedIds>>
    BY Zenon, <1>6 DEF Arrive, EngineFree, Forgotten, loopVars, batchIds
  <2>2. r \notin Range(running)
    BY <1>1, <2>1
  <2>3. pc' # "waiting"
    BY <2>1
  <2>4. \A q \in known' : Finished(q)' \/ (q \in tracked' /\ q \notin finishedIds' \cup finSignaled')
    BY <1>1, <2>1 DEF Finished
  <2>5. \A q \in Range(running') : q \in known' /\ status'[q] = "running"
    BY <1>1, <2>1, <2>2
  <2>6. status' \in [Reqs -> Statuses]
    BY <1>1, <2>1
  <2> QED  BY <1>1, <2>1, <2>3, <2>4, <2>5, <2>6 DEF MembersOK
<1>7. ASSUME NEW r \in Reqs, NEW final \in {"stopped", "aborted"}, NEW delayFree,
             Finish(r, final, delayFree), UNCHANGED <<tracked, finSignaled>>, pc' # "waiting"
      PROVE  MembersOK'
  <2>1. /\ status' = [status EXCEPT ![r] = final]
        /\ running' \in Seq(Reqs) /\ Range(running') = Range(running) \ {r}
        /\ finishedIds' = finishedIds \cup {r}
        /\ known' = known \/ known' = known \ {r}
    BY <1>7, FinishedRequests
  <2>2. \A q \in known' : \/ Finished(q)'
                          \/ /\ ~Finished(q)
                             /\ q \in tracked'
                             /\ q \notin finishedIds' \cup finSignaled'
    BY <1>1, <1>7, <2>1 DEF Finished
  <2>3. \A q \in Range(running') : q \in Range(running) /\ status'[q] = status[q] /\ q \in known'
    BY <1>1, <2>1
  <2>4. status' \in [Reqs -> Statuses] /\ finishedIds' \subseteq Reqs
    BY <1>1, <1>7, <2>1
  <2> QED  BY <1>1, <1>5, <1>7, <2>1, <2>2, <2>3, <2>4
<1>8. ASSUME NEW r \in Reqs, Abort(r)
      PROVE  MembersOK'
  <2>1. pc = "idle" /\ pc' = pc /\ Finish(r, "aborted", MustDelayFree(r))
        /\ UNCHANGED <<tracked, finSignaled>>
    BY Zenon, <1>8 DEF Abort, EngineFree, loopVars, connReqVars
  <2>2. pc' # "waiting"
    BY <2>1
  <2> QED  BY <1>7, <2>1, <2>2
<1>9. ASSUME NEW r \in Reqs, NEW stop \in BOOLEAN, ProcessRequest(r, stop)
      PROVE  MembersOK'
  <2>1. /\ pc = "output" /\ pc' = pc /\ UNCHANGED <<tracked, finSignaled>>
        /\ \/ Finish(r, "stopped", FALSE)
           \/ UNCHANGED <<status, known, running, finishedIds>>
    BY Zenon, <1>9 DEF ProcessRequest, connReqVars, reqVars
  <2>2. pc' # "waiting"
    BY <2>1
  <2> QED  BY <1>4, <1>7, <2>1, <2>2
<1>10. ASSUME NEW r \in Reqs, Promote(r)
       PROVE  MembersOK'
  <2>1. /\ pc = "waiting" /\ r \in todo /\ status[r] = "remote"
        /\ status' = [status EXCEPT ![r] = "waiting"]
        /\ UNCHANGED <<pc, todo, known, running, tracked, finSignaled, finishedIds>>
    BY Zenon, <1>10 DEF Promote, loopVars, batchIds, connReqVars
  <2>2. r \notin Range(running)
    BY <1>1, <2>1
  <2>3. /\ \A q \in Range(running') : q \in known' /\ status'[q] = "running"
        /\ \A q \in todo' : q \in known' /\ status'[q] \in Left
        /\ status' \in [Reqs -> Statuses]
        /\ \A q \in known : Finished(q)' <=> Finished(q)
    BY <1>1, <1>2, <2>1, <2>2 DEF Finished
  <2> QED  BY <1>1, <2>1, <2>3 DEF MembersOK
<1>11. ASSUME NEW r \in Reqs, AdmitLoad(r) \/ AdmitRunning(r)
       PROVE  MembersOK'
  <2>1. /\ pc = "waiting" /\ pc' = pc /\ r \in todo /\ todo' = todo \ {r}
        /\ UNCHANGED <<known, tracked, finSignaled, finishedIds>>
    BY Zenon, <1>11 DEF AdmitLoad, AdmitRunning, CanTry, batchIds
  <2>2. r \in known /\ status[r] \in Left
    BY <1>2, <2>1
  <2>3. \/ status' = [status EXCEPT ![r] = "remote"] /\ running' = running
        \/ status' = [status EXCEPT ![r] = "running"] /\ running' = Append(running, r)
    BY Zenon, <1>11 DEF AdmitLoad, AdmitRunning
  <2>4. \/ running' = running
        \/ running' \in Seq(Reqs) /\ Range(running') = Range(running) \cup {r}
    <3>1. running \in Seq(Reqs)
      BY <1>1
    <3>2. PICK u : u = Append(running, r)
      OBVIOUS
    <3>3. /\ u \in Seq(Reqs) /\ Len(u) = Len(running) + 1 /\ Len(running) \in Nat
          /\ \A i \in 1..Len(running) : u[i] = running[i]
          /\ u[Len(running) + 1] = r
      BY <3>1, <3>2
    <3>4. \A x : x \in Range(u) <=> x \in Range(running) \/ x = r
      <4>1. DOMAIN u = 1..(Len(running) + 1) /\ DOMAIN running = 1..Len(running)
        BY <3>1, <3>3
      <4>2. \A i : i \in 1..(Len(running) + 1) <=> i \in 1..Len(running) \/ i = Len(running) + 1
        BY <3>3
      <4> QED  BY <3>3, <4>1, <4>2 DEF Range
    <3> QED  BY <2>3, <3>2, <3>3, <3>4
  <2>5. r \notin Range(running)
    BY <1>1, <2>2
  <2>6. /\ \A q \in Range(running') : q \in known' /\ status'[q] = "running"
        /\ \A q \in todo' : q \in known' /\ status'[q] \in Left
        /\ status' \in [Reqs -> Statuses]
        /\ \A q \in known : Finished(q)' <=> Finished(q)
    <3>1. CASE status' = [status EXCEPT ![r] = "remote"] /\ running' = running
      BY <1>1, <1>2, <2>1, <2>2, <2>5, <3>1 DEF Finished
    <3>2. CASE status' = [status EXCEPT ![r] = "running"] /\ running' = Append(running, r)
      <4>1. Range(running') \subseteq Range(running) \cup {r}
        BY <2>4
      <4> QED  BY <1>1, <1>2, <2>1, <2>2, <3>2, <4>1 DEF Finished
    <3> QED  BY <2>3, <3>1, <3>2
  <2>7. running' \in Seq(Reqs)
    BY <1>1, <2>4
  <2> QED  BY <1>1, <2>1, <2>6, <2>7 DEF MembersOK
<1>12. ASSUME NEW S \in SUBSET Range(running), NEW drop, Preempt(S, drop), pc' # "waiting",
              UNCHANGED <<finSignaled, finishedIds>>,
              tracked' \subseteq tracked, \A r \in tracked : Finished(r) \/ r \in tracked'
       PROVE  MembersOK'
  <2>1. /\ status' = [r \in Reqs |-> IF r \in S THEN "waiting" ELSE status[r]]
        /\ running' \in Seq(Reqs) /\ Range(running') = Range(running) \ S
        /\ known' = known
    BY <1>12, PreemptedRequests
  <2>2. \A q \in known' : \/ Finished(q)'
                          \/ /\ ~Finished(q)
                             /\ q \in tracked'
                             /\ q \notin finishedIds' \cup finSignaled'
    BY <1>1, <1>12, <2>1 DEF Finished
  <2>3. \A q \in Range(running') : q \in Range(running) /\ status'[q] = status[q] /\ q \in known'
    BY <1>1, <2>1
  <2>4. status' \in [Reqs -> Statuses]
    BY <1>1, <2>1
  <2> QED  BY <1>1, <1>5, <1>12, <2>1, <2>2, <2>3, <2>4
<1>13. ASSUME Reset
       PROVE  MembersOK'
  <2>1. pc' # "waiting" /\ UNCHANGED <<finSignaled, finishedIds, known>>
    <3>1. pc' = pc /\ UNCHANGED <<finSignaled, finishedIds, known>>
      BY Zenon, <1>13 DEF Reset, ResetPrefixCache, ConnectorReset, KeepConnector, Preempt,
           loopVars, connReqVars, reqVars
    <3> QED  BY <1>13, <3>1, ResetShape
  <2>2. tracked' \subseteq tracked /\ \A r \in tracked : Finished(r) \/ r \in tracked'
    <3>1. tracked' = tracked \/ tracked' = TrackedAfterReset
      BY Zenon, <1>13, ResetShape DEF ConnectorReset, KeepConnector, connReqVars
    <3> QED  BY <3>1 DEF TrackedAfterReset
  <2>3. CASE Preempt(Range(running), TRUE)
    BY <1>12, <2>1, <2>2, <2>3
  <2>4. CASE UNCHANGED reqVars
    <3>1. UNCHANGED <<status, running>>
      BY <2>4 DEF reqVars
    <3>2. \A q : Finished(q)' <=> Finished(q)
      BY <3>1 DEF Finished
    <3> QED  BY <1>1, <1>5, <2>1, <2>2, <3>1, <3>2
  <2> QED  BY <1>13, <2>3, <2>4, ResetShape
<1>14. ASSUME PreemptForBlocks
       PROVE  MembersOK'
  <2>1. UNCHANGED <<finSignaled, finishedIds, tracked>>
    BY Zenon, <1>14 DEF PreemptForBlocks, connReqVars
  <2>2. PICK v \in Range(running) : Preempt({v}, FALSE)
    BY <1>14, PreemptedForBlocks
  <2>3. pc' # "waiting" /\ {v} \in SUBSET Range(running)
    BY <1>14, PreemptedForBlocks
  <2> QED  BY <1>12, <2>1, <2>2, <2>3
<1>15. ASSUME Emit
       PROVE  MembersOK'
  <2>1. /\ pc' = "idle" /\ UNCHANGED <<status, known, running>> /\ finishedIds' = {}
        /\ finSignaled' = finSignaled \cup (finishedIds \cap tracked)
        /\ tracked' = tracked \ {r \in finishedIds \cap tracked : TransferJobs(r) = {}}
    BY Zenon, <1>15 DEF Emit
  <2>2. \A q : Finished(q)' <=> Finished(q)
    BY <2>1 DEF Finished
  <2> QED  BY <1>1, <1>5, <2>1, <2>2
<1>16. ASSUME EndOutput
       PROVE  MembersOK'
  <2>1. /\ pc' = "idle" /\ UNCHANGED <<status, running, finishedIds, tracked, finSignaled>>
        /\ known' = known \ {r \in received \cap known : Finished(r)}
    BY Zenon, <1>16 DEF EndOutput, batchIds, connReqVars
  <2>2. \A q : Finished(q)' <=> Finished(q)
    BY <2>1 DEF Finished
  <2>3. \A q \in Range(running) : ~Finished(q)
    BY <1>1 DEF Finished
  <2> QED  BY <1>1, <1>5, <2>1, <2>2, <2>3
<1>17. ASSUME NEW j \in JobIds, CompleteJob(j)
       PROVE  MembersOK'
  <2>1. /\ pc' = pc /\ pc = "complete"
        /\ UNCHANGED <<status, known, running, finishedIds, finSignaled>>
        /\ tracked' = tracked \/ (tracked' = tracked \ {jobs[j].req} /\ jobs[j].req \in finSignaled)
    BY Zenon, <1>17 DEF CompleteJob, reqVars, batchIds
  <2>2. \A q : Finished(q)' <=> Finished(q)
    BY <2>1 DEF Finished
  <2> QED  BY <1>1, <1>5, <2>1, <2>2
<1> QED  BY <1>4, <1>6, <1>8, <1>9, <1>10, <1>11, <1>13, <1>14, <1>15, <1>16, <1>17, Changes

-----------------------------------------------------------------------------
(***************************************************************************)
(* What schedule() gives a request.                                        *)
(***************************************************************************)

\* A request is given progress beyond what it has, within its prompt.
LEMMA TargetRange ==
    ASSUME NEW r \in Reqs, NEW from \in 0..Complete(r), NEW t \in Targets(r, from)
    PROVE  t \in 0..Complete(r) /\ from <= t /\ t \in Nat /\ from \in Nat
<1>1. Complete(r) \in Nat
  BY PromptKeys
<1> QED  BY <1>1 DEF Targets

\* The GPU cache maps blocks to keys of prompts, or to none.
LEMMA UnhashType ==
    ASSUME NEW h \in [Blocks -> Keys \cup {NoKey}], NEW S
    PROVE  Unhash(h, S) \in [Blocks -> Keys \cup {NoKey}]
  BY DEF Unhash

\* Caching a request's full blocks leaves each block under a key of its prompt, or
\* as it was.
LEMMA CacheBlocksType ==
    ASSUME NEW h \in [Blocks -> Keys \cup {NoKey}], NEW r \in Reqs, NEW bs, NEW t \in Nat
    PROVE  CacheBlocks(h, r, bs, t) \in [Blocks -> Keys \cup {NoKey}]
  <2>1. NumChunks(r) \in Nat /\ \A i \in 1..NumChunks(r) : Prompt[r][i] \in Keys
    BY PromptKeys
  <2>2. PICK full : full = 1..MinOf(t, NumChunks(r))
    OBVIOUS
  <2>3. \A i \in full : Prompt[r][i] \in Keys
    BY <2>1, <2>2 DEF MinOf
  <2>4. CacheBlocks(h, r, bs, t) =
          [b \in Blocks |-> IF \E i \in full : bs[i] = b
                            THEN Prompt[r][CHOOSE i \in full : bs[i] = b] ELSE h[b]]
    BY <2>2 DEF CacheBlocks
  <2>5. ASSUME NEW b \in Blocks, \E i \in full : bs[i] = b
        PROVE  Prompt[r][CHOOSE i \in full : bs[i] = b] \in Keys
    BY <2>3, <2>5
  <2> QED  BY <2>4, <2>5

\* The matched tokens: the request has no transfer in flight, and every key of
\* the run can be loaded and is not being loaded already.
LEMMA MatchedRun ==
    ASSUME NEW r \in Reqs, Matched(r) # -1
    PROVE  /\ TransferJobs(r) = {}
           /\ LocalHit(r) \in Nat /\ Matched(r) \in Nat /\ LocalHit(r) + Matched(r) <= NumChunks(r)
           /\ \A i \in (LocalHit(r) + 1)..(LocalHit(r) + Matched(r)) :
                /\ i \in 1..NumChunks(r)
                /\ Mgr!Lookup(Prompt[r][i]) = "HIT"
                /\ Prompt[r][i] \notin beingLoaded
<1>1. NumChunks(r) \in Nat /\ LocalHit(r) \in 0..NumChunks(r)
  BY PromptKeys, HitIsPrefix
<1>2. PICK n \in Nat : n = LocalHit(r)
  BY <1>1
<1>3. PICK h : h = RemoteRun(r, n)
  OBVIOUS
<1>4. /\ h \in 0..(NumChunks(r) - n)
      /\ \A i \in 1..h : Mgr!Lookup(Prompt[r][n + i]) # "MISS"
  BY <1>1, <1>2, <1>3, RunIsPrefix
<1>5. TransferJobs(r) = {} /\ Matched(r) = Lookup(r, n)
  BY <1>2 DEF Matched
<1>6. /\ Lookup(r, n) = h
      /\ \A k \in {Prompt[r][n + i] : i \in 1..h} :
           Mgr!Lookup(k) # "HIT_PENDING" /\ k \notin beingLoaded
  BY <1>3, <1>5 DEF Lookup
<1>7. \A k : Mgr!Lookup(k) \in {"MISS", "HIT", "HIT_PENDING"}
  BY DEF Mgr!Lookup
<1>8. ASSUME NEW i \in (n + 1)..(n + h)
      PROVE  /\ i \in 1..NumChunks(r) /\ Mgr!Lookup(Prompt[r][i]) = "HIT"
             /\ Prompt[r][i] \notin beingLoaded
  <2>1. i - n \in 1..h /\ n + (i - n) = i /\ i \in 1..NumChunks(r)
    BY <1>1, <1>2, <1>4
  <2> QED  BY <1>4, <1>6, <1>7, <2>1
<1> QED  BY <1>1, <1>2, <1>4, <1>5, <1>6, <1>8

\* A running request gets blocks for more progress.
LEMMA ScheduledRequest ==
    ASSUME Inv, ScheduleRunning
    PROVE  \E r \in Reqs, t \in Nat : \E new \in Seq(Blocks) :
             /\ r \in Range(running) /\ t \in 0..Complete(r) /\ computed[r] <= t
             /\ held[r] \in Seq(Blocks) /\ new \in Allocations(held[r], t)
             /\ Allocate(r, held[r], t, new)
             /\ sched' = With(sched, r, [from |-> computed[r], to |-> t, new |-> new])
<1>1. PICK r : /\ r = running[cursor] /\ cursor <= Len(running)
               /\ \E t \in Targets(r, computed[r]) : \E new \in Allocations(held[r], t) :
                    /\ Allocate(r, held[r], t, new)
                    /\ sched' = With(sched, r, [from |-> computed[r], to |-> t, new |-> new])
  BY Zenon DEF ScheduleRunning
<1>2. running \in Seq(Reqs) /\ cursor \in Nat \ {0}
  BY DEF Inv, MembersOK, LoopsOK
<1>3. r \in Reqs /\ r \in Range(running)
  <2>1. cursor \in 1..Len(running)
    BY <1>1, <1>2
  <2> QED  BY <1>1, <1>2, <2>1, ListPositions
<1>4. held[r] \in Seq(Blocks) /\ computed[r] \in 0..Complete(r)
  <2>1. Complete(r) \in Nat
    BY <1>3, PromptKeys
  <2> QED  BY <1>3, <2>1 DEF Inv, DataOK
<1>5. PICK t \in Targets(r, computed[r]) : \E new \in Allocations(held[r], t) :
        /\ Allocate(r, held[r], t, new)
        /\ sched' = With(sched, r, [from |-> computed[r], to |-> t, new |-> new])
  BY <1>1
<1>6. t \in Nat /\ t \in 0..Complete(r) /\ computed[r] <= t
  BY <1>3, <1>4, <1>5, TargetRange
<1>7. PICK new \in Allocations(held[r], t) :
        /\ Allocate(r, held[r], t, new)
        /\ sched' = With(sched, r, [from |-> computed[r], to |-> t, new |-> new])
  BY <1>5
<1>8. new \in Seq(Blocks)
  BY <1>4, <1>6, <1>7, AllocatedBlocks
<1> QED  BY <1>3, <1>4, <1>6, <1>7, <1>8

\* A waiting request gets blocks for more progress, on top of its local hit if
\* nothing of it is computed.
RunAdmitted(r, bs, from, t, new) ==
    /\ from <= t /\ from \in 0..Complete(r) /\ t \in 0..Complete(r)
    /\ IF computed[r] = 0 THEN bs = HitBlocks(r) /\ from = LocalHit(r) /\ Matched(r) = 0
       ELSE bs = held[r] /\ from = computed[r]
    /\ new \in Allocations(bs, t)
    /\ Allocate(r, bs, t, new)
    /\ sched' = With(sched, r, [from |-> from, to |-> t, new |-> bs \o new])
    /\ computed' = [computed EXCEPT ![r] = from]

\* What admitting a request for computation does, with the blocks it starts from
\* and the range it is scheduled for.
LEMMA AdmittedRequest ==
    ASSUME Inv, NEW r \in Reqs, AdmitRunning(r)
    PROVE  \E bs, new \in Seq(Blocks), from, t \in Nat : RunAdmitted(r, bs, from, t, new)
<1>1. PICK bs, from : /\ bs = (IF computed[r] = 0 THEN HitBlocks(r) ELSE held[r])
                      /\ from = (IF computed[r] = 0 THEN LocalHit(r) ELSE computed[r])
  OBVIOUS
<1>2. /\ computed[r] = 0 => Matched(r) = 0
      /\ \E t \in Targets(r, from) : \E new \in Allocations(bs, t) :
           /\ Allocate(r, bs, t, new)
           /\ sched' = With(sched, r, [from |-> from, to |-> t, new |-> bs \o new])
      /\ computed' = [computed EXCEPT ![r] = from]
  BY Zenon, <1>1 DEF AdmitRunning
<1>3. bs \in Seq(Blocks) /\ from \in 0..Complete(r)
  <2>1. Complete(r) \in Nat /\ NumChunks(r) \in Nat /\ Complete(r) = NumChunks(r) + 1
    BY PromptKeys
  <2>2. LocalHit(r) \in 0..NumChunks(r) /\ HitBlocks(r) \in Seq(Blocks)
    BY HitIsPrefix, HitBlocksAreCached
  <2>3. held[r] \in Seq(Blocks) /\ computed[r] \in 0..Complete(r)
    BY <2>1 DEF Inv, DataOK
  <2> QED  BY <1>1, <2>1, <2>2, <2>3
<1>4. PICK t \in Targets(r, from) : \E new \in Allocations(bs, t) :
        /\ Allocate(r, bs, t, new)
        /\ sched' = With(sched, r, [from |-> from, to |-> t, new |-> bs \o new])
  BY <1>2
<1>5. t \in Nat /\ t \in 0..Complete(r) /\ from <= t /\ from \in Nat
  BY <1>3, <1>4, TargetRange
<1>6. PICK new \in Allocations(bs, t) :
        /\ Allocate(r, bs, t, new)
        /\ sched' = With(sched, r, [from |-> from, to |-> t, new |-> bs \o new])
  BY <1>4
<1>7. new \in Seq(Blocks)
  BY <1>3, <1>5, <1>6, AllocatedBlocks
<1>8. IF computed[r] = 0 THEN bs = HitBlocks(r) /\ from = LocalHit(r) /\ Matched(r) = 0
      ELSE bs = held[r] /\ from = computed[r]
  BY <1>1, <1>2
<1>9. RunAdmitted(r, bs, from, t, new)
  BY <1>2, <1>3, <1>5, <1>6, <1>8 DEF RunAdmitted
<1> QED  BY <1>3, <1>5, <1>7, <1>9

\* The id of a new job is one that nothing refers to.
LEMMA NewId ==
    ASSUME FreeId
    PROVE  /\ NewJobId \in JobIds /\ NewJobId \notin DOMAIN xfers /\ NewJobId \notin curFlush
           /\ \A i \in DOMAIN steps : NewJobId \notin steps[i].flush
<1>1. JobIds \ UsedIds \in (SUBSET Nat) \ {{}}
  BY IdsAssumption DEF FreeId
<1>2. PICK unused : unused = JobIds \ UsedIds
  OBVIOUS
<1>3. PICK j \in unused : \A i \in unused : j <= i
  BY <1>1, <1>2, LeastPosition
<1>4. NewJobId \in JobIds \ UsedIds
  BY <1>2, <1>3 DEF NewJobId
<1> QED  BY <1>4 DEF UsedIds

\* A record of a function with one more entry.
LEMMA WithOne ==
    ASSUME NEW f, NEW x, NEW v
    PROVE  /\ DOMAIN With(f, x, v) = DOMAIN f \cup {x}
           /\ With(f, x, v)[x] = v
           /\ \A y \in DOMAIN f : y # x => With(f, x, v)[y] = f[y]
BY DEF With

\* What a remote hit of m blocks beyond n local ones does: job j loads the keys
\* into the new blocks.
LoadAdmitted(r, n, m, j, hit, new, keys, x, b) ==
    /\ CanTry(r) /\ TransferJobs(r) = {}
    /\ hit = HitBlocks(r) /\ n = LocalHit(r) /\ Len(hit) = n /\ m > 0 /\ n + m <= NumChunks(r)
    /\ new \in Allocations(hit, n + m) /\ Len(new) = m
    /\ keys = {Prompt[r][i] : i \in (n + 1)..(n + m)} /\ keys # {}
    /\ \A k \in keys : Mgr!Lookup(k) = "HIT" /\ k \notin beingLoaded
    /\ j \notin DOMAIN xfers /\ j \notin curFlush /\ \A i \in DOMAIN steps : j \notin steps[i].flush
    /\ x.req = r /\ ~x.store /\ ~x.stale /\ x.left = Workers
    /\ \A c \in x.copies : c.block \in Range(new)
    /\ b.req = r /\ ~b.store /\ b.keys = keys /\ b.pending = Cardinality(Workers) /\ b.srcBlocks = {}
    /\ xfers' = With(xfers, j, x) /\ jobs' = With(jobs, j, b)
    /\ Mgr!PrepareLoadEffect(keys)
    /\ held' = [held EXCEPT ![r] = hit \o new]
    /\ hashed' = Unhash(hashed, Range(new))
    /\ curAlloc' = curAlloc \cup Range(hit) \cup Range(new)
    /\ curLoads' = Append(curLoads, j)
    /\ beingLoaded' = beingLoaded \cup keys
    /\ nextStored' = [nextStored EXCEPT ![r] = n + m]
    /\ blockIds' = [blockIds EXCEPT ![r] = <<>>]
    /\ status' = [status EXCEPT ![r] = "remote"]
    /\ computed' = [computed EXCEPT ![r] = n + m]
    /\ todo' = todo \ {r}

\* The manager's keys have slots.
LEMMA CachedSlots ==
    ASSUME MP!Inv, NEW k \in DOMAIN blocks
    PROVE  blocks[k].id \in Slots /\ k \in Keys /\ blocks[k].ref \in Int
<1>1. /\ DOMAIN blocks \subseteq Keys /\ blocks \in [DOMAIN blocks -> [ref : Int, id : MP!Slots]]
  BY DEF MP!Inv, MP!TypeOK, MP!Present, MP!BlockStatus
<1>2. MP!Slots = Slots
  BY DEF MP!Slots, Slots
<1> QED  BY <1>1, <1>2

\* What admitting a request for a load does: the job it creates, the blocks it
\* allocates and the keys it loads.
LEMMA AdmittedLoad ==
    ASSUME Inv, NEW r \in Reqs, AdmitLoad(r)
    PROVE  \E n, m \in Nat, j \in JobIds, hit, new \in Seq(Blocks), keys \in SUBSET Keys,
              x \in Xfer, b \in Job : LoadAdmitted(r, n, m, j, hit, new, keys, x, b)
<1>1. PICK n, m, j, hit, keys :
        /\ n = LocalHit(r) /\ m = Matched(r) /\ j = NewJobId /\ hit = HitBlocks(r)
        /\ keys = {Prompt[r][i] : i \in (n + 1)..(n + m)}
  OBVIOUS
<1>2. /\ CanTry(r) /\ m > 0 /\ FreeId
      /\ \E new \in Allocations(hit, n + m) :
            /\ held' = [held EXCEPT ![r] = hit \o new]
            /\ hashed' = Unhash(hashed, Range(new))
            /\ xfers' = With(xfers, j,
                 [req |-> r, store |-> FALSE, stale |-> FALSE, left |-> Workers,
                  copies |-> {[block |-> new[i], slot |-> blocks[Prompt[r][n + i]].id] : i \in 1..m}])
            /\ curAlloc' = curAlloc \cup Range(hit) \cup Range(new)
      /\ Mgr!PrepareLoadEffect(keys)
      /\ jobs' = With(jobs, j, [req |-> r, store |-> FALSE, keys |-> keys,
                                pending |-> Cardinality(Workers), srcBlocks |-> {}])
      /\ curLoads' = Append(curLoads, j)
      /\ beingLoaded' = beingLoaded \cup keys
      /\ nextStored' = [nextStored EXCEPT ![r] = n + m]
      /\ blockIds' = [blockIds EXCEPT ![r] = <<>>]
      /\ status' = [status EXCEPT ![r] = "remote"]
      /\ computed' = [computed EXCEPT ![r] = n + m]
      /\ todo' = todo \ {r}
  BY Zenon, <1>1 DEF AdmitLoad
<1>3. Matched(r) # -1
  BY <1>1, <1>2
<1>4. /\ TransferJobs(r) = {} /\ n \in Nat /\ m \in Nat /\ n + m <= NumChunks(r)
      /\ \A i \in (n + 1)..(n + m) : /\ i \in 1..NumChunks(r)
                                     /\ Mgr!Lookup(Prompt[r][i]) = "HIT"
                                     /\ Prompt[r][i] \notin beingLoaded
  BY <1>1, <1>3, MatchedRun
<1>5. j \in JobIds /\ j \notin DOMAIN xfers /\ j \notin curFlush
      /\ \A i \in DOMAIN steps : j \notin steps[i].flush
  BY <1>1, <1>2, NewId
<1>6. hit \in Seq(Blocks) /\ Len(hit) = n
  BY <1>1, HitBlocksAreCached
<1>7. PICK new \in Allocations(hit, n + m) :
            /\ held' = [held EXCEPT ![r] = hit \o new]
            /\ hashed' = Unhash(hashed, Range(new))
            /\ xfers' = With(xfers, j,
                 [req |-> r, store |-> FALSE, stale |-> FALSE, left |-> Workers,
                  copies |-> {[block |-> new[i], slot |-> blocks[Prompt[r][n + i]].id] : i \in 1..m}])
            /\ curAlloc' = curAlloc \cup Range(hit) \cup Range(new)
  BY <1>2
<1>8. new \in Seq(Blocks) /\ Len(new) = m
  <2>1. PICK t \in Nat : t = n + m
    BY <1>4
  <2>2. new \in Seq(Blocks) /\ Len(new) = Lacking(hit, t)
    BY <1>6, <1>7, <2>1, AllocatedBlocks
  <2> QED  BY <1>2, <1>4, <1>6, <2>1, <2>2 DEF Lacking, MaxOf
<1>9. keys \in SUBSET Keys /\ keys # {}
      /\ \A k \in keys : Mgr!Lookup(k) = "HIT" /\ k \notin beingLoaded
  <2>1. \A i \in 1..NumChunks(r) : Prompt[r][i] \in Keys
    BY PromptKeys
  <2>2. n + 1 \in (n + 1)..(n + m)
    BY <1>2, <1>4
  <2> QED  BY <1>1, <1>4, <2>1, <2>2
<1>10. PICK copies : copies = {[block |-> new[i], slot |-> blocks[Prompt[r][n + i]].id] : i \in 1..m}
  OBVIOUS
<1>11. copies \in SUBSET Copy /\ \A c \in copies : c.block \in Range(new)
  <2>1. ASSUME NEW i \in 1..m
        PROVE  new[i] \in Blocks /\ new[i] \in Range(new) /\ blocks[Prompt[r][n + i]].id \in Slots
    <3>1. new[i] \in Blocks /\ new[i] \in Range(new)
      BY <1>8, ListPositions
    <3>2. n + i \in (n + 1)..(n + m)
      BY <1>4
    <3>3. Prompt[r][n + i] \in DOMAIN blocks
      BY <1>4, <3>2 DEF Mgr!Lookup, Mgr!Present
    <3> QED  BY <3>1, <3>3, CachedSlots DEF Inv
  <2> QED  BY <1>10, <2>1 DEF Copy
<1>12. PICK x : x = [req |-> r, store |-> FALSE, stale |-> FALSE, left |-> Workers, copies |-> copies]
  OBVIOUS
<1>13. x \in Xfer /\ x.req = r /\ ~x.store /\ ~x.stale /\ x.left = Workers /\ x.copies = copies
  BY <1>11, <1>12 DEF Xfer
<1>14. PICK b : b = [req |-> r, store |-> FALSE, keys |-> keys,
                     pending |-> Cardinality(Workers), srcBlocks |-> {}]
  OBVIOUS
<1>15. /\ b \in Job /\ b.req = r /\ ~b.store /\ b.keys = keys
       /\ b.pending = Cardinality(Workers) /\ b.srcBlocks = {}
  <2>1. Cardinality(Workers) \in Nat
    BY SizesAssumption, FS_CardinalityType
  <2> QED  BY <1>9, <1>14, <2>1 DEF Job
<1>16. xfers' = With(xfers, j, x) /\ jobs' = With(jobs, j, b)
  BY Zenon, <1>2, <1>7, <1>10, <1>12, <1>14
<1>17. LoadAdmitted(r, n, m, j, hit, new, keys, x, b)
  BY <1>1, <1>2, <1>4, <1>5, <1>6, <1>7, <1>8, <1>9, <1>11, <1>13, <1>15, <1>16 DEF LoadAdmitted
<1> QED  BY <1>4, <1>5, <1>6, <1>8, <1>9, <1>13, <1>15, <1>17

\* The keys a request may store are keys of its prompt, in blocks the connector
\* knows; those it does store are the ones the manager lacks.
LEMMA KeysToStore ==
    ASSUME Inv, NEW r \in Reqs, StoreTurn(r)
    PROVE  /\ Storable(r) \in Nat /\ Storable(r) <= NumChunks(r) /\ Storable(r) <= Len(blockIds[r])
           /\ NewKeys(r) \in Seq(Keys)
           /\ \A k \in Range(NewKeys(r)) : \E i \in 1..Storable(r) : Prompt[r][i] = k
           /\ ToStore(r) \in Seq(Keys) /\ IsInjective(ToStore(r))
           /\ Range(ToStore(r)) = Range(NewKeys(r)) \ DOMAIN blocks
<1>1. /\ NumChunks(r) \in Nat /\ DOMAIN Prompt[r] = 1..NumChunks(r) /\ IsInjective(Prompt[r])
      /\ \A i \in 1..NumChunks(r) : Prompt[r][i] \in Keys
      /\ Complete(r) \in Nat
  BY PromptKeys
<1>2. /\ blockIds[r] \in Seq(Blocks) /\ nextStored[r] \in Nat /\ computed[r] \in Nat
  BY DEF Inv, DataOK, CurrentOK
<1>3. status[r] \in {"stopped", "aborted"} \/ r \in DOMAIN sched
  BY DEF Inv, TurnsOK, StoreTurn, Finished
<1>4. r \in DOMAIN sched => sched[r].to \in Nat
  BY <1>1 DEF Inv, DataOK
<1>5. PICK after \in Nat : after = IF status[r] = "aborted" THEN computed[r]
                                   ELSE IF status[r] = "stopped" THEN NumChunks(r) ELSE sched[r].to
  BY <1>1, <1>2, <1>3, <1>4
<1>6. PICK n : n = Storable(r)
  OBVIOUS
<1>7. n = MinOf(MinOf(after, NumChunks(r)), Len(blockIds[r]))
  BY Zenon, <1>5, <1>6 DEF Storable
<1>8. n \in Nat /\ n <= NumChunks(r) /\ n <= Len(blockIds[r])
  <2>1. Len(blockIds[r]) \in Nat
    BY <1>2
  <2> QED  BY <1>1, <1>5, <1>7, <2>1 DEF MinOf
<1>9. PICK m \in Nat : m = nextStored[r] + 1 /\ m >= 1
  BY <1>2
<1>10. PICK p : p = Prompt[r]
  OBVIOUS
<1>11. PICK s : s = SubSeq(p, m, n)
  OBVIOUS
<1>12. NewKeys(r) = s
  BY <1>6, <1>9, <1>10, <1>11 DEF NewKeys
<1>13. /\ s \in Seq(Keys) /\ Len(s) = IF m <= n THEN n - m + 1 ELSE 0
       /\ \A i \in 1..(n - m + 1) : s[i] = p[m + i - 1]
  <2>1. \A i \in m..n : p[i] \in Keys
    BY <1>1, <1>8, <1>9, <1>10
  <2> QED  BY <1>8, <1>9, <1>11, <2>1, SubSeqProperties
<1>14. \A i \in DOMAIN s : i \in 1..(n - m + 1) /\ m + i - 1 \in 1..n /\ s[i] = p[m + i - 1]
  <2>1. Len(s) \in Nat /\ DOMAIN s = 1..Len(s)
    BY <1>13
  <2>2. \A i \in DOMAIN s : i \in 1..(n - m + 1) /\ m + i - 1 \in 1..n
    BY <1>8, <1>9, <1>13, <2>1
  <2> QED  BY <1>13, <2>2
<1>15. ASSUME NEW k \in Range(s)
       PROVE  \E i \in 1..n : p[i] = k
  <2>1. PICK i \in DOMAIN s : s[i] = k
    BY DEF Range
  <2> QED  BY <1>14, <2>1
<1>16. IsInjective(s)
  <2> SUFFICES ASSUME NEW a \in DOMAIN s, NEW b \in DOMAIN s, s[a] = s[b]
               PROVE  a = b
    BY DEF IsInjective
  <2>1. m + a - 1 \in 1..NumChunks(r) /\ m + b - 1 \in 1..NumChunks(r) /\ a \in Int /\ b \in Int
    BY <1>1, <1>8, <1>14
  <2>2. p[m + a - 1] = p[m + b - 1]
    BY <1>14
  <2>3. m + a - 1 = m + b - 1
    BY <1>1, <1>10, <2>1, <2>2 DEF IsInjective
  <2> QED  BY <1>9, <2>1, <2>3
<1>17. PICK D : D = DOMAIN blocks
  OBVIOUS
<1>18. /\ Without(s, D) \in Seq(Keys) /\ Range(Without(s, D)) = Range(s) \ D
       /\ IsInjective(Without(s, D))
  BY ONLY <1>13, <1>16, WithoutKeys
<1>19. ToStore(r) = Without(s, D)
  BY <1>12, <1>17 DEF ToStore
<1> QED  BY <1>6, <1>8, <1>10, <1>12, <1>13, <1>15, <1>17, <1>18, <1>19

\* What storing the keys `new` of a request does: job j copies them from the
\* blocks the connector knows them in.
StoreMade(r, new, j, src, copies, x, b) ==
    /\ StoreTurn(r) /\ r \in tracked
    /\ new = ToStore(r) /\ new # <<>>
    /\ j \notin DOMAIN xfers /\ j \notin curFlush /\ \A i \in DOMAIN steps : j \notin steps[i].flush
    /\ \E evicted \in Mgr!EvictionChoices(Range(NewKeys(r))) :
         /\ Mgr!CanEvict(Range(NewKeys(r)), evicted)
         /\ Mgr!PrepareStoreEffect(new, evicted)
    /\ x = [req |-> r, store |-> TRUE, stale |-> FALSE, left |-> Workers, copies |-> copies]
    /\ \A c \in copies : \E k \in Range(new) : \E s \in src : c = [block |-> s, slot |-> blocks'[k].id]
    /\ b.req = r /\ b.store /\ b.keys = Range(new)
    /\ b.pending = Cardinality(Workers) /\ b.srcBlocks = src
    /\ xfers' = With(xfers, j, x) /\ jobs' = With(jobs, j, b)
    /\ nextStored' = [nextStored EXCEPT ![r] = MaxOf(nextStored[r], Storable(r))]
    /\ curStores' = Append(curStores, j)
    /\ IF Finished(r)
       THEN fences' = fences \cup {<<s, j>> : s \in src} /\ curFlush' \in {curFlush, curFlush \cup {j}}
       ELSE fences' = fences /\ curFlush' = curFlush

\* What storing a request's new chunks does: the job it creates, the keys it
\* stores and the blocks it reads.
LEMMA MadeStore ==
    ASSUME Inv, NEW r \in Reqs, Store(r)
    PROVE  \E new \in Seq(Keys), j \in JobIds, src \in SUBSET Blocks, b \in Job :
             \E copies, x : StoreMade(r, new, j, src, copies, x, b)
<1> DEFINE blockOf(k) == blockIds[r][CHOOSE i \in DOMAIN Prompt[r] : Prompt[r][i] = k]
<1>1. PICK new, j, src, copies :
        /\ new = ToStore(r) /\ j = NewJobId /\ src = {blockOf(k) : k \in Range(new)}
        /\ copies = {[block |-> blockOf(k), slot |-> blocks'[k].id] : k \in Range(new)}
  OBVIOUS
<1>2. /\ StoreTurn(r) /\ r \in tracked /\ new # <<>> /\ FreeId
      /\ \E evicted \in Mgr!EvictionChoices(Range(NewKeys(r))) :
           /\ Mgr!CanEvict(Range(NewKeys(r)), evicted)
           /\ Mgr!PrepareStoreEffect(new, evicted)
      /\ nextStored' = [nextStored EXCEPT ![r] = MaxOf(nextStored[r], Storable(r))]
      /\ jobs' = With(jobs, j, [req |-> r, store |-> TRUE, keys |-> Range(new),
                                pending |-> Cardinality(Workers), srcBlocks |-> src])
      /\ xfers' = With(xfers, j,
           [req |-> r, store |-> TRUE, stale |-> FALSE, left |-> Workers, copies |-> copies])
      /\ curStores' = Append(curStores, j)
      /\ IF Finished(r)
         THEN /\ fences' = fences \cup {<<s, j>> : s \in src}
              /\ curFlush' = IF src \cap curAlloc # {} THEN curFlush \cup {j} ELSE curFlush
         ELSE UNCHANGED <<fences, curFlush>>
  BY Zenon, <1>1 DEF Store
<1>3. /\ Storable(r) \in Nat /\ Storable(r) <= NumChunks(r) /\ Storable(r) <= Len(blockIds[r])
      /\ new \in Seq(Keys)
      /\ \A k \in Range(new) : \E i \in 1..Storable(r) : Prompt[r][i] = k
  BY <1>1, <1>2, KeysToStore
<1>4. ASSUME NEW k \in Range(new)
      PROVE  blockOf(k) \in Blocks
  <2>1. PICK n \in 1..Storable(r) : Prompt[r][n] = k
    BY <1>3
  <2>2. /\ NumChunks(r) \in Nat /\ DOMAIN Prompt[r] = 1..NumChunks(r) /\ IsInjective(Prompt[r])
    BY PromptKeys
  <2>3. n \in DOMAIN Prompt[r]
    BY <1>3, <2>1, <2>2
  <2>4. PICK e : e = CHOOSE i \in DOMAIN Prompt[r] : Prompt[r][i] = k
    OBVIOUS
  <2>5. e = n
    BY <2>1, <2>2, <2>3, <2>4 DEF IsInjective
  <2>6. blockOf(k) = blockIds[r][e]
    BY Zenon, <2>4
  <2>7. blockIds[r] \in Seq(Blocks)
    BY DEF Inv, DataOK
  <2>8. n \in 1..Len(blockIds[r])
    BY <1>3, <2>1, <2>7
  <2>9. blockIds[r][n] \in Blocks
    BY <2>7, <2>8
  <2> QED  BY <2>5, <2>6, <2>9
<1> HIDE DEF blockOf
<1>5. src \in SUBSET Blocks
  BY <1>1, <1>4
<1>6. j \in JobIds /\ j \notin DOMAIN xfers /\ j \notin curFlush
      /\ \A i \in DOMAIN steps : j \notin steps[i].flush
  BY <1>1, <1>2, NewId
<1>7. \A c \in copies : \E k \in Range(new) : \E s \in src : c = [block |-> s, slot |-> blocks'[k].id]
  BY <1>1
<1>8. PICK b : b = [req |-> r, store |-> TRUE, keys |-> Range(new),
                    pending |-> Cardinality(Workers), srcBlocks |-> src]
  OBVIOUS
<1>9. /\ b \in Job /\ b.req = r /\ b.store /\ b.keys = Range(new)
      /\ b.pending = Cardinality(Workers) /\ b.srcBlocks = src
  <2>1. Cardinality(Workers) \in Nat
    BY SizesAssumption, FS_CardinalityType
  <2>2. Range(new) \in SUBSET Keys
    BY <1>3, ListPositions
  <2> QED  BY <1>5, <1>8, <2>1, <2>2 DEF Job
<1>10. PICK x : x = [req |-> r, store |-> TRUE, stale |-> FALSE, left |-> Workers, copies |-> copies]
  OBVIOUS
<1>12. xfers' = With(xfers, j, x) /\ jobs' = With(jobs, j, b)
  BY Zenon, <1>2, <1>8, <1>10
<1>13. StoreMade(r, new, j, src, copies, x, b)
  <2>1. IF Finished(r)
        THEN fences' = fences \cup {<<s, j>> : s \in src} /\ curFlush' \in {curFlush, curFlush \cup {j}}
        ELSE fences' = fences /\ curFlush' = curFlush
    BY <1>2
  <2>2. \E evicted \in Mgr!EvictionChoices(Range(NewKeys(r))) :
          /\ Mgr!CanEvict(Range(NewKeys(r)), evicted)
          /\ Mgr!PrepareStoreEffect(new, evicted)
    BY <1>2
  <2>3. /\ StoreTurn(r) /\ r \in tracked /\ new = ToStore(r) /\ new # <<>>
        /\ nextStored' = [nextStored EXCEPT ![r] = MaxOf(nextStored[r], Storable(r))]
        /\ curStores' = Append(curStores, j)
    BY <1>1, <1>2
  <2> QED  BY ONLY <1>6, <1>7, <1>9, <1>10, <1>12, <2>1, <2>2, <2>3 DEF StoreMade
<1> QED  BY ONLY <1>3, <1>5, <1>6, <1>9, <1>13

\* The progress of every request stays within its prompt.
LEMMA ProgressStep ==
    ASSUME Inv, [Next]_vars
    PROVE  /\ computed' \in [Reqs -> Nat] /\ \A r \in Reqs : computed'[r] <= Complete(r)
           /\ DOMAIN sched' \subseteq Reqs
           /\ \A r \in DOMAIN sched' : /\ sched'[r].from \in 0..Complete(r)
                                       /\ sched'[r].to \in 0..Complete(r)
                                       /\ sched'[r].new \in Seq(Blocks)
<1>1. /\ computed \in [Reqs -> Nat] /\ \A r \in Reqs : computed[r] <= Complete(r)
      /\ DOMAIN sched \subseteq Reqs
      /\ \A r \in DOMAIN sched : /\ sched[r].from \in 0..Complete(r)
                                 /\ sched[r].to \in 0..Complete(r)
                                 /\ sched[r].new \in Seq(Blocks)
  BY DEF Inv, DataOK
<1>2. \A r \in Reqs : Complete(r) \in Nat /\ Complete(r) = NumChunks(r) + 1 /\ NumChunks(r) \in Nat
  BY PromptKeys
<1>3. CASE UNCHANGED <<computed, sched>>
  BY <1>1, <1>3
<1>4. ASSUME NEW r \in Reqs, NEW from \in 0..Complete(r), NEW t \in 0..Complete(r),
             NEW new \in Seq(Blocks),
             sched' = With(sched, r, [from |-> from, to |-> t, new |-> new])
      PROVE  /\ DOMAIN sched' \subseteq Reqs
             /\ \A q \in DOMAIN sched' : /\ sched'[q].from \in 0..Complete(q)
                                         /\ sched'[q].to \in 0..Complete(q)
                                         /\ sched'[q].new \in Seq(Blocks)
  <2>1. PICK e : e = [from |-> from, to |-> t, new |-> new] /\ sched' = With(sched, r, e)
    BY <1>4
  <2>2. e.from = from /\ e.to = t /\ e.new = new
    BY <2>1
  <2>3. /\ DOMAIN sched' = DOMAIN sched \cup {r} /\ sched'[r] = e
        /\ \A q \in DOMAIN sched : q # r => sched'[q] = sched[q]
    BY ONLY <2>1 DEF With
  <2> QED  BY <1>1, <1>4, <2>2, <2>3
<1>5. ASSUME NEW r \in Reqs, NEW c \in Nat, c <= Complete(r), computed' = [computed EXCEPT ![r] = c]
      PROVE  computed' \in [Reqs -> Nat] /\ \A q \in Reqs : computed'[q] <= Complete(q)
  BY <1>1, <1>5
<1>6. ASSUME NEW r \in Reqs, Arrive(r)
      PROVE  computed' \in [Reqs -> Nat] /\ (\A q \in Reqs : computed'[q] <= Complete(q)) /\ sched' = sched
  <2>1. computed' = [computed EXCEPT ![r] = 0] /\ sched' = sched
    BY Zenon, <1>6 DEF Arrive, batchIds
  <2>2. 0 <= Complete(r)
    BY <1>2
  <2> QED  BY <1>5, <2>1, <2>2
<1>7. ASSUME NEW r \in Reqs, AdmitLoad(r)
      PROVE  computed' \in [Reqs -> Nat] /\ (\A q \in Reqs : computed'[q] <= Complete(q)) /\ sched' = sched
  <2>1. PICK n, m \in Nat, j \in JobIds, hit, new \in Seq(Blocks), keys \in SUBSET Keys,
             x \in Xfer, b \in Job : LoadAdmitted(r, n, m, j, hit, new, keys, x, b)
    BY <1>7, AdmittedLoad
  <2>2. computed' = [computed EXCEPT ![r] = n + m] /\ n + m <= NumChunks(r)
    BY <2>1 DEF LoadAdmitted
  <2>3. sched' = sched
    BY Zenon, <1>7 DEF AdmitLoad, batchIds
  <2>4. n + m \in Nat /\ n + m <= Complete(r)
    BY <1>2, <2>2
  <2> QED  BY <1>5, <2>2, <2>3, <2>4
<1>8. ASSUME NEW r \in Reqs, AdmitRunning(r)
      PROVE  /\ computed' \in [Reqs -> Nat] /\ \A q \in Reqs : computed'[q] <= Complete(q)
             /\ DOMAIN sched' \subseteq Reqs
             /\ \A q \in DOMAIN sched' : /\ sched'[q].from \in 0..Complete(q)
                                         /\ sched'[q].to \in 0..Complete(q)
                                         /\ sched'[q].new \in Seq(Blocks)
  <2>1. PICK bs, new \in Seq(Blocks), from, t \in Nat : RunAdmitted(r, bs, from, t, new)
    BY <1>8, AdmittedRequest
  <2>2. /\ from <= t /\ from \in 0..Complete(r) /\ t \in 0..Complete(r)
        /\ sched' = With(sched, r, [from |-> from, to |-> t, new |-> bs \o new])
        /\ computed' = [computed EXCEPT ![r] = from]
    BY <2>1 DEF RunAdmitted
  <2>3. bs \o new \in Seq(Blocks)
    BY <2>1, <2>2
  <2>4. from <= Complete(r)
    BY <1>2, <2>2
  <2> QED  BY <1>4, <1>5, <2>2, <2>3, <2>4
<1>9. ASSUME NEW S, NEW drop, Preempt(S, drop)
      PROVE  computed' \in [Reqs -> Nat] /\ (\A q \in Reqs : computed'[q] <= Complete(q))
  <2>1. computed' = [r \in Reqs |-> IF r \in S THEN 0 ELSE computed[r]]
    BY Zenon, <1>9 DEF Preempt
  <2> QED  BY <1>1, <1>2, <2>1
<1>10. ASSUME Reset
       PROVE  computed' \in [Reqs -> Nat] /\ (\A q \in Reqs : computed'[q] <= Complete(q)) /\ sched' = sched
  <2>1. sched' = sched
    BY Zenon, <1>10 DEF Reset, ResetPrefixCache
  <2>2. UNCHANGED reqVars => computed' = computed
    BY DEF reqVars
  <2> QED  BY <1>1, <1>9, <1>10, <2>1, <2>2, ResetShape
<1>11. ASSUME ScheduleRunning
       PROVE  /\ computed' = computed
              /\ DOMAIN sched' \subseteq Reqs
              /\ \A q \in DOMAIN sched' : /\ sched'[q].from \in 0..Complete(q)
                                          /\ sched'[q].to \in 0..Complete(q)
                                          /\ sched'[q].new \in Seq(Blocks)
  <2>1. PICK r \in Reqs, t \in Nat : \E new \in Seq(Blocks) :
             /\ t \in 0..Complete(r)
             /\ sched' = With(sched, r, [from |-> computed[r], to |-> t, new |-> new])
    BY <1>11, ScheduledRequest
  <2>2. PICK new \in Seq(Blocks) :
             /\ t \in 0..Complete(r)
             /\ sched' = With(sched, r, [from |-> computed[r], to |-> t, new |-> new])
    BY <2>1
  <2>3. computed[r] \in 0..Complete(r)
    BY <1>1, <1>2
  <2>4. computed' = computed
    BY Zenon, <1>11 DEF ScheduleRunning
  <2> QED  BY <1>4, <2>2, <2>3, <2>4
<1>12. ASSUME PreemptForBlocks
       PROVE  computed' \in [Reqs -> Nat] /\ (\A q \in Reqs : computed'[q] <= Complete(q)) /\ sched' = sched
  <2>1. sched' = sched
    BY Zenon, <1>12 DEF PreemptForBlocks
  <2> QED  BY <1>9, <1>12, <2>1, PreemptedForBlocks
<1>13. ASSUME Emit
       PROVE  /\ computed' \in [Reqs -> Nat] /\ \A q \in Reqs : computed'[q] <= Complete(q)
              /\ DOMAIN sched' = {}
  <2>1. /\ computed' = [r \in Reqs |-> IF r \in DOMAIN sched THEN sched[r].to ELSE computed[r]]
        /\ sched' = Nothing
    BY Zenon, <1>13 DEF Emit
  <2>2. \A r \in Reqs : computed'[r] \in Nat /\ computed'[r] <= Complete(r)
    BY <1>1, <1>2, <2>1
  <2> QED  BY <2>1, <2>2 DEF Nothing
<1> QED  BY <1>1, <1>3, <1>6, <1>7, <1>8, <1>10, <1>11, <1>12, <1>13, Changes

\* The blocks of the requests are GPU blocks, and the cache names keys.
LEMMA BlocksStep ==
    ASSUME Inv, [Next]_vars
    PROVE  /\ held' \in [Reqs -> Seq(Blocks)] /\ blockIds' \in [Reqs -> Seq(Blocks)]
           /\ hashed' \in [Blocks -> Keys \cup {NoKey}]
           /\ curAlloc' \subseteq Blocks
<1> DEFINE Held == held' \in [Reqs -> Seq(Blocks)]
           Ids == blockIds' \in [Reqs -> Seq(Blocks)]
           Cache == hashed' \in [Blocks -> Keys \cup {NoKey}]
           Given == curAlloc' \subseteq Blocks
<1>1. /\ held \in [Reqs -> Seq(Blocks)] /\ blockIds \in [Reqs -> Seq(Blocks)]
      /\ hashed \in [Blocks -> Keys \cup {NoKey}]
      /\ curAlloc \subseteq Blocks
      /\ DOMAIN sched \subseteq Reqs /\ \A r \in DOMAIN sched : sched[r].new \in Seq(Blocks)
      /\ computed \in [Reqs -> Nat]
  BY DEF Inv, DataOK
<1>2. <<>> \in Seq(Blocks)
  OBVIOUS
<1>3. CASE UNCHANGED <<held, blockIds, hashed, curAlloc>>
  BY <1>1, <1>3
<1>4. ASSUME NEW S, FreeRequestBlocks(S)
      PROVE  Held
  <2>1. held' = [r \in Reqs |-> IF r \in S THEN <<>> ELSE held[r]]
    BY Zenon, <1>4 DEF FreeRequestBlocks
  <2> QED  BY <1>1, <1>2, <2>1
<1>5. ASSUME NEW r \in Reqs, NEW bs \in Seq(Blocks), NEW t \in Nat, NEW new \in Seq(Blocks),
             Allocate(r, bs, t, new)
      PROVE  Held /\ Cache
  <2>1. PICK h : h = Unhash(hashed, Range(new))
    OBVIOUS
  <2>2. h \in [Blocks -> Keys \cup {NoKey}]
    BY <1>1, <2>1, UnhashType
  <2>3. held' = [held EXCEPT ![r] = bs \o new] /\ hashed' = CacheBlocks(h, r, bs \o new, t)
    BY Zenon, <1>5, <2>1 DEF Allocate
  <2>4. bs \o new \in Seq(Blocks)
    OBVIOUS
  <2>5. Cache
    BY <2>2, <2>3, CacheBlocksType
  <2> QED  BY <1>1, <2>3, <2>4, <2>5
<1>6. ASSUME NEW r \in Reqs, blockIds' \in {blockIds, [blockIds EXCEPT ![r] = <<>>]}
      PROVE  Ids
  BY <1>1, <1>2, <1>6
<1>7. ASSUME NEW r \in Reqs, Arrive(r)
      PROVE  Held /\ Ids /\ Cache /\ Given
  <2>1. blockIds' = [blockIds EXCEPT ![r] = <<>>] /\ UNCHANGED <<held, hashed, curAlloc>>
    BY Zenon, <1>7 DEF Arrive, curVars
  <2> QED  BY <1>1, <1>6, <2>1
<1>8. ASSUME NEW r \in Reqs, NEW final, NEW delayFree, Finish(r, final, delayFree)
      PROVE  Held
  <2>1. held' = held \/ FreeRequestBlocks({r})
    BY Zenon, <1>8 DEF Finish
  <2> QED  BY <1>1, <1>4, <2>1
<1>9. ASSUME NEW r \in Reqs, Abort(r)
      PROVE  Held /\ Ids /\ Cache /\ Given
  <2>1. Finish(r, "aborted", MustDelayFree(r)) /\ UNCHANGED <<blockIds, hashed, curAlloc>>
    BY Zenon, <1>9 DEF Abort, connReqVars, curVars
  <2> QED  BY <1>1, <1>8, <2>1
<1>10. ASSUME NEW r \in Reqs, NEW stop \in BOOLEAN, ProcessRequest(r, stop)
       PROVE  Held /\ Ids /\ Cache /\ Given
  <2>1. /\ Finish(r, "stopped", FALSE) \/ held' = held
        /\ UNCHANGED <<blockIds, hashed, curAlloc>>
    BY Zenon, <1>10 DEF ProcessRequest, reqVars, connReqVars, curVars
  <2> QED  BY <1>1, <1>8, <2>1
<1>11. ASSUME NEW r \in Reqs, Promote(r)
       PROVE  Held /\ Ids /\ Cache /\ Given
  <2>1. /\ hashed' = CacheBlocks(hashed, r, held[r], computed[r])
        /\ UNCHANGED <<held, blockIds, curAlloc>>
    BY Zenon, <1>11 DEF Promote, connReqVars, curVars
  <2>2. computed[r] \in Nat
    BY <1>1
  <2>3. Cache
    BY <1>1, <2>1, <2>2, CacheBlocksType
  <2> QED  BY <1>1, <2>1, <2>3
<1>12. ASSUME NEW r \in Reqs, DeferLookup(r) \/ AdmitFails(r)
       PROVE  Held /\ Ids /\ Cache /\ Given
  <2>1. /\ blockIds' \in {blockIds, [blockIds EXCEPT ![r] = <<>>]}
        /\ UNCHANGED <<held, hashed, curAlloc>>
    BY <1>12 DEF DeferLookup, AdmitFails, reqVars, curVars
  <2> QED  BY <1>1, <1>6, <2>1
<1>13. ASSUME NEW r \in Reqs, AdmitLoad(r)
       PROVE  Held /\ Ids /\ Cache /\ Given
  <2>1. PICK n, m \in Nat, j \in JobIds, hit, new \in Seq(Blocks), keys \in SUBSET Keys,
             x \in Xfer, b \in Job : LoadAdmitted(r, n, m, j, hit, new, keys, x, b)
    BY <1>13, AdmittedLoad
  <2>2. /\ held' = [held EXCEPT ![r] = hit \o new]
        /\ hashed' = Unhash(hashed, Range(new))
        /\ curAlloc' = curAlloc \cup Range(hit) \cup Range(new)
        /\ blockIds' = [blockIds EXCEPT ![r] = <<>>]
    BY <2>1 DEF LoadAdmitted
  <2>3. hit \o new \in Seq(Blocks)
    BY <2>1
  <2>4. Range(hit) \subseteq Blocks /\ Range(new) \subseteq Blocks
    BY <2>1, ListPositions
  <2>5. Cache
    BY <1>1, <2>2, UnhashType
  <2>6. Held
    BY <1>1, <2>2, <2>3
  <2> QED  BY <1>1, <1>6, <2>2, <2>4, <2>5, <2>6
<1>14. ASSUME NEW r \in Reqs, AdmitRunning(r)
       PROVE  Held /\ Ids /\ Cache /\ Given
  <2>1. PICK bs, new \in Seq(Blocks), from, t \in Nat : Allocate(r, bs, t, new)
    BY <1>14, AdmittedRequest DEF RunAdmitted
  <2>2. blockIds' \in {blockIds, [blockIds EXCEPT ![r] = <<>>]} /\ curAlloc' = curAlloc
    BY <1>14 DEF AdmitRunning, curVars
  <2> QED  BY <1>1, <1>5, <1>6, <2>1, <2>2
<1>15. ASSUME Reset
       PROVE  Held /\ Ids /\ Cache /\ Given
  <2>1. UNCHANGED <<blockIds, curAlloc>>
    BY Zenon, <1>15, ResetShape DEF ConnectorReset, KeepConnector, connReqVars, curVars
  <2>2. FreeRequestBlocks(Range(running)) \/ held' = held
    BY Zenon, <1>15, ResetShape DEF Preempt, reqVars
  <2>3. Cache
    BY <1>1, <1>15, ResetShape
  <2> QED  BY <1>1, <1>4, <2>1, <2>2, <2>3
<1>16. ASSUME ScheduleRunning
       PROVE  Held /\ Ids /\ Cache /\ Given
  <2>1. PICK r \in Reqs, t \in Nat : \E new \in Seq(Blocks) :
             held[r] \in Seq(Blocks) /\ Allocate(r, held[r], t, new)
    BY <1>16, ScheduledRequest
  <2>2. UNCHANGED <<blockIds, curAlloc>>
    BY Zenon, <1>16 DEF ScheduleRunning, connReqVars, curVars
  <2> QED  BY <1>1, <1>5, <2>1, <2>2
<1>17. ASSUME PreemptForBlocks
       PROVE  Held /\ Ids /\ Cache /\ Given
  <2>1. /\ FreeRequestBlocks({Last(running)})
        /\ UNCHANGED <<blockIds, hashed, curAlloc>>
    BY Zenon, <1>17 DEF PreemptForBlocks, Preempt, connReqVars, curVars
  <2> QED  BY <1>1, <1>4, <2>1
<1>18. ASSUME BuildMeta
       PROVE  Held /\ Ids /\ Cache /\ Given
  <2>1. /\ blockIds' = [r \in Reqs |-> IF r \in DOMAIN sched THEN blockIds[r] \o sched[r].new
                                       ELSE blockIds[r]]
        /\ curAlloc' = curAlloc \cup UNION {Range(sched[r].new) : r \in DOMAIN sched}
        /\ UNCHANGED <<held, hashed>>
    BY Zenon, <1>18 DEF BuildMeta, reqVars
  <2>2. \A r \in DOMAIN sched : blockIds[r] \o sched[r].new \in Seq(Blocks)
    BY <1>1
  <2>3. \A r \in DOMAIN sched : Range(sched[r].new) \subseteq Blocks
    BY <1>1, ListPositions
  <2>4. Ids
    BY <1>1, <2>1, <2>2
  <2>5. Given
    BY <1>1, <2>1, <2>3
  <2> QED  BY <1>1, <2>1, <2>4, <2>5
<1>19. ASSUME Emit
       PROVE  Held /\ Ids /\ Cache /\ Given
  <2>1. curAlloc' = {} /\ UNCHANGED <<held, hashed, blockIds>>
    BY Zenon, <1>19 DEF Emit
  <2> QED  BY <1>1, <2>1
<1>20. ASSUME EndOutput
       PROVE  Held /\ Ids /\ Cache /\ Given
  <2>1. /\ FreeRequestBlocks({r \in received \cap known : Finished(r)})
        /\ UNCHANGED <<hashed, blockIds, curAlloc>>
    BY Zenon, <1>20 DEF EndOutput, connReqVars, curVars
  <2> QED  BY <1>1, <1>4, <2>1
<1> QED  BY <1>3, <1>7, <1>9, <1>10, <1>11, <1>12, <1>13, <1>14, <1>15, <1>16, <1>17, <1>18, <1>19,
            <1>20, Changes

\* The requests' progress and blocks keep their bounds.
LEMMA DataStep == Inv /\ [Next]_vars => DataOK'
BY ProgressStep, BlocksStep DEF DataOK

-----------------------------------------------------------------------------
(***************************************************************************)
(* The batch being built.                                                  *)
(***************************************************************************)

\* A job nobody has a record of is named nowhere.
LEMMA NamedInCurrent ==
    ASSUME Inv, NEW j \in JobIds, j \notin DOMAIN xfers
    PROVE  j \notin Range(curLoads) /\ j \notin Range(curStores)
<1>1. PICK w \in Workers : TRUE
  BY SizesAssumption
<1>2. PICK at : Placed(w, at)
  BY DEF Inv, PlacesOK
<1>3. at[j] = Nowhere
  BY <1>2 DEF Placed, Expected
<1>4. PICK n \in Nat : n = Len(steps) + 1
  BY DEF Inv, LoopsOK
<1>5. /\ j \in Range(curLoads) => at[j] = ToBeLoaded(n)
      /\ j \in Range(curStores) => at[j] = ToBeStored(n)
  BY <1>2, <1>4 DEF Placed, InCurrent
<1>6. ToBeLoaded(n) # Nowhere /\ ToBeStored(n) # Nowhere
  BY <1>4 DEF ToBeLoaded, ToBeStored, Nowhere
<1> QED  BY <1>3, <1>5, <1>6

\* The jobs of a request are jobs, and the jobs table names job ids.
LEMMA JobsAreIds ==
    ASSUME Inv
    PROVE  DOMAIN jobs \subseteq JobIds /\ DOMAIN jobs \subseteq DOMAIN xfers
BY DEF Inv, TableOK

\* The collections of the batch being built name jobs, each once.
LEMMA CurrentStep ==
    ASSUME Inv, [Next]_vars
    PROVE  CurrentOK'
<1>0. CurrentOK
  BY DEF Inv
<1>1. /\ nextStored \in [Reqs -> Nat] /\ beingLoaded \subseteq Keys /\ preemptedIds \subseteq Reqs
      /\ curFlush \subseteq JobIds
      /\ curLoads \in Seq(JobIds) /\ IsInjective(curLoads)
      /\ curStores \in Seq(JobIds) /\ IsInjective(curStores)
  BY <1>0 DEF CurrentOK
<1>2. CASE UNCHANGED <<nextStored, beingLoaded, preemptedIds, curFlush, curLoads, curStores>>
  BY <1>0, <1>2 DEF CurrentOK
<1>3. ASSUME NEW r \in Reqs, NEW n \in Nat, nextStored' = [nextStored EXCEPT ![r] = n]
      PROVE  nextStored' \in [Reqs -> Nat]
  BY <1>1, <1>3
<1>4. ASSUME NEW r \in Reqs, Arrive(r)
      PROVE  CurrentOK'
  <2>1. /\ nextStored' = [nextStored EXCEPT ![r] = 0]
        /\ UNCHANGED <<beingLoaded, preemptedIds, curFlush, curLoads, curStores>>
    BY Zenon, <1>4 DEF Arrive, jobTable, batchIds, curVars
  <2>2. nextStored' \in [Reqs -> Nat]
    BY <1>3, <2>1
  <2> QED  BY <1>1, <2>1, <2>2 DEF CurrentOK
<1>5. ASSUME NEW r \in Reqs, AdmitLoad(r)
      PROVE  CurrentOK'
  <2>1. PICK n, m \in Nat, j \in JobIds, hit, new \in Seq(Blocks), keys \in SUBSET Keys,
             x \in Xfer, b \in Job : LoadAdmitted(r, n, m, j, hit, new, keys, x, b)
    BY <1>5, AdmittedLoad
  <2>2. /\ nextStored' = [nextStored EXCEPT ![r] = n + m] /\ beingLoaded' = beingLoaded \cup keys
        /\ curLoads' = Append(curLoads, j) /\ j \notin DOMAIN xfers
    BY <2>1 DEF LoadAdmitted
  <2>3. UNCHANGED <<preemptedIds, curFlush, curStores>>
    BY Zenon, <1>5 DEF AdmitLoad, batchIds
  <2>4. j \notin Range(curLoads)
    BY <2>2, NamedInCurrent
  <2>5. Append(curLoads, j) \in Seq(JobIds) /\ IsInjective(Append(curLoads, j))
    BY ONLY <1>1, <2>4, j \in JobIds, AddedKey
  <2>6. nextStored' \in [Reqs -> Nat]
    <3>1. PICK p \in Nat : p = n + m
      OBVIOUS
    <3>2. nextStored' = [nextStored EXCEPT ![r] = p]
      BY <2>2, <3>1
    <3> QED  BY <1>1, <3>2
  <2>7. curLoads' \in Seq(JobIds) /\ IsInjective(curLoads')
    BY <2>2, <2>5
  <2> QED  BY <1>1, <2>2, <2>3, <2>6, <2>7 DEF CurrentOK
<1>6. ASSUME NEW r \in Reqs, NothingToStore(r)
      PROVE  CurrentOK'
  <2>1. /\ StoreTurn(r)
        /\ nextStored' = nextStored \/ nextStored' = [nextStored EXCEPT ![r] = MaxOf(@, Storable(r))]
        /\ UNCHANGED <<beingLoaded, preemptedIds, curFlush, curLoads, curStores>>
    BY Zenon, <1>6 DEF NothingToStore, KeepForStores, batchIds
  <2>2. MaxOf(nextStored[r], Storable(r)) \in Nat
    BY <1>1, <2>1, KeysToStore DEF MaxOf
  <2>3. nextStored' \in [Reqs -> Nat]
    BY <1>1, <2>1, <2>2
  <2> QED  BY <1>1, <2>1, <2>3 DEF CurrentOK
<1>7. ASSUME NEW r \in Reqs, Store(r)
      PROVE  CurrentOK'
  <2>1. PICK new \in Seq(Keys), j \in JobIds, src \in SUBSET Blocks, b \in Job :
             \E copies, x : StoreMade(r, new, j, src, copies, x, b)
    BY <1>7, MadeStore
  <2>2. /\ StoreTurn(r) /\ j \notin DOMAIN xfers
        /\ nextStored' = [nextStored EXCEPT ![r] = MaxOf(nextStored[r], Storable(r))]
        /\ curStores' = Append(curStores, j)
        /\ curFlush' \in {curFlush, curFlush \cup {j}}
    BY <2>1 DEF StoreMade
  <2>3. UNCHANGED <<preemptedIds, curLoads, beingLoaded>>
    BY Zenon, <1>7 DEF Store, KeepForStores, batchIds
  <2>4. j \notin Range(curStores)
    BY <2>2, NamedInCurrent
  <2>5. Append(curStores, j) \in Seq(JobIds) /\ IsInjective(Append(curStores, j))
    BY ONLY <1>1, <2>4, j \in JobIds, AddedKey
  <2>6. MaxOf(nextStored[r], Storable(r)) \in Nat
    BY <1>1, <2>2, KeysToStore DEF MaxOf
  <2>7. nextStored' \in [Reqs -> Nat]
    BY <1>3, <2>2, <2>6
  <2>8. curStores' \in Seq(JobIds) /\ IsInjective(curStores')
    BY <2>2, <2>5
  <2> QED  BY <1>1, <2>2, <2>3, <2>7, <2>8 DEF CurrentOK
<1>8. ASSUME NEW S \in SUBSET Range(running), NEW drop, Preempt(S, drop)
      PROVE  preemptedIds' \subseteq Reqs
  <2>1. preemptedIds' = preemptedIds \cup S
    BY Zenon, <1>8 DEF Preempt
  <2> QED  BY <1>1, <1>8, <2>1, PreemptedRequests
<1>9. ASSUME Reset
      PROVE  CurrentOK'
  <2>1. preemptedIds' \subseteq Reqs
    BY <1>1, <1>8, <1>9, ResetShape
  <2>2. CASE KeepConnector
    <3>1. UNCHANGED <<nextStored, beingLoaded, curFlush, curLoads, curStores>>
      BY Zenon, <2>2 DEF KeepConnector, connReqVars, jobTable, curVars
    <3> QED  BY <1>1, <2>1, <3>1 DEF CurrentOK
  <2>3. CASE ConnectorReset
    <3>1. /\ nextStored' = [r \in Reqs |-> IF r \in tracked' THEN 0 ELSE nextStored[r]]
          /\ curFlush' = curFlush \cup DOMAIN jobs /\ beingLoaded' = {}
          /\ UNCHANGED <<curLoads, curStores>>
      BY Zenon, <2>3 DEF ConnectorReset
    <3>2. nextStored' \in [Reqs -> Nat]
      BY <1>1, <3>1
    <3> QED  BY <1>1, <2>1, <3>1, <3>2, JobsAreIds DEF CurrentOK
  <2> QED  BY <1>9, <2>2, <2>3, ResetShape
<1>10. ASSUME PreemptForBlocks
       PROVE  CurrentOK'
  <2>1. preemptedIds' \subseteq Reqs
    <3>1. PICK v \in Range(running) : Preempt({v}, FALSE)
      BY <1>10, PreemptedForBlocks
    <3>2. {v} \in SUBSET Range(running)
      OBVIOUS
    <3> QED  BY <1>8, <3>1, <3>2
  <2>2. UNCHANGED <<nextStored, beingLoaded, curFlush, curLoads, curStores>>
    BY Zenon, <1>10 DEF PreemptForBlocks, connReqVars, jobTable, curVars
  <2> QED  BY <1>1, <2>1, <2>2 DEF CurrentOK
<1>11. ASSUME BuildMeta
       PROVE  CurrentOK'
  <2>1. /\ curFlush' = curFlush \cup PreemptedJobs
                         \cup {f[2] : f \in {f \in fences : f[1] \in curAlloc'}}
        /\ UNCHANGED <<nextStored, beingLoaded, preemptedIds, curLoads, curStores>>
    BY Zenon, <1>11 DEF BuildMeta, jobTable, batchIds
  <2>2. PreemptedJobs \subseteq DOMAIN jobs
    BY DEF PreemptedJobs, TransferJobs
  <2>3. \A f \in fences : f[2] \in DOMAIN jobs
    BY DEF Inv, FencesOK
  <2>4. {f[2] : f \in {f \in fences : f[1] \in curAlloc'}} \subseteq DOMAIN jobs
    BY <2>3
  <2>5. curFlush' \subseteq JobIds
    BY <1>1, <2>1, <2>2, <2>4, JobsAreIds
  <2> QED  BY <1>1, <2>1, <2>5 DEF CurrentOK
<1>12. ASSUME Emit
       PROVE  CurrentOK'
  <2>1. /\ preemptedIds' = {} /\ curLoads' = <<>> /\ curStores' = <<>> /\ curFlush' = {}
        /\ UNCHANGED <<nextStored, beingLoaded>>
    BY Zenon, <1>12 DEF Emit, jobTable
  <2>2. <<>> \in Seq(JobIds) /\ IsInjective(<<>>)
    BY DEF IsInjective
  <2> QED  BY <1>1, <2>1, <2>2 DEF CurrentOK
<1>13. ASSUME NEW j \in JobIds, CompleteJob(j)
       PROVE  CurrentOK'
  <2>1. /\ beingLoaded' \subseteq beingLoaded
        /\ UNCHANGED <<nextStored, preemptedIds, curFlush, curLoads, curStores>>
    <3>1. beingLoaded' = beingLoaded \/ beingLoaded' = beingLoaded \ jobs[j].keys
      BY Zenon, <1>13 DEF CompleteJob, jobTable
    <3>2. UNCHANGED <<nextStored, preemptedIds, curFlush, curLoads, curStores>>
      BY Zenon, <1>13 DEF CompleteJob, batchIds, curVars
    <3> QED  BY <3>1, <3>2
  <2> QED  BY <1>1, <2>1 DEF CurrentOK
<1> QED  BY <1>2, <1>4, <1>5, <1>6, <1>7, <1>9, <1>10, <1>11, <1>12, <1>13, Changes

-----------------------------------------------------------------------------
(***************************************************************************)
(* The steps of a worker.                                                  *)
(***************************************************************************)

\* What is left of a queue when its oldest entry is taken.
LEMMA OldestTaken ==
    ASSUME NEW T, NEW s \in Seq(T), s # <<>>, IsInjective(s)
    PROVE  /\ Head(s) \in T /\ Head(s) \in Range(s)
           /\ Tail(s) \in Seq(T) /\ IsInjective(Tail(s))
           /\ Range(Tail(s)) = Range(s) \ {Head(s)}
<1>1. /\ Len(s) \in Nat /\ Len(s) > 0 /\ DOMAIN s = 1..Len(s)
      /\ Head(s) = s[1] /\ s[1] \in T
      /\ Tail(s) \in Seq(T) /\ DOMAIN Tail(s) = 1..(Len(s) - 1)
      /\ \A i \in 1..(Len(s) - 1) : Tail(s)[i] = s[i + 1]
  OBVIOUS
<1>2. PICK n \in Nat : n = Len(s)
  BY <1>1
<1>3. PICK u : u = Tail(s)
  OBVIOUS
<1>4. /\ DOMAIN s = 1..n /\ DOMAIN u = 1..(n - 1) /\ n > 0
      /\ \A i \in 1..(n - 1) : u[i] = s[i + 1]
      /\ \A i, k \in 1..n : s[i] = s[k] => i = k
  BY <1>1, <1>2, <1>3 DEF IsInjective
<1>5. s[1] \in Range(s)
  BY <1>4 DEF Range
<1>6. IsInjective(u)
  <2>1. ASSUME NEW i \in 1..(n - 1), NEW k \in 1..(n - 1), u[i] = u[k]
        PROVE  i = k
    <3>1. i + 1 \in 1..n /\ k + 1 \in 1..n /\ s[i + 1] = s[k + 1]
      BY <1>4, <2>1
    <3>2. i + 1 = k + 1
      BY <1>4, <3>1
    <3> QED  BY <3>2
  <2> QED  BY <1>4, <2>1 DEF IsInjective
<1>7. ASSUME NEW x \in Range(u)
      PROVE  x \in Range(s) /\ x # s[1]
  <2>1. PICK i \in 1..(n - 1) : u[i] = x
    BY <1>4 DEF Range
  <2>2. i + 1 \in 1..n /\ i + 1 # 1 /\ 1 \in 1..n /\ s[i + 1] = x
    BY <1>4, <2>1
  <2>3. s[i + 1] # s[1]
    BY <1>4, <2>2
  <2> QED  BY <1>4, <2>2, <2>3 DEF Range
<1>8. ASSUME NEW x \in Range(s), x # s[1]
      PROVE  x \in Range(u)
  <2>1. PICK i \in 1..n : s[i] = x
    BY <1>4 DEF Range
  <2>2. i # 1
    BY <1>8, <2>1
  <2>3. i - 1 \in 1..(n - 1) /\ (i - 1) + 1 = i
    BY <2>2
  <2>4. u[i - 1] = x
    BY <1>4, <2>1, <2>3
  <2> QED  BY <1>4, <2>3, <2>4 DEF Range
<1>9. Range(u) = Range(s) \ {s[1]}
  BY <1>7, <1>8
<1> QED  BY <1>1, <1>3, <1>5, <1>6, <1>9

\* A worker that starts batch p submits what it put off and what it must flush.
StoresSubmitted(w, p, q) ==
    /\ p = pos[w] + 1 /\ p \in DOMAIN steps /\ phase[w] = "idle"
    /\ IsInjective(q)
    /\ Range(q) = Range(storeQ[w]) \cup Range(unsub[w])
                    \cup (Range(steps[p].stores) \cap steps[p].flush)
    /\ storeQ' = [storeQ EXCEPT ![w] = q]
    /\ unsub' = [unsub EXCEPT ![w] = <<>>]
    /\ phase' = [phase EXCEPT ![w] = "flushing"]
    /\ UNCHANGED <<steps, xfers, pos, loadQ, done, gpu, cpu>>

\* It submits the loads of batch p.
LoadsSubmitted(w, p, q) ==
    /\ p = pos[w] + 1 /\ p \in DOMAIN steps /\ phase[w] = "flushing"
    /\ IsInjective(q)
    /\ Range(q) = Range(loadQ[w]) \cup Range(steps[p].loads)
    /\ loadQ' = [loadQ EXCEPT ![w] = q]
    /\ phase' = [phase EXCEPT ![w] = "loading"]
    /\ UNCHANGED <<steps, xfers, pos, unsub, storeQ, done, gpu, cpu>>

\* It puts off the other stores of batch p.
StoresPutOff(w, p, q) ==
    /\ p = pos[w] + 1 /\ p \in DOMAIN steps /\ phase[w] = "loading"
    /\ IsInjective(q)
    /\ Range(q) = Range(steps[p].stores) \ steps[p].flush
    /\ unsub' = [unsub EXCEPT ![w] = q]
    /\ phase' = [phase EXCEPT ![w] = "ran"]
    /\ UNCHANGED <<steps, xfers, pos, storeQ, loadQ, done, cpu>>

\* The oldest store, or load, it has submitted is done.
StoreDone(w, j, q) ==
    /\ j \in Range(storeQ[w]) /\ IsInjective(q) /\ Range(q) = Range(storeQ[w]) \ {j}
    /\ storeQ' = [storeQ EXCEPT ![w] = q]
    /\ done' = [done EXCEPT ![w] = done[w] \cup {j}]
    /\ UNCHANGED <<steps, xfers, pos, phase, unsub, loadQ, gpu>>
LoadDone(w, j, q) ==
    /\ j \in Range(loadQ[w]) /\ IsInjective(q) /\ Range(q) = Range(loadQ[w]) \ {j}
    /\ loadQ' = [loadQ EXCEPT ![w] = q]
    /\ done' = [done EXCEPT ![w] = done[w] \cup {j}]
    /\ UNCHANGED <<steps, xfers, pos, phase, unsub, storeQ, cpu>>

\* What a worker at a batch knows: its place in it, and the batch's lists.
LEMMA AtBatch ==
    ASSUME Inv, NEW w \in Workers, pos[w] < Len(steps)
    PROVE  /\ pos[w] + 1 \in Nat /\ pos[w] + 1 \in DOMAIN steps
           /\ Current(w) = steps[pos[w] + 1] /\ steps[pos[w] + 1] \in Batch
           /\ steps[pos[w] + 1].loads \in Seq(JobIds) /\ IsInjective(steps[pos[w] + 1].loads)
           /\ steps[pos[w] + 1].stores \in Seq(JobIds) /\ IsInjective(steps[pos[w] + 1].stores)
<1>1. steps \in Seq(Batch) /\ pos[w] \in Nat
  BY DEF Inv, LoopsOK, WorkersOK
<1>2. PICK p \in Nat : p = pos[w] + 1
  BY <1>1
<1>3. p \in DOMAIN steps /\ steps[p] \in Batch
  BY <1>1, <1>2
<1>4. steps[p].loads \in Seq(JobIds) /\ steps[p].stores \in Seq(JobIds)
  BY <1>3 DEF Batch
<1>5. IsInjective(steps[p].loads) /\ IsInjective(steps[p].stores)
  BY <1>3 DEF Inv, WorkersOK
<1> QED  BY <1>2, <1>3, <1>4, <1>5 DEF Current

\* No two places have one code.
LEMMA PlaceCodes ==
    ASSUME NEW i \in Nat
    PROVE  /\ ToBeLoaded(i) \in Int /\ ToBeStored(i) \in Int /\ ToBeLoaded(i) # ToBeStored(i)
           /\ ToBeLoaded(i) < Nowhere /\ ToBeStored(i) < Nowhere
           /\ \A k \in Nat : /\ ToBeLoaded(i) # ToBeStored(k)
                             /\ ToBeLoaded(i) = ToBeLoaded(k) => i = k
                             /\ ToBeStored(i) = ToBeStored(k) => i = k
           /\ Done \in Int /\ InLoadQ \in Int /\ InStoreQ \in Int /\ PutOff \in Int /\ Nowhere \in Int
           /\ Nowhere < PutOff /\ PutOff < InStoreQ /\ InStoreQ < InLoadQ
           /\ InLoadQ < Done /\ Done < 0
BY DEF ToBeLoaded, ToBeStored, Done, InLoadQ, InStoreQ, PutOff, Nowhere

\* Where a job that batch p still holds for the worker is.
LEMMA HeldByBatch ==
    ASSUME Inv, NEW w \in Workers, NEW at, Placed(w, at), NEW p, p = pos[w] + 1, p \in DOMAIN steps
    PROVE  /\ p \in Nat
           /\ \A j \in Range(steps[p].loads) :
                phase[w] \in {"idle", "flushing"} => at[j] = ToBeLoaded(p)
           /\ \A j \in Range(steps[p].stores) :
                /\ phase[w] = "idle" => at[j] = ToBeStored(p)
                /\ phase[w] # "ran" => at[j] = ToBeStored(p) \/ j \in steps[p].flush
           /\ \A j \in Range(unsub[w]) : at[j] = PutOff
           /\ \A j \in Range(storeQ[w]) : at[j] = InStoreQ
           /\ \A j \in Range(loadQ[w]) : at[j] = InLoadQ
           /\ \A j \in done[w] : at[j] = Done
<1>1. pos[w] \in Nat /\ phase[w] \in {"idle", "flushing", "loading", "ran"}
  BY DEF Inv, WorkersOK
<1>2. p \in Nat /\ ~(p <= pos[w])
  BY <1>1
<1>3. /\ ~LoadsTaken(w, p) => \A j \in Range(steps[p].loads) : at[j] = ToBeLoaded(p)
      /\ ~StoresTaken(w, p) => \A j \in Range(steps[p].stores) :
            at[j] = ToBeStored(p) \/ (FlushesTaken(w, p) /\ j \in steps[p].flush)
  BY DEF Placed, InBatches
<1>4. /\ LoadsTaken(w, p) <=> phase[w] \in {"loading", "ran"}
      /\ FlushesTaken(w, p) <=> phase[w] # "idle"
      /\ StoresTaken(w, p) <=> phase[w] = "ran"
  BY <1>1, <1>2 DEF LoadsTaken, FlushesTaken, StoresTaken
<1>5. /\ \A j \in Range(unsub[w]) : at[j] = PutOff
      /\ \A j \in Range(storeQ[w]) : at[j] = InStoreQ
      /\ \A j \in Range(loadQ[w]) : at[j] = InLoadQ
      /\ \A j \in done[w] : at[j] = Done
  BY DEF Placed, OnWorker
<1> QED  BY <1>1, <1>2, <1>3, <1>4, <1>5

\* Where the worker's queues are, they are lists of jobs, none twice.
LEMMA WorkerQueues ==
    ASSUME Inv, NEW w \in Workers
    PROVE  /\ unsub[w] \in Seq(JobIds) /\ IsInjective(unsub[w])
           /\ storeQ[w] \in Seq(JobIds) /\ IsInjective(storeQ[w])
           /\ loadQ[w] \in Seq(JobIds) /\ IsInjective(loadQ[w])
           /\ done[w] \in SUBSET JobIds
           /\ \E at : Placed(w, at)
BY DEF Inv, WorkersOK, PlacesOK

\* What a worker does when it submits the stores put off and those it must flush.
LEMMA SubmittedStores ==
    ASSUME Inv, NEW w \in Workers, SubmitStores(w)
    PROVE  \E p \in Nat, q \in Seq(JobIds) : StoresSubmitted(w, p, q)
<1>1. /\ phase[w] = "idle" /\ pos[w] < Len(steps)
      /\ storeQ' = [storeQ EXCEPT ![w] = @ \o unsub[w] \o Within(Current(w).stores, Current(w).flush)]
      /\ unsub' = [unsub EXCEPT ![w] = <<>>]
      /\ phase' = [phase EXCEPT ![w] = "flushing"]
      /\ UNCHANGED <<steps, xfers, pos, loadQ, done, gpu, cpu>>
  BY Zenon DEF SubmitStores
<1>2. PICK p : p = pos[w] + 1
  OBVIOUS
<1>3. /\ p \in Nat /\ p \in DOMAIN steps /\ Current(w) = steps[p]
      /\ steps[p].stores \in Seq(JobIds) /\ IsInjective(steps[p].stores)
  BY <1>1, <1>2, AtBatch
<1>4. PICK a, b, s, f : a = storeQ[w] /\ b = unsub[w] /\ s = steps[p].stores /\ f = steps[p].flush
  OBVIOUS
<1>5. PICK c : c = Within(s, f)
  OBVIOUS
<1>6. PICK at : Placed(w, at)
  BY WorkerQueues
<1>7. /\ \A j \in Range(s) : at[j] = ToBeStored(p)
      /\ \A j \in Range(b) : at[j] = PutOff
      /\ \A j \in Range(a) : at[j] = InStoreQ
  BY <1>1, <1>2, <1>3, <1>4, <1>6, HeldByBatch
<1>8. PutOff # InStoreQ /\ ToBeStored(p) # PutOff /\ ToBeStored(p) # InStoreQ
  BY <1>3, PlaceCodes
<1>9. a \in Seq(JobIds) /\ IsInjective(a) /\ b \in Seq(JobIds) /\ IsInjective(b)
  BY <1>4, WorkerQueues
<1>10. s \in Seq(JobIds) /\ IsInjective(s)
  BY <1>3, <1>4
<1>11. c \in Seq(JobIds) /\ Range(c) = Range(s) \cap f /\ IsInjective(c)
  BY ONLY <1>5, <1>10, WithinKeys
<1>12. Range(a) \cap Range(b) = {}
  BY <1>7, <1>8
<1>13. PICK ab : ab = a \o b
  OBVIOUS
<1>14. ab \in Seq(JobIds) /\ IsInjective(ab) /\ Range(ab) = Range(a) \cup Range(b)
  BY ONLY <1>9, <1>12, <1>13, JoinedKeys
<1>15. Range(ab) \cap Range(c) = {}
  BY <1>7, <1>8, <1>11, <1>14
<1>16. PICK q : q = ab \o c
  OBVIOUS
<1>17. q \in Seq(JobIds) /\ IsInjective(q) /\ Range(q) = Range(ab) \cup Range(c)
  BY ONLY <1>11, <1>14, <1>15, <1>16, JoinedKeys
<1>18. storeQ' = [storeQ EXCEPT ![w] = q]
  <2>1. storeQ' = [storeQ EXCEPT ![w] = a \o b \o c]
    BY ONLY Zenon, <1>1, <1>3, <1>4, <1>5
  <2> QED  BY Zenon, <2>1, <1>13, <1>16
<1>19. Range(q) = Range(storeQ[w]) \cup Range(unsub[w]) \cup (Range(steps[p].stores) \cap steps[p].flush)
  BY <1>4, <1>11, <1>14, <1>17
<1>20. StoresSubmitted(w, p, q)
  BY <1>1, <1>2, <1>3, <1>17, <1>18, <1>19 DEF StoresSubmitted
<1> QED  BY <1>3, <1>17, <1>20

\* What a worker does when it submits the loads of its batch.
LEMMA SubmittedLoads ==
    ASSUME Inv, NEW w \in Workers, SubmitLoads(w)
    PROVE  \E p \in Nat, q \in Seq(JobIds) : LoadsSubmitted(w, p, q)
<1>1. /\ phase[w] = "flushing"
      /\ loadQ' = [loadQ EXCEPT ![w] = @ \o Current(w).loads]
      /\ phase' = [phase EXCEPT ![w] = "loading"]
      /\ UNCHANGED <<steps, xfers, pos, unsub, storeQ, done, gpu, cpu>>
  BY Zenon DEF SubmitLoads
<1>2. pos[w] < Len(steps)
  BY <1>1 DEF Inv, WorkersOK
<1>3. PICK p : p = pos[w] + 1
  OBVIOUS
<1>4. /\ p \in Nat /\ p \in DOMAIN steps /\ Current(w) = steps[p]
      /\ steps[p].loads \in Seq(JobIds) /\ IsInjective(steps[p].loads)
  BY <1>2, <1>3, AtBatch
<1>5. PICK a, s : a = loadQ[w] /\ s = steps[p].loads
  OBVIOUS
<1>6. PICK at : Placed(w, at)
  BY WorkerQueues
<1>7. (\A j \in Range(s) : at[j] = ToBeLoaded(p)) /\ \A j \in Range(a) : at[j] = InLoadQ
  BY <1>1, <1>3, <1>4, <1>5, <1>6, HeldByBatch
<1>8. ToBeLoaded(p) # InLoadQ
  BY <1>4, PlaceCodes
<1>9. a \in Seq(JobIds) /\ IsInjective(a)
  BY <1>5, WorkerQueues
<1>10. s \in Seq(JobIds) /\ IsInjective(s)
  BY <1>4, <1>5
<1>11. Range(a) \cap Range(s) = {}
  BY <1>7, <1>8
<1>12. PICK q : q = a \o s
  OBVIOUS
<1>13. q \in Seq(JobIds) /\ IsInjective(q) /\ Range(q) = Range(a) \cup Range(s)
  BY ONLY <1>9, <1>10, <1>11, <1>12, JoinedKeys
<1>14. loadQ' = [loadQ EXCEPT ![w] = q]
  BY ONLY Zenon, <1>1, <1>4, <1>5, <1>12
<1>15. LoadsSubmitted(w, p, q)
  BY <1>1, <1>3, <1>4, <1>5, <1>13, <1>14 DEF LoadsSubmitted
<1> QED  BY <1>4, <1>13, <1>15

\* What a worker does when it runs the model: the stores of the batch are put off.
LEMMA RanModel ==
    ASSUME Inv, NEW w \in Workers, RunModel(w)
    PROVE  \E p \in Nat, q \in Seq(JobIds) : StoresPutOff(w, p, q)
<1>1. /\ phase[w] = "loading"
      /\ unsub' = [unsub EXCEPT ![w] = Without(Current(w).stores, Current(w).flush)]
      /\ phase' = [phase EXCEPT ![w] = "ran"]
      /\ UNCHANGED <<steps, xfers, pos, storeQ, loadQ, done, cpu>>
  BY Zenon DEF RunModel
<1>2. pos[w] < Len(steps)
  BY <1>1 DEF Inv, WorkersOK
<1>3. PICK p : p = pos[w] + 1
  OBVIOUS
<1>4. /\ p \in Nat /\ p \in DOMAIN steps /\ Current(w) = steps[p]
      /\ steps[p].stores \in Seq(JobIds) /\ IsInjective(steps[p].stores)
  BY <1>2, <1>3, AtBatch
<1>5. PICK s, f : s = steps[p].stores /\ f = steps[p].flush
  OBVIOUS
<1>6. PICK q : q = Without(s, f)
  OBVIOUS
<1>7. s \in Seq(JobIds) /\ IsInjective(s)
  BY <1>4, <1>5
<1>8. q \in Seq(JobIds) /\ IsInjective(q) /\ Range(q) = Range(s) \ f
  BY ONLY <1>6, <1>7, WithoutKeys
<1>9. unsub' = [unsub EXCEPT ![w] = q]
  BY ONLY Zenon, <1>1, <1>4, <1>5, <1>6
<1>10. StoresPutOff(w, p, q)
  BY <1>1, <1>3, <1>4, <1>5, <1>8, <1>9 DEF StoresPutOff
<1> QED  BY <1>4, <1>8, <1>10

\* What a worker does when it performs the first job of one of its queues.
LEMMA DoneTransfers ==
    ASSUME Inv, NEW w \in Workers
    PROVE  /\ StoreTransfer(w) => \E j \in JobIds, q \in Seq(JobIds) : StoreDone(w, j, q)
           /\ LoadTransfer(w) => \E j \in JobIds, q \in Seq(JobIds) : LoadDone(w, j, q)
<1>1. ASSUME StoreTransfer(w)
      PROVE  \E j \in JobIds, q \in Seq(JobIds) : StoreDone(w, j, q)
  <2>1. /\ storeQ[w] # <<>>
        /\ done' = [done EXCEPT ![w] = done[w] \cup {Head(storeQ[w])}]
        /\ storeQ' = [storeQ EXCEPT ![w] = Tail(storeQ[w])]
        /\ UNCHANGED <<steps, xfers, pos, phase, unsub, loadQ, gpu>>
    BY Zenon, <1>1 DEF StoreTransfer
  <2>2. PICK s : s = storeQ[w]
    OBVIOUS
  <2>3. s \in Seq(JobIds) /\ IsInjective(s) /\ s # <<>>
    BY <2>1, <2>2, WorkerQueues
  <2>4. PICK j, q : j = Head(s) /\ q = Tail(s)
    OBVIOUS
  <2>5. j \in JobIds /\ j \in Range(s) /\ q \in Seq(JobIds) /\ IsInjective(q) /\ Range(q) = Range(s) \ {j}
    BY ONLY <2>3, <2>4, OldestTaken
  <2>6. StoreDone(w, j, q)
    BY <2>1, <2>2, <2>4, <2>5 DEF StoreDone
  <2> QED  BY <2>5, <2>6
<1>2. ASSUME LoadTransfer(w)
      PROVE  \E j \in JobIds, q \in Seq(JobIds) : LoadDone(w, j, q)
  <2>1. /\ loadQ[w] # <<>>
        /\ done' = [done EXCEPT ![w] = done[w] \cup {Head(loadQ[w])}]
        /\ loadQ' = [loadQ EXCEPT ![w] = Tail(loadQ[w])]
        /\ UNCHANGED <<steps, xfers, pos, phase, unsub, storeQ, cpu>>
    BY Zenon, <1>2 DEF LoadTransfer
  <2>2. PICK s : s = loadQ[w]
    OBVIOUS
  <2>3. s \in Seq(JobIds) /\ IsInjective(s) /\ s # <<>>
    BY <2>1, <2>2, WorkerQueues
  <2>4. PICK j, q : j = Head(s) /\ q = Tail(s)
    OBVIOUS
  <2>5. j \in JobIds /\ j \in Range(s) /\ q \in Seq(JobIds) /\ IsInjective(q) /\ Range(q) = Range(s) \ {j}
    BY ONLY <2>3, <2>4, OldestTaken
  <2>6. LoadDone(w, j, q)
    BY <2>1, <2>2, <2>4, <2>5 DEF LoadDone
  <2> QED  BY <2>5, <2>6
<1> QED  BY <1>1, <1>2

\* Every worker stays within the batches in flight, and its queues name each job
\* once.
LEMMA QueuesStep ==
    ASSUME Inv, [Next]_vars
    PROVE  WorkersOK'
<1>0. WorkersOK /\ steps \in Seq(Batch) /\ Len(steps) \in Nat /\ DOMAIN steps = 1..Len(steps)
  BY DEF Inv, LoopsOK
<1>1. /\ pos \in [Workers -> Nat]
      /\ phase \in [Workers -> {"idle", "flushing", "loading", "ran"}]
      /\ \A w \in Workers : pos[w] <= Len(steps) /\ (phase[w] # "idle" => pos[w] < Len(steps))
      /\ unsub \in [Workers -> Seq(JobIds)] /\ storeQ \in [Workers -> Seq(JobIds)]
      /\ loadQ \in [Workers -> Seq(JobIds)] /\ done \in [Workers -> SUBSET JobIds]
      /\ \A w \in Workers : IsInjective(unsub[w]) /\ IsInjective(storeQ[w]) /\ IsInjective(loadQ[w])
      /\ \A i \in DOMAIN steps : IsInjective(steps[i].loads) /\ IsInjective(steps[i].stores)
  BY <1>0 DEF WorkersOK
<1>2. CASE UNCHANGED <<steps, pos, phase, unsub, storeQ, loadQ, done, gpu, cpu>>
  BY <1>0, <1>2 DEF WorkersOK
<1>3. CASE Emit
  <2>1. PICK b \in Batch : steps' = Append(steps, b) /\ b.loads = curLoads /\ b.stores = curStores
    BY <1>3, EmittedBatch
  <2>2. IsInjective(b.loads) /\ IsInjective(b.stores)
    BY <2>1 DEF Inv, CurrentOK
  <2>3. /\ Len(steps') = Len(steps) + 1 /\ DOMAIN steps' = 1..(Len(steps) + 1)
        /\ \A i \in 1..Len(steps) : steps'[i] = steps[i]
        /\ steps'[Len(steps) + 1] = b
    BY <1>0, <2>1
  <2>4. \A i \in DOMAIN steps' : IsInjective(steps'[i].loads) /\ IsInjective(steps'[i].stores)
    BY <1>0, <1>1, <2>2, <2>3
  <2>5. UNCHANGED <<pos, phase, unsub, storeQ, loadQ, done>>
    BY Zenon, <1>3 DEF Emit, workerVars
  <2>6. \A w \in Workers : pos'[w] <= Len(steps') /\ (phase'[w] # "idle" => pos'[w] < Len(steps'))
    BY <1>0, <1>1, <2>3, <2>5
  <2> QED  BY <1>1, <2>4, <2>5, <2>6 DEF WorkersOK
<1>4. CASE BeginOutput
  <2>1. /\ Len(steps) > 0 /\ Len(steps') = Len(steps) - 1 /\ DOMAIN steps' = 1..(Len(steps) - 1)
        /\ \A i \in 1..(Len(steps) - 1) : steps'[i] = steps[i + 1]
        /\ \A w \in Workers : pos[w] > 0 /\ pos'[w] = pos[w] - 1
    BY <1>4, TakenBatch
  <2>2. /\ pos' = [w \in Workers |-> pos[w] - 1]
        /\ UNCHANGED <<phase, unsub, storeQ, loadQ, done>>
    BY Zenon, <1>4 DEF BeginOutput
  <2>3. \A i \in DOMAIN steps' : i + 1 \in DOMAIN steps /\ steps'[i] = steps[i + 1]
    BY <1>0, <2>1
  <2>4. \A i \in DOMAIN steps' : IsInjective(steps'[i].loads) /\ IsInjective(steps'[i].stores)
    BY <1>1, <2>3
  <2>5. pos' \in [Workers -> Nat]
    BY <1>1, <2>1, <2>2
  <2>6. \A w \in Workers : pos'[w] <= Len(steps') /\ (phase'[w] # "idle" => pos'[w] < Len(steps'))
    BY <1>0, <1>1, <2>1, <2>2
  <2> QED  BY <1>1, <2>2, <2>4, <2>5, <2>6 DEF WorkersOK
<1>5. ASSUME NEW w \in Workers, WorkerStep(w)
      PROVE  WorkersOK'
  <2>1. CASE SubmitStores(w)
    <3>1. PICK p \in Nat, q \in Seq(JobIds) : StoresSubmitted(w, p, q)
      BY <2>1, SubmittedStores
    <3>2. /\ p = pos[w] + 1 /\ p \in DOMAIN steps /\ IsInjective(q)
          /\ storeQ' = [storeQ EXCEPT ![w] = q] /\ unsub' = [unsub EXCEPT ![w] = <<>>]
          /\ phase' = [phase EXCEPT ![w] = "flushing"]
          /\ UNCHANGED <<steps, pos, loadQ, done>>
      BY <3>1 DEF StoresSubmitted
    <3>3. <<>> \in Seq(JobIds) /\ IsInjective(<<>>)
      BY DEF IsInjective
    <3>4. pos[w] < Len(steps)
      BY <1>0, <1>1, <3>2
    <3>5. /\ storeQ' \in [Workers -> Seq(JobIds)] /\ \A v \in Workers : IsInjective(storeQ'[v])
      BY <1>1, <3>2
    <3>6. /\ unsub' \in [Workers -> Seq(JobIds)] /\ \A v \in Workers : IsInjective(unsub'[v])
      BY <1>1, <3>2, <3>3
    <3>7. /\ phase' \in [Workers -> {"idle", "flushing", "loading", "ran"}]
          /\ \A v \in Workers : pos'[v] <= Len(steps') /\ (phase'[v] # "idle" => pos'[v] < Len(steps'))
      BY <1>1, <3>2, <3>4
    <3> QED  BY <1>1, <3>2, <3>5, <3>6, <3>7 DEF WorkersOK
  <2>2. CASE SubmitLoads(w)
    <3>1. PICK p \in Nat, q \in Seq(JobIds) : LoadsSubmitted(w, p, q)
      BY <2>2, SubmittedLoads
    <3>2. /\ p = pos[w] + 1 /\ p \in DOMAIN steps /\ IsInjective(q)
          /\ loadQ' = [loadQ EXCEPT ![w] = q] /\ phase' = [phase EXCEPT ![w] = "loading"]
          /\ UNCHANGED <<steps, pos, unsub, storeQ, done>>
      BY <3>1 DEF LoadsSubmitted
    <3>3. pos[w] < Len(steps)
      BY <1>0, <1>1, <3>2
    <3>4. loadQ' \in [Workers -> Seq(JobIds)] /\ \A v \in Workers : IsInjective(loadQ'[v])
      BY <1>1, <3>2
    <3>5. /\ phase' \in [Workers -> {"idle", "flushing", "loading", "ran"}]
          /\ \A v \in Workers : pos'[v] <= Len(steps') /\ (phase'[v] # "idle" => pos'[v] < Len(steps'))
      BY <1>1, <3>2, <3>3
    <3> QED  BY <1>1, <3>2, <3>4, <3>5 DEF WorkersOK
  <2>3. CASE RunModel(w)
    <3>1. PICK p \in Nat, q \in Seq(JobIds) : StoresPutOff(w, p, q)
      BY <2>3, RanModel
    <3>2. /\ p = pos[w] + 1 /\ p \in DOMAIN steps /\ IsInjective(q)
          /\ unsub' = [unsub EXCEPT ![w] = q] /\ phase' = [phase EXCEPT ![w] = "ran"]
          /\ UNCHANGED <<steps, pos, storeQ, loadQ, done>>
      BY <3>1 DEF StoresPutOff
    <3>3. pos[w] < Len(steps)
      BY <1>0, <1>1, <3>2
    <3>4. unsub' \in [Workers -> Seq(JobIds)] /\ \A v \in Workers : IsInjective(unsub'[v])
      BY <1>1, <3>2
    <3>5. /\ phase' \in [Workers -> {"idle", "flushing", "loading", "ran"}]
          /\ \A v \in Workers : pos'[v] <= Len(steps') /\ (phase'[v] # "idle" => pos'[v] < Len(steps'))
      BY <1>1, <3>2, <3>3
    <3> QED  BY <1>1, <3>2, <3>4, <3>5 DEF WorkersOK
  <2>4. CASE Report(w)
    <3>1. /\ Len(steps') = Len(steps) /\ DOMAIN steps' = DOMAIN steps /\ pos[w] + 1 \in DOMAIN steps
          /\ \A i \in DOMAIN steps : steps'[i].loads = steps[i].loads /\ steps'[i].stores = steps[i].stores
      BY <2>4, ReportedBatch
    <3>2. /\ done' = [done EXCEPT ![w] = {}] /\ pos' = [pos EXCEPT ![w] = @ + 1]
          /\ phase' = [phase EXCEPT ![w] = "idle"]
          /\ UNCHANGED <<unsub, storeQ, loadQ>>
      BY Zenon, <2>4 DEF Report
    <3>3. pos[w] < Len(steps)
      BY <1>0, <1>1, <3>1
    <3>4. pos' \in [Workers -> Nat] /\ phase' \in [Workers -> {"idle", "flushing", "loading", "ran"}]
      BY <1>1, <3>2
    <3>5. \A v \in Workers : pos'[v] <= Len(steps') /\ (phase'[v] # "idle" => pos'[v] < Len(steps'))
      BY <1>0, <1>1, <3>1, <3>2, <3>3
    <3>6. done' \in [Workers -> SUBSET JobIds]
      BY <1>1, <3>2
    <3>7. \A i \in DOMAIN steps' : IsInjective(steps'[i].loads) /\ IsInjective(steps'[i].stores)
      BY <1>1, <3>1
    <3> QED  BY <1>1, <3>2, <3>4, <3>5, <3>6, <3>7 DEF WorkersOK
  <2>5. CASE StoreTransfer(w)
    <3>1. PICK j \in JobIds, q \in Seq(JobIds) : StoreDone(w, j, q)
      BY <2>5, DoneTransfers
    <3>2. /\ IsInjective(q) /\ storeQ' = [storeQ EXCEPT ![w] = q]
          /\ done' = [done EXCEPT ![w] = done[w] \cup {j}]
          /\ UNCHANGED <<steps, pos, phase, unsub, loadQ>>
      BY <3>1 DEF StoreDone
    <3>3. storeQ' \in [Workers -> Seq(JobIds)] /\ \A v \in Workers : IsInjective(storeQ'[v])
      BY <1>1, <3>2
    <3>4. done' \in [Workers -> SUBSET JobIds]
      BY <1>1, <3>2
    <3> QED  BY <1>1, <3>2, <3>3, <3>4 DEF WorkersOK
  <2>6. CASE LoadTransfer(w)
    <3>1. PICK j \in JobIds, q \in Seq(JobIds) : LoadDone(w, j, q)
      BY <2>6, DoneTransfers
    <3>2. /\ IsInjective(q) /\ loadQ' = [loadQ EXCEPT ![w] = q]
          /\ done' = [done EXCEPT ![w] = done[w] \cup {j}]
          /\ UNCHANGED <<steps, pos, phase, unsub, storeQ>>
      BY <3>1 DEF LoadDone
    <3>3. loadQ' \in [Workers -> Seq(JobIds)] /\ \A v \in Workers : IsInjective(loadQ'[v])
      BY <1>1, <3>2
    <3>4. done' \in [Workers -> SUBSET JobIds]
      BY <1>1, <3>2
    <3> QED  BY <1>1, <3>2, <3>3, <3>4 DEF WorkersOK
  <2> QED  BY <1>5, <2>1, <2>2, <2>3, <2>4, <2>5, <2>6 DEF WorkerStep
<1>6. CASE WorkersStep
  BY <1>5, <1>6 DEF WorkersStep
<1> QED  BY <1>2, <1>3, <1>4, <1>6, Changes

-----------------------------------------------------------------------------
(***************************************************************************)
(* Where the jobs are.                                                     *)
(***************************************************************************)

\* Whatever names a job names a job id.
LEMMA NamedJobs ==
    ASSUME Inv, NEW w \in Workers
    PROVE  /\ Range(unsub[w]) \subseteq JobIds /\ Range(storeQ[w]) \subseteq JobIds
           /\ Range(loadQ[w]) \subseteq JobIds /\ done[w] \subseteq JobIds
           /\ Range(curLoads) \subseteq JobIds /\ Range(curStores) \subseteq JobIds
           /\ \A i \in DOMAIN steps : /\ i \in Nat /\ i >= 1 /\ i <= Len(steps) /\ Len(steps) \in Nat
                                      /\ steps[i].reports[w] \subseteq JobIds
                                      /\ Range(steps[i].loads) \subseteq JobIds
                                      /\ Range(steps[i].stores) \subseteq JobIds
           /\ \A s \in out : s.reports[w] \subseteq JobIds
<1>1. /\ Range(unsub[w]) \subseteq JobIds /\ Range(storeQ[w]) \subseteq JobIds
      /\ Range(loadQ[w]) \subseteq JobIds /\ done[w] \subseteq JobIds
  <2>1. /\ unsub[w] \in Seq(JobIds) /\ storeQ[w] \in Seq(JobIds) /\ loadQ[w] \in Seq(JobIds)
        /\ done[w] \subseteq JobIds
    BY WorkerQueues
  <2> QED  BY <2>1, ListPositions
<1>2. Range(curLoads) \subseteq JobIds /\ Range(curStores) \subseteq JobIds
  <2>1. curLoads \in Seq(JobIds) /\ curStores \in Seq(JobIds)
    BY DEF Inv, CurrentOK
  <2> QED  BY <2>1, ListPositions
<1>3. steps \in Seq(Batch) /\ out \subseteq Batch
  BY DEF Inv, LoopsOK
<1>4. ASSUME NEW i \in DOMAIN steps
      PROVE  /\ i \in Nat /\ i >= 1 /\ i <= Len(steps) /\ Len(steps) \in Nat
             /\ steps[i].reports[w] \subseteq JobIds
             /\ Range(steps[i].loads) \subseteq JobIds
             /\ Range(steps[i].stores) \subseteq JobIds
  <2>1. /\ i \in Nat /\ i >= 1 /\ i <= Len(steps) /\ Len(steps) \in Nat /\ steps[i] \in Batch
    BY <1>3, ListPositions
  <2>2. /\ steps[i].reports[w] \subseteq JobIds
        /\ steps[i].loads \in Seq(JobIds) /\ steps[i].stores \in Seq(JobIds)
    BY <2>1 DEF Batch
  <2> QED  BY <2>1, <2>2, ListPositions
<1>5. \A s \in out : s.reports[w] \subseteq JobIds
  BY <1>3 DEF Batch
<1> QED  BY <1>1, <1>2, <1>4, <1>5

\* A job keeps its place where no list, batch or report changes.
LEMMA PlacesKept ==
    ASSUME Inv,
           UNCHANGED <<steps, pos, phase, unsub, storeQ, loadQ, done, curLoads, curStores>>,
           \A j \in DOMAIN xfers : j \in DOMAIN xfers' /\ xfers'[j].left = xfers[j].left,
           \/ out' = {}
           \/ out' = out /\ (pc = "output" \/ (pc' = pc /\ todo' = todo))
    PROVE  PlacesOK'
<1> SUFFICES ASSUME NEW w \in Workers PROVE \E at : Placed(w, at)'
  BY DEF PlacesOK
<1>1. PICK at : Placed(w, at)
  BY WorkerQueues
<1>2. Expected(w, at)'
  BY <1>1 DEF Placed, Expected
<1>3. OnWorker(w, at)'
  BY <1>1 DEF Placed, OnWorker
<1>4. InBatches(w, at)'
  BY <1>1 DEF Placed, InBatches, LoadsTaken, StoresTaken, FlushesTaken
<1>5. InCurrent(at)'
  BY <1>1 DEF Placed, InCurrent
<1>6. InOutput(w, at)'
  BY <1>1 DEF Placed, InOutput
<1>7. at \in [JobIds -> Int]
  BY <1>1 DEF Placed
<1>8. Placed(w, at)'
  BY <1>2, <1>3, <1>4, <1>5, <1>6, <1>7 DEF Placed
<1> QED  BY <1>8

\* A new load, and a new store, take a job from nowhere into the batch being built.
LEMMA LoadPlaced ==
    ASSUME Inv, NEW r \in Reqs, AdmitLoad(r)
    PROVE  PlacesOK'
<1>1. PICK n, m \in Nat, j \in JobIds, hit, new \in Seq(Blocks), keys \in SUBSET Keys,
           x \in Xfer, b \in Job : LoadAdmitted(r, n, m, j, hit, new, keys, x, b)
  BY AdmittedLoad
<1>2. /\ j \notin DOMAIN xfers /\ \A i \in DOMAIN steps : j \notin steps[i].flush
      /\ x.left = Workers /\ xfers' = With(xfers, j, x) /\ curLoads' = Append(curLoads, j)
      /\ pc = "waiting"
  BY <1>1 DEF LoadAdmitted, CanTry
<1>3. UNCHANGED <<steps, pos, phase, unsub, storeQ, loadQ, done, curStores, out, pc>>
  BY Zenon DEF AdmitLoad, workerVars
<1>4. out = {}
  BY <1>2 DEF Inv, LoopsOK, Receiving
<1> SUFFICES ASSUME NEW w \in Workers PROVE \E at : Placed(w, at)'
  BY DEF PlacesOK
<1>5. PICK at : Placed(w, at)
  BY WorkerQueues
<1>6. PICK n1 \in Nat : n1 = Len(steps) + 1
  BY DEF Inv, LoopsOK
<1>7. PICK a2 : a2 = [k \in JobIds |-> IF k = j THEN ToBeLoaded(n1) ELSE at[k]]
  OBVIOUS
<1>8. /\ at \in [JobIds -> Int] /\ Expected(w, at) /\ OnWorker(w, at) /\ InBatches(w, at)
      /\ InCurrent(at)
  BY <1>5 DEF Placed
<1>9. at[j] = Nowhere
  BY <1>2, <1>8 DEF Expected
<1>10. a2 \in [JobIds -> Int] /\ \A k \in JobIds : k # j => a2[k] = at[k]
  BY <1>6, <1>7, <1>8, PlaceCodes
<1>11. Expected(w, a2)'
  <2>1. /\ DOMAIN xfers' = DOMAIN xfers \cup {j} /\ xfers'[j] = x
        /\ \A k \in DOMAIN xfers : k # j => xfers'[k] = xfers[k]
    BY ONLY <1>2 DEF With
  <2> QED  BY <1>2, <1>8, <1>10, <2>1 DEF Expected
<1>12. OnWorker(w, a2)'
  <2>1. Nowhere # PutOff /\ Nowhere # InStoreQ /\ Nowhere # InLoadQ /\ Nowhere # Done
    BY PlaceCodes
  <2> QED  BY <1>3, <1>8, <1>9, <1>10, <2>1, NamedJobs DEF OnWorker
<1>13. InBatches(w, a2)'
  <2>1. \A i \in DOMAIN steps : /\ i # Nowhere /\ ToBeLoaded(i) # Nowhere /\ ToBeStored(i) # Nowhere
    <3>1. \A i \in DOMAIN steps : i \in Nat
      BY NamedJobs
    <3>2. \A i \in Nat : i # Nowhere /\ ToBeLoaded(i) # Nowhere /\ ToBeStored(i) # Nowhere
      BY PlaceCodes
    <3> QED  BY ONLY <3>1, <3>2
  <2>2. \A i : /\ LoadsTaken(w, i)' <=> LoadsTaken(w, i)
               /\ FlushesTaken(w, i)' <=> FlushesTaken(w, i)
               /\ StoresTaken(w, i)' <=> StoresTaken(w, i)
    BY <1>3 DEF LoadsTaken, FlushesTaken, StoresTaken
  <2> QED  BY <1>3, <1>8, <1>9, <1>10, <2>1, <2>2, NamedJobs DEF InBatches
<1>14. InCurrent(a2)'
  <2>1. ToBeStored(n1) # Nowhere /\ ToBeLoaded(n1) # Nowhere
    BY <1>6, PlaceCodes
  <2>2. j \notin Range(curLoads) /\ curLoads \in Seq(JobIds) /\ IsInjective(curLoads)
    BY <1>2, NamedInCurrent DEF Inv, CurrentOK
  <2>3. Range(Append(curLoads, j)) = Range(curLoads) \cup {j}
    BY ONLY <2>2, j \in JobIds, AddedKey
  <2>4. Range(curLoads') = Range(curLoads) \cup {j} /\ curStores' = curStores /\ Len(steps') + 1 = n1
    BY <1>2, <1>3, <1>6, <2>3
  <2>5. /\ \A k \in Range(curLoads) : k \in JobIds /\ at[k] = ToBeLoaded(n1)
        /\ \A k \in Range(curStores) : k \in JobIds /\ at[k] = ToBeStored(n1)
    BY <1>6, <1>8, NamedJobs DEF InCurrent
  <2>6. a2[j] = ToBeLoaded(n1)
    BY <1>7
  <2> QED  BY <1>9, <1>10, <2>1, <2>4, <2>5, <2>6 DEF InCurrent
<1>15. InOutput(w, a2)'
  BY <1>3, <1>4 DEF InOutput
<1>16. Placed(w, a2)'
  BY <1>10, <1>11, <1>12, <1>13, <1>14, <1>15 DEF Placed
<1> QED  BY <1>16

\* A new store is on no worker yet: its place is the batch being built.
LEMMA StorePlaced ==
    ASSUME Inv, NEW r \in Reqs, Store(r)
    PROVE  PlacesOK'
<1>1. PICK new \in Seq(Keys), j \in JobIds, src \in SUBSET Blocks, b \in Job :
           \E copies, x : StoreMade(r, new, j, src, copies, x, b)
  BY MadeStore
<1>2. PICK copies, x : StoreMade(r, new, j, src, copies, x, b)
  BY <1>1
<1>3. /\ j \notin DOMAIN xfers /\ \A i \in DOMAIN steps : j \notin steps[i].flush
      /\ x.left = Workers /\ xfers' = With(xfers, j, x) /\ curStores' = Append(curStores, j)
      /\ pc = "stores"
  BY <1>2 DEF StoreMade, StoreTurn
<1>4. UNCHANGED <<steps, pos, phase, unsub, storeQ, loadQ, done, curLoads, out, pc>>
  BY Zenon DEF Store, KeepForStores, workerVars
<1>5. out = {}
  BY <1>3 DEF Inv, LoopsOK, Receiving
<1> SUFFICES ASSUME NEW w \in Workers PROVE \E at : Placed(w, at)'
  BY DEF PlacesOK
<1>6. PICK at : Placed(w, at)
  BY WorkerQueues
<1>7. PICK n1 \in Nat : n1 = Len(steps) + 1
  BY DEF Inv, LoopsOK
<1>8. PICK a2 : a2 = [k \in JobIds |-> IF k = j THEN ToBeStored(n1) ELSE at[k]]
  OBVIOUS
<1>9. /\ at \in [JobIds -> Int] /\ Expected(w, at) /\ OnWorker(w, at) /\ InBatches(w, at)
      /\ InCurrent(at)
  BY <1>6 DEF Placed
<1>10. at[j] = Nowhere
  BY <1>3, <1>9 DEF Expected
<1>11. a2 \in [JobIds -> Int] /\ \A k \in JobIds : k # j => a2[k] = at[k]
  BY <1>7, <1>8, <1>9, PlaceCodes
<1>12. Expected(w, a2)'
  <2>1. /\ DOMAIN xfers' = DOMAIN xfers \cup {j} /\ xfers'[j] = x
        /\ \A k \in DOMAIN xfers : k # j => xfers'[k] = xfers[k]
    BY ONLY <1>3 DEF With
  <2> QED  BY <1>3, <1>9, <1>11, <2>1 DEF Expected
<1>13. OnWorker(w, a2)'
  <2>1. Nowhere # PutOff /\ Nowhere # InStoreQ /\ Nowhere # InLoadQ /\ Nowhere # Done
    BY PlaceCodes
  <2> QED  BY <1>4, <1>9, <1>10, <1>11, <2>1, NamedJobs DEF OnWorker
<1>14. InBatches(w, a2)'
  <2>1. \A i \in DOMAIN steps : /\ i # Nowhere /\ ToBeLoaded(i) # Nowhere /\ ToBeStored(i) # Nowhere
    <3>1. \A i \in DOMAIN steps : i \in Nat
      BY NamedJobs
    <3>2. \A i \in Nat : i # Nowhere /\ ToBeLoaded(i) # Nowhere /\ ToBeStored(i) # Nowhere
      BY PlaceCodes
    <3> QED  BY ONLY <3>1, <3>2
  <2>2. \A i : /\ LoadsTaken(w, i)' <=> LoadsTaken(w, i)
               /\ FlushesTaken(w, i)' <=> FlushesTaken(w, i)
               /\ StoresTaken(w, i)' <=> StoresTaken(w, i)
    BY <1>4 DEF LoadsTaken, FlushesTaken, StoresTaken
  <2> QED  BY <1>4, <1>9, <1>10, <1>11, <2>1, <2>2, NamedJobs DEF InBatches
<1>15. InCurrent(a2)'
  <2>1. ToBeStored(n1) # Nowhere /\ ToBeLoaded(n1) # Nowhere
    BY <1>7, PlaceCodes
  <2>2. j \notin Range(curStores) /\ curStores \in Seq(JobIds) /\ IsInjective(curStores)
    BY <1>3, NamedInCurrent DEF Inv, CurrentOK
  <2>3. Range(Append(curStores, j)) = Range(curStores) \cup {j}
    BY ONLY <2>2, j \in JobIds, AddedKey
  <2>4. Range(curStores') = Range(curStores) \cup {j} /\ curLoads' = curLoads /\ Len(steps') + 1 = n1
    BY <1>3, <1>4, <1>7, <2>3
  <2>5. /\ \A k \in Range(curLoads) : k \in JobIds /\ at[k] = ToBeLoaded(n1)
        /\ \A k \in Range(curStores) : k \in JobIds /\ at[k] = ToBeStored(n1)
    BY <1>7, <1>9, NamedJobs DEF InCurrent
  <2>6. a2[j] = ToBeStored(n1)
    BY <1>8
  <2> QED  BY <1>10, <1>11, <2>1, <2>4, <2>5, <2>6 DEF InCurrent
<1>16. InOutput(w, a2)'
  BY <1>4, <1>5 DEF InOutput
<1>17. Placed(w, a2)'
  BY <1>11, <1>12, <1>13, <1>14, <1>15, <1>16 DEF Placed
<1> QED  BY <1>17

\* The workers whose reports of a job are being processed.
Reporters(j) == {w \in Workers : \E s \in out : j \in s.reports[w]}

\* They are workers the job waits for, and name it nowhere else.
LEMMA ReportersAwaited ==
    ASSUME Inv, NEW j \in JobIds, pc = "complete", j \in todo
    PROVE  /\ j \in DOMAIN xfers /\ Reporters(j) \subseteq xfers[j].left /\ Reporters(j) # {}
           /\ \A w \in Reporters(j) : \A at : Placed(w, at) => at[j] = 0
<1>1. \E s \in out : \E w \in Workers : j \in s.reports[w]
  BY DEF Inv, LoopsOK
<1>2. Reporters(j) # {}
  BY <1>1 DEF Reporters
<1>3. ASSUME NEW w \in Reporters(j), NEW at, Placed(w, at)
      PROVE  at[j] = 0 /\ j \in DOMAIN xfers /\ w \in xfers[j].left
  <2>1. PICK s \in out : j \in s.reports[w]
    BY DEF Reporters
  <2>2. InOutput(w, at) /\ Expected(w, at)
    BY <1>3 DEF Placed
  <2>3. at[j] = 0
    BY <2>1, <2>2 DEF InOutput
  <2>4. 0 # Nowhere
    BY DEF Nowhere
  <2> QED  BY <2>2, <2>3, <2>4 DEF Expected
<1>4. \A w \in Reporters(j) : \E at : Placed(w, at)
  BY WorkerQueues DEF Reporters
<1> QED  BY <1>2, <1>3, <1>4

\* Counting the reports is the same as naming the workers that are left.
LEMMA ReportsCounted ==
    ASSUME NEW left \in SUBSET Workers, NEW some \in SUBSET left
    PROVE  /\ Cardinality(left) \in Nat /\ Cardinality(some) \in Nat
           /\ Cardinality(left \ some) \in Nat
           /\ Cardinality(left) - Cardinality(some) = Cardinality(left \ some)
           /\ Cardinality(left) = Cardinality(some) <=> left \ some = {}
<1>1. IsFiniteSet(left)
  <2>1. IsFiniteSet(Workers)
    BY SizesAssumption
  <2> QED  BY ONLY left \in SUBSET Workers, <2>1, FS_Subset
<1>2. IsFiniteSet(some) /\ (Cardinality(left) = Cardinality(some) => left = some)
  BY ONLY some \in SUBSET left, <1>1, FS_Subset
<1>3. IsFiniteSet(left \ some) /\ Cardinality(left \ some) = Cardinality(left) - Cardinality(left \cap some)
  BY <1>1, FS_Difference
<1>4. left \cap some = some
  OBVIOUS
<1>5. Cardinality(left) \in Nat /\ Cardinality(some) \in Nat /\ Cardinality(left \ some) \in Nat
  BY <1>1, <1>2, <1>3, FS_CardinalityType
<1>6. left \ some = {} => left = some
  OBVIOUS
<1>7. left = some => left \ some = {}
  OBVIOUS
<1> QED  BY <1>2, <1>3, <1>4, <1>5, <1>6, <1>7

\* The transfer of a job after some workers reported it.
Reported(j, left) ==
    /\ DOMAIN xfers' = IF left = {} THEN DOMAIN xfers \ {j} ELSE DOMAIN xfers
    /\ \A i \in DOMAIN xfers' : i # j => xfers'[i] = xfers[i]
    /\ left # {} => /\ xfers'[j] \in Xfer
                    /\ xfers'[j].left = left
                    /\ xfers'[j].req = xfers[j].req /\ xfers'[j].store = xfers[j].store
                    /\ xfers'[j].stale = xfers[j].stale /\ xfers'[j].copies = xfers[j].copies

\* What a job's reports do to the tables: nothing if it is from before a reset;
\* it is counted down, or completed when no worker is left.
Skipped(j) == xfers[j].stale /\ UNCHANGED <<jobs, fences, beingLoaded, tracked, mgrVars>>
CountedDown(j, left) ==
    /\ ~xfers[j].stale /\ left # {}
    /\ DOMAIN jobs' = DOMAIN jobs /\ \A i \in DOMAIN jobs : i # j => jobs'[i] = jobs[i]
    /\ jobs'[j] \in Job /\ jobs'[j].pending = Cardinality(left)
    /\ jobs'[j].req = jobs[j].req /\ jobs'[j].store = jobs[j].store
    /\ jobs'[j].keys = jobs[j].keys /\ jobs'[j].srcBlocks = jobs[j].srcBlocks
    /\ UNCHANGED <<fences, beingLoaded, tracked, mgrVars>>
Completed(j, left) ==
    /\ ~xfers[j].stale /\ left = {}
    /\ DOMAIN jobs' = DOMAIN jobs \ {j} /\ \A i \in DOMAIN jobs' : jobs'[i] = jobs[i]
    /\ IF jobs[j].store THEN Mgr!StoredEffect(jobs[j].keys) ELSE Mgr!CompleteLoadEffect(jobs[j].keys)
    /\ fences' = IF Finished(jobs[j].req) THEN {f \in fences : f[2] # j} ELSE fences
    /\ tracked' = IF jobs[j].req \in finSignaled /\ TransferJobs(jobs[j].req) = {j}
                  THEN tracked \ {jobs[j].req} ELSE tracked

\* What completing a job does: the workers that report it are subtracted, and the
\* job ends when none is left; a stale job's completions are skipped.
LEMMA CompletedJob ==
    ASSUME Inv, NEW j \in JobIds, CompleteJob(j)
    PROVE  /\ pc = "complete" /\ j \in todo /\ todo' = todo \ {j}
           /\ j \in DOMAIN xfers
           /\ Reported(j, xfers[j].left \ Reporters(j))
           /\ \/ Skipped(j)
              \/ /\ j \in DOMAIN jobs
                 /\ \/ CountedDown(j, xfers[j].left \ Reporters(j))
                    \/ Completed(j, xfers[j].left \ Reporters(j))
<1>1. PICK R, left : R = Reporters(j) /\ left = xfers[j].left \ R
  OBVIOUS
<1>2. /\ pc = "complete" /\ j \in todo /\ todo' = todo \ {j}
      /\ xfers' = IF left = {} THEN Minus(xfers, {j}) ELSE [xfers EXCEPT ![j].left = left]
      /\ IF xfers[j].stale
         THEN UNCHANGED <<jobTable, tracked, mgrVars>>
         ELSE IF jobs[j].pending # Cardinality(R)
         THEN /\ jobs' = [jobs EXCEPT ![j].pending = @ - Cardinality(R)]
              /\ UNCHANGED <<fences, beingLoaded, tracked, mgrVars>>
         ELSE /\ IF jobs[j].store THEN Mgr!StoredEffect(jobs[j].keys)
                 ELSE Mgr!CompleteLoadEffect(jobs[j].keys)
              /\ fences' = IF Finished(jobs[j].req) THEN {f \in fences : f[2] # j} ELSE fences
              /\ jobs' = Minus(jobs, {j})
              /\ tracked' = IF jobs[j].req \in finSignaled /\ TransferJobs(jobs[j].req) = {j}
                            THEN tracked \ {jobs[j].req} ELSE tracked
  BY Zenon, <1>1 DEF CompleteJob, Reporters
<1>3. j \in DOMAIN xfers /\ R \subseteq xfers[j].left
  BY <1>1, <1>2, ReportersAwaited
<1>4. xfers[j] \in Xfer
  BY <1>3 DEF Inv, TableOK
<1>5. left \in SUBSET Workers /\ xfers[j].left \in SUBSET Workers
  BY <1>1, <1>4 DEF Xfer
<1>6. Reported(j, left)
  <2>1. CASE left = {}
    <3>1. xfers' = Minus(xfers, {j})
      BY <1>2, <2>1
    <3>2. DOMAIN xfers' = DOMAIN xfers \ {j} /\ \A i \in DOMAIN xfers' : xfers'[i] = xfers[i]
      BY ONLY <3>1 DEF Minus
    <3> QED  BY <2>1, <3>2 DEF Reported
  <2>2. CASE left # {}
    <3>1. PICK x : x = xfers[j]
      OBVIOUS
    <3>2. PICK e : e = [x EXCEPT !.left = left]
      OBVIOUS
    <3>3. xfers' = [xfers EXCEPT ![j] = e]
      <4>1. xfers' = [xfers EXCEPT ![j].left = left]
        BY <1>2, <2>2
      <4> QED  BY ONLY <3>1, <3>2, <4>1
    <3>4. x \in Xfer
      BY <1>4, <3>1
    <3>5. e = [req |-> x.req, store |-> x.store, stale |-> x.stale, left |-> left, copies |-> x.copies]
      BY ONLY <3>2, <3>4 DEF Xfer
    <3>6. /\ e \in Xfer /\ e.left = left /\ e.req = x.req /\ e.store = x.store
          /\ e.stale = x.stale /\ e.copies = x.copies
      BY ONLY <1>5, <3>4, <3>5 DEF Xfer
    <3>7. DOMAIN xfers' = DOMAIN xfers /\ xfers'[j] = e
          /\ \A i \in DOMAIN xfers' : i # j => xfers'[i] = xfers[i]
      BY ONLY <1>3, <3>3
    <3> QED  BY ONLY <2>2, <3>1, <3>6, <3>7 DEF Reported
  <2> QED  BY <2>1, <2>2
<1>7. CASE xfers[j].stale
  <2>1. Skipped(j)
    BY Zenon, <1>2, <1>7 DEF Skipped, jobTable
  <2> QED  BY <1>1, <1>2, <1>3, <1>6, <2>1
<1>8. CASE ~xfers[j].stale
  <2>1. j \in DOMAIN jobs /\ jobs[j] \in Job /\ jobs[j].pending = Cardinality(xfers[j].left)
    BY <1>3, <1>8 DEF Inv, TableOK
  <2>2. PICK all \in SUBSET Workers : all = xfers[j].left
    BY <1>5
  <2>3. R \in SUBSET all /\ left = all \ R
    BY <1>1, <1>3, <2>2
  <2>4. /\ Cardinality(all) - Cardinality(R) = Cardinality(left) /\ Cardinality(left) \in Nat
        /\ Cardinality(all) = Cardinality(R) <=> left = {}
    BY ONLY <2>3, all \in SUBSET Workers, ReportsCounted
  <2>5. CASE left # {}
    <3>1. PICK b : b = jobs[j]
      OBVIOUS
    <3>2. jobs[j].pending # Cardinality(R)
      BY <2>1, <2>2, <2>4, <2>5
    <3>3. /\ jobs' = [jobs EXCEPT ![j].pending = @ - Cardinality(R)]
          /\ UNCHANGED <<fences, beingLoaded, tracked, mgrVars>>
      BY <1>2, <1>8, <3>2
    <3>4. PICK c : c = Cardinality(left)
      OBVIOUS
    <3>5. jobs[j].pending - Cardinality(R) = c
      BY <2>1, <2>2, <2>4, <3>4
    <3>6. PICK e : e = [b EXCEPT !.pending = c]
      OBVIOUS
    <3>7. jobs' = [jobs EXCEPT ![j] = e]
      BY ONLY <3>1, <3>3, <3>5, <3>6
    <3>8. b \in Job /\ c \in Nat
      BY <2>1, <2>4, <3>1, <3>4
    <3>9. e = [req |-> b.req, store |-> b.store, keys |-> b.keys, pending |-> c, srcBlocks |-> b.srcBlocks]
      BY ONLY <3>6, <3>8 DEF Job
    <3>10. /\ e \in Job /\ e.pending = c /\ e.req = b.req /\ e.store = b.store /\ e.keys = b.keys
           /\ e.srcBlocks = b.srcBlocks
      BY ONLY <3>8, <3>9 DEF Job
    <3>11. DOMAIN jobs' = DOMAIN jobs /\ jobs'[j] = e /\ \A i \in DOMAIN jobs : i # j => jobs'[i] = jobs[i]
      BY ONLY <2>1, <3>7
    <3>12. CountedDown(j, left)
      BY ONLY <1>8, <2>5, <3>1, <3>3, <3>4, <3>10, <3>11 DEF CountedDown
    <3> QED  BY <1>1, <1>2, <1>3, <1>6, <2>1, <3>12
  <2>6. CASE left = {}
    <3>1. jobs[j].pending = Cardinality(R)
      BY <2>1, <2>2, <2>4, <2>6
    <3>2. /\ IF jobs[j].store THEN Mgr!StoredEffect(jobs[j].keys)
             ELSE Mgr!CompleteLoadEffect(jobs[j].keys)
          /\ fences' = IF Finished(jobs[j].req) THEN {f \in fences : f[2] # j} ELSE fences
          /\ jobs' = Minus(jobs, {j})
          /\ tracked' = IF jobs[j].req \in finSignaled /\ TransferJobs(jobs[j].req) = {j}
                        THEN tracked \ {jobs[j].req} ELSE tracked
      BY Zenon, <1>2, <1>8, <3>1
    <3>3. DOMAIN jobs' = DOMAIN jobs \ {j} /\ \A i \in DOMAIN jobs' : jobs'[i] = jobs[i]
      BY ONLY <3>2 DEF Minus
    <3>4. Completed(j, left)
      BY Zenon, <1>8, <2>6, <3>2, <3>3 DEF Completed
    <3> QED  BY <1>1, <1>2, <1>3, <1>6, <2>1, <3>4
  <2> QED  BY <2>5, <2>6
<1> QED  BY <1>7, <1>8

\* A job whose reports are processed is nowhere on the workers that made them.
LEMMA CompletionPlaced ==
    ASSUME Inv, NEW j \in JobIds, CompleteJob(j)
    PROVE  PlacesOK'
<1>1. /\ pc = "complete" /\ j \in todo /\ todo' = todo \ {j} /\ j \in DOMAIN xfers
      /\ Reported(j, xfers[j].left \ Reporters(j))
  BY CompletedJob
<1>2. UNCHANGED <<steps, pos, phase, unsub, storeQ, loadQ, done, curLoads, curStores, out, pc>>
  BY Zenon DEF CompleteJob, workerVars, curVars
<1> SUFFICES ASSUME NEW w \in Workers PROVE \E at : Placed(w, at)'
  BY DEF PlacesOK
<1>3. PICK at : Placed(w, at)
  BY WorkerQueues
<1>4. /\ at \in [JobIds -> Int] /\ Expected(w, at) /\ OnWorker(w, at) /\ InBatches(w, at)
      /\ InCurrent(at) /\ InOutput(w, at)
  BY <1>3 DEF Placed
<1>5. ASSUME w \notin Reporters(j)
      PROVE  Placed(w, at)'
  <2>1. Expected(w, at)'
    <3>1. PICK left : left = xfers[j].left \ Reporters(j)
      OBVIOUS
    <3>2. w \in xfers[j].left => w \in left
      BY <1>5, <3>1
    <3>3. /\ DOMAIN xfers' = IF left = {} THEN DOMAIN xfers \ {j} ELSE DOMAIN xfers
          /\ \A i \in DOMAIN xfers' : i # j => xfers'[i] = xfers[i]
          /\ left # {} => xfers'[j].left = left
      BY <1>1, <3>1 DEF Reported
    <3> QED  BY ONLY <1>4, <3>2, <3>3 DEF Expected
  <2>2. OnWorker(w, at)'
    BY <1>2, <1>4 DEF OnWorker
  <2>3. InBatches(w, at)'
    BY <1>2, <1>4 DEF InBatches, LoadsTaken, StoresTaken, FlushesTaken
  <2>4. InCurrent(at)'
    BY <1>2, <1>4 DEF InCurrent
  <2>5. InOutput(w, at)'
    BY <1>1, <1>2, <1>4 DEF InOutput
  <2> QED  BY <1>4, <2>1, <2>2, <2>3, <2>4, <2>5 DEF Placed
<1>6. ASSUME w \in Reporters(j)
      PROVE  \E a2 : Placed(w, a2)'
  <2>1. at[j] = 0
    BY <1>1, <1>3, <1>6, ReportersAwaited
  <2>2. PICK a2 : a2 = [k \in JobIds |-> IF k = j THEN Nowhere ELSE at[k]]
    OBVIOUS
  <2>3. a2 \in [JobIds -> Int] /\ a2[j] = Nowhere /\ \A k \in JobIds : k # j => a2[k] = at[k]
    BY <1>4, <2>2 DEF Nowhere
  <2>4. Expected(w, a2)'
    <3>1. PICK left : left = xfers[j].left \ Reporters(j)
      OBVIOUS
    <3>2. /\ DOMAIN xfers' = IF left = {} THEN DOMAIN xfers \ {j} ELSE DOMAIN xfers
          /\ \A i \in DOMAIN xfers' : i # j => xfers'[i] = xfers[i]
      BY <1>1, <3>1 DEF Reported
    <3> QED  BY ONLY <1>4, <2>3, <3>2 DEF Expected
  <2>5. OnWorker(w, a2)'
    <3>1. 0 # PutOff /\ 0 # InStoreQ /\ 0 # InLoadQ /\ 0 # Done
      BY DEF PutOff, InStoreQ, InLoadQ, Done
    <3> QED  BY <1>2, <1>4, <2>1, <2>3, <3>1, NamedJobs DEF OnWorker
  <2>6. \A i \in Nat : ToBeLoaded(i) # 0 /\ ToBeStored(i) # 0
    BY DEF ToBeLoaded, ToBeStored
  <2>7. InBatches(w, a2)'
    <3>1. \A i \in DOMAIN steps : i \in Nat /\ i # 0
      BY NamedJobs
    <3>2. \A i : /\ LoadsTaken(w, i)' <=> LoadsTaken(w, i)
                 /\ FlushesTaken(w, i)' <=> FlushesTaken(w, i)
                 /\ StoresTaken(w, i)' <=> StoresTaken(w, i)
      BY <1>2 DEF LoadsTaken, FlushesTaken, StoresTaken
    <3> QED  BY <1>2, <1>4, <2>1, <2>3, <2>6, <3>1, <3>2, NamedJobs DEF InBatches
  <2>8. InCurrent(a2)'
    <3>1. PICK n1 \in Nat : n1 = Len(steps) + 1
      BY DEF Inv, LoopsOK
    <3>2. /\ \A k \in Range(curLoads) : k \in JobIds /\ at[k] = ToBeLoaded(n1)
          /\ \A k \in Range(curStores) : k \in JobIds /\ at[k] = ToBeStored(n1)
      BY <1>4, <3>1, NamedJobs DEF InCurrent
    <3>3. UNCHANGED <<curLoads, curStores>> /\ Len(steps') + 1 = n1
      BY <1>2, <3>1
    <3> QED  BY <2>1, <2>3, <2>6, <3>1, <3>2, <3>3 DEF InCurrent
  <2>9. InOutput(w, a2)'
    BY <1>1, <1>2, <1>4, <2>3, NamedJobs DEF InOutput
  <2>10. Placed(w, a2)'
    BY <2>3, <2>4, <2>5, <2>7, <2>8, <2>9 DEF Placed
  <2> QED  BY <2>10
<1> QED  BY <1>5, <1>6

\* The batch that was being built is a batch in flight.
LEMMA EmissionPlaced ==
    ASSUME Inv, Emit
    PROVE  PlacesOK'
<1>1. PICK b \in Batch : /\ steps' = Append(steps, b) /\ b.loads = curLoads /\ b.stores = curStores
                         /\ \A w \in Workers : b.reports[w] = {}
  BY EmittedBatch
<1>2. /\ pc = "stores" /\ curLoads' = <<>> /\ curStores' = <<>>
      /\ UNCHANGED <<xfers, pos, phase, unsub, storeQ, loadQ, done, out>>
  BY Zenon DEF Emit, workerVars
<1>3. out = {}
  BY <1>2 DEF Inv, LoopsOK, Receiving
<1>4. PICK n \in Nat : n = Len(steps)
  BY DEF Inv, LoopsOK
<1>5. /\ DOMAIN steps = 1..n /\ DOMAIN steps' = 1..(n + 1)
      /\ \A i \in 1..n : steps'[i] = steps[i]
      /\ steps'[n + 1] = b
  <2>1. steps \in Seq(Batch)
    BY DEF Inv, LoopsOK
  <2> QED  BY <1>1, <1>4, <2>1
<1> SUFFICES ASSUME NEW w \in Workers PROVE \E at : Placed(w, at)'
  BY DEF PlacesOK
<1>6. PICK at : Placed(w, at)
  BY WorkerQueues
<1>7. /\ at \in [JobIds -> Int] /\ Expected(w, at) /\ OnWorker(w, at) /\ InBatches(w, at)
      /\ InCurrent(at)
  BY <1>6 DEF Placed
<1>8. Expected(w, at)' /\ OnWorker(w, at)'
  BY <1>2, <1>7 DEF Expected, OnWorker
<1>9. InBatches(w, at)'
  <2>1. \A i : /\ LoadsTaken(w, i)' <=> LoadsTaken(w, i)
               /\ FlushesTaken(w, i)' <=> FlushesTaken(w, i)
               /\ StoresTaken(w, i)' <=> StoresTaken(w, i)
    BY <1>2 DEF LoadsTaken, FlushesTaken, StoresTaken
  <2>2. /\ \A j \in Range(b.loads) : at[j] = ToBeLoaded(n + 1)
        /\ \A j \in Range(b.stores) : at[j] = ToBeStored(n + 1)
        /\ b.reports[w] = {}
    BY <1>1, <1>4, <1>7 DEF InCurrent
  <2>3. ASSUME NEW i \in DOMAIN steps'
        PROVE  (i \in DOMAIN steps /\ steps'[i] = steps[i]) \/ (i = n + 1 /\ steps'[i] = b)
    <3>1. i \in 1..n \/ i = n + 1
      BY <1>4, <1>5
    <3> QED  BY <1>5, <3>1
  <2>4. SUFFICES ASSUME NEW i \in DOMAIN steps'
                 PROVE  /\ \A j \in steps'[i].reports[w] : at[j] = i
                        /\ ~LoadsTaken(w, i) => \A j \in Range(steps'[i].loads) : at[j] = ToBeLoaded(i)
                        /\ ~StoresTaken(w, i) => \A j \in Range(steps'[i].stores) :
                              at[j] = ToBeStored(i) \/ (FlushesTaken(w, i) /\ j \in steps'[i].flush)
    BY <2>1 DEF InBatches
  <2>5. CASE i \in DOMAIN steps /\ steps'[i] = steps[i]
    BY <1>7, <2>5 DEF InBatches
  <2>6. CASE i = n + 1 /\ steps'[i] = b
    BY <2>2, <2>6
  <2> QED  BY <2>3, <2>5, <2>6
<1>10. InCurrent(at)'
  BY <1>2 DEF InCurrent, Range
<1>11. InOutput(w, at)'
  BY <1>2, <1>3 DEF InOutput
<1>12. Placed(w, at)'
  BY <1>7, <1>8, <1>9, <1>10, <1>11 DEF Placed
<1> QED  BY <1>12

\* When the oldest batch is taken every batch is one place nearer, and its
\* reports are the ones being processed.
LEMMA OutputPlaced ==
    ASSUME Inv, BeginOutput
    PROVE  PlacesOK'
<1>1. /\ Len(steps) \in Nat /\ Len(steps) > 0 /\ DOMAIN steps = 1..Len(steps)
      /\ out' = {steps[1]}
      /\ Len(steps') = Len(steps) - 1 /\ DOMAIN steps' = 1..(Len(steps) - 1)
      /\ \A i \in 1..(Len(steps) - 1) : steps'[i] = steps[i + 1]
      /\ \A w \in Workers : pos[w] > 0 /\ pos'[w] = pos[w] - 1
  BY TakenBatch
<1>2. /\ pc' = "output"
      /\ UNCHANGED <<xfers, phase, unsub, storeQ, loadQ, done, curLoads, curStores>>
  BY Zenon DEF BeginOutput, curVars
<1>3. PICK n \in Nat : n = Len(steps)
  BY <1>1
<1> SUFFICES ASSUME NEW w \in Workers PROVE \E at : Placed(w, at)'
  BY DEF PlacesOK
<1>4. PICK at : Placed(w, at)
  BY WorkerQueues
<1>5. /\ at \in [JobIds -> Int] /\ Expected(w, at) /\ OnWorker(w, at) /\ InBatches(w, at)
      /\ InCurrent(at)
  BY <1>4 DEF Placed
<1> DEFINE moved(c) == IF c >= 1 THEN c - 1 ELSE IF c <= -8 THEN c + 2 ELSE c
<1>6. PICK a2 : a2 = [k \in JobIds |-> moved(at[k])]
  OBVIOUS
<1>7. a2 \in [JobIds -> Int] /\ \A k \in JobIds : at[k] \in Int /\ a2[k] = moved(at[k])
  BY <1>5, <1>6
<1>8. /\ \A c \in Int : moved(c) # Nowhere => c # Nowhere
      /\ moved(PutOff) = PutOff /\ moved(InStoreQ) = InStoreQ
      /\ moved(InLoadQ) = InLoadQ /\ moved(Done) = Done
      /\ \A i \in Nat : i >= 1 => /\ moved(i) = i - 1
                                  /\ moved(ToBeLoaded(i)) = ToBeLoaded(i - 1)
                                  /\ moved(ToBeStored(i)) = ToBeStored(i - 1)
  BY DEF Nowhere, PutOff, InStoreQ, InLoadQ, Done, ToBeLoaded, ToBeStored
<1> HIDE DEF moved
<1>9. Expected(w, a2)'
  BY <1>2, <1>5, <1>7, <1>8 DEF Expected
<1>10. OnWorker(w, a2)'
  BY <1>2, <1>5, <1>7, <1>8, NamedJobs DEF OnWorker
<1>11. InBatches(w, a2)'
  <2>1. pos[w] \in Nat /\ pos'[w] = pos[w] - 1
    BY <1>1 DEF Inv, WorkersOK
  <2>2. \A i \in Nat : /\ LoadsTaken(w, i)' <=> LoadsTaken(w, i + 1)
                       /\ FlushesTaken(w, i)' <=> FlushesTaken(w, i + 1)
                       /\ StoresTaken(w, i)' <=> StoresTaken(w, i + 1)
    BY <1>2, <2>1 DEF LoadsTaken, FlushesTaken, StoresTaken
  <2>3. ASSUME NEW i \in DOMAIN steps'
        PROVE  i \in Nat /\ i + 1 \in DOMAIN steps /\ steps'[i] = steps[i + 1]
               /\ i + 1 \in Nat /\ i + 1 >= 1 /\ (i + 1) - 1 = i
    BY <1>1, <1>3
  <2>4. SUFFICES ASSUME NEW i \in DOMAIN steps', NEW k, k = i + 1
                 PROVE  /\ \A j \in steps'[i].reports[w] : a2[j] = i
                        /\ ~LoadsTaken(w, k) => \A j \in Range(steps'[i].loads) : a2[j] = ToBeLoaded(i)
                        /\ ~StoresTaken(w, k) => \A j \in Range(steps'[i].stores) :
                              a2[j] = ToBeStored(i) \/ (FlushesTaken(w, k) /\ j \in steps'[i].flush)
    BY <2>2, <2>3 DEF InBatches
  <2>5. k \in Nat /\ k \in DOMAIN steps /\ steps'[i] = steps[k] /\ k >= 1 /\ k - 1 = i
    BY <2>3, <2>4
  <2>6. /\ \A j \in steps[k].reports[w] : j \in JobIds /\ at[j] = k
        /\ ~LoadsTaken(w, k) => \A j \in Range(steps[k].loads) : j \in JobIds /\ at[j] = ToBeLoaded(k)
        /\ ~StoresTaken(w, k) => \A j \in Range(steps[k].stores) :
              j \in JobIds /\ (at[j] = ToBeStored(k) \/ (FlushesTaken(w, k) /\ j \in steps[k].flush))
    BY <1>5, <2>5, NamedJobs DEF InBatches
  <2>7. moved(k) = i /\ moved(ToBeLoaded(k)) = ToBeLoaded(i) /\ moved(ToBeStored(k)) = ToBeStored(i)
    BY <1>8, <2>5
  <2> QED  BY ONLY <1>7, <2>5, <2>6, <2>7
<1>12. InCurrent(a2)'
  <2>1. PICK k \in Nat : k = n + 1 /\ k >= 1 /\ k - 1 = n
    OBVIOUS
  <2>2. /\ \A j \in Range(curLoads) : j \in JobIds /\ at[j] = ToBeLoaded(k)
        /\ \A j \in Range(curStores) : j \in JobIds /\ at[j] = ToBeStored(k)
    BY <1>3, <1>5, <2>1, NamedJobs DEF InCurrent
  <2>3. Len(steps') + 1 = n
    BY <1>1, <1>3
  <2>4. moved(ToBeLoaded(k)) = ToBeLoaded(n) /\ moved(ToBeStored(k)) = ToBeStored(n)
    BY <1>8, <2>1
  <2> QED  BY <1>2, <1>7, <2>2, <2>3, <2>4 DEF InCurrent
<1>13. InOutput(w, a2)'
  <2>1. 1 \in DOMAIN steps
    BY <1>1
  <2>2. \A j \in steps[1].reports[w] : j \in JobIds /\ at[j] = 1
    BY <1>5, <2>1, NamedJobs DEF InBatches
  <2>3. moved(1) = 0
    BY <1>8
  <2> QED  BY <1>1, <1>7, <2>2, <2>3 DEF InOutput
<1>14. Placed(w, a2)'
  BY <1>7, <1>9, <1>10, <1>11, <1>12, <1>13 DEF Placed
<1> QED  BY <1>14

\* The other workers' jobs stay where they are.
LEMMA OthersKept ==
    ASSUME Inv, NEW w \in Workers, WorkersStep, WorkerStep(w),
           NEW v \in Workers, v # w, NEW at, Placed(v, at)
    PROVE  Placed(v, at)'
<1>1. /\ at \in [JobIds -> Int] /\ Expected(v, at) /\ OnWorker(v, at) /\ InBatches(v, at)
      /\ InCurrent(at)
  BY DEF Placed
<1>2. /\ pc = "idle" /\ UNCHANGED <<curLoads, curStores, out, xfers>>
  <2>1. pc = "idle" /\ UNCHANGED <<curLoads, curStores, out>>
    BY Zenon DEF WorkersStep, loopVars, curVars
  <2>2. xfers' = xfers
    BY DEF WorkerStep, SubmitStores, SubmitLoads, RunModel, Report, StoreTransfer, LoadTransfer
  <2> QED  BY <2>1, <2>2
<1>3. out = {}
  BY <1>2 DEF Inv, LoopsOK, Receiving
<1>4. /\ pos \in [Workers -> Nat] /\ phase \in [Workers -> {"idle", "flushing", "loading", "ran"}]
      /\ unsub \in [Workers -> Seq(JobIds)] /\ storeQ \in [Workers -> Seq(JobIds)]
      /\ loadQ \in [Workers -> Seq(JobIds)] /\ done \in [Workers -> SUBSET JobIds]
  BY DEF Inv, WorkersOK
<1>5. /\ pos'[v] = pos[v] /\ phase'[v] = phase[v] /\ unsub'[v] = unsub[v]
      /\ storeQ'[v] = storeQ[v] /\ loadQ'[v] = loadQ[v] /\ done'[v] = done[v]
  <2>1. CASE SubmitStores(w)
    BY <1>4, <2>1 DEF SubmitStores
  <2>2. CASE SubmitLoads(w)
    BY <1>4, <2>2 DEF SubmitLoads
  <2>3. CASE RunModel(w)
    BY <1>4, <2>3 DEF RunModel
  <2>4. CASE Report(w)
    BY <1>4, <2>4 DEF Report
  <2>5. CASE StoreTransfer(w)
    BY <1>4, <2>5 DEF StoreTransfer
  <2>6. CASE LoadTransfer(w)
    BY <1>4, <2>6 DEF LoadTransfer
  <2> QED  BY <2>1, <2>2, <2>3, <2>4, <2>5, <2>6 DEF WorkerStep
<1>6. /\ Len(steps') = Len(steps) /\ DOMAIN steps' = DOMAIN steps
      /\ \A i \in DOMAIN steps :
           /\ steps'[i].loads = steps[i].loads /\ steps'[i].stores = steps[i].stores
           /\ steps'[i].flush = steps[i].flush /\ steps'[i].reports[v] = steps[i].reports[v]
  <2>1. CASE Report(w)
    BY <2>1, ReportedBatch
  <2>2. CASE ~Report(w)
    <3>1. steps' = steps
      BY <2>2 DEF WorkerStep, SubmitStores, SubmitLoads, RunModel, StoreTransfer, LoadTransfer
    <3> QED  BY <3>1
  <2> QED  BY <2>1, <2>2
<1>7. Expected(v, at)' /\ OnWorker(v, at)' /\ InCurrent(at)'
  BY <1>1, <1>2, <1>5, <1>6 DEF Expected, OnWorker, InCurrent
<1>8. InBatches(v, at)'
  <2>1. \A i : /\ LoadsTaken(v, i)' <=> LoadsTaken(v, i)
               /\ FlushesTaken(v, i)' <=> FlushesTaken(v, i)
               /\ StoresTaken(v, i)' <=> StoresTaken(v, i)
    BY <1>5 DEF LoadsTaken, FlushesTaken, StoresTaken
  <2> QED  BY <1>1, <1>6, <2>1 DEF InBatches
<1>9. InOutput(v, at)'
  BY <1>2, <1>3 DEF InOutput
<1> QED  BY <1>1, <1>7, <1>8, <1>9 DEF Placed

\* The places when the jobs in S move to the place c.
Moved(at, S, c) == [j \in JobIds |-> IF j \in S THEN c ELSE at[j]]

\* Between the engine's steps no output is being processed, and the batch being
\* built stays as it is.
LEMMA BetweenSteps ==
    ASSUME Inv, WorkersStep
    PROVE  out = {} /\ UNCHANGED <<curLoads, curStores, out>>
<1>1. pc = "idle" /\ UNCHANGED <<curLoads, curStores, out>>
  BY Zenon DEF WorkersStep, loopVars, curVars
<1> QED  BY <1>1 DEF Inv, LoopsOK, Receiving

\* What a worker names, by place.
LEMMA PlacesNamed ==
    ASSUME Inv, NEW w \in Workers, NEW at, Placed(w, at)
    PROVE  /\ \A j \in Range(unsub[w]) : j \in JobIds /\ at[j] = PutOff
           /\ \A j \in Range(storeQ[w]) : j \in JobIds /\ at[j] = InStoreQ
           /\ \A j \in Range(loadQ[w]) : j \in JobIds /\ at[j] = InLoadQ
           /\ \A j \in done[w] : j \in JobIds /\ at[j] = Done
           /\ \A i \in DOMAIN steps :
                /\ i \in Nat /\ i >= 1 /\ i <= Len(steps) /\ Len(steps) \in Nat
                /\ \A j \in steps[i].reports[w] : j \in JobIds /\ at[j] = i
                /\ \A j \in Range(steps[i].loads) :
                     j \in JobIds /\ (LoadsTaken(w, i) \/ at[j] = ToBeLoaded(i))
                /\ \A j \in Range(steps[i].stores) :
                     j \in JobIds /\ (\/ StoresTaken(w, i) \/ at[j] = ToBeStored(i)
                                      \/ FlushesTaken(w, i) /\ j \in steps[i].flush)
           /\ \A n \in Nat : n = Len(steps) + 1 =>
                /\ \A j \in Range(curLoads) : j \in JobIds /\ at[j] = ToBeLoaded(n)
                /\ \A j \in Range(curStores) : j \in JobIds /\ at[j] = ToBeStored(n)
<1>1. OnWorker(w, at) /\ InBatches(w, at) /\ InCurrent(at)
  BY DEF Placed
<1>2. /\ \A j \in Range(unsub[w]) : j \in JobIds /\ at[j] = PutOff
      /\ \A j \in Range(storeQ[w]) : j \in JobIds /\ at[j] = InStoreQ
      /\ \A j \in Range(loadQ[w]) : j \in JobIds /\ at[j] = InLoadQ
      /\ \A j \in done[w] : j \in JobIds /\ at[j] = Done
  BY <1>1, NamedJobs DEF OnWorker
<1>3. ASSUME NEW i \in DOMAIN steps
      PROVE  /\ i \in Nat /\ i >= 1 /\ i <= Len(steps) /\ Len(steps) \in Nat
             /\ \A j \in steps[i].reports[w] : j \in JobIds /\ at[j] = i
             /\ \A j \in Range(steps[i].loads) :
                  j \in JobIds /\ (LoadsTaken(w, i) \/ at[j] = ToBeLoaded(i))
             /\ \A j \in Range(steps[i].stores) :
                  j \in JobIds /\ (\/ StoresTaken(w, i) \/ at[j] = ToBeStored(i)
                                   \/ FlushesTaken(w, i) /\ j \in steps[i].flush)
  <2>1. /\ i \in Nat /\ i >= 1 /\ i <= Len(steps) /\ Len(steps) \in Nat
        /\ steps[i].reports[w] \subseteq JobIds /\ Range(steps[i].loads) \subseteq JobIds
        /\ Range(steps[i].stores) \subseteq JobIds
    BY NamedJobs
  <2>2. /\ \A j \in steps[i].reports[w] : at[j] = i
        /\ ~LoadsTaken(w, i) => \A j \in Range(steps[i].loads) : at[j] = ToBeLoaded(i)
        /\ ~StoresTaken(w, i) => \A j \in Range(steps[i].stores) :
              at[j] = ToBeStored(i) \/ (FlushesTaken(w, i) /\ j \in steps[i].flush)
    BY <1>1 DEF InBatches
  <2> QED  BY ONLY <2>1, <2>2
<1>4. /\ \A j \in Range(curLoads) : j \in JobIds /\ at[j] = ToBeLoaded(Len(steps) + 1)
      /\ \A j \in Range(curStores) : j \in JobIds /\ at[j] = ToBeStored(Len(steps) + 1)
  BY <1>1, NamedJobs DEF InCurrent
<1> QED  BY <1>2, <1>3, <1>4

\* Stores that are submitted are in the queue.
LEMMA SubmissionPlaced ==
    ASSUME Inv, NEW w \in Workers, WorkersStep, SubmitStores(w)
    PROVE  \E at : Placed(w, at)'
<1>1. PICK p \in Nat, q \in Seq(JobIds) : StoresSubmitted(w, p, q)
  BY SubmittedStores
<1>2. /\ p = pos[w] + 1 /\ p \in DOMAIN steps /\ phase[w] = "idle"
      /\ Range(q) = Range(storeQ[w]) \cup Range(unsub[w])
                      \cup (Range(steps[p].stores) \cap steps[p].flush)
      /\ storeQ' = [storeQ EXCEPT ![w] = q]
      /\ unsub' = [unsub EXCEPT ![w] = <<>>]
      /\ phase' = [phase EXCEPT ![w] = "flushing"]
      /\ UNCHANGED <<steps, xfers, pos, loadQ, done>>
  BY <1>1 DEF StoresSubmitted
<1>3. out = {} /\ UNCHANGED <<curLoads, curStores, out>>
  BY BetweenSteps
<1>4. PICK at : Placed(w, at)
  BY WorkerQueues
<1>5. /\ pos \in [Workers -> Nat] /\ phase \in [Workers -> {"idle", "flushing", "loading", "ran"}]
      /\ unsub \in [Workers -> Seq(JobIds)] /\ storeQ \in [Workers -> Seq(JobIds)]
  BY DEF Inv, WorkersOK
<1>6. /\ storeQ'[w] = q /\ Range(unsub'[w]) = {} /\ phase'[w] = "flushing" /\ pos'[w] = pos[w]
      /\ loadQ'[w] = loadQ[w] /\ done'[w] = done[w]
  BY <1>2, <1>5 DEF Range
<1>7. ASSUME NEW i \in DOMAIN steps
      PROVE  /\ LoadsTaken(w, i)' <=> LoadsTaken(w, i)
             /\ StoresTaken(w, i)' <=> StoresTaken(w, i)
             /\ FlushesTaken(w, i)' <=> FlushesTaken(w, i) \/ i = p
             /\ FlushesTaken(w, i) => StoresTaken(w, i)
             /\ ~StoresTaken(w, p)
  BY <1>2, <1>5, <1>6 DEF LoadsTaken, StoresTaken, FlushesTaken
<1>8. PICK S : S = Range(q)
  OBVIOUS
<1>9. ASSUME NEW j \in S
      PROVE  j \in JobIds /\ at[j] \in {InStoreQ, PutOff, ToBeStored(p)}
  <2>1. CASE j \in Range(storeQ[w]) \/ j \in Range(unsub[w])
    BY <1>4, <2>1, PlacesNamed
  <2>2. CASE j \in Range(steps[p].stores)
    <3>1. ~FlushesTaken(w, p) /\ ~StoresTaken(w, p)
      BY <1>2, <1>7
    <3> QED  BY <1>2, <1>4, <2>2, <3>1, PlacesNamed
  <2> QED  BY <1>2, <1>8, <2>1, <2>2
<1>10. PICK a2 : a2 = Moved(at, S, InStoreQ)
  OBVIOUS
<1>11. /\ a2 \in [JobIds -> Int] /\ \A j \in S : a2[j] = InStoreQ
       /\ \A j \in JobIds : j \notin S => a2[j] = at[j]
       /\ Expected(w, a2)'
  <2>1. InStoreQ # Nowhere /\ PutOff # Nowhere /\ ToBeStored(p) # Nowhere /\ InStoreQ \in Int
    BY PlaceCodes
  <2>2. S \in SUBSET JobIds /\ \A j \in S : at[j] # Nowhere
    BY <1>9, <2>1
  <2>3. xfers' = xfers
    BY <1>2
  <2>4. at \in [JobIds -> Int] /\ Expected(w, at)
    BY <1>4 DEF Placed
  <2> QED  BY ONLY <1>10, <2>1, <2>2, <2>3, <2>4 DEF Expected, Moved
<1>12. OnWorker(w, a2)'
  <2>1. InLoadQ \notin {InStoreQ, PutOff, ToBeStored(p)} /\ Done \notin {InStoreQ, PutOff, ToBeStored(p)}
    BY PlaceCodes
  <2>2. /\ \A j \in Range(loadQ[w]) : j \in JobIds /\ at[j] = InLoadQ
        /\ \A j \in done[w] : j \in JobIds /\ at[j] = Done
    BY <1>4, PlacesNamed
  <2> QED  BY <1>6, <1>8, <1>9, <1>11, <2>1, <2>2 DEF OnWorker
<1>13. InBatches(w, a2)'
  <2> SUFFICES ASSUME NEW i \in DOMAIN steps
               PROVE  /\ \A j \in steps[i].reports[w] : a2[j] = i
                      /\ ~LoadsTaken(w, i) => \A j \in Range(steps[i].loads) : a2[j] = ToBeLoaded(i)
                      /\ ~StoresTaken(w, i) => \A j \in Range(steps[i].stores) :
                            a2[j] = ToBeStored(i) \/ ((FlushesTaken(w, i) \/ i = p) /\ j \in steps[i].flush)
    BY <1>2, <1>7 DEF InBatches
  <2>1. /\ i \in Nat /\ i >= 1
        /\ \A j \in steps[i].reports[w] : j \in JobIds /\ at[j] = i
        /\ \A j \in Range(steps[i].loads) :
             j \in JobIds /\ (LoadsTaken(w, i) \/ at[j] = ToBeLoaded(i))
        /\ \A j \in Range(steps[i].stores) :
             j \in JobIds /\ (StoresTaken(w, i) \/ at[j] = ToBeStored(i))
    BY <1>4, <1>7, PlacesNamed
  <2>2. /\ i \notin {InStoreQ, PutOff, ToBeStored(p)}
        /\ ToBeLoaded(i) \notin {InStoreQ, PutOff, ToBeStored(p)}
        /\ i # p => ToBeStored(i) \notin {InStoreQ, PutOff, ToBeStored(p)}
        /\ ToBeStored(p) \notin {InStoreQ, PutOff}
    <3>1. /\ PutOff < 0 /\ InStoreQ < 0 /\ Nowhere < PutOff /\ Nowhere < InStoreQ
          /\ PutOff \in Int /\ InStoreQ \in Int /\ Nowhere \in Int
      BY DEF PutOff, InStoreQ, Nowhere
    <3>2. /\ ToBeLoaded(i) < Nowhere /\ ToBeStored(i) < Nowhere
          /\ ToBeLoaded(i) \in Int /\ ToBeStored(i) \in Int
      BY <2>1, PlaceCodes
    <3>3. ToBeStored(p) < Nowhere /\ ToBeStored(p) \in Int
      BY PlaceCodes
    <3>4. ToBeLoaded(i) # ToBeStored(p) /\ (ToBeStored(i) = ToBeStored(p) => i = p)
      BY <2>1, PlaceCodes
    <3> QED  BY <2>1, <3>1, <3>2, <3>3, <3>4
  <2>3. ASSUME i = p, NEW j \in Range(steps[i].stores), j \notin steps[i].flush, ~StoresTaken(w, i)
        PROVE  j \notin S
    <3>1. /\ \A k \in Range(unsub[w]) : at[k] = PutOff
          /\ \A k \in Range(storeQ[w]) : at[k] = InStoreQ
      BY <1>4, PlacesNamed
    <3> QED  BY <1>2, <1>8, <2>1, <2>2, <2>3, <3>1
  <2> QED  BY <1>9, <1>11, <2>1, <2>2, <2>3
<1>14. InCurrent(a2)'
  <2>1. PICK n \in Nat : n = Len(steps) + 1 /\ n # p
    BY <1>2 DEF Inv, LoopsOK
  <2>2. /\ \A j \in Range(curLoads) : j \in JobIds /\ at[j] = ToBeLoaded(n)
        /\ \A j \in Range(curStores) : j \in JobIds /\ at[j] = ToBeStored(n)
    BY <1>4, <2>1, PlacesNamed
  <2>3. /\ ToBeLoaded(n) \notin {InStoreQ, PutOff, ToBeStored(p)}
        /\ ToBeStored(n) \notin {InStoreQ, PutOff, ToBeStored(p)}
    BY <2>1, PlaceCodes
  <2> QED  BY <1>2, <1>3, <1>9, <1>11, <2>1, <2>2, <2>3 DEF InCurrent
<1>15. InOutput(w, a2)'
  BY <1>3 DEF InOutput
<1>16. Placed(w, a2)'
  BY <1>11, <1>12, <1>13, <1>14, <1>15 DEF Placed
<1> QED  BY <1>16

\* Loads that are submitted are in the other queue.
LEMMA LoadingPlaced ==
    ASSUME Inv, NEW w \in Workers, WorkersStep, SubmitLoads(w)
    PROVE  \E at : Placed(w, at)'
<1>1. PICK p \in Nat, q \in Seq(JobIds) : LoadsSubmitted(w, p, q)
  BY SubmittedLoads
<1>2. /\ p = pos[w] + 1 /\ p \in DOMAIN steps /\ phase[w] = "flushing"
      /\ Range(q) = Range(loadQ[w]) \cup Range(steps[p].loads)
      /\ loadQ' = [loadQ EXCEPT ![w] = q]
      /\ phase' = [phase EXCEPT ![w] = "loading"]
      /\ UNCHANGED <<steps, xfers, pos, unsub, storeQ, done>>
  BY <1>1 DEF LoadsSubmitted
<1>3. out = {} /\ UNCHANGED <<curLoads, curStores, out>>
  BY BetweenSteps
<1>4. PICK at : Placed(w, at)
  BY WorkerQueues
<1>5. /\ pos \in [Workers -> Nat] /\ phase \in [Workers -> {"idle", "flushing", "loading", "ran"}]
      /\ loadQ \in [Workers -> Seq(JobIds)]
  BY DEF Inv, WorkersOK
<1>6. /\ loadQ'[w] = q /\ phase'[w] = "loading" /\ pos'[w] = pos[w]
      /\ unsub'[w] = unsub[w] /\ storeQ'[w] = storeQ[w] /\ done'[w] = done[w]
  BY <1>2, <1>5
<1>7. ASSUME NEW i \in DOMAIN steps
      PROVE  /\ LoadsTaken(w, i)' <=> LoadsTaken(w, i) \/ i = p
             /\ StoresTaken(w, i)' <=> StoresTaken(w, i)
             /\ FlushesTaken(w, i)' <=> FlushesTaken(w, i)
             /\ ~LoadsTaken(w, p)
  BY <1>2, <1>5, <1>6 DEF LoadsTaken, StoresTaken, FlushesTaken
<1>8. PICK S : S = Range(q)
  OBVIOUS
<1>9. ASSUME NEW j \in S
      PROVE  j \in JobIds /\ at[j] \in {InLoadQ, ToBeLoaded(p)}
  <2>1. CASE j \in Range(loadQ[w])
    BY <1>4, <2>1, PlacesNamed
  <2>2. CASE j \in Range(steps[p].loads)
    BY <1>2, <1>4, <1>7, <2>2, PlacesNamed
  <2> QED  BY <1>2, <1>8, <2>1, <2>2
<1>10. PICK a2 : a2 = Moved(at, S, InLoadQ)
  OBVIOUS
<1>11. /\ a2 \in [JobIds -> Int] /\ \A j \in S : a2[j] = InLoadQ
       /\ \A j \in JobIds : j \notin S => a2[j] = at[j]
       /\ Expected(w, a2)'
  <2>1. InLoadQ # Nowhere /\ ToBeLoaded(p) # Nowhere /\ InLoadQ \in Int
    BY PlaceCodes
  <2>2. S \in SUBSET JobIds /\ \A j \in S : at[j] # Nowhere
    BY <1>9, <2>1
  <2>3. xfers' = xfers
    BY <1>2
  <2>4. at \in [JobIds -> Int] /\ Expected(w, at)
    BY <1>4 DEF Placed
  <2> QED  BY ONLY <1>10, <2>1, <2>2, <2>3, <2>4 DEF Expected, Moved
<1>12. OnWorker(w, a2)'
  <2>1. /\ InStoreQ \notin {InLoadQ, ToBeLoaded(p)} /\ Done \notin {InLoadQ, ToBeLoaded(p)}
        /\ PutOff \notin {InLoadQ, ToBeLoaded(p)}
    BY PlaceCodes
  <2>2. /\ \A j \in Range(unsub[w]) : j \in JobIds /\ at[j] = PutOff
        /\ \A j \in Range(storeQ[w]) : j \in JobIds /\ at[j] = InStoreQ
        /\ \A j \in done[w] : j \in JobIds /\ at[j] = Done
    BY <1>4, PlacesNamed
  <2> QED  BY <1>6, <1>8, <1>9, <1>11, <2>1, <2>2 DEF OnWorker
<1>13. InBatches(w, a2)'
  <2> SUFFICES ASSUME NEW i \in DOMAIN steps
               PROVE  /\ \A j \in steps[i].reports[w] : a2[j] = i
                      /\ ~(LoadsTaken(w, i) \/ i = p) =>
                            \A j \in Range(steps[i].loads) : a2[j] = ToBeLoaded(i)
                      /\ ~StoresTaken(w, i) => \A j \in Range(steps[i].stores) :
                            a2[j] = ToBeStored(i) \/ (FlushesTaken(w, i) /\ j \in steps[i].flush)
    BY <1>2, <1>7 DEF InBatches
  <2>1. /\ i \in Nat /\ i >= 1
        /\ \A j \in steps[i].reports[w] : j \in JobIds /\ at[j] = i
        /\ \A j \in Range(steps[i].loads) :
             j \in JobIds /\ (LoadsTaken(w, i) \/ at[j] = ToBeLoaded(i))
        /\ \A j \in Range(steps[i].stores) :
             j \in JobIds /\ (\/ StoresTaken(w, i) \/ at[j] = ToBeStored(i)
                              \/ FlushesTaken(w, i) /\ j \in steps[i].flush)
    BY <1>4, PlacesNamed
  <2>2. /\ i \notin {InLoadQ, ToBeLoaded(p)}
        /\ i # p => ToBeLoaded(i) \notin {InLoadQ, ToBeLoaded(p)}
        /\ ToBeStored(i) \notin {InLoadQ, ToBeLoaded(p)}
    <3>1. InLoadQ < 0 /\ Nowhere < InLoadQ /\ InLoadQ \in Int /\ Nowhere \in Int
      BY DEF InLoadQ, Nowhere
    <3>2. /\ ToBeLoaded(i) < Nowhere /\ ToBeStored(i) < Nowhere
          /\ ToBeLoaded(i) \in Int /\ ToBeStored(i) \in Int
      BY <2>1, PlaceCodes
    <3>3. ToBeLoaded(p) < Nowhere /\ ToBeLoaded(p) \in Int
      BY PlaceCodes
    <3>4. ToBeLoaded(p) # ToBeStored(i) /\ (ToBeLoaded(i) = ToBeLoaded(p) => i = p)
      BY <2>1, PlaceCodes
    <3> QED  BY <2>1, <3>1, <3>2, <3>3, <3>4
  <2> QED  BY <1>9, <1>11, <2>1, <2>2
<1>14. InCurrent(a2)'
  <2>1. PICK n \in Nat : n = Len(steps) + 1 /\ n # p
    BY <1>2 DEF Inv, LoopsOK
  <2>2. /\ \A j \in Range(curLoads) : j \in JobIds /\ at[j] = ToBeLoaded(n)
        /\ \A j \in Range(curStores) : j \in JobIds /\ at[j] = ToBeStored(n)
    BY <1>4, <2>1, PlacesNamed
  <2>3. /\ ToBeLoaded(n) \notin {InLoadQ, ToBeLoaded(p)}
        /\ ToBeStored(n) \notin {InLoadQ, ToBeLoaded(p)}
    BY <2>1, PlaceCodes
  <2> QED  BY <1>2, <1>3, <1>9, <1>11, <2>1, <2>2, <2>3 DEF InCurrent
<1>15. InOutput(w, a2)'
  BY <1>3 DEF InOutput
<1>16. Placed(w, a2)'
  BY <1>11, <1>12, <1>13, <1>14, <1>15 DEF Placed
<1> QED  BY <1>16

\* Stores that are put off wait for the next batch.
LEMMA DelayPlaced ==
    ASSUME Inv, NEW w \in Workers, WorkersStep, RunModel(w)
    PROVE  \E at : Placed(w, at)'
<1>1. PICK p \in Nat, q \in Seq(JobIds) : StoresPutOff(w, p, q)
  BY RanModel
<1>2. /\ p = pos[w] + 1 /\ p \in DOMAIN steps /\ phase[w] = "loading"
      /\ Range(q) = Range(steps[p].stores) \ steps[p].flush
      /\ unsub' = [unsub EXCEPT ![w] = q]
      /\ phase' = [phase EXCEPT ![w] = "ran"]
      /\ UNCHANGED <<steps, xfers, pos, storeQ, loadQ, done>>
  BY <1>1 DEF StoresPutOff
<1>3. out = {} /\ UNCHANGED <<curLoads, curStores, out>>
  BY BetweenSteps
<1>4. PICK at : Placed(w, at)
  BY WorkerQueues
<1>5. /\ pos \in [Workers -> Nat] /\ phase \in [Workers -> {"idle", "flushing", "loading", "ran"}]
      /\ unsub \in [Workers -> Seq(JobIds)]
  BY DEF Inv, WorkersOK
<1>6. /\ unsub'[w] = q /\ phase'[w] = "ran" /\ pos'[w] = pos[w]
      /\ loadQ'[w] = loadQ[w] /\ storeQ'[w] = storeQ[w] /\ done'[w] = done[w]
  BY <1>2, <1>5
<1>7. ASSUME NEW i \in DOMAIN steps
      PROVE  /\ LoadsTaken(w, i)' <=> LoadsTaken(w, i)
             /\ StoresTaken(w, i)' <=> StoresTaken(w, i) \/ i = p
             /\ FlushesTaken(w, i)' <=> FlushesTaken(w, i)
             /\ ~StoresTaken(w, p)
  BY <1>2, <1>5, <1>6 DEF LoadsTaken, StoresTaken, FlushesTaken
<1>8. PICK S : S = Range(q)
  OBVIOUS
<1>9. ASSUME NEW j \in S
      PROVE  j \in JobIds /\ at[j] = ToBeStored(p)
  <2>1. j \in Range(steps[p].stores) /\ j \notin steps[p].flush /\ ~StoresTaken(w, p)
    BY <1>2, <1>7, <1>8
  <2> QED  BY <1>2, <1>4, <2>1, PlacesNamed
<1>10. PICK a2 : a2 = Moved(at, S, PutOff)
  OBVIOUS
<1>11. /\ a2 \in [JobIds -> Int] /\ \A j \in S : a2[j] = PutOff
       /\ \A j \in JobIds : j \notin S => a2[j] = at[j]
       /\ Expected(w, a2)'
  <2>1. ToBeStored(p) # Nowhere /\ PutOff \in Int
    BY PlaceCodes
  <2>2. S \in SUBSET JobIds /\ \A j \in S : at[j] # Nowhere
    BY <1>9, <2>1
  <2>3. xfers' = xfers
    BY <1>2
  <2>4. at \in [JobIds -> Int] /\ Expected(w, at)
    BY <1>4 DEF Placed
  <2> QED  BY ONLY <1>10, <2>1, <2>2, <2>3, <2>4 DEF Expected, Moved
<1>12. OnWorker(w, a2)'
  <2>1. InStoreQ # ToBeStored(p) /\ Done # ToBeStored(p) /\ InLoadQ # ToBeStored(p)
    BY PlaceCodes
  <2>2. /\ \A j \in Range(loadQ[w]) : j \in JobIds /\ at[j] = InLoadQ
        /\ \A j \in Range(storeQ[w]) : j \in JobIds /\ at[j] = InStoreQ
        /\ \A j \in done[w] : j \in JobIds /\ at[j] = Done
    BY <1>4, PlacesNamed
  <2> QED  BY <1>6, <1>8, <1>9, <1>11, <2>1, <2>2 DEF OnWorker
<1>13. InBatches(w, a2)'
  <2> SUFFICES ASSUME NEW i \in DOMAIN steps
               PROVE  /\ \A j \in steps[i].reports[w] : a2[j] = i
                      /\ ~LoadsTaken(w, i) => \A j \in Range(steps[i].loads) : a2[j] = ToBeLoaded(i)
                      /\ ~(StoresTaken(w, i) \/ i = p) => \A j \in Range(steps[i].stores) :
                            a2[j] = ToBeStored(i) \/ (FlushesTaken(w, i) /\ j \in steps[i].flush)
    BY <1>2, <1>7 DEF InBatches
  <2>1. /\ i \in Nat /\ i >= 1
        /\ \A j \in steps[i].reports[w] : j \in JobIds /\ at[j] = i
        /\ \A j \in Range(steps[i].loads) :
             j \in JobIds /\ (LoadsTaken(w, i) \/ at[j] = ToBeLoaded(i))
        /\ \A j \in Range(steps[i].stores) :
             j \in JobIds /\ (\/ StoresTaken(w, i) \/ at[j] = ToBeStored(i)
                              \/ FlushesTaken(w, i) /\ j \in steps[i].flush)
    BY <1>4, PlacesNamed
  <2>2. /\ i # ToBeStored(p) /\ ToBeLoaded(i) # ToBeStored(p)
        /\ i # p => ToBeStored(i) # ToBeStored(p)
    <3>1. Nowhere \in Int /\ Nowhere < 0
      BY DEF Nowhere
    <3>2. ToBeStored(p) < Nowhere /\ ToBeStored(p) \in Int
      BY PlaceCodes
    <3>3. ToBeLoaded(i) # ToBeStored(p) /\ (ToBeStored(i) = ToBeStored(p) => i = p)
      BY <2>1, PlaceCodes
    <3> QED  BY <2>1, <3>1, <3>2, <3>3
  <2> QED  BY <1>9, <1>11, <2>1, <2>2
<1>14. InCurrent(a2)'
  <2>1. PICK n \in Nat : n = Len(steps) + 1 /\ n # p
    BY <1>2 DEF Inv, LoopsOK
  <2>2. /\ \A j \in Range(curLoads) : j \in JobIds /\ at[j] = ToBeLoaded(n)
        /\ \A j \in Range(curStores) : j \in JobIds /\ at[j] = ToBeStored(n)
    BY <1>4, <2>1, PlacesNamed
  <2>3. ToBeLoaded(n) # ToBeStored(p) /\ ToBeStored(n) # ToBeStored(p)
    BY <2>1, PlaceCodes
  <2> QED  BY <1>2, <1>3, <1>9, <1>11, <2>1, <2>2, <2>3 DEF InCurrent
<1>15. InOutput(w, a2)'
  BY <1>3 DEF InOutput
<1>16. Placed(w, a2)'
  BY <1>11, <1>12, <1>13, <1>14, <1>15 DEF Placed
<1> QED  BY <1>16

\* What a worker reports is in the batch it leaves.
LEMMA ReportPlaced ==
    ASSUME Inv, NEW w \in Workers, WorkersStep, Report(w)
    PROVE  \E at : Placed(w, at)'
<1>1. PICK p : p = pos[w] + 1
  OBVIOUS
<1>2. /\ phase[w] = "ran"
      /\ done' = [done EXCEPT ![w] = {}]
      /\ pos' = [pos EXCEPT ![w] = pos[w] + 1]
      /\ phase' = [phase EXCEPT ![w] = "idle"]
      /\ UNCHANGED <<xfers, unsub, storeQ, loadQ>>
  BY Zenon DEF Report
<1>3. out = {} /\ UNCHANGED <<curLoads, curStores, out>>
  BY BetweenSteps
<1>4. PICK at : Placed(w, at)
  BY WorkerQueues
<1>5. /\ pos \in [Workers -> Nat] /\ phase \in [Workers -> {"idle", "flushing", "loading", "ran"}]
      /\ done \in [Workers -> SUBSET JobIds]
  BY DEF Inv, WorkersOK
<1>6. /\ done'[w] = {} /\ phase'[w] = "idle" /\ pos'[w] = pos[w] + 1
      /\ loadQ'[w] = loadQ[w] /\ storeQ'[w] = storeQ[w] /\ unsub'[w] = unsub[w]
  BY <1>2, <1>5
<1>7. ASSUME NEW i \in Nat
      PROVE  /\ LoadsTaken(w, i)' <=> LoadsTaken(w, i)
             /\ StoresTaken(w, i)' <=> StoresTaken(w, i)
             /\ FlushesTaken(w, i)' <=> FlushesTaken(w, i)
  <2>1. pos[w] \in Nat
    BY <1>5
  <2>2. i <= pos[w] + 1 <=> i <= pos[w] \/ i = pos[w] + 1
    BY ONLY <2>1
  <2>3. "idle" \notin {"loading", "ran"} /\ "idle" # "ran"
    OBVIOUS
  <2> QED  BY <1>2, <1>6, <2>2, <2>3 DEF LoadsTaken, StoresTaken, FlushesTaken
<1>8. PICK S : S = done[w]
  OBVIOUS
<1>9. p \in DOMAIN steps /\ p \in Nat /\ p >= 1
  <2>1. pos[w] + 1 \in DOMAIN steps
    BY ReportedBatch
  <2> QED  BY <1>1, <1>4, <2>1, PlacesNamed
<1>10. ASSUME NEW j \in S
       PROVE  j \in JobIds /\ at[j] = Done
  BY <1>4, <1>8, PlacesNamed
<1>11. PICK a2 : a2 = Moved(at, S, p)
  OBVIOUS
<1>12. /\ a2 \in [JobIds -> Int] /\ \A j \in S : a2[j] = p
       /\ \A j \in JobIds : j \notin S => a2[j] = at[j]
       /\ Expected(w, a2)'
  <2>1. Done # Nowhere /\ p \in Int
    BY <1>9, PlaceCodes
  <2>2. S \in SUBSET JobIds /\ \A j \in S : at[j] # Nowhere
    BY <1>10, <2>1
  <2>3. xfers' = xfers
    BY <1>2
  <2>4. at \in [JobIds -> Int] /\ Expected(w, at)
    BY <1>4 DEF Placed
  <2> QED  BY ONLY <1>11, <2>1, <2>2, <2>3, <2>4 DEF Expected, Moved
<1>13. OnWorker(w, a2)'
  <2>1. InStoreQ # Done /\ PutOff # Done /\ InLoadQ # Done
    BY <1>9, PlaceCodes
  <2>2. /\ \A j \in Range(loadQ[w]) : j \in JobIds /\ at[j] = InLoadQ
        /\ \A j \in Range(storeQ[w]) : j \in JobIds /\ at[j] = InStoreQ
        /\ \A j \in Range(unsub[w]) : j \in JobIds /\ at[j] = PutOff
    BY <1>4, PlacesNamed
  <2> QED  BY <1>6, <1>10, <1>12, <2>1, <2>2 DEF OnWorker
<1>14. InBatches(w, a2)'
  <2>1. /\ DOMAIN steps' = DOMAIN steps
        /\ \A i \in DOMAIN steps :
             /\ steps'[i].flush = steps[i].flush
             /\ steps'[i].loads = steps[i].loads /\ steps'[i].stores = steps[i].stores
             /\ steps'[i].reports[w] = IF i = p THEN S ELSE steps[i].reports[w]
    BY <1>1, <1>8, ReportedBatch
  <2> SUFFICES ASSUME NEW i \in DOMAIN steps
               PROVE  /\ \A j \in (IF i = p THEN S ELSE steps[i].reports[w]) : a2[j] = i
                      /\ ~LoadsTaken(w, i) => \A j \in Range(steps[i].loads) : a2[j] = ToBeLoaded(i)
                      /\ ~StoresTaken(w, i) => \A j \in Range(steps[i].stores) :
                            a2[j] = ToBeStored(i) \/ (FlushesTaken(w, i) /\ j \in steps[i].flush)
    <3>1. \A i \in DOMAIN steps : i \in Nat
      BY NamedJobs
    <3> QED  BY <1>7, <2>1, <3>1 DEF InBatches
  <2>2. /\ i \in Nat /\ i >= 1
        /\ \A j \in steps[i].reports[w] : j \in JobIds /\ at[j] = i
        /\ \A j \in Range(steps[i].loads) :
             j \in JobIds /\ (LoadsTaken(w, i) \/ at[j] = ToBeLoaded(i))
        /\ \A j \in Range(steps[i].stores) :
             j \in JobIds /\ (\/ StoresTaken(w, i) \/ at[j] = ToBeStored(i)
                              \/ FlushesTaken(w, i) /\ j \in steps[i].flush)
    BY <1>4, PlacesNamed
  <2>3. i # Done /\ ToBeLoaded(i) # Done /\ ToBeStored(i) # Done
    <3>1. Nowhere < Done /\ Done < 0 /\ Done \in Int /\ Nowhere \in Int
      BY DEF Done, Nowhere
    <3>2. /\ ToBeLoaded(i) < Nowhere /\ ToBeStored(i) < Nowhere
          /\ ToBeLoaded(i) \in Int /\ ToBeStored(i) \in Int
      BY <2>2, PlaceCodes
    <3> QED  BY <2>2, <3>1, <3>2
  <2> QED  BY <1>10, <1>12, <2>2, <2>3
<1>15. InCurrent(a2)'
  <2>1. PICK n \in Nat : n = Len(steps) + 1
    BY DEF Inv, LoopsOK
  <2>2. /\ \A j \in Range(curLoads) : j \in JobIds /\ at[j] = ToBeLoaded(n)
        /\ \A j \in Range(curStores) : j \in JobIds /\ at[j] = ToBeStored(n)
    BY <1>4, <2>1, PlacesNamed
  <2>3. ToBeLoaded(n) # Done /\ ToBeStored(n) # Done
    BY <2>1, PlaceCodes
  <2>4. Len(steps') = Len(steps)
    BY ReportedBatch
  <2> QED  BY <1>3, <1>10, <1>12, <2>1, <2>2, <2>3, <2>4 DEF InCurrent
<1>16. InOutput(w, a2)'
  BY <1>3 DEF InOutput
<1>17. Placed(w, a2)'
  BY <1>12, <1>13, <1>14, <1>15, <1>16 DEF Placed
<1> QED  BY <1>17

\* A transfer that is done waits to be reported.
LEMMA StoreDonePlaced ==
    ASSUME Inv, NEW w \in Workers, WorkersStep, StoreTransfer(w)
    PROVE  \E at : Placed(w, at)'
<1>1. PICK k \in JobIds, q \in Seq(JobIds) : StoreDone(w, k, q)
  BY DoneTransfers
<1>2. /\ k \in Range(storeQ[w]) /\ Range(q) = Range(storeQ[w]) \ {k}
      /\ storeQ' = [storeQ EXCEPT ![w] = q]
      /\ done' = [done EXCEPT ![w] = done[w] \cup {k}]
      /\ UNCHANGED <<steps, xfers, pos, phase, unsub, loadQ>>
  BY <1>1 DEF StoreDone
<1>3. out = {} /\ UNCHANGED <<curLoads, curStores, out>>
  BY BetweenSteps
<1>4. PICK at : Placed(w, at)
  BY WorkerQueues
<1>5. done \in [Workers -> SUBSET JobIds] /\ storeQ \in [Workers -> Seq(JobIds)]
  BY DEF Inv, WorkersOK
<1>6. /\ done'[w] = done[w] \cup {k} /\ storeQ'[w] = q
      /\ loadQ'[w] = loadQ[w] /\ unsub'[w] = unsub[w]
  BY <1>2, <1>5
<1>7. ASSUME NEW i \in DOMAIN steps
      PROVE  /\ LoadsTaken(w, i)' <=> LoadsTaken(w, i)
             /\ StoresTaken(w, i)' <=> StoresTaken(w, i)
             /\ FlushesTaken(w, i)' <=> FlushesTaken(w, i)
  BY <1>2 DEF LoadsTaken, StoresTaken, FlushesTaken
<1>8. at[k] = InStoreQ
  BY <1>2, <1>4, PlacesNamed
<1>9. PICK a2 : a2 = Moved(at, {k}, Done)
  OBVIOUS
<1>10. /\ a2 \in [JobIds -> Int] /\ a2[k] = Done
       /\ \A j \in JobIds : j # k => a2[j] = at[j]
       /\ Expected(w, a2)'
  <2>1. InStoreQ # Nowhere /\ Done \in Int
    BY DEF InStoreQ, Nowhere, Done
  <2>2. k \in JobIds /\ at[k] # Nowhere
    BY <1>8, <2>1
  <2>3. xfers' = xfers
    BY <1>2
  <2>4. at \in [JobIds -> Int] /\ Expected(w, at)
    BY <1>4 DEF Placed
  <2> QED  BY ONLY <1>9, <2>1, <2>2, <2>3, <2>4 DEF Expected, Moved
<1>11. OnWorker(w, a2)'
  <2>1. PutOff # InStoreQ /\ InLoadQ # InStoreQ
    BY DEF InStoreQ, InLoadQ, PutOff
  <2>2. /\ \A j \in Range(loadQ[w]) : j \in JobIds /\ at[j] = InLoadQ
        /\ \A j \in Range(storeQ[w]) : j \in JobIds /\ at[j] = InStoreQ
        /\ \A j \in Range(unsub[w]) : j \in JobIds /\ at[j] = PutOff
        /\ \A j \in done[w] : j \in JobIds /\ at[j] = Done
    BY <1>4, PlacesNamed
  <2> QED  BY <1>2, <1>6, <1>8, <1>10, <2>1, <2>2 DEF OnWorker
<1>12. InBatches(w, a2)'
  <2> SUFFICES ASSUME NEW i \in DOMAIN steps
               PROVE  /\ \A j \in steps[i].reports[w] : a2[j] = i
                      /\ ~LoadsTaken(w, i) => \A j \in Range(steps[i].loads) : a2[j] = ToBeLoaded(i)
                      /\ ~StoresTaken(w, i) => \A j \in Range(steps[i].stores) :
                            a2[j] = ToBeStored(i) \/ (FlushesTaken(w, i) /\ j \in steps[i].flush)
    BY <1>2, <1>7 DEF InBatches
  <2>1. /\ i \in Nat /\ i >= 1
        /\ \A j \in steps[i].reports[w] : j \in JobIds /\ at[j] = i
        /\ \A j \in Range(steps[i].loads) :
             j \in JobIds /\ (LoadsTaken(w, i) \/ at[j] = ToBeLoaded(i))
        /\ \A j \in Range(steps[i].stores) :
             j \in JobIds /\ (\/ StoresTaken(w, i) \/ at[j] = ToBeStored(i)
                              \/ FlushesTaken(w, i) /\ j \in steps[i].flush)
    BY <1>4, PlacesNamed
  <2>2. i # InStoreQ /\ ToBeLoaded(i) # InStoreQ /\ ToBeStored(i) # InStoreQ
    <3>1. Nowhere < InStoreQ /\ InStoreQ < 0 /\ InStoreQ \in Int /\ Nowhere \in Int
      BY DEF InStoreQ, Nowhere
    <3>2. /\ ToBeLoaded(i) < Nowhere /\ ToBeStored(i) < Nowhere
          /\ ToBeLoaded(i) \in Int /\ ToBeStored(i) \in Int
      BY <2>1, PlaceCodes
    <3> QED  BY <2>1, <3>1, <3>2
  <2> QED  BY <1>8, <1>10, <2>1, <2>2
<1>13. InCurrent(a2)'
  <2>1. PICK n \in Nat : n = Len(steps) + 1
    BY DEF Inv, LoopsOK
  <2>2. /\ \A j \in Range(curLoads) : j \in JobIds /\ at[j] = ToBeLoaded(n)
        /\ \A j \in Range(curStores) : j \in JobIds /\ at[j] = ToBeStored(n)
    BY <1>4, <2>1, PlacesNamed
  <2>3. ToBeLoaded(n) # InStoreQ /\ ToBeStored(n) # InStoreQ
    BY <2>1, PlaceCodes
  <2> QED  BY <1>2, <1>3, <1>8, <1>10, <2>1, <2>2, <2>3 DEF InCurrent
<1>14. InOutput(w, a2)'
  BY <1>3 DEF InOutput
<1>15. Placed(w, a2)'
  BY <1>10, <1>11, <1>12, <1>13, <1>14 DEF Placed
<1> QED  BY <1>15

\* A load that is done waits to be reported.
LEMMA LoadDonePlaced ==
    ASSUME Inv, NEW w \in Workers, WorkersStep, LoadTransfer(w)
    PROVE  \E at : Placed(w, at)'
<1>1. PICK k \in JobIds, q \in Seq(JobIds) : LoadDone(w, k, q)
  BY DoneTransfers
<1>2. /\ k \in Range(loadQ[w]) /\ Range(q) = Range(loadQ[w]) \ {k}
      /\ loadQ' = [loadQ EXCEPT ![w] = q]
      /\ done' = [done EXCEPT ![w] = done[w] \cup {k}]
      /\ UNCHANGED <<steps, xfers, pos, phase, unsub, storeQ>>
  BY <1>1 DEF LoadDone
<1>3. out = {} /\ UNCHANGED <<curLoads, curStores, out>>
  BY BetweenSteps
<1>4. PICK at : Placed(w, at)
  BY WorkerQueues
<1>5. done \in [Workers -> SUBSET JobIds] /\ loadQ \in [Workers -> Seq(JobIds)]
  BY DEF Inv, WorkersOK
<1>6. /\ done'[w] = done[w] \cup {k} /\ loadQ'[w] = q
      /\ storeQ'[w] = storeQ[w] /\ unsub'[w] = unsub[w]
  BY <1>2, <1>5
<1>7. ASSUME NEW i \in DOMAIN steps
      PROVE  /\ LoadsTaken(w, i)' <=> LoadsTaken(w, i)
             /\ StoresTaken(w, i)' <=> StoresTaken(w, i)
             /\ FlushesTaken(w, i)' <=> FlushesTaken(w, i)
  BY <1>2 DEF LoadsTaken, StoresTaken, FlushesTaken
<1>8. at[k] = InLoadQ
  BY <1>2, <1>4, PlacesNamed
<1>9. PICK a2 : a2 = Moved(at, {k}, Done)
  OBVIOUS
<1>10. /\ a2 \in [JobIds -> Int] /\ a2[k] = Done
       /\ \A j \in JobIds : j # k => a2[j] = at[j]
       /\ Expected(w, a2)'
  <2>1. InLoadQ # Nowhere /\ Done \in Int
    BY DEF InLoadQ, Nowhere, Done
  <2>2. k \in JobIds /\ at[k] # Nowhere
    BY <1>8, <2>1
  <2>3. xfers' = xfers
    BY <1>2
  <2>4. at \in [JobIds -> Int] /\ Expected(w, at)
    BY <1>4 DEF Placed
  <2> QED  BY ONLY <1>9, <2>1, <2>2, <2>3, <2>4 DEF Expected, Moved
<1>11. OnWorker(w, a2)'
  <2>1. PutOff # InLoadQ /\ InStoreQ # InLoadQ
    BY DEF InStoreQ, InLoadQ, PutOff
  <2>2. /\ \A j \in Range(loadQ[w]) : j \in JobIds /\ at[j] = InLoadQ
        /\ \A j \in Range(storeQ[w]) : j \in JobIds /\ at[j] = InStoreQ
        /\ \A j \in Range(unsub[w]) : j \in JobIds /\ at[j] = PutOff
        /\ \A j \in done[w] : j \in JobIds /\ at[j] = Done
    BY <1>4, PlacesNamed
  <2> QED  BY <1>2, <1>6, <1>8, <1>10, <2>1, <2>2 DEF OnWorker
<1>12. InBatches(w, a2)'
  <2> SUFFICES ASSUME NEW i \in DOMAIN steps
               PROVE  /\ \A j \in steps[i].reports[w] : a2[j] = i
                      /\ ~LoadsTaken(w, i) => \A j \in Range(steps[i].loads) : a2[j] = ToBeLoaded(i)
                      /\ ~StoresTaken(w, i) => \A j \in Range(steps[i].stores) :
                            a2[j] = ToBeStored(i) \/ (FlushesTaken(w, i) /\ j \in steps[i].flush)
    BY <1>2, <1>7 DEF InBatches
  <2>1. /\ i \in Nat /\ i >= 1
        /\ \A j \in steps[i].reports[w] : j \in JobIds /\ at[j] = i
        /\ \A j \in Range(steps[i].loads) :
             j \in JobIds /\ (LoadsTaken(w, i) \/ at[j] = ToBeLoaded(i))
        /\ \A j \in Range(steps[i].stores) :
             j \in JobIds /\ (\/ StoresTaken(w, i) \/ at[j] = ToBeStored(i)
                              \/ FlushesTaken(w, i) /\ j \in steps[i].flush)
    BY <1>4, PlacesNamed
  <2>2. i # InLoadQ /\ ToBeLoaded(i) # InLoadQ /\ ToBeStored(i) # InLoadQ
    <3>1. Nowhere < InLoadQ /\ InLoadQ < 0 /\ InLoadQ \in Int /\ Nowhere \in Int
      BY DEF InLoadQ, Nowhere
    <3>2. /\ ToBeLoaded(i) < Nowhere /\ ToBeStored(i) < Nowhere
          /\ ToBeLoaded(i) \in Int /\ ToBeStored(i) \in Int
      BY <2>1, PlaceCodes
    <3> QED  BY <2>1, <3>1, <3>2
  <2> QED  BY <1>8, <1>10, <2>1, <2>2
<1>13. InCurrent(a2)'
  <2>1. PICK n \in Nat : n = Len(steps) + 1
    BY DEF Inv, LoopsOK
  <2>2. /\ \A j \in Range(curLoads) : j \in JobIds /\ at[j] = ToBeLoaded(n)
        /\ \A j \in Range(curStores) : j \in JobIds /\ at[j] = ToBeStored(n)
    BY <1>4, <2>1, PlacesNamed
  <2>3. ToBeLoaded(n) # InLoadQ /\ ToBeStored(n) # InLoadQ
    BY <2>1, PlaceCodes
  <2> QED  BY <1>2, <1>3, <1>8, <1>10, <2>1, <2>2, <2>3 DEF InCurrent
<1>14. InOutput(w, a2)'
  BY <1>3 DEF InOutput
<1>15. Placed(w, a2)'
  BY <1>10, <1>11, <1>12, <1>13, <1>14 DEF Placed
<1> QED  BY <1>15

\* Workers move with every job of every worker in its place.
LEMMA WorkersPlaced ==
    ASSUME Inv, WorkersStep
    PROVE  PlacesOK'
<1>1. PICK w \in Workers : WorkerStep(w)
  BY Zenon DEF WorkersStep
<1>2. \E at : Placed(w, at)'
  BY <1>1, SubmissionPlaced, LoadingPlaced, DelayPlaced, ReportPlaced, StoreDonePlaced,
     LoadDonePlaced DEF WorkerStep
<1>3. ASSUME NEW v \in Workers, v # w
      PROVE  \E at : Placed(v, at)'
  <2>1. PICK at : Placed(v, at)
    BY WorkerQueues
  <2>2. Placed(v, at)'
    BY <1>1, <1>3, <2>1, OthersKept
  <2> QED  BY <2>2
<1> QED  BY <1>2, <1>3 DEF PlacesOK

\* Every step leaves each job at one place at most on each worker: the workers'
\* steps, those that make or complete a job and those that pass a batch on move
\* it, and the others touch no place.
LEMMA PlacesStep == Inv /\ [Next]_vars => PlacesOK'
<1> SUFFICES ASSUME Inv, [Next]_vars PROVE PlacesOK'
  OBVIOUS
<1>1. ASSUME WorkersStep \/ BeginOutput \/ Emit
      PROVE  PlacesOK'
  BY <1>1, WorkersPlaced, OutputPlaced, EmissionPlaced
<1>2. ASSUME NEW r \in Reqs, AdmitLoad(r) \/ Store(r)
      PROVE  PlacesOK'
  BY <1>2, LoadPlaced, StorePlaced
<1>3. ASSUME NEW j \in JobIds, CompleteJob(j)
      PROVE  PlacesOK'
  BY <1>3, CompletionPlaced
<1>4. ASSUME ~WorkersStep, ~BeginOutput, ~Emit, \A r \in Reqs : ~AdmitLoad(r) /\ ~Store(r),
             \A j \in JobIds : ~CompleteJob(j)
      PROVE  PlacesOK'
  <2>1. UNCHANGED <<steps, pos, phase, unsub, storeQ, loadQ, done>>
    BY <1>4, Changes
  <2>2. UNCHANGED <<curLoads, curStores>>
    <3>1. CASE UNCHANGED <<nextStored, beingLoaded, preemptedIds, curFlush, curLoads, curStores>>
      BY <3>1
    <3>2. ASSUME NEW r \in Reqs, Arrive(r) \/ NothingToStore(r)
          PROVE  UNCHANGED <<curLoads, curStores>>
      BY Zenon, <3>2 DEF Arrive, NothingToStore, KeepForStores, curVars
    <3>3. ASSUME PreemptForBlocks \/ BuildMeta
          PROVE  UNCHANGED <<curLoads, curStores>>
      BY Zenon, <3>3 DEF PreemptForBlocks, BuildMeta, curVars
    <3>4. ASSUME Reset
          PROVE  UNCHANGED <<curLoads, curStores>>
      BY Zenon, <3>4, ResetShape DEF KeepConnector, ConnectorReset, curVars
    <3> QED  BY <1>4, <3>1, <3>2, <3>3, <3>4, Changes
  <2>3. \A j \in DOMAIN xfers : j \in DOMAIN xfers' /\ xfers'[j].left = xfers[j].left
    <3>1. CASE xfers' = xfers
      BY <3>1
    <3>2. CASE xfers' = StaleXfers
      <4>1. ASSUME NEW j \in DOMAIN xfers
            PROVE  j \in DOMAIN xfers' /\ xfers'[j].left = xfers[j].left
        <5>1. PICK x \in Xfer : x = xfers[j]
          BY DEF Inv, TableOK
        <5>2. j \in DOMAIN xfers' /\ xfers'[j] = [x EXCEPT !.stale = TRUE]
          BY <3>2, <5>1 DEF StaleXfers
        <5> QED  BY <5>1, <5>2 DEF Xfer
      <4> QED  BY <4>1
    <3>3. xfers' = xfers \/ xfers' = StaleXfers
      <4>1. ASSUME Reset
            PROVE  xfers' = xfers \/ xfers' = StaleXfers
        BY Zenon, <4>1, ResetShape DEF KeepConnector, ConnectorReset
      <4> QED  BY <1>4, <4>1, Changes
    <3> QED  BY <3>1, <3>2, <3>3
  <2>4. \/ out' = {}
        \/ out' = out /\ (pc = "output" \/ (pc' = pc /\ todo' = todo))
    <3>1. out' = out \/ out' = {}
      <4>1. ASSUME EndOutput
            PROVE  out' = {}
        BY Zenon, <4>1 DEF EndOutput
      <4> QED  BY <1>4, <4>1, Changes
    <3>2. \/ pc' = pc /\ todo' = todo
          \/ pc = "output"
          \/ pc \in {"idle", "running", "waiting", "build", "stores"}
          \/ EndOutput
      <4>1. ASSUME NEW r \in Reqs, \/ SkipBlocked(r) \/ DeferLookup(r) \/ AdmitRunning(r)
                                   \/ AdmitFails(r) \/ NothingToStore(r) \/ StoreRefused(r)
            PROVE  pc \in {"waiting", "stores"}
        BY <4>1 DEF SkipBlocked, DeferLookup, AdmitRunning, AdmitFails, NothingToStore,
             StoreRefused, CanTry, StoreTurn
      <4>2. ASSUME \/ BeginSchedule \/ ScheduleRunning \/ PreemptForBlocks \/ TryWaiting
                   \/ EndSchedule \/ BuildMeta \/ AssertionFails
            PROVE  pc \in {"idle", "running", "waiting", "build"}
        BY <4>2 DEF BeginSchedule, ScheduleRunning, PreemptForBlocks, TryWaiting, EndSchedule,
             BuildMeta, AssertionFails, EngineFree
      <4>3. ASSUME NEW r \in Reqs, NEW stop \in BOOLEAN, ProcessRequest(r, stop)
            PROVE  pc = "output"
        BY <4>3 DEF ProcessRequest
      <4>4. ASSUME BeginTransfers
            PROVE  pc = "output"
        BY <4>4 DEF BeginTransfers
      <4> QED  BY <1>4, <4>1, <4>2, <4>3, <4>4, Changes
    <3>3. EndOutput => out' = {}
      BY DEF EndOutput
    <3>4. pc \in {"idle", "running", "waiting", "build", "stores"} => out = {}
      BY DEF Inv, LoopsOK, Receiving
    <3> QED  BY <3>1, <3>2, <3>3, <3>4
  <2> QED  BY <2>1, <2>2, <2>3, <2>4, PlacesKept
<1> QED  BY <1>1, <1>2, <1>3, <1>4

-----------------------------------------------------------------------------
(***************************************************************************)
(* The manager.  What the connector does to it is what its clients may do, so *)
(* the invariant that CPUOffloadingManagerProofs proves of the manager alone   *)
(* holds of it here.                                                       *)
(***************************************************************************)

\* A new job loads or stores its keys, and no other job's change.
LEMMA JobAdded ==
    ASSUME NEW j \in JobIds, j \notin DOMAIN jobs, NEW b \in Job, jobs' = With(jobs, j, b)
    PROVE  /\ JobLoads[j] = {} /\ JobStores[j] = {}
           /\ ~b.store => JobLoads' = [JobLoads EXCEPT ![j] = b.keys] /\ JobStores' = JobStores
           /\ b.store => JobStores' = [JobStores EXCEPT ![j] = b.keys] /\ JobLoads' = JobLoads
<1>1. DOMAIN jobs' = DOMAIN jobs \cup {j} /\ jobs'[j] = b
      /\ \A i \in DOMAIN jobs : jobs'[i] = jobs[i]
  BY ONLY j \notin DOMAIN jobs, jobs' = With(jobs, j, b) DEF With
<1>2. b.store \in BOOLEAN
  BY DEF Job
<1>3. JobLoads[j] = {} /\ JobStores[j] = {}
  BY DEF JobLoads, JobStores
<1>4. ASSUME ~b.store
      PROVE  JobLoads' = [JobLoads EXCEPT ![j] = b.keys] /\ JobStores' = JobStores
  BY <1>1, <1>4 DEF JobLoads, JobStores
<1>5. ASSUME b.store
      PROVE  JobStores' = [JobStores EXCEPT ![j] = b.keys] /\ JobLoads' = JobLoads
  BY <1>1, <1>2, <1>5 DEF JobLoads, JobStores
<1> QED  BY <1>3, <1>4, <1>5

\* A job that ends loads and stores nothing.
LEMMA JobEnded ==
    ASSUME NEW j \in JobIds, j \in DOMAIN jobs, jobs[j].store \in BOOLEAN,
           DOMAIN jobs' = DOMAIN jobs \ {j}, \A i \in DOMAIN jobs' : jobs'[i] = jobs[i]
    PROVE  /\ ~jobs[j].store => /\ JobLoads[j] = jobs[j].keys
                                /\ JobLoads' = [JobLoads EXCEPT ![j] = {}] /\ JobStores' = JobStores
           /\ jobs[j].store => /\ JobStores[j] = jobs[j].keys
                               /\ JobStores' = [JobStores EXCEPT ![j] = {}] /\ JobLoads' = JobLoads
<1>1. ASSUME ~jobs[j].store
      PROVE  /\ JobLoads[j] = jobs[j].keys
             /\ JobLoads' = [JobLoads EXCEPT ![j] = {}] /\ JobStores' = JobStores
  BY <1>1 DEF JobLoads, JobStores
<1>2. ASSUME jobs[j].store
      PROVE  /\ JobStores[j] = jobs[j].keys
             /\ JobStores' = [JobStores EXCEPT ![j] = {}] /\ JobLoads' = JobLoads
  BY <1>2 DEF JobLoads, JobStores
<1> QED  BY <1>1, <1>2

\* Jobs that keep their keys load and store what they did.
LEMMA JobsKept ==
    ASSUME DOMAIN jobs' = DOMAIN jobs,
           \A i \in DOMAIN jobs : jobs'[i].store = jobs[i].store /\ jobs'[i].keys = jobs[i].keys
    PROVE  JobLoads' = JobLoads /\ JobStores' = JobStores
BY DEF JobLoads, JobStores

\* Every step leaves the manager alone or is one of its methods, called as its
\* clients may call it.
LEMMA ManagerStep == Inv /\ [Next]_vars => UNCHANGED Mgr!vars \/ Mgr!Next
<1> SUFFICES ASSUME Inv, [Next]_vars PROVE UNCHANGED Mgr!vars \/ Mgr!Next
  OBVIOUS
<1>1. CASE UNCHANGED <<jobs, xfers, mgrVars>>
  BY <1>1 DEF Mgr!vars, mgrVars, JobLoads, JobStores
<1>2. ASSUME NEW r \in Reqs, AdmitLoad(r)
      PROVE  Mgr!Next
  <2>1. PICK n, m \in Nat, j \in JobIds, hit, new \in Seq(Blocks), keys \in SUBSET Keys,
             x \in Xfer, b \in Job : LoadAdmitted(r, n, m, j, hit, new, keys, x, b)
    BY <1>2, AdmittedLoad
  <2>2. /\ keys # {} /\ \A k \in keys : Mgr!Lookup(k) = "HIT"
        /\ j \notin DOMAIN xfers /\ ~b.store /\ b.keys = keys /\ jobs' = With(jobs, j, b)
        /\ Mgr!PrepareLoadEffect(keys)
    BY ONLY <2>1 DEF LoadAdmitted
  <2>3. j \notin DOMAIN jobs
    BY <2>2 DEF Inv, TableOK
  <2>4. /\ JobLoads[j] = {} /\ JobStores[j] = {}
        /\ JobLoads' = [JobLoads EXCEPT ![j] = keys] /\ JobStores' = JobStores
    BY <2>2, <2>3, JobAdded
  <2>5. Mgr!CanLoad(keys)
    BY <2>2 DEF Mgr!CanLoad, Mgr!Lookup
  <2>6. Mgr!PrepareLoad(j, keys)
    BY <2>2, <2>4, <2>5 DEF Mgr!PrepareLoad, Mgr!IdleJob
  <2> QED  BY <2>6 DEF Mgr!Next
<1>3. ASSUME NEW r \in Reqs, Store(r)
      PROVE  Mgr!Next
  <2>1. PICK new \in Seq(Keys), j \in JobIds, src \in SUBSET Blocks, b \in Job :
             \E copies, x : StoreMade(r, new, j, src, copies, x, b)
    BY <1>3, MadeStore
  <2>2. PICK copies, x : StoreMade(r, new, j, src, copies, x, b)
    BY <2>1
  <2>3. PICK keys : keys = Range(NewKeys(r))
    OBVIOUS
  <2>4. /\ StoreTurn(r) /\ new = ToStore(r) /\ new # <<>>
        /\ j \notin DOMAIN xfers /\ b.store /\ b.keys = Range(new) /\ jobs' = With(jobs, j, b)
    BY ONLY <2>2 DEF StoreMade
  <2>5. PICK evicted \in Mgr!EvictionChoices(keys) :
             Mgr!CanEvict(keys, evicted) /\ Mgr!PrepareStoreEffect(new, evicted)
    BY ONLY Zenon, <2>2, <2>3 DEF StoreMade
  <2>6. j \notin DOMAIN jobs
    BY <2>4 DEF Inv, TableOK
  <2>7. /\ JobLoads[j] = {} /\ JobStores[j] = {}
        /\ JobStores' = [JobStores EXCEPT ![j] = Range(new)] /\ JobLoads' = JobLoads
    BY <2>4, <2>6, JobAdded
  <2>8. IsInjective(new) /\ Range(new) = keys \ DOMAIN blocks /\ keys \in SUBSET Keys
    <3>1. /\ NewKeys(r) \in Seq(Keys) /\ IsInjective(new)
          /\ Range(new) = keys \ DOMAIN blocks
      BY <2>3, <2>4, KeysToStore
    <3>2. Range(NewKeys(r)) \subseteq Keys
      BY <3>1, ListPositions
    <3> QED  BY <2>3, <3>1, <3>2
  <2>9. Mgr!KeysToStore(keys) = Range(new) /\ Range(new) # {}
    <3>1. Range(new) # {}
      <4>1. Len(new) \in Nat /\ Len(new) > 0 /\ \A i \in 1..Len(new) : new[i] \in Range(new)
        BY <2>4, ListPositions
      <4> QED  BY <4>1
    <3> QED  BY <2>8, <3>1 DEF Mgr!KeysToStore, Mgr!Present
  <2>10. new \in Mgr!SetToSeqs(Mgr!KeysToStore(keys))
    <3>1. PICK S : S = Range(new)
      OBVIOUS
    <3>2. new \in SetToSeqs(S)
      BY <2>8, <3>1, ListIsArrangement
    <3>3. Mgr!SetToSeqs(S) = SetToSeqs(S)
      BY Zenon DEF Mgr!SetToSeqs, SetToSeqs, Mgr!Cardinality, Cardinality
    <3> QED  BY <2>9, <3>1, <3>2, <3>3
  <2>11. Mgr!PrepareStore(j, keys, new, evicted)
    BY <2>5, <2>7, <2>9 DEF Mgr!PrepareStore, Mgr!IdleJob
  <2> QED  BY <2>5, <2>8, <2>10, <2>11 DEF Mgr!Next
<1>4. ASSUME NEW j \in JobIds, CompleteJob(j)
      PROVE  UNCHANGED Mgr!vars \/ Mgr!Next
  <2>1. PICK left : left = xfers[j].left \ Reporters(j)
    OBVIOUS
  <2>2. \/ Skipped(j)
        \/ j \in DOMAIN jobs /\ (CountedDown(j, left) \/ Completed(j, left))
    BY <1>4, <2>1, CompletedJob
  <2>3. CASE Skipped(j)
    BY ONLY <2>3 DEF Skipped, Mgr!vars, mgrVars, JobLoads, JobStores
  <2>4. ASSUME j \in DOMAIN jobs, CountedDown(j, left)
        PROVE  UNCHANGED Mgr!vars
    <3>1. /\ DOMAIN jobs' = DOMAIN jobs
          /\ \A i \in DOMAIN jobs : jobs'[i].store = jobs[i].store /\ jobs'[i].keys = jobs[i].keys
          /\ UNCHANGED mgrVars
      BY ONLY <2>4 DEF CountedDown
    <3>2. JobLoads' = JobLoads /\ JobStores' = JobStores
      BY ONLY <3>1, JobsKept
    <3> QED  BY ONLY <3>1, <3>2 DEF Mgr!vars, mgrVars
  <2>5. ASSUME j \in DOMAIN jobs, Completed(j, left)
        PROVE  Mgr!Next
    <3>1. /\ DOMAIN jobs' = DOMAIN jobs \ {j} /\ \A i \in DOMAIN jobs' : jobs'[i] = jobs[i]
          /\ jobs[j].store => Mgr!StoredEffect(jobs[j].keys)
          /\ ~jobs[j].store => Mgr!CompleteLoadEffect(jobs[j].keys)
      BY ONLY <2>5 DEF Completed
    <3>2. PICK b : b = jobs[j]
      OBVIOUS
    <3>3. b \in Job /\ b.keys # {}
      BY <2>5, <3>2 DEF Inv, TableOK
    <3>4. b.store \in BOOLEAN
      BY <3>3 DEF Job
    <3>5. /\ ~b.store => /\ JobLoads[j] = b.keys
                         /\ JobLoads' = [JobLoads EXCEPT ![j] = {}] /\ JobStores' = JobStores
          /\ b.store => /\ JobStores[j] = b.keys
                        /\ JobStores' = [JobStores EXCEPT ![j] = {}] /\ JobLoads' = JobLoads
      BY <2>5, <3>1, <3>2, <3>4, JobEnded
    <3>6. CASE b.store
      <4>1. Mgr!CompleteStore(j)
        BY <3>1, <3>2, <3>3, <3>5, <3>6 DEF Mgr!CompleteStore
      <4> QED  BY <4>1 DEF Mgr!Next
    <3>7. CASE ~b.store
      <4>1. Mgr!CompleteLoad(j)
        BY <3>1, <3>2, <3>3, <3>5, <3>7 DEF Mgr!CompleteLoad
      <4> QED  BY <4>1 DEF Mgr!Next
    <3> QED  BY <3>6, <3>7
  <2> QED  BY <2>2, <2>3, <2>4, <2>5
<1>5. ASSUME Reset
      PROVE  UNCHANGED Mgr!vars \/ Mgr!Next
  <2>1. CASE KeepConnector
    <3>1. UNCHANGED <<jobs, mgrVars>>
      BY Zenon, <2>1 DEF KeepConnector, jobTable
    <3> QED  BY <3>1 DEF Mgr!vars, mgrVars, JobLoads, JobStores
  <2>2. CASE ConnectorReset
    <3>1. Mgr!ResetEffect /\ jobs' = Nothing
      BY Zenon, <2>2 DEF ConnectorReset
    <3>2. JobLoads' = [j \in JobIds |-> {}] /\ JobStores' = [j \in JobIds |-> {}]
      BY <3>1 DEF JobLoads, JobStores, Nothing
    <3>3. Mgr!ResetCache
      BY <3>1, <3>2 DEF Mgr!ResetCache
    <3> QED  BY <3>3 DEF Mgr!Next
  <2> QED  BY <1>5, <2>1, <2>2, ResetShape
<1> QED  BY <1>1, <1>2, <1>3, <1>4, <1>5, Changes

\* So what is proved of the manager alone holds of it here.
LEMMA ManagerInvStep == Inv /\ [Next]_vars => MP!Inv'
<1> SUFFICES ASSUME Inv, [Next]_vars PROVE MP!Inv'
  OBVIOUS
<1>1. UNCHANGED Mgr!vars \/ Mgr!Next
  BY ManagerStep
<1>2. Mgr!Next = MP!Next
  BY Zenon DEF Mgr!Next, MP!Next, Mgr!PrepareLoad, MP!PrepareLoad, Mgr!CompleteLoad,
     MP!CompleteLoad, Mgr!PrepareStore, MP!PrepareStore, Mgr!CompleteStore, MP!CompleteStore,
     Mgr!CompleteStoreFailed, MP!CompleteStoreFailed, Mgr!ResetCache, MP!ResetCache,
     Mgr!ResetEffect, MP!ResetEffect, Mgr!StoreFailedEffect, MP!StoreFailedEffect,
     Mgr!StoredEffect, MP!StoredEffect, Mgr!PendingOf, MP!PendingOf, Mgr!PrepareStoreEffect,
     MP!PrepareStoreEffect, Mgr!SlotFor, MP!SlotFor, Mgr!NumFresh, MP!NumFresh, Mgr!NumReused,
     MP!NumReused, Mgr!FreedList, MP!FreedList, Mgr!EvictionChoices, MP!EvictionChoices,
     Mgr!CanEvict, MP!CanEvict, Mgr!NumToEvict, MP!NumToEvict, Mgr!KeysToStore, MP!KeysToStore,
     Mgr!CompleteLoadEffect, MP!CompleteLoadEffect, Mgr!PrepareLoadEffect, MP!PrepareLoadEffect,
     Mgr!CanLoad, MP!CanLoad, Mgr!IdleJob, MP!IdleJob, Mgr!NumFree, MP!NumFree, Mgr!Idle,
     MP!Idle, Mgr!IsReady, MP!IsReady, Mgr!Present, MP!Present, Mgr!Cardinality, MP!Cardinality,
     Mgr!SetToSeqs, MP!SetToSeqs, Mgr!Range, MP!Range, Mgr!IsInjective, MP!IsInjective
<1>3. MP!Inv /\ [MP!Next]_(MP!vars) => MP!Inv'
  BY ManagerAssumptions, MP!NextInv DEF MP!KeysAssumption, MP!NumBlocksAssumption, MP!JobIdsAssumption
<1>4. [MP!Next]_(MP!vars)
  <2>1. CASE Mgr!Next
    BY <1>2, <2>1
  <2>2. CASE UNCHANGED Mgr!vars
    BY <2>2 DEF Mgr!vars, MP!vars
  <2> QED  BY <1>1, <2>1, <2>2
<1> QED  BY <1>3, <1>4 DEF Inv

-----------------------------------------------------------------------------
(***************************************************************************)
(* The job table.                                                          *)
(***************************************************************************)

\* The table with one more job in it.
LEMMA TableGrows ==
    ASSUME Inv, NEW j \in JobIds, j \notin DOMAIN xfers, NEW x \in Xfer, NEW b \in Job,
           ~x.stale, b.keys # {}, b.req = x.req, b.store = x.store,
           b.pending = Cardinality(x.left), b.req \in tracked, tracked' = tracked,
           xfers' = With(xfers, j, x), jobs' = With(jobs, j, b)
    PROVE  TableOK'
<1>1. TableOK
  BY DEF Inv
<1>2. PICK D, J : D = DOMAIN xfers /\ J = DOMAIN jobs
  OBVIOUS
<1>3. DOMAIN xfers' = D \cup {j} /\ xfers'[j] = x /\ \A i \in D : xfers'[i] = xfers[i]
  BY ONLY <1>2, j \notin DOMAIN xfers, xfers' = With(xfers, j, x) DEF With
<1>4. J = {i \in D : ~xfers[i].stale} /\ j \notin J /\ D \subseteq JobIds
  BY <1>1, <1>2 DEF TableOK
<1>5. DOMAIN jobs' = J \cup {j} /\ jobs'[j] = b /\ \A i \in J : jobs'[i] = jobs[i]
  BY ONLY <1>2, <1>4, jobs' = With(jobs, j, b) DEF With
<1>6. DOMAIN jobs' = {i \in DOMAIN xfers' : ~xfers'[i].stale}
  BY <1>3, <1>4, <1>5
<1>7. \A i \in DOMAIN xfers' : xfers'[i] \in Xfer
  BY <1>1, <1>2, <1>3 DEF TableOK
<1>8. ASSUME NEW i \in DOMAIN jobs'
      PROVE  /\ jobs'[i] \in Job /\ jobs'[i].keys # {}
             /\ jobs'[i].req = xfers'[i].req /\ jobs'[i].store = xfers'[i].store
             /\ jobs'[i].pending = Cardinality(xfers'[i].left)
             /\ jobs'[i].req \in tracked'
  <2>1. CASE i = j
    BY <1>3, <1>5, <2>1
  <2>2. CASE i # j
    <3>1. i \in J /\ i \in D /\ jobs'[i] = jobs[i] /\ xfers'[i] = xfers[i]
      BY <1>3, <1>4, <1>5, <2>2
    <3> QED  BY <1>1, <1>2, <3>1 DEF TableOK
  <2> QED  BY <2>1, <2>2
<1> QED  BY <1>3, <1>4, <1>6, <1>7, <1>8 DEF TableOK

\* The copies of a new store are to slots of the manager.
LEMMA StoreCopies ==
    ASSUME Inv, [Next]_vars, NEW r \in Reqs, NEW new \in Seq(Keys), NEW j \in JobIds,
           NEW src \in SUBSET Blocks, NEW b, NEW copies, NEW x,
           StoreMade(r, new, j, src, copies, x, b)
    PROVE  x \in Xfer
<1>1. /\ \E evicted : Mgr!PrepareStoreEffect(new, evicted)
      /\ x = [req |-> r, store |-> TRUE, stale |-> FALSE, left |-> Workers, copies |-> copies]
      /\ \A c \in copies : \E k \in Range(new) : \E s \in src : c = [block |-> s, slot |-> blocks'[k].id]
  BY Zenon DEF StoreMade
<1>2. PICK evicted : Mgr!PrepareStoreEffect(new, evicted)
  BY <1>1
<1>3. ASSUME NEW k \in Range(new)
      PROVE  k \in DOMAIN blocks'
  <2>1. Mgr!Range(new) = Range(new)
    BY DEF Mgr!Range, Range
  <2> QED  BY <1>2, <2>1 DEF Mgr!PrepareStoreEffect
<1>4. ASSUME NEW k \in DOMAIN blocks'
      PROVE  blocks'[k].id \in Slots
  <2>1. MP!Inv'
    BY ManagerInvStep
  <2>2. blocks' \in [DOMAIN blocks' -> [ref : Int, id : MP!Slots]]
    BY <2>1 DEF MP!Inv, MP!TypeOK, MP!Present, MP!BlockStatus
  <2>3. MP!Slots = Slots
    BY DEF MP!Slots, Slots
  <2> QED  BY <1>4, <2>2, <2>3
<1>5. copies \in SUBSET Copy
  BY <1>1, <1>3, <1>4 DEF Copy
<1> QED  BY <1>1, <1>5 DEF Xfer

\* Without new jobs, the requests of the jobs there are stay tracked.
LEMMA TableKept ==
    ASSUME Inv, UNCHANGED <<jobs, xfers>>, \A j \in DOMAIN jobs : jobs[j].req \in tracked'
    PROVE  TableOK'
BY DEF Inv, TableOK

\* A completion takes its reports out of the table.
LEMMA TableShrinks ==
    ASSUME Inv, NEW j \in JobIds, CompleteJob(j)
    PROVE  TableOK'
<1>1. PICK left : left = xfers[j].left \ Reporters(j)
  OBVIOUS
<1>2. /\ j \in DOMAIN xfers /\ Reported(j, left)
      /\ \/ Skipped(j)
         \/ j \in DOMAIN jobs /\ (CountedDown(j, left) \/ Completed(j, left))
  BY <1>1, CompletedJob
<1>3. PICK D, J : D = DOMAIN xfers /\ J = DOMAIN jobs
  OBVIOUS
<1>4. /\ D \subseteq JobIds /\ J = {i \in D : ~xfers[i].stale}
      /\ \A i \in D : xfers[i] \in Xfer
      /\ \A i \in J : /\ jobs[i] \in Job /\ jobs[i].keys # {}
                      /\ jobs[i].req = xfers[i].req /\ jobs[i].store = xfers[i].store
                      /\ jobs[i].pending = Cardinality(xfers[i].left)
                      /\ jobs[i].req \in tracked
  BY <1>3 DEF Inv, TableOK
<1>5. /\ DOMAIN xfers' = IF left = {} THEN D \ {j} ELSE D
      /\ \A i \in DOMAIN xfers' : i # j => xfers'[i] = xfers[i]
      /\ left # {} => /\ xfers'[j] \in Xfer
                      /\ xfers'[j].left = left
                      /\ xfers'[j].req = xfers[j].req /\ xfers'[j].store = xfers[j].store
                      /\ xfers'[j].stale = xfers[j].stale
  BY <1>2, <1>3 DEF Reported
<1>6. DOMAIN xfers' \subseteq JobIds /\ \A i \in DOMAIN xfers' : i \in D /\ xfers'[i] \in Xfer
  BY <1>4, <1>5
<1>7. {i \in DOMAIN xfers' : ~xfers'[i].stale} = IF left = {} THEN J \ {j} ELSE J
  <2>1. CASE left = {}
    BY <1>4, <1>5, <2>1
  <2>2. CASE left # {}
    BY <1>2, <1>3, <1>4, <1>5, <2>2
  <2> QED  BY <2>1, <2>2
<1>8. CASE Skipped(j)
  <2>1. xfers[j].stale /\ jobs' = jobs /\ tracked' = tracked
    BY <1>8 DEF Skipped
  <2>2. j \notin J
    BY <1>4, <2>1
  <2>3. DOMAIN jobs' = {i \in DOMAIN xfers' : ~xfers'[i].stale}
    BY <1>3, <1>7, <2>1, <2>2
  <2>4. \A i \in J : xfers'[i] = xfers[i]
    BY <1>3, <1>5, <2>1, <2>2, <2>3
  <2> QED  BY <1>3, <1>4, <1>6, <2>1, <2>3, <2>4 DEF TableOK
<1>9. CASE j \in DOMAIN jobs /\ CountedDown(j, left)
  <2>1. /\ left # {} /\ tracked' = tracked
        /\ DOMAIN jobs' = J /\ \A i \in J : i # j => jobs'[i] = jobs[i]
        /\ jobs'[j] \in Job /\ jobs'[j].pending = Cardinality(left)
        /\ jobs'[j].req = jobs[j].req /\ jobs'[j].store = jobs[j].store
        /\ jobs'[j].keys = jobs[j].keys
    BY <1>3, <1>9 DEF CountedDown
  <2>2. j \in J
    BY <1>3, <1>9
  <2>3. ASSUME NEW i \in J
        PROVE  /\ jobs'[i] \in Job /\ jobs'[i].keys # {}
               /\ jobs'[i].req = xfers'[i].req /\ jobs'[i].store = xfers'[i].store
               /\ jobs'[i].pending = Cardinality(xfers'[i].left)
               /\ jobs'[i].req \in tracked'
    <3>1. CASE i = j
      BY <1>4, <1>5, <2>1, <2>2, <3>1
    <3>2. CASE i # j
      <4>1. i \in DOMAIN xfers' /\ xfers'[i] = xfers[i] /\ jobs'[i] = jobs[i]
        BY <1>4, <1>5, <2>1, <3>2
      <4> QED  BY <1>4, <2>1, <4>1
    <3> QED  BY <3>1, <3>2
  <2> QED  BY <1>6, <1>7, <2>1, <2>3 DEF TableOK
<1>10. CASE j \in DOMAIN jobs /\ Completed(j, left)
  <2>1. /\ left = {} /\ DOMAIN jobs' = J \ {j} /\ \A i \in DOMAIN jobs' : jobs'[i] = jobs[i]
        /\ tracked' = IF jobs[j].req \in finSignaled /\ TransferJobs(jobs[j].req) = {j}
                      THEN tracked \ {jobs[j].req} ELSE tracked
    BY <1>3, <1>10 DEF Completed
  <2>2. ASSUME NEW i \in J \ {j}
        PROVE  jobs[i].req \in tracked'
    <3>1. jobs[i].req \in tracked
      BY <1>4
    <3>2. jobs[i].req = jobs[j].req => TransferJobs(jobs[j].req) # {j}
      BY <1>3 DEF TransferJobs
    <3> QED  BY <2>1, <3>1, <3>2
  <2>3. \A i \in J \ {j} : xfers'[i] = xfers[i]
    BY <1>4, <1>5, <2>1
  <2> QED  BY <1>4, <1>6, <1>7, <2>1, <2>2, <2>3 DEF TableOK
<1> QED  BY <1>2, <1>8, <1>9, <1>10

\* The jobs are the transfers from after the last reset, each with as many
\* workers pending as are left, and its request is tracked.
LEMMA TableStep == Inv /\ [Next]_vars => TableOK'
<1> SUFFICES ASSUME Inv, [Next]_vars PROVE TableOK'
  OBVIOUS
<1>1. ASSUME NEW r \in Reqs, AdmitLoad(r)
      PROVE  TableOK'
  <2>1. PICK n, m \in Nat, j \in JobIds, hit, new \in Seq(Blocks), keys \in SUBSET Keys,
             x \in Xfer, b \in Job : LoadAdmitted(r, n, m, j, hit, new, keys, x, b)
    BY <1>1, AdmittedLoad
  <2>2. /\ CanTry(r) /\ keys # {} /\ j \notin DOMAIN xfers
        /\ x.req = r /\ ~x.store /\ ~x.stale /\ x.left = Workers
        /\ b.req = r /\ ~b.store /\ b.keys = keys /\ b.pending = Cardinality(Workers)
        /\ xfers' = With(xfers, j, x) /\ jobs' = With(jobs, j, b)
    BY ONLY <2>1 DEF LoadAdmitted
  <2>3. r \in tracked /\ tracked' = tracked
    <3>1. r \in known /\ status[r] \in {"waiting", "remote"}
      BY <2>2 DEF CanTry, Inv, MembersOK
    <3>2. tracked' = tracked
      BY Zenon, <1>1 DEF AdmitLoad
    <3> QED  BY <3>1, <3>2 DEF Inv, MembersOK, Finished
  <2>4. b.store = x.store
    <3>1. b.store \in BOOLEAN /\ x.store \in BOOLEAN
      BY DEF Job, Xfer
    <3> QED  BY <2>2, <3>1
  <2> QED  BY <2>2, <2>3, <2>4, TableGrows
<1>2. ASSUME NEW r \in Reqs, Store(r)
      PROVE  TableOK'
  <2>1. PICK new \in Seq(Keys), j \in JobIds, src \in SUBSET Blocks, b \in Job :
             \E copies, x : StoreMade(r, new, j, src, copies, x, b)
    BY <1>2, MadeStore
  <2>2. PICK copies, x : StoreMade(r, new, j, src, copies, x, b)
    BY <2>1
  <2>3. x \in Xfer
    BY <2>2, StoreCopies
  <2>4. /\ r \in tracked /\ new # <<>> /\ j \notin DOMAIN xfers
        /\ x = [req |-> r, store |-> TRUE, stale |-> FALSE, left |-> Workers, copies |-> copies]
        /\ b.req = r /\ b.store /\ b.keys = Range(new) /\ b.pending = Cardinality(Workers)
        /\ xfers' = With(xfers, j, x) /\ jobs' = With(jobs, j, b)
    BY ONLY <2>2 DEF StoreMade
  <2>5. x.req = r /\ x.store = TRUE /\ ~x.stale /\ x.left = Workers
    BY ONLY <2>4
  <2>6. tracked' = tracked
    BY Zenon, <1>2 DEF Store, KeepForStores
  <2>7. b.store = x.store
    <3>1. b.store \in BOOLEAN
      BY DEF Job
    <3> QED  BY <2>4, <2>5, <3>1
  <2>8. b.keys # {}
    <3>1. Len(new) \in Nat /\ Len(new) > 0 /\ \A i \in 1..Len(new) : new[i] \in Range(new)
      BY <2>4, ListPositions
    <3> QED  BY <2>4, <3>1
  <2> QED  BY <2>3, <2>4, <2>5, <2>6, <2>7, <2>8, TableGrows
<1>3. ASSUME NEW j \in JobIds, CompleteJob(j)
      PROVE  TableOK'
  BY <1>3, TableShrinks
<1>4. ASSUME Reset
      PROVE  TableOK'
  <2>1. CASE KeepConnector
    <3>1. UNCHANGED <<jobs, xfers, tracked>>
      BY Zenon, <2>1 DEF KeepConnector, jobTable, connReqVars
    <3> QED  BY <3>1 DEF Inv, TableOK
  <2>2. CASE ConnectorReset
    <3>1. jobs' = Nothing /\ xfers' = StaleXfers
      BY Zenon, <2>2 DEF ConnectorReset
    <3>2. ASSUME NEW j \in DOMAIN xfers
          PROVE  xfers'[j] \in Xfer /\ xfers'[j].stale
      <4>1. PICK x \in Xfer : x = xfers[j]
        BY DEF Inv, TableOK
      <4>2. xfers'[j] = [x EXCEPT !.stale = TRUE]
        BY <3>1, <4>1 DEF StaleXfers
      <4> QED  BY <4>1, <4>2 DEF Xfer
    <3>3. DOMAIN xfers' = DOMAIN xfers /\ DOMAIN jobs' = {}
      BY <3>1 DEF StaleXfers, Nothing
    <3> QED  BY <3>2, <3>3 DEF Inv, TableOK
  <2> QED  BY <1>4, <2>1, <2>2, ResetShape
<1>5. ASSUME UNCHANGED <<jobs, xfers>>, Emit
      PROVE  TableOK'
  <2>1. tracked' = tracked \ {r \in finishedIds \cap tracked : TransferJobs(r) = {}}
    BY Zenon, <1>5 DEF Emit
  <2>2. ASSUME NEW j \in DOMAIN jobs
        PROVE  jobs[j].req \in tracked'
    <3>1. jobs[j].req \in tracked
      BY DEF Inv, TableOK
    <3>2. TransferJobs(jobs[j].req) # {}
      BY DEF TransferJobs
    <3> QED  BY <2>1, <3>1, <3>2
  <2> QED  BY <1>5, <2>2, TableKept
<1>6. ASSUME UNCHANGED <<jobs, xfers>>, ~Emit, ~Reset, \A j \in JobIds : ~CompleteJob(j)
      PROVE  TableOK'
  <2>1. tracked \subseteq tracked'
    <3>1. ASSUME NEW r \in Reqs, Arrive(r)
          PROVE  tracked' = tracked \cup {r}
      BY Zenon, <3>1 DEF Arrive
    <3>2. ASSUME NEW r \in Reqs, Abort(r) \/ Promote(r) \/ AdmitLoad(r) \/ AdmitRunning(r)
          PROVE  tracked' = tracked
      BY Zenon, <3>2 DEF Abort, Promote, AdmitLoad, AdmitRunning, connReqVars
    <3>3. ASSUME PreemptForBlocks \/ EndOutput
          PROVE  tracked' = tracked
      BY Zenon, <3>3 DEF PreemptForBlocks, EndOutput, connReqVars
    <3>4. ASSUME NEW r \in Reqs, NEW stop \in BOOLEAN, ProcessRequest(r, stop)
          PROVE  tracked' = tracked
      BY Zenon, <3>4 DEF ProcessRequest, connReqVars
    <3> QED  BY <1>6, <3>1, <3>2, <3>3, <3>4, Changes
  <2>2. \A j \in DOMAIN jobs : jobs[j].req \in tracked
    BY DEF Inv, TableOK
  <2> QED  BY <1>6, <2>1, <2>2, TableKept
<1> QED  BY <1>1, <1>2, <1>3, <1>4, <1>5, <1>6, Changes

-----------------------------------------------------------------------------
(***************************************************************************)
(* Fences, stale batches and turns.                                        *)
(***************************************************************************)

\* A finished request the connector tracks stays finished: its slot is not taken
\* by a new request before the connector has forgotten it.
LEMMA FinishedStay ==
    ASSUME Inv, [Next]_vars, NEW q \in Reqs, Finished(q)
    PROVE  Finished(q)' \/ \E r \in Reqs : Arrive(r) /\ r = q /\ q \notin tracked \cup finishedIds
<1>1. /\ status \in [Reqs -> {"absent", "waiting", "remote", "running", "stopped", "aborted"}]
      /\ status[q] \in {"stopped", "aborted"}
      /\ \A r \in Range(running) : status[r] = "running"
  BY DEF Inv, MembersOK, Finished
<1>2. CASE UNCHANGED <<status, known, running, tracked, finSignaled, finishedIds>>
  BY <1>1, <1>2 DEF Finished
<1>3. ASSUME NEW r \in Reqs, Arrive(r)
      PROVE  Finished(q)' \/ (r = q /\ q \notin tracked \cup finishedIds)
  <2>1. r \notin tracked \cup finishedIds /\ status' = [status EXCEPT ![r] = "waiting"]
    BY Zenon, <1>3 DEF Arrive, Forgotten
  <2> QED  BY <1>1, <2>1 DEF Finished
<1>4. ASSUME NEW r \in Reqs, NEW final \in {"stopped", "aborted"}, NEW delayFree,
             Finish(r, final, delayFree)
      PROVE  Finished(q)'
  <2>1. status' = [status EXCEPT ![r] = final]
    BY Zenon, <1>4 DEF Finish
  <2> QED  BY <1>1, <1>4, <2>1 DEF Finished
<1>5. ASSUME NEW r \in Reqs, Abort(r)
      PROVE  Finished(q)'
  BY <1>4, <1>5 DEF Abort
<1>6. ASSUME NEW r \in Reqs, NEW stop \in BOOLEAN, ProcessRequest(r, stop)
      PROVE  Finished(q)'
  <2>1. Finish(r, "stopped", FALSE) \/ status' = status
    BY Zenon, <1>6 DEF ProcessRequest, reqVars
  <2> QED  BY <1>1, <1>4, <2>1 DEF Finished
<1>7. ASSUME NEW r \in Reqs, Promote(r) \/ AdmitLoad(r) \/ AdmitRunning(r)
      PROVE  Finished(q)'
  <2>1. /\ status[r] \in {"remote", "waiting"}
        /\ \E s : status' = [status EXCEPT ![r] = s]
    BY <1>7 DEF Promote, AdmitLoad, AdmitRunning, CanTry
  <2>2. r # q
    BY <1>1, <2>1
  <2> QED  BY <1>1, <2>1, <2>2 DEF Finished
<1>8. ASSUME NEW S \in SUBSET Range(running), NEW drop, Preempt(S, drop)
      PROVE  Finished(q)'
  <2>1. status' = [r \in Reqs |-> IF r \in S THEN "waiting" ELSE status[r]]
    BY Zenon, <1>8 DEF Preempt
  <2>2. q \notin S
    BY <1>1
  <2> QED  BY <1>1, <2>1, <2>2 DEF Finished
<1>9. ASSUME PreemptForBlocks
      PROVE  Finished(q)'
  BY <1>8, <1>9, PreemptedForBlocks
<1>10. ASSUME Reset
       PROVE  Finished(q)'
  <2>1. Preempt(Range(running), TRUE) \/ status' = status
    BY <1>10, ResetShape DEF reqVars
  <2> QED  BY <1>1, <1>8, <2>1 DEF Finished
<1>11. ASSUME Emit \/ EndOutput
       PROVE  Finished(q)'
  <2>1. status' = status
    BY Zenon, <1>11 DEF Emit, EndOutput
  <2> QED  BY <1>1, <2>1 DEF Finished
<1>12. ASSUME NEW j \in JobIds, CompleteJob(j)
       PROVE  Finished(q)'
  <2>1. status' = status
    BY Zenon, <1>12 DEF CompleteJob, reqVars
  <2> QED  BY <1>1, <2>1 DEF Finished
<1> QED  BY <1>2, <1>3, <1>5, <1>6, <1>7, <1>9, <1>10, <1>11, <1>12, Changes

\* A fence guards a block of a finished request against a job in the table.
LEMMA FencesStep == Inv /\ [Next]_vars => FencesOK'
<1> SUFFICES ASSUME Inv, [Next]_vars PROVE FencesOK'
  OBVIOUS
<1> DEFINE Final == {"stopped", "aborted"}
<1>1. /\ \A f \in fences : f \in Blocks \X DOMAIN jobs /\ Finished(jobs[f[2]].req)
      /\ \A j \in DOMAIN jobs : jobs[j] \in Job /\ jobs[j].req \in tracked /\ jobs[j].req \in Reqs
  BY DEF Inv, FencesOK, TableOK, Job
<1>2. \A q \in Reqs : q \in tracked /\ Finished(q) => Finished(q)'
  BY FinishedStay
<1>3. ASSUME \A f \in fences' : \/ f \in fences
                                \/ f \in Blocks \X DOMAIN jobs' /\ status'[jobs'[f[2]].req] \in Final,
             \A f \in fences' \cap fences : f[2] \in DOMAIN jobs' /\ jobs'[f[2]].req = jobs[f[2]].req
      PROVE  FencesOK'
  <2> SUFFICES ASSUME NEW f \in fences', f \in fences
               PROVE  f \in Blocks \X DOMAIN jobs' /\ status'[jobs'[f[2]].req] \in Final
    BY <1>3 DEF FencesOK, Finished
  <2>1. f \in Blocks \X DOMAIN jobs /\ Finished(jobs[f[2]].req)
    BY <1>1
  <2>2. PICK q \in Reqs : q = jobs[f[2]].req /\ q \in tracked
    BY <1>1, <2>1
  <2>3. Finished(q)'
    BY <1>2, <2>1, <2>2
  <2>4. f[2] \in DOMAIN jobs' /\ jobs'[f[2]].req = q
    BY <1>3, <2>2
  <2>5. status'[jobs'[f[2]].req] \in Final
    BY ONLY <2>3, <2>4 DEF Finished
  <2> QED  BY <2>1, <2>4, <2>5
<1>4. ASSUME UNCHANGED <<fences, jobs>>
      PROVE  FencesOK'
  BY <1>1, <1>3, <1>4
<1>5. ASSUME NEW r \in Reqs, NEW final \in {"stopped", "aborted"}, NEW delayFree,
             Finish(r, final, delayFree)
      PROVE  FencesOK'
  <2>1. /\ status' = [status EXCEPT ![r] = final] /\ jobs' = jobs
        /\ fences' = fences \/ fences' = fences \cup FencesOf(r)
    BY Zenon, <1>5 DEF Finish
  <2>2. status'[r] = final
    BY <2>1 DEF Inv, MembersOK
  <2>3. ASSUME NEW f \in FencesOf(r)
        PROVE  f \in Blocks \X DOMAIN jobs /\ jobs[f[2]].req = r
    <3>1. PICK j \in TransferJobs(r) : f \in {<<s, j>> : s \in jobs[j].srcBlocks}
      BY DEF FencesOf
    <3>2. j \in DOMAIN jobs /\ jobs[j].req = r /\ jobs[j].srcBlocks \subseteq Blocks
      BY <1>1 DEF TransferJobs, Job
    <3> QED  BY <3>1, <3>2
  <2>4. \A f \in fences' : \/ f \in fences
                           \/ f \in Blocks \X DOMAIN jobs' /\ status'[jobs'[f[2]].req] \in Final
    <3> SUFFICES ASSUME NEW f \in fences', f \notin fences
                 PROVE  f \in Blocks \X DOMAIN jobs' /\ status'[jobs'[f[2]].req] \in Final
      OBVIOUS
    <3>1. f \in FencesOf(r)
      BY <2>1
    <3>2. f \in Blocks \X DOMAIN jobs' /\ jobs'[f[2]].req = r
      BY <2>1, <2>3, <3>1
    <3>3. status'[jobs'[f[2]].req] \in Final
      BY ONLY <1>5, <2>2, <3>2 DEF Finished
    <3> QED  BY <3>2, <3>3
  <2> QED  BY <1>1, <1>3, <2>1, <2>4
<1>6. ASSUME NEW r \in Reqs, Abort(r)
      PROVE  FencesOK'
  BY <1>5, <1>6 DEF Abort
<1>7. ASSUME NEW r \in Reqs, NEW stop \in BOOLEAN, ProcessRequest(r, stop)
      PROVE  FencesOK'
  <2>1. Finish(r, "stopped", FALSE) \/ UNCHANGED <<fences, jobs>>
    BY Zenon, <1>7 DEF ProcessRequest, jobTable
  <2> QED  BY <1>4, <1>5, <2>1
<1>8. ASSUME NEW r \in Reqs, AdmitLoad(r)
      PROVE  FencesOK'
  <2>1. PICK n, m \in Nat, j \in JobIds, hit, new \in Seq(Blocks), keys \in SUBSET Keys,
             x \in Xfer, b \in Job : LoadAdmitted(r, n, m, j, hit, new, keys, x, b)
    BY <1>8, AdmittedLoad
  <2>2. j \notin DOMAIN xfers /\ jobs' = With(jobs, j, b)
    BY ONLY <2>1 DEF LoadAdmitted
  <2>3. j \notin DOMAIN jobs
    BY <2>2 DEF Inv, TableOK
  <2>4. DOMAIN jobs' = DOMAIN jobs \cup {j} /\ \A i \in DOMAIN jobs : jobs'[i] = jobs[i]
    BY ONLY <2>2, <2>3 DEF With
  <2>5. fences' = fences
    BY Zenon, <1>8 DEF AdmitLoad
  <2> QED  BY <1>1, <1>3, <2>4, <2>5
<1>9. ASSUME NEW r \in Reqs, Store(r)
      PROVE  FencesOK'
  <2>1. PICK new \in Seq(Keys), j \in JobIds, src \in SUBSET Blocks, b \in Job :
             \E copies, x : StoreMade(r, new, j, src, copies, x, b)
    BY <1>9, MadeStore
  <2>2. PICK copies, x : StoreMade(r, new, j, src, copies, x, b)
    BY <2>1
  <2>3. /\ j \notin DOMAIN xfers /\ jobs' = With(jobs, j, b) /\ b.req = r
        /\ \/ Finished(r) /\ fences' = fences \cup {<<s, j>> : s \in src}
           \/ fences' = fences
    BY ONLY <2>2 DEF StoreMade
  <2>4. j \notin DOMAIN jobs
    BY <2>3 DEF Inv, TableOK
  <2>5. DOMAIN jobs' = DOMAIN jobs \cup {j} /\ jobs'[j] = b
        /\ \A i \in DOMAIN jobs : jobs'[i] = jobs[i]
    BY ONLY <2>3, <2>4 DEF With
  <2>6. Finished(r)' <=> Finished(r)
    <3>1. status' = status
      BY Zenon, <1>9 DEF Store, KeepForStores, reqVars
    <3> QED  BY <3>1 DEF Finished
  <2>7. \A f \in fences' : \/ f \in fences
                           \/ f \in Blocks \X DOMAIN jobs' /\ status'[jobs'[f[2]].req] \in Final
    <3>1. Finished(r) => status'[jobs'[j].req] \in Final
      BY ONLY <2>3, <2>5, <2>6 DEF Finished
    <3> SUFFICES ASSUME NEW f \in fences', f \notin fences
                 PROVE  f \in Blocks \X DOMAIN jobs' /\ status'[jobs'[f[2]].req] \in Final
      OBVIOUS
    <3>2. Finished(r) /\ \E s \in src : f = <<s, j>>
      BY <2>3
    <3>3. f \in Blocks \X DOMAIN jobs' /\ f[2] = j
      BY <2>5, <3>2
    <3> QED  BY <3>1, <3>2, <3>3
  <2> QED  BY <1>1, <1>3, <2>5, <2>7
<1>10. ASSUME Reset
       PROVE  FencesOK'
  <2>1. CASE KeepConnector
    <3>1. UNCHANGED <<fences, jobs>>
      BY Zenon, <2>1 DEF KeepConnector, jobTable
    <3> QED  BY <1>4, <3>1
  <2>2. CASE ConnectorReset
    <3>1. fences' = {}
      BY Zenon, <2>2 DEF ConnectorReset
    <3> QED  BY <3>1 DEF FencesOK
  <2> QED  BY <1>10, <2>1, <2>2, ResetShape
<1>11. ASSUME NEW j \in JobIds, CompleteJob(j)
       PROVE  FencesOK'
  <2>1. PICK left : left = xfers[j].left \ Reporters(j)
    OBVIOUS
  <2>2. \/ Skipped(j)
        \/ j \in DOMAIN jobs /\ (CountedDown(j, left) \/ Completed(j, left))
    BY <1>11, <2>1, CompletedJob
  <2>3. CASE Skipped(j)
    <3>1. UNCHANGED <<fences, jobs>>
      BY ONLY <2>3 DEF Skipped
    <3> QED  BY <1>4, <3>1
  <2>4. CASE j \in DOMAIN jobs /\ CountedDown(j, left)
    <3>1. /\ DOMAIN jobs' = DOMAIN jobs /\ \A i \in DOMAIN jobs : jobs'[i].req = jobs[i].req
          /\ fences' = fences
      BY <2>4 DEF CountedDown
    <3> QED  BY <1>1, <1>3, <3>1
  <2>5. CASE j \in DOMAIN jobs /\ Completed(j, left)
    <3>1. /\ DOMAIN jobs' = DOMAIN jobs \ {j} /\ \A i \in DOMAIN jobs' : jobs'[i] = jobs[i]
          /\ fences' = IF Finished(jobs[j].req) THEN {f \in fences : f[2] # j} ELSE fences
      BY <2>5 DEF Completed
    <3>2. ASSUME NEW f \in fences'
          PROVE  f \in fences /\ f[2] # j
      BY <1>1, <3>1
    <3> QED  BY <1>1, <1>3, <3>1, <3>2
  <2> QED  BY <2>2, <2>3, <2>4, <2>5
<1> QED  BY <1>4, <1>6, <1>7, <1>8, <1>9, <1>10, <1>11, Changes

\* A job a worker has submitted is in the table.
LEMMA PlacedJobs ==
    ASSUME Inv, NEW w \in Workers, NEW j \in Range(storeQ[w]) \cup Range(loadQ[w])
    PROVE  j \in DOMAIN xfers /\ xfers[j] \in Xfer /\ xfers[j].copies \in SUBSET Copy
<1>1. PICK at : Placed(w, at)
  BY WorkerQueues
<1>2. j \in JobIds /\ at[j] \in {InStoreQ, InLoadQ}
  BY <1>1, PlacesNamed
<1>3. InStoreQ # Nowhere /\ InLoadQ # Nowhere
  BY DEF InStoreQ, InLoadQ, Nowhere
<1>4. j \in DOMAIN xfers
  BY <1>1, <1>2, <1>3 DEF Placed, Expected
<1>5. xfers[j] \in Xfer
  BY <1>4 DEF Inv, TableOK
<1> QED  BY <1>4, <1>5 DEF Xfer

\* The batches in flight that schedule a request are at most the batches in flight.
LEMMA InFlightBound ==
    ASSUME Inv, NEW r \in Reqs
    PROVE  Cardinality(InFlight(r)) \in 0..MaxBatches
<1>1. steps \in Seq(Batch) /\ Len(steps) \in Nat /\ Len(steps) <= MaxBatches /\ MaxBatches \in Nat
  BY SizesAssumption DEF Inv, LoopsOK
<1>2. PICK n \in Nat : n = Len(steps)
  BY <1>1
<1>3. PICK S, T : S = InFlight(r) /\ T = 1..n
  OBVIOUS
<1>4. S \subseteq T
  BY <1>1, <1>2, <1>3 DEF InFlight
<1>5. IsFiniteSet(T) /\ Cardinality(T) = n
  BY <1>3, FS_Interval
<1>6. IsFiniteSet(S) /\ Cardinality(S) <= Cardinality(T)
  BY ONLY <1>4, <1>5, FS_Subset
<1>7. Cardinality(S) \in Nat
  BY ONLY <1>6, FS_CardinalityType
<1> QED  BY <1>1, <1>2, <1>3, <1>5, <1>6, <1>7

\* No request has more stale batches than can be in flight.
LEMMA StaleStep == Inv /\ [Next]_vars => StaleOK'
<1> SUFFICES ASSUME Inv, [Next]_vars PROVE StaleOK'
  OBVIOUS
<1>1. stale \in [Reqs -> 0..MaxBatches] /\ MaxBatches \in Nat
  BY SizesAssumption DEF Inv, StaleOK
<1>2. CASE UNCHANGED <<stale, dropStale>>
  BY <1>1, <1>2 DEF StaleOK
<1>3. ASSUME NEW S, NEW drop, Preempt(S, drop)
      PROVE  StaleOK'
  <2>1. stale' = [r \in Reqs |-> IF r \in S THEN Cardinality(InFlight(r)) ELSE stale[r]]
    BY Zenon, <1>3 DEF Preempt
  <2> QED  BY <1>1, <2>1, InFlightBound DEF StaleOK
<1>4. ASSUME NEW r \in Reqs, Arrive(r)
      PROVE  StaleOK'
  <2>1. stale' = [stale EXCEPT ![r] = 0]
    BY Zenon, <1>4 DEF Arrive
  <2> QED  BY <1>1, <2>1 DEF StaleOK
<1>5. ASSUME NEW r \in Reqs, NEW stop \in BOOLEAN, ProcessRequest(r, stop)
      PROVE  StaleOK'
  <2>1. stale' = [stale EXCEPT ![r] = StaleAfter(r)]
    BY Zenon, <1>5 DEF ProcessRequest
  <2>2. StaleAfter(r) \in 0..MaxBatches
    BY <1>1 DEF StaleAfter, MaxOf
  <2> QED  BY <1>1, <2>1, <2>2 DEF StaleOK
<1>6. ASSUME Reset \/ PreemptForBlocks
      PROVE  StaleOK'
  <2>1. (\E S, drop : Preempt(S, drop)) \/ UNCHANGED <<stale, dropStale>>
    BY <1>6, ResetShape, PreemptedForBlocks DEF asyncVars
  <2> QED  BY <1>2, <1>3, <2>1
<1> QED  BY <1>2, <1>4, <1>5, <1>6, Changes

\* Who is announced as finished is finished, and what is left to store was
\* scheduled or is finished.
LEMMA TurnsStep == Inv /\ [Next]_vars => TurnsOK'
<1> SUFFICES ASSUME Inv, [Next]_vars PROVE TurnsOK'
  OBVIOUS
<1>1. /\ \A q \in finishedIds : Finished(q) /\ q \in Reqs
      /\ pc = "stores" => \A q \in todo : q \in Reqs /\ (q \in DOMAIN sched \/ Finished(q))
  BY DEF Inv, TurnsOK, MembersOK, LoopsOK
<1>2. \A q \in finishedIds : Finished(q)'
  BY <1>1, FinishedStay
<1>3. ASSUME NEW q \in finishedIds', q \notin finishedIds
      PROVE  Finished(q)'
  <2>1. ASSUME NEW r \in Reqs, NEW final \in {"stopped", "aborted"}, NEW delayFree,
               Finish(r, final, delayFree)
        PROVE  Finished(q)'
    <3>1. status' = [status EXCEPT ![r] = final] /\ finishedIds' = finishedIds \cup {r}
      BY Zenon, <2>1 DEF Finish
    <3>2. q = r /\ status'[r] = final
      BY <1>3, <3>1 DEF Inv, MembersOK
    <3> QED  BY <2>1, <3>2 DEF Finished
  <2>2. ASSUME NEW r \in Reqs, Abort(r)
        PROVE  Finished(q)'
    BY <2>1, <2>2 DEF Abort
  <2>3. ASSUME NEW r \in Reqs, NEW stop \in BOOLEAN, ProcessRequest(r, stop)
        PROVE  Finished(q)'
    <3>1. Finish(r, "stopped", FALSE) \/ finishedIds' = finishedIds
      BY Zenon, <2>3 DEF ProcessRequest
    <3> QED  BY <1>3, <2>1, <3>1
  <2>4. ASSUME NEW r \in Reqs, Arrive(r) \/ Promote(r) \/ AdmitLoad(r) \/ AdmitRunning(r)
        PROVE  finishedIds' = finishedIds
    BY Zenon, <2>4 DEF Arrive, Promote, AdmitLoad, AdmitRunning, batchIds
  <2>5. ASSUME PreemptForBlocks \/ EndOutput
        PROVE  finishedIds' = finishedIds
    BY Zenon, <2>5 DEF PreemptForBlocks, EndOutput, batchIds
  <2>6. ASSUME Reset
        PROVE  finishedIds' = finishedIds
    BY Zenon, <2>6 DEF Reset, ResetPrefixCache
  <2>7. ASSUME Emit
        PROVE  finishedIds' = {}
    BY Zenon, <2>7 DEF Emit
  <2>8. ASSUME NEW j \in JobIds, CompleteJob(j)
        PROVE  finishedIds' = finishedIds
    BY Zenon, <2>8 DEF CompleteJob, batchIds
  <2> QED  BY <1>3, <2>2, <2>3, <2>4, <2>5, <2>6, <2>7, <2>8, Changes
<1>4. ASSUME BuildMeta
      PROVE  \A q \in todo' : q \in DOMAIN sched' \/ Finished(q)'
  <2>1. todo' = DOMAIN sched \cup finishedIds /\ sched' = sched
    BY Zenon, <1>4 DEF BuildMeta, batchIds
  <2> QED  BY <1>2, <2>1
<1>5. ASSUME pc = "stores", todo' \subseteq todo, sched' = sched
      PROVE  \A q \in todo' : q \in DOMAIN sched' \/ Finished(q)'
  <2> SUFFICES ASSUME NEW q \in todo', q \notin DOMAIN sched PROVE Finished(q)'
    BY <1>5
  <2>1. q \in Reqs /\ Finished(q)
    BY <1>1, <1>5
  <2>2. ~\E r \in Reqs : Arrive(r)
    BY <1>5 DEF Arrive, EngineFree
  <2> QED  BY <2>1, <2>2, FinishedStay
<1>6. ASSUME pc' = "stores"
      PROVE  BuildMeta \/ (pc = "stores" /\ todo' \subseteq todo /\ sched' = sched)
  <2>1. BuildMeta \/ (pc = "stores" /\ todo' \subseteq todo)
    <3>1. ASSUME NEW r \in Reqs, \/ SkipBlocked(r) \/ DeferLookup(r) \/ AdmitLoad(r)
                                 \/ AdmitRunning(r) \/ AdmitFails(r)
          PROVE  pc' \in {"waiting", "build"}
      BY <3>1 DEF SkipBlocked, DeferLookup, AdmitLoad, AdmitRunning, AdmitFails, CanTry
    <3>2. ASSUME NEW r \in Reqs, NothingToStore(r) \/ StoreRefused(r) \/ Store(r)
          PROVE  pc = "stores" /\ todo' \subseteq todo
      <4>1. StoreTurn(r)
        BY Zenon, <3>2 DEF NothingToStore, StoreRefused, Store
      <4> QED  BY <4>1 DEF StoreTurn
    <3>3. ASSUME \/ BeginSchedule \/ ScheduleRunning \/ PreemptForBlocks \/ TryWaiting
                 \/ EndSchedule \/ AssertionFails \/ Emit \/ BeginOutput \/ BeginTransfers
                 \/ EndOutput
          PROVE  pc' # "stores"
      <4>1. BeginSchedule => pc' = "running"
        BY Zenon DEF BeginSchedule
      <4>2. ScheduleRunning => pc = "running" /\ pc' = pc
        BY Zenon DEF ScheduleRunning
      <4>3. PreemptForBlocks => pc' = IF cursor = Len(running) THEN "build" ELSE "running"
        BY Zenon DEF PreemptForBlocks
      <4>4. /\ TryWaiting => pc' = "waiting"
            /\ EndSchedule => pc' = "build"
            /\ AssertionFails => pc' = "failed"
        BY Zenon DEF TryWaiting, EndSchedule, AssertionFails
      <4>5. Emit => pc' = "idle"
        BY Zenon DEF Emit
      <4>6. BeginOutput => pc' = "output"
        BY Zenon DEF BeginOutput
      <4>7. BeginTransfers => pc' = "complete"
        BY DEF BeginTransfers
      <4>8. EndOutput => pc' = "idle"
        BY Zenon DEF EndOutput
      <4> QED  BY ONLY <3>3, <4>1, <4>2, <4>3, <4>4, <4>5, <4>6, <4>7, <4>8
    <3>4. ASSUME NEW r \in Reqs, NEW stop \in BOOLEAN, ProcessRequest(r, stop)
          PROVE  pc' # "stores"
      BY <3>4 DEF ProcessRequest
    <3>5. ASSUME NEW j \in JobIds, CompleteJob(j)
          PROVE  pc' # "stores"
      BY <3>5 DEF CompleteJob
    <3> QED  BY <1>6, <3>1, <3>2, <3>3, <3>4, <3>5, Changes
  <2>2. pc = "stores" => sched' = sched
    <3>1. ASSUME NEW r \in Reqs, Arrive(r) \/ AdmitLoad(r) \/ AdmitRunning(r)
          PROVE  pc # "stores"
      BY <3>1 DEF Arrive, AdmitLoad, AdmitRunning, EngineFree, CanTry
    <3>2. ASSUME Reset \/ ScheduleRunning \/ PreemptForBlocks
          PROVE  pc # "stores"
      BY <3>2, ResetShape DEF ScheduleRunning, PreemptForBlocks
    <3>3. Emit => pc' # "stores"
      BY DEF Emit
    <3> QED  BY <1>6, <3>1, <3>2, <3>3, Changes
  <2> QED  BY <2>1, <2>2
<1>7. pc' = "stores" => \A q \in todo' : q \in DOMAIN sched' \/ Finished(q)'
  BY <1>4, <1>5, <1>6
<1> QED  BY <1>2, <1>3, <1>7 DEF TurnsOK

\* Every GPU block and every CPU slot holds the data of a key, or none.
LEMMA StorageStep == Inv /\ [Next]_vars => StorageOK'
<1> SUFFICES ASSUME Inv, [Next]_vars PROVE StorageOK'
  OBVIOUS
<1> DEFINE Data == Keys \cup {NoKey, Garbage}
<1>1. gpu \in [Workers -> [Blocks -> Data]] /\ cpu \in [Workers -> [Slots -> Data]]
  BY DEF Inv, StorageOK
<1>2. CASE UNCHANGED <<steps, pos, phase, unsub, storeQ, loadQ, done, gpu, cpu>>
  BY <1>1, <1>2 DEF StorageOK
<1>3. ASSUME Emit \/ BeginOutput
      PROVE  StorageOK'
  <2>1. UNCHANGED <<gpu, cpu>>
    BY Zenon, <1>3 DEF Emit, BeginOutput, workerVars
  <2> QED  BY <1>1, <2>1 DEF StorageOK
<1>4. ASSUME NEW w \in Workers, SubmitStores(w) \/ SubmitLoads(w) \/ Report(w)
      PROVE  StorageOK'
  <2>1. UNCHANGED <<gpu, cpu>>
    BY Zenon, <1>4 DEF SubmitStores, SubmitLoads, Report
  <2> QED  BY <1>1, <2>1 DEF StorageOK
<1>5. ASSUME NEW w \in Workers, StoreTransfer(w)
      PROVE  StorageOK'
  <2>1. PICK j : j = Head(storeQ[w])
    OBVIOUS
  <2>2. /\ storeQ[w] # <<>> /\ gpu' = gpu
        /\ cpu' = [cpu EXCEPT ![w] =
                    [s \in Slots |->
                       IF \E c \in xfers[j].copies : c.slot = s
                       THEN gpu[w][(CHOOSE c \in xfers[j].copies : c.slot = s).block]
                       ELSE cpu[w][s]]]
    BY Zenon, <1>5, <2>1 DEF StoreTransfer
  <2>3. j \in Range(storeQ[w])
    <3>1. PICK s : s = storeQ[w]
      OBVIOUS
    <3>2. s \in Seq(JobIds) /\ IsInjective(s) /\ s # <<>> /\ j = Head(s)
      BY <2>1, <2>2, <3>1, WorkerQueues
    <3>3. Head(s) \in Range(s)
      BY ONLY <3>2, OldestTaken
    <3> QED  BY <3>1, <3>2, <3>3
  <2>4. PICK copies \in SUBSET Copy : copies = xfers[j].copies
    BY <2>3, PlacedJobs
  <2>5. ASSUME NEW s \in Slots
        PROVE  (IF \E c \in copies : c.slot = s
                THEN gpu[w][(CHOOSE c \in copies : c.slot = s).block]
                ELSE cpu[w][s]) \in Data
    <3>1. CASE \E c \in copies : c.slot = s
      <4>1. PICK d : d = CHOOSE c \in copies : c.slot = s
        OBVIOUS
      <4>2. d \in Copy
        BY <3>1, <4>1
      <4>3. d.block \in Blocks
        BY <4>2 DEF Copy
      <4>4. gpu[w][d.block] \in Data
        BY <1>1, <4>3
      <4> QED  BY ONLY <3>1, <4>1, <4>4
    <3>2. CASE ~\E c \in copies : c.slot = s
      BY <1>1, <3>2
    <3> QED  BY <3>1, <3>2
  <2>6. PICK new : new = [s \in Slots |-> IF \E c \in copies : c.slot = s
                                          THEN gpu[w][(CHOOSE c \in copies : c.slot = s).block]
                                          ELSE cpu[w][s]]
    OBVIOUS
  <2>7. new \in [Slots -> Data]
    BY ONLY <2>5, <2>6
  <2>8. cpu' = [cpu EXCEPT ![w] = new]
    BY ONLY <2>2, <2>4, <2>6
  <2> QED  BY <1>1, <2>2, <2>7, <2>8 DEF StorageOK
<1>6. ASSUME NEW w \in Workers, LoadTransfer(w)
      PROVE  StorageOK'
  <2>1. PICK j : j = Head(loadQ[w])
    OBVIOUS
  <2>2. /\ loadQ[w] # <<>> /\ cpu' = cpu
        /\ gpu' = [gpu EXCEPT ![w] =
                    [b \in Blocks |->
                       IF \E c \in xfers[j].copies : c.block = b
                       THEN cpu[w][(CHOOSE c \in xfers[j].copies : c.block = b).slot]
                       ELSE gpu[w][b]]]
    BY Zenon, <1>6, <2>1 DEF LoadTransfer
  <2>3. j \in Range(loadQ[w])
    <3>1. PICK s : s = loadQ[w]
      OBVIOUS
    <3>2. s \in Seq(JobIds) /\ IsInjective(s) /\ s # <<>> /\ j = Head(s)
      BY <2>1, <2>2, <3>1, WorkerQueues
    <3>3. Head(s) \in Range(s)
      BY ONLY <3>2, OldestTaken
    <3> QED  BY <3>1, <3>2, <3>3
  <2>4. PICK copies \in SUBSET Copy : copies = xfers[j].copies
    BY <2>3, PlacedJobs
  <2>5. ASSUME NEW b \in Blocks
        PROVE  (IF \E c \in copies : c.block = b
                THEN cpu[w][(CHOOSE c \in copies : c.block = b).slot]
                ELSE gpu[w][b]) \in Data
    <3>1. CASE \E c \in copies : c.block = b
      <4>1. PICK d : d = CHOOSE c \in copies : c.block = b
        OBVIOUS
      <4>2. d \in Copy
        BY <3>1, <4>1
      <4>3. d.slot \in Slots
        BY <4>2 DEF Copy
      <4>4. cpu[w][d.slot] \in Data
        BY <1>1, <4>3
      <4> QED  BY ONLY <3>1, <4>1, <4>4
    <3>2. CASE ~\E c \in copies : c.block = b
      BY <1>1, <3>2
    <3> QED  BY <3>1, <3>2
  <2>6. PICK new : new = [b \in Blocks |-> IF \E c \in copies : c.block = b
                                           THEN cpu[w][(CHOOSE c \in copies : c.block = b).slot]
                                           ELSE gpu[w][b]]
    OBVIOUS
  <2>7. new \in [Blocks -> Data]
    BY ONLY <2>5, <2>6
  <2>8. gpu' = [gpu EXCEPT ![w] = new]
    BY ONLY <2>2, <2>4, <2>6
  <2> QED  BY <1>1, <2>2, <2>7, <2>8 DEF StorageOK
<1>7. ASSUME NEW w \in Workers, RunModel(w)
      PROVE  StorageOK'
  <2>1. PICK step : step = Current(w)
    OBVIOUS
  <2>2. PICK spoilt : /\ cpu' = cpu /\ phase[w] = "loading"
                      /\ gpu' = [gpu EXCEPT ![w] = [b \in Blocks |->
                                   IF b \in spoilt THEN Garbage ELSE AfterForward(w, step.work)[b]]]
    BY Zenon, <1>7, <2>1 DEF RunModel
  <2>3. PICK work \in SUBSET Work : work = step.work
    <3>1. phase[w] # "idle" => pos[w] < Len(steps)
      BY DEF Inv, WorkersOK
    <3>2. step \in Batch
      BY <2>1, <2>2, <3>1, AtBatch
    <3> QED  BY <3>2 DEF Batch
  <2>4. \A d \in WrittenTo(work) : d[2] \in Keys \cup {NoKey}
    <3> SUFFICES ASSUME NEW p \in work, NEW d \in Writes(p) PROVE d[2] \in Keys \cup {NoKey}
      BY DEF WrittenTo
    <3>1. p.req \in Reqs /\ p.from \in Nat
      BY DEF Work
    <3>2. \A i \in 1..NumChunks(p.req) : Prompt[p.req][i] \in Keys
      BY <3>1, PromptKeys
    <3>3. NumChunks(p.req) \in Nat
      BY <3>1, PromptKeys
    <3>4. \A i \in (p.from + 1)..NumChunks(p.req) \cap 1..p.to : Prompt[p.req][i] \in Keys
      BY <3>1, <3>2, <3>3
    <3>5. \/ \E i \in (p.from + 1)..NumChunks(p.req) \cap 1..p.to :
               d = <<p.blocks[i], Prompt[p.req][i]>>
          \/ \E i \in {Complete(p.req)} \cap 1..p.to : d = <<p.blocks[i], NoKey>>
      BY DEF Writes
    <3> QED  BY <3>4, <3>5
  <2>5. ASSUME NEW b \in Blocks
        PROVE  AfterForward(w, work)[b] \in Data
    <3>1. AfterForward(w, work)[b] = IF \E d \in WrittenTo(work) : d[1] = b
                                     THEN (CHOOSE d \in WrittenTo(work) : d[1] = b)[2]
                                     ELSE gpu[w][b]
      BY DEF AfterForward
    <3>2. CASE \E d \in WrittenTo(work) : d[1] = b
      <4>1. PICK e : e = CHOOSE d \in WrittenTo(work) : d[1] = b
        OBVIOUS
      <4>2. e \in WrittenTo(work)
        BY <3>2, <4>1
      <4> QED  BY <2>4, <3>1, <3>2, <4>1, <4>2
    <3>3. CASE ~\E d \in WrittenTo(work) : d[1] = b
      BY <1>1, <3>1, <3>3
    <3> QED  BY <3>2, <3>3
  <2>6. PICK new : new = [b \in Blocks |-> IF b \in spoilt THEN Garbage ELSE AfterForward(w, work)[b]]
    OBVIOUS
  <2>7. new \in [Blocks -> Data]
    BY <2>5, <2>6
  <2>8. gpu' = [gpu EXCEPT ![w] = new]
    BY ONLY <2>2, <2>3, <2>6
  <2> QED  BY <1>1, <2>2, <2>7, <2>8 DEF StorageOK
<1>8. ASSUME WorkersStep
      PROVE  StorageOK'
  <2>1. PICK w \in Workers : WorkerStep(w)
    BY Zenon, <1>8 DEF WorkersStep
  <2> QED  BY <1>4, <1>5, <1>6, <1>7, <2>1 DEF WorkerStep
<1> QED  BY <1>2, <1>3, <1>8, Changes

-----------------------------------------------------------------------------
(***************************************************************************)
(* The theorems.                                                           *)
(***************************************************************************)

\* Every step of the engine or a worker keeps the invariant.
LEMMA NextInv == Inv /\ [Next]_vars => Inv'
BY LoopsStep, MembersStep, DataStep, CurrentStep, QueuesStep, StorageStep, TableStep,
   FencesStep, StaleStep, TurnsStep, PlacesStep, ManagerInvStep DEF Inv

\* The invariant holds in every reachable state: every job is in at most one
\* place on each worker, and only where the scheduler still waits for it.
THEOREM InvHolds == Spec => []Inv
<1>1. Init => Inv
  BY InitInv
<1>2. Inv /\ [Next]_vars => Inv'
  BY NextInv
<1> QED  BY <1>1, <1>2, PTL DEF Spec

\* Every component of the state has its type: whatever is scheduled, preempted,
\* loaded, stored, aborted or reset, in whatever order the workers move.
THEOREM TypeCorrect == Spec => []TypeOK
<1>1. Inv => TypeOK
  <2> SUFFICES ASSUME Inv PROVE TypeOK
    OBVIOUS
  <2>1. LoopsOK /\ MembersOK /\ DataOK /\ CurrentOK /\ WorkersOK /\ StorageOK /\ TableOK
        /\ FencesOK /\ StaleOK
    BY DEF Inv
  <2>2. WorkerTypeOK
    <3>1. Len(steps) \in Nat
      BY <2>1 DEF LoopsOK
    <3>2. pos \in [Workers -> Nat] /\ \A w \in Workers : pos[w] <= Len(steps)
      BY <2>1 DEF WorkersOK
    <3>3. pos \in [Workers -> 0..Len(steps)]
      BY <3>1, <3>2
    <3> QED  BY <2>1, <3>3 DEF WorkerTypeOK, WorkersOK, StorageOK
  <2>3. todo \subseteq Reqs \/ (pc = "complete" /\ todo \subseteq JobIds)
    <3>1. ASSUME NEW s \in out, NEW w \in Workers
          PROVE  s.reports[w] \subseteq JobIds
      BY NamedJobs
    <3> QED  BY <2>1, <3>1 DEF LoopsOK
  <2>4. fences \subseteq Blocks \X DOMAIN jobs
    BY <2>1 DEF FencesOK
  <2>5. DOMAIN jobs \subseteq DOMAIN xfers /\ DOMAIN xfers \subseteq JobIds
    BY <2>1 DEF TableOK
  <2>6. pc \in {"idle", "running", "waiting", "build", "stores", "output", "complete", "failed"}
    BY <2>1 DEF LoopsOK, Scheduling, Receiving
  <2>7. /\ status \in [Reqs -> {"absent", "waiting", "remote", "running", "stopped", "aborted"}]
        /\ known \subseteq Reqs /\ tracked \subseteq Reqs /\ finSignaled \subseteq Reqs
        /\ computed \in [Reqs -> Nat] /\ \A r \in Reqs : computed[r] <= Complete(r)
        /\ held \in [Reqs -> Seq(Blocks)] /\ blockIds \in [Reqs -> Seq(Blocks)]
        /\ hashed \in [Blocks -> Keys \cup {NoKey}]
        /\ stale \in [Reqs -> 0..MaxBatches]
        /\ beingLoaded \subseteq Keys
        /\ Len(steps) <= MaxBatches
    BY <2>1 DEF LoopsOK, MembersOK, DataOK, CurrentOK, StaleOK
  <2> QED  BY <2>2, <2>3, <2>4, <2>5, <2>6, <2>7 DEF TypeOK
<1> QED  BY <1>1, InvHolds, PTL

\* A completion that is not skipped as stale finds its job, counted down to
\* exactly the workers that have not reported it, and the state of its request.
THEOREM KnownCompletions == Spec => []CompletedJobsAreKnown
<1>1. Inv => CompletedJobsAreKnown
  BY DEF Inv, TableOK, CompletedJobsAreKnown
<1> QED  BY <1>1, InvHolds, PTL

\* Whatever the scheduler, the connector and the workers do, the manager sees
\* only what its clients may do: loads of blocks that are ready, completions of
\* what was prepared, once each, and resets.
THEOREM DrivesManager == Spec => ImplementsManager
<1>1. Init => Mgr!Init
  <2> SUFFICES ASSUME Init PROVE Mgr!Init
    OBVIOUS
  <2>1. /\ jobs = Nothing /\ blocks = Nothing /\ freeList = <<>>
        /\ numAllocated = 0 /\ numEvictable = 0 /\ numPending = 0
    BY Zenon DEF Init
  <2>2. JobLoads = [j \in JobIds |-> {}] /\ JobStores = [j \in JobIds |-> {}]
    BY <2>1 DEF JobLoads, JobStores, Nothing
  <2>3. blocks = [k \in {} |-> [ref |-> 0, id |-> 0]]
    BY <2>1 DEF Nothing
  <2> QED  BY <2>1, <2>2, <2>3 DEF Mgr!Init
<1>2. Inv /\ [Next]_vars => [UNCHANGED Mgr!vars \/ Mgr!Next]_(Mgr!vars)
  BY ManagerStep
<1> QED  BY <1>1, <1>2, InvHolds, PTL DEF Spec, ImplementsManager

=============================================================================

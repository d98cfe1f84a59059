----------------------- MODULE OffloadingOwnershipProofs -----------------------
(***************************************************************************)
(* Proofs about who owns what in OffloadingConnector, for any requests and     *)
(* prompts, any number of GPU blocks, CPU slots, workers and jobs, any number   *)
(* of batches in flight and any number of resets: the blocks a load writes      *)
(* belong to its request alone, and when the last request is gone nothing is    *)
(* left behind.                                                            *)
(***************************************************************************)
EXTENDS OffloadingConnectorProofs

-----------------------------------------------------------------------------
(***************************************************************************)
(* The invariant, on top of the one of OffloadingConnectorProofs.             *)
(***************************************************************************)

\* The request of a load in flight is there, waits for it and for no other, and
\* has not been told that it is done.
LoadsOK ==
    \A j \in DOMAIN xfers : ~xfers[j].store =>
       /\ xfers[j].req \in known
       /\ status[xfers[j].req] = "remote" \/ Finished(xfers[j].req)
       /\ xfers[j].req \notin recvd \cup received
       /\ \A i \in DOMAIN xfers : ~xfers[i].store /\ xfers[i].req = xfers[j].req => i = j

\* A request that waits for a load is known, delivers no output until it runs
\* again, and has the blocks that the load fills.
RemoteOK ==
    /\ DOMAIN dropStale = Reqs
    /\ \A r \in Reqs : status[r] = "remote" =>
         /\ r \in known
         /\ stale[r] = 0 \/ dropStale[r]
         /\ Len(held[r]) >= computed[r]
    /\ \A r \in recvd : r \in Reqs /\ status[r] = "remote"
    /\ received # {} => pc = "complete"

\* Running requests are scheduled in their order, each once, while a step lasts.
SchedOK ==
    /\ \A r \in DOMAIN sched : status[r] = "running"
    /\ pc \in {"idle", "output", "complete"} => DOMAIN sched = {}
    /\ IsInjective(running)
    /\ pc = "running" => \A i \in DOMAIN running : i >= cursor => running[i] \notin DOMAIN sched

\* The outputs of a waiting request that are still to come are all stale.
Coming(r) == Cardinality(InFlight(r)) + (IF pc = "output" /\ r \in todo THEN 1 ELSE 0)
FlightsOK == \A r \in Reqs : status[r] \in {"waiting", "remote"} => Coming(r) <= stale[r]

\* A request that is gone has no blocks.
HeldOK == \A r \in Reqs \ known : held[r] = <<>>

\* Deferred blocks wait for batches that are in flight.
Working == {i \in DOMAIN steps : steps[i].work # {}}
Deferral == [left : Nat, blocks : SUBSET Blocks]
AgingOK ==
    /\ deferred \in Seq(Deferral)
    /\ \A d \in Range(deferred) : d.left \in 1..Cardinality(Working)

\* The connector keeps the state of a finished request until it has announced it
\* and its last job is done.
TrackedOK ==
    \A r \in tracked :
       IF Finished(r) THEN r \in finishedIds \/ (r \in finSignaled /\ TransferJobs(r) # {})
       ELSE r \in known

\* A key is said to be loaded only while a job loads it.
BeingLoadedOK == \A k \in beingLoaded : \E j \in DOMAIN jobs : ~jobs[j].store /\ k \in jobs[j].keys

OwnInv ==
    /\ LoadsOK /\ LoadsOwnTheirTargets /\ RemoteOK /\ SchedOK /\ FlightsOK
    /\ HeldOK /\ AgingOK /\ TrackedOK /\ BeingLoadedOK

\* Nothing is in flight, held or scheduled at the start.
LEMMA InitOwn == Init => OwnInv
<1> SUFFICES ASSUME Init PROVE OwnInv
  OBVIOUS
<1>1. /\ xfers = Nothing /\ jobs = Nothing /\ steps = <<>> /\ deferred = <<>> /\ running = <<>>
      /\ sched = Nothing /\ tracked = {} /\ beingLoaded = {} /\ recvd = {} /\ received = {}
      /\ dropStale = [r \in Reqs |-> FALSE]
      /\ status = [r \in Reqs |-> "absent"] /\ held = [r \in Reqs |-> <<>>]
  BY Zenon DEF Init
<1>2. DOMAIN xfers = {} /\ DOMAIN sched = {}
  BY <1>1 DEF Nothing
<1>3. LoadsOK /\ LoadsOwnTheirTargets
  BY <1>2 DEF LoadsOK, LoadsOwnTheirTargets
<1>4. RemoteOK /\ FlightsOK /\ HeldOK
  BY <1>1 DEF RemoteOK, FlightsOK, HeldOK
<1>5. SchedOK
  BY <1>1, <1>2 DEF SchedOK, IsInjective
<1>6. AgingOK
  BY <1>1 DEF AgingOK, Range
<1>7. TrackedOK /\ BeingLoadedOK
  BY <1>1 DEF TrackedOK, BeingLoadedOK
<1> QED  BY <1>3, <1>4, <1>5, <1>6, <1>7 DEF OwnInv

-----------------------------------------------------------------------------
(***************************************************************************)
(* The running requests and what is scheduled.                              *)
(***************************************************************************)

\* What a list without repetition is without its last member: the members before.
LEMMA WithoutLast ==
    ASSUME NEW T, NEW s \in Seq(T), s # <<>>, IsInjective(s)
    PROVE  /\ Len(Without(s, {Last(s)})) = Len(s) - 1
           /\ \A i \in 1..(Len(s) - 1) : Without(s, {Last(s)})[i] = s[i]
<1> DEFINE n == Len(s)
           rest == Range(s) \ {Last(s)}
           positions == {i \in DOMAIN s : s[i] \in rest}
<1>1. n \in Nat /\ n > 0 /\ DOMAIN s = 1..n /\ Last(s) = s[n]
  BY DEF Last
<1>2. \A i \in 1..n : s[i] \in Range(s) /\ (s[i] = s[n] => i = n)
  <2>1. \A i \in 1..n : s[i] \in Range(s)
    BY ListPositions
  <2>2. n \in DOMAIN s
    BY <1>1
  <2>3. \A i \in DOMAIN s : s[i] = s[n] => i = n
    BY <2>2 DEF IsInjective
  <2> QED  BY <1>1, <2>1, <2>3
<1>3. positions = 1..(n - 1)
  <2>1. \A i : i \in positions <=> i \in 1..n /\ s[i] # s[n]
    BY <1>1, <1>2
  <2>2. \A i : i \in 1..(n - 1) <=> i \in 1..n /\ i # n
    BY <1>1
  <2> QED  BY <1>2, <2>1, <2>2
<1>4. Cardinality(positions) = n - 1
  <2>1. n - 1 \in Nat
    BY <1>1
  <2>2. \A m \in Nat : Cardinality(1..m) = m
    BY FS_Interval
  <2>3. Cardinality(1..(n - 1)) = n - 1
    BY <2>1, <2>2
  <2> QED  BY <1>3, <2>3
<1>5. \A i \in 1..(n - 1) : Nth(positions, i) = i
  <2>1. ASSUME NEW i \in 1..(n - 1)
        PROVE  Nth(positions, i) = i
    <3>1. \A k \in positions : {m \in positions : m <= k} = 1..k
      BY <1>1, <1>3
    <3>2. \A k \in positions : Cardinality({m \in positions : m <= k}) = k
      <4>1. ASSUME NEW k \in positions
            PROVE  Cardinality(1..k) = k
        BY <1>3, FS_Interval
      <4> QED  BY <3>1, <4>1
    <3>3. i \in positions /\ Cardinality({m \in positions : m <= i}) = i
      BY <1>3, <3>2
    <3>4. /\ Nth(positions, i) \in positions
          /\ Cardinality({m \in positions : m <= Nth(positions, i)}) = i
      BY <3>3 DEF Nth
    <3> QED  BY <3>2, <3>4
  <2> QED  BY <2>1
<1>6. Without(s, {Last(s)}) = [i \in 1..(n - 1) |-> s[Nth(positions, i)]]
  BY <1>4 DEF Without, Within
<1>7. Len([i \in 1..(n - 1) |-> s[Nth(positions, i)]]) = n - 1
  BY <1>1
<1> QED  BY <1>5, <1>6, <1>7

\* Running requests stay in their order, each once, and are scheduled once.
LEMMA SchedStep ==
    ASSUME Inv, SchedOK, [Next]_vars
    PROVE  SchedOK'
<1>1. /\ \A r \in DOMAIN sched : status[r] = "running"
      /\ pc \in {"idle", "output", "complete"} => DOMAIN sched = {}
      /\ IsInjective(running)
      /\ pc = "running" => \A i \in DOMAIN running : i >= cursor => running[i] \notin DOMAIN sched
  BY DEF SchedOK
<1>2. /\ status \in [Reqs -> {"absent", "waiting", "remote", "running", "stopped", "aborted"}]
      /\ running \in Seq(Reqs) /\ \A r \in Range(running) : status[r] = "running"
      /\ pc = "waiting" => \A r \in todo : status[r] \in {"waiting", "remote"}
      /\ DOMAIN sched \subseteq Reqs /\ cursor \in Nat \ {0}
  BY DEF Inv, MembersOK, LoopsOK, DataOK
<1>3. ASSUME UNCHANGED sched, DOMAIN sched = {}, IsInjective(running')
      PROVE  SchedOK'
  BY <1>3 DEF SchedOK
<1>4. ASSUME UNCHANGED <<sched, status, running>>,
             (pc' = pc /\ cursor' = cursor) \/ pc' \in {"waiting", "build", "stores", "failed"}
      PROVE  SchedOK'
  BY <1>1, <1>4 DEF SchedOK
<1>5. ASSUME NEW S, NEW drop, Preempt(S, drop)
      PROVE  running' = Without(running, S) /\ IsInjective(running')
  <2>1. running' = Without(running, S)
    BY Zenon, <1>5 DEF Preempt
  <2>2. IsInjective(Without(running, S))
    BY <1>1, <1>2, WithoutKeys
  <2> QED  BY <2>1, <2>2
<1>6. ASSUME NEW r \in Reqs, NEW final, NEW delayFree, Finish(r, final, delayFree)
      PROVE  IsInjective(running')
  <2>1. running' = Without(running, {r})
    BY Zenon, <1>6 DEF Finish
  <2>2. IsInjective(Without(running, {r}))
    BY <1>1, <1>2, WithoutKeys
  <2> QED  BY <2>1, <2>2
<1>7. ASSUME NEW r \in Reqs, Arrive(r) \/ Abort(r)
      PROVE  SchedOK'
  <2>1. /\ pc = "idle" /\ UNCHANGED sched
        /\ running' = running \/ \E delayFree : Finish(r, "aborted", delayFree)
    BY Zenon, <1>7 DEF Arrive, Abort, EngineFree, batchIds
  <2> QED  BY <1>1, <1>3, <1>6, <2>1
<1>8. ASSUME NEW r \in Reqs, NEW stop \in BOOLEAN, ProcessRequest(r, stop)
      PROVE  SchedOK'
  <2>1. /\ pc = "output" /\ UNCHANGED sched
        /\ running' = running \/ Finish(r, "stopped", FALSE)
    BY Zenon, <1>8 DEF ProcessRequest, reqVars
  <2> QED  BY <1>1, <1>3, <1>6, <2>1
<1>9. ASSUME Reset
      PROVE  SchedOK'
  <2>1. pc = "idle" /\ (running' = running \/ Preempt(Range(running), TRUE))
    BY <1>9, ResetShape DEF reqVars
  <2>2. UNCHANGED sched
    BY Zenon, <1>9 DEF Reset, ResetPrefixCache
  <2> QED  BY <1>1, <1>3, <1>5, <2>1, <2>2
<1>10. ASSUME BeginSchedule \/ BeginOutput
       PROVE  SchedOK'
  <2>1. pc = "idle" /\ UNCHANGED <<sched, running>>
    BY Zenon, <1>10 DEF BeginSchedule, BeginOutput, EngineFree, batchIds, reqVars
  <2> QED  BY <1>1, <1>3, <2>1
<1>11. ASSUME BeginTransfers \/ EndOutput \/ \E j \in JobIds : CompleteJob(j)
       PROVE  SchedOK'
  <2>1. pc \in {"output", "complete"} /\ UNCHANGED <<sched, running>>
    <3>1. ASSUME BeginTransfers \/ EndOutput
          PROVE  pc \in {"output", "complete"} /\ UNCHANGED <<sched, running>>
      BY <3>1 DEF BeginTransfers, EndOutput, batchIds, reqVars
    <3>2. ASSUME NEW j \in JobIds, CompleteJob(j)
          PROVE  pc \in {"output", "complete"} /\ UNCHANGED <<sched, running>>
      <4>1. pc = "complete" /\ UNCHANGED <<sched, running>>
        BY Zenon, <3>2 DEF CompleteJob, batchIds, reqVars
      <4> QED  BY <4>1
    <3> QED  BY <1>11, <3>1, <3>2
  <2> QED  BY <1>1, <1>3, <2>1
<1>12. ASSUME TryWaiting \/ EndSchedule \/ BuildMeta \/ AssertionFails
       PROVE  SchedOK'
  <2>1. UNCHANGED <<sched, status, running>> /\ pc' \in {"waiting", "build", "stores", "failed"}
    BY <1>12 DEF TryWaiting, EndSchedule, BuildMeta, AssertionFails, batchIds, reqVars
  <2> QED  BY <1>4, <2>1
<1>13. ASSUME NEW r \in Reqs, \/ SkipBlocked(r) \/ DeferLookup(r) \/ AdmitFails(r)
                              \/ NothingToStore(r) \/ StoreRefused(r) \/ Store(r)
       PROVE  SchedOK'
  <2>1. UNCHANGED <<sched, status, running>> /\ (pc' = "build" \/ UNCHANGED <<pc, cursor>>)
    BY <1>13 DEF SkipBlocked, DeferLookup, AdmitFails, NothingToStore, StoreRefused, Store,
       KeepForStores, batchIds, reqVars
  <2> QED  BY <1>4, <2>1
<1>14. ASSUME Emit
       PROVE  SchedOK'
  <2>1. sched' = Nothing /\ running' = running /\ pc' = "idle"
    BY Zenon, <1>14 DEF Emit
  <2>2. DOMAIN sched' = {}
    BY <2>1 DEF Nothing
  <2> QED  BY <1>1, <2>1, <2>2 DEF SchedOK
<1>15. ASSUME NEW r \in Reqs, Promote(r) \/ AdmitLoad(r)
       PROVE  SchedOK'
  <2>1. /\ pc = "waiting" /\ pc' = pc /\ r \in todo /\ UNCHANGED <<sched, running>>
        /\ \E s : status' = [status EXCEPT ![r] = s]
    BY Zenon, <1>15 DEF Promote, AdmitLoad, CanTry, loopVars, batchIds
  <2>2. r \notin DOMAIN sched
    BY <1>1, <1>2, <2>1
  <2>3. \A q \in DOMAIN sched : status'[q] = "running"
    BY <1>1, <1>2, <2>1, <2>2
  <2> QED  BY <1>1, <2>1, <2>3 DEF SchedOK
<1>16. ASSUME NEW r \in Reqs, AdmitRunning(r)
       PROVE  SchedOK'
  <2>1. /\ pc = "waiting" /\ pc' = pc /\ r \in todo
        /\ status' = [status EXCEPT ![r] = "running"]
        /\ running' = Append(running, r)
    BY Zenon, <1>16 DEF AdmitRunning, CanTry
  <2>2. \E v : sched' = With(sched, r, v)
    BY Zenon, <1>16 DEF AdmitRunning
  <2>3. DOMAIN sched' = DOMAIN sched \cup {r}
    BY <2>2, WithOne
  <2>4. r \notin Range(running)
    BY <1>2, <2>1
  <2>5. IsInjective(Append(running, r))
    BY <1>1, <1>2, <2>4, AddedKey
  <2>6. \A q \in DOMAIN sched' : status'[q] = "running"
    BY <1>1, <1>2, <2>1, <2>3
  <2> QED  BY <2>1, <2>5, <2>6 DEF SchedOK
<1>17. ASSUME ScheduleRunning
       PROVE  SchedOK'
  <2>1. /\ pc = "running" /\ pc' = pc /\ cursor <= Len(running) /\ cursor' = cursor + 1
        /\ UNCHANGED <<status, running>>
        /\ \E v : sched' = With(sched, running[cursor], v)
    BY Zenon, <1>17 DEF ScheduleRunning
  <2>2. DOMAIN sched' = DOMAIN sched \cup {running[cursor]}
    <3>1. PICK v : sched' = With(sched, running[cursor], v)
      BY <2>1
    <3> QED  BY <3>1 DEF With
  <2>3. cursor \in DOMAIN running /\ running[cursor] \in Range(running)
    BY <1>2, <2>1, ListPositions
  <2>4. \A i \in DOMAIN running : i >= cursor + 1 => running[i] # running[cursor] /\ i >= cursor
    <3>1. DOMAIN running \subseteq Nat
      BY <1>2
    <3> QED  BY <1>1, <1>2, <2>3, <3>1 DEF IsInjective
  <2> QED  BY <1>1, <1>2, <2>1, <2>2, <2>3, <2>4 DEF SchedOK
<1>18. ASSUME PreemptForBlocks
       PROVE  SchedOK'
  <2>1. /\ pc = "running" /\ cursor <= Len(running) /\ Preempt({Last(running)}, FALSE)
        /\ UNCHANGED <<sched, cursor>> /\ pc' \in {"running", "build"}
    BY Zenon, <1>18 DEF PreemptForBlocks
  <2>2. /\ Len(running) \in Nat /\ DOMAIN running = 1..Len(running) /\ running # <<>>
        /\ Len(running) >= 1 /\ Last(running) = running[Len(running)]
    BY <1>2, <2>1 DEF Last
  <2>3. Last(running) \notin DOMAIN sched
    BY <1>1, <2>1, <2>2
  <2>4. status' = [r \in Reqs |-> IF r \in {Last(running)} THEN "waiting" ELSE status[r]]
    BY Zenon, <2>1 DEF Preempt
  <2>5. PICK rest : rest = Without(running, {Last(running)})
    OBVIOUS
  <2>6. running' = rest /\ IsInjective(running') /\ rest \in Seq(Reqs)
    BY <1>2, <1>5, <2>1, <2>5, WithoutKeys
  <2>7. Len(rest) = Len(running) - 1 /\ \A i \in 1..(Len(running) - 1) : rest[i] = running[i]
    BY <1>1, <1>2, <2>2, <2>5, WithoutLast
  <2>8. \A i \in DOMAIN running' : i \in DOMAIN running /\ running'[i] = running[i]
    BY <2>2, <2>6, <2>7
  <2>9. \A q \in DOMAIN sched' : status'[q] = "running"
    BY <1>1, <1>2, <2>1, <2>3, <2>4
  <2> QED  BY <1>1, <2>1, <2>6, <2>8, <2>9 DEF SchedOK
<1>19. CASE UNCHANGED <<pc, todo, cursor>>
  <2>1. CASE UNCHANGED <<computed, sched>>
    <3>1. CASE UNCHANGED <<status, known, running, tracked, finSignaled, finishedIds>>
      BY <1>4, <1>19, <2>1, <3>1
    <3> QED  BY <1>7, <1>8, <1>9, <1>11, <1>14, <1>15, <1>16, <1>18, <3>1, Changes
  <2> QED  BY <1>7, <1>9, <1>14, <1>15, <1>16, <1>17, <1>18, <2>1, Changes
<1> QED  BY <1>8, <1>10, <1>11, <1>12, <1>13, <1>14, <1>15, <1>16, <1>17, <1>18, <1>19, Changes

-----------------------------------------------------------------------------
(***************************************************************************)
(* Batches in flight.                                                      *)
(***************************************************************************)

\* Taking the first of n batches away moves the others one position down.
LEMMA ShiftedCount ==
    ASSUME NEW n \in Nat, NEW S \in SUBSET (1..n), NEW T,
           \A i : i \in T <=> i \in 1..(n - 1) /\ i + 1 \in S
    PROVE  /\ Cardinality(S) \in Nat /\ Cardinality(T) \in Nat
           /\ Cardinality(S) = Cardinality(T) + (IF 1 \in S THEN 1 ELSE 0)
<1> DEFINE later == S \ {1}
           down == [i \in later |-> i - 1]
<1>1. IsFiniteSet(1..n)
  BY FS_Interval
<1>2. IsFiniteSet(S) /\ IsFiniteSet(later)
  BY <1>1, FS_Subset
<1>3. Cardinality(S) \in Nat /\ Cardinality(later) \in Nat
  BY <1>2, FS_CardinalityType
<1>4. \A i \in S : i \in Nat /\ i >= 1 /\ i <= n
  OBVIOUS
<1>5. down \in Bijection(later, T)
  <2>1. \A i \in later : i - 1 \in T
    BY <1>4
  <2>2. \A i, k \in later : i - 1 = k - 1 => i = k
    BY <1>4
  <2>3. \A m \in T : m + 1 \in later /\ (m + 1) - 1 = m
    OBVIOUS
  <2>4. down \in [later -> T]
    BY <2>1
  <2>5. \A i, k \in later : down[i] = down[k] => i = k
    BY <2>2
  <2>6. \A m \in T : \E i \in later : down[i] = m
    BY <2>3
  <2> QED  BY <2>4, <2>5, <2>6 DEF Bijection, Injection, Surjection, IsInjective
<1>6. Cardinality(T) = Cardinality(later)
  <2>1. ExistsBijection(later, T)
    BY <1>5 DEF ExistsBijection
  <2> QED  BY <1>2, <2>1, FS_Bijection
<1>7. CASE 1 \in S
  <2>1. Cardinality(later) = Cardinality(S) - 1
    BY <1>2, <1>7, FS_RemoveElement
  <2> QED  BY <1>3, <1>6, <1>7, <2>1
<1>8. CASE 1 \notin S
  BY <1>3, <1>6, <1>8
<1> QED  BY <1>7, <1>8

\* What the batches in flight compute changes only when one is added or taken.
LEMMA InFlightKept ==
    ASSUME Inv, [Next]_vars, ~Emit, ~BeginOutput
    PROVE  Working' = Working /\ \A r \in Reqs : InFlight(r)' = InFlight(r)
<1>1. CASE steps' = steps
  BY <1>1 DEF Working, InFlight
<1>2. ASSUME NEW w \in Workers, Report(w)
      PROVE  Working' = Working /\ \A r \in Reqs : InFlight(r)' = InFlight(r)
  <2>1. DOMAIN steps' = DOMAIN steps /\ \A i \in DOMAIN steps : steps'[i].work = steps[i].work
    BY <1>2, ReportedBatch
  <2> QED  BY <2>1 DEF Working, InFlight
<1>3. ASSUME WorkersStep
      PROVE  steps' = steps \/ \E w \in Workers : Report(w)
  <2>1. PICK w \in Workers : WorkerStep(w)
    BY Zenon, <1>3 DEF WorkersStep
  <2>2. steps' = steps \/ Report(w)
    BY Zenon, <2>1 DEF WorkerStep, SubmitStores, SubmitLoads, RunModel, StoreTransfer, LoadTransfer
  <2> QED  BY <2>2
<1> QED  BY <1>1, <1>2, <1>3, Changes

\* A new batch computes for the scheduled requests and no others.
LEMMA EmissionFlights ==
    ASSUME Inv, Emit, NEW r \in Reqs, r \notin DOMAIN sched
    PROVE  InFlight(r)' = InFlight(r)
<1>1. PICK b \in Batch :
        /\ steps' = Append(steps, b)
        /\ b.work = {[req |-> q, from |-> sched[q].from, to |-> sched[q].to,
                      blocks |-> held[q]] : q \in DOMAIN sched}
  BY EmittedBatch
<1>2. steps \in Seq(Batch)
  BY DEF Inv, LoopsOK
<1>3. /\ Len(steps) \in Nat /\ DOMAIN steps = 1..Len(steps) /\ DOMAIN steps' = 1..(Len(steps) + 1)
      /\ steps'[Len(steps) + 1] = b /\ \A i \in 1..Len(steps) : steps'[i] = steps[i]
  BY <1>1, <1>2
<1>4. \A p \in b.work : p.req \in DOMAIN sched
  BY <1>1
<1>5. \A i : i \in 1..(Len(steps) + 1) <=> i \in 1..Len(steps) \/ i = Len(steps) + 1
  BY <1>3
<1> QED  BY <1>3, <1>4, <1>5 DEF InFlight

\* Processing the oldest batch: its requests have one batch less in flight.
LEMMA OutputFlights ==
    ASSUME Inv, BeginOutput, NEW r \in Reqs
    PROVE  Coming(r)' = Coming(r)
<1>1. /\ Len(steps) \in Nat /\ DOMAIN steps = 1..Len(steps) /\ Len(steps) > 0
      /\ DOMAIN steps' = 1..(Len(steps) - 1)
      /\ \A i \in 1..(Len(steps) - 1) : steps'[i] = steps[i + 1]
  BY TakenBatch
<1>2. pc = "idle" /\ pc' = "output" /\ todo' = {p.req : p \in Head(steps).work}
  BY Zenon DEF BeginOutput
<1>3. Head(steps) = steps[1]
  BY <1>1 DEF Inv, LoopsOK
<1>4. InFlight(r) \in SUBSET (1..Len(steps))
  BY <1>1 DEF InFlight
<1>5. \A i : i \in InFlight(r)' <=> i \in 1..(Len(steps) - 1) /\ i + 1 \in InFlight(r)
  BY <1>1 DEF InFlight
<1>6. r \in todo' <=> 1 \in InFlight(r)
  BY <1>1, <1>2, <1>3 DEF InFlight
<1>7. /\ Cardinality(InFlight(r)) \in Nat /\ Cardinality(InFlight(r)') \in Nat
      /\ Cardinality(InFlight(r)) = Cardinality(InFlight(r)') + (IF 1 \in InFlight(r) THEN 1 ELSE 0)
  <2>1. PICK S, T : S = InFlight(r) /\ T = InFlight(r)'
    OBVIOUS
  <2>2. S \in SUBSET (1..Len(steps)) /\ \A i : i \in T <=> i \in 1..(Len(steps) - 1) /\ i + 1 \in S
    BY <1>4, <1>5, <2>1
  <2>3. /\ Cardinality(S) \in Nat /\ Cardinality(T) \in Nat
        /\ Cardinality(S) = Cardinality(T) + (IF 1 \in S THEN 1 ELSE 0)
    BY ONLY <1>1, <2>2, ShiftedCount
  <2> QED  BY <2>1, <2>3
<1>8. Coming(r) = Cardinality(InFlight(r))
  BY <1>2, <1>7 DEF Coming
<1>9. Coming(r)' = Cardinality(InFlight(r)') + (IF r \in todo' THEN 1 ELSE 0)
  BY <1>2 DEF Coming
<1> QED  BY <1>6, <1>7, <1>8, <1>9

\* The engine turns to outputs only by taking a batch, and to no more of them.
LEMMA OutputLoop ==
    ASSUME Inv, [Next]_vars, ~BeginOutput, pc' = "output"
    PROVE  /\ pc = "output"
           /\ \/ todo' = todo
              \/ \E r \in Reqs, stop \in BOOLEAN : ProcessRequest(r, stop)
<1>1. CASE UNCHANGED <<pc, todo, cursor>>
  BY <1>1
<1>2. ASSUME NEW r \in Reqs, \/ SkipBlocked(r) \/ DeferLookup(r) \/ AdmitLoad(r) \/ AdmitRunning(r)
                             \/ AdmitFails(r) \/ NothingToStore(r) \/ StoreRefused(r) \/ Store(r)
      PROVE  FALSE
  BY <1>2 DEF SkipBlocked, DeferLookup, AdmitLoad, AdmitRunning, AdmitFails, CanTry, NothingToStore,
     StoreRefused, Store, StoreTurn, KeepForStores
<1>3. ASSUME \/ BeginSchedule \/ ScheduleRunning \/ PreemptForBlocks \/ TryWaiting \/ EndSchedule
             \/ BuildMeta \/ AssertionFails \/ Emit \/ BeginTransfers \/ EndOutput
      PROVE  FALSE
  BY <1>3 DEF BeginSchedule, ScheduleRunning, PreemptForBlocks, TryWaiting, EndSchedule, BuildMeta,
     AssertionFails, Emit, BeginTransfers, EndOutput
<1>4. ASSUME NEW r \in Reqs, NEW stop \in BOOLEAN, ProcessRequest(r, stop)
      PROVE  pc = "output"
  BY <1>4 DEF ProcessRequest
<1>5. ASSUME NEW j \in JobIds, CompleteJob(j)
      PROVE  FALSE
  <2>1. pc = "complete" /\ pc' = pc
    BY Zenon, <1>5 DEF CompleteJob
  <2> QED  BY <2>1
<1> QED  BY <1>1, <1>2, <1>3, <1>4, <1>5, Changes

\* The outputs still to come of a request that waits are stale.
LEMMA FlightsStep ==
    ASSUME Inv, SchedOK, FlightsOK, [Next]_vars
    PROVE  FlightsOK'
<1> DEFINE Waits == {"waiting", "remote"}
<1>1. /\ status \in [Reqs -> {"absent", "waiting", "remote", "running", "stopped", "aborted"}]
      /\ stale \in [Reqs -> 0..MaxBatches] /\ MaxBatches \in Nat
      /\ \A r \in Range(running) : status[r] = "running"
      /\ pc = "waiting" => \A r \in todo : status[r] \in Waits
  BY SizesAssumption DEF Inv, MembersOK, StaleOK
<1>2. \A r \in Reqs : Cardinality(InFlight(r)) \in Nat
  BY <1>1, InFlightBound
<1>3. \A r \in Reqs : status[r] \in Waits => Coming(r) <= stale[r]
  BY DEF FlightsOK
<1>4. ASSUME ~Emit, ~BeginOutput, \A r \in Reqs, stop \in BOOLEAN : ~ProcessRequest(r, stop)
      PROVE  \A r \in Reqs : Coming(r)' <= Coming(r) /\ Coming(r)' \in Nat /\ Coming(r) \in Nat
  <2>1. ASSUME NEW r \in Reqs
        PROVE  Coming(r)' <= Coming(r) /\ Coming(r)' \in Nat /\ Coming(r) \in Nat
    <3>1. Cardinality(InFlight(r)') = Cardinality(InFlight(r))
      BY <1>4, InFlightKept
    <3>2. pc' = "output" => pc = "output" /\ todo' = todo
      BY <1>4, OutputLoop
    <3> QED  BY <1>2, <3>1, <3>2 DEF Coming
  <2> QED  BY <2>1
<1>5. ASSUME NEW D \in SUBSET Reqs, \A r \in D : Coming(r)' \in Nat /\ Coming(r)' <= Coming(r),
             \A r \in D : Coming(r) \in Nat,
             \A r \in D : status'[r] \in Waits => status[r] \in Waits /\ stale'[r] = stale[r]
      PROVE  \A r \in D : status'[r] \in Waits => Coming(r)' <= stale'[r]
  BY <1>1, <1>3, <1>5
<1>6. CASE Emit
  <2>1. UNCHANGED <<status, stale>> /\ pc' = "idle"
    BY Zenon, <1>6 DEF Emit, asyncVars
  <2>2. ASSUME NEW r \in Reqs, status'[r] \in Waits
        PROVE  Coming(r)' <= stale'[r]
    <3>1. r \notin DOMAIN sched
      BY <2>1, <2>2 DEF SchedOK
    <3>2. InFlight(r)' = InFlight(r)
      BY <1>6, <3>1, EmissionFlights
    <3>3. Coming(r)' = Cardinality(InFlight(r)) /\ Cardinality(InFlight(r)) <= Coming(r)
      BY <1>2, <2>1, <3>2 DEF Coming
    <3>4. Coming(r) <= stale[r] /\ Coming(r) \in Nat
      BY <1>2, <1>3, <2>1, <2>2 DEF Coming
    <3> QED  BY <1>1, <1>2, <2>1, <3>3, <3>4
  <2> QED  BY <2>2 DEF FlightsOK
<1>7. CASE BeginOutput
  <2>1. UNCHANGED <<status, stale>>
    BY Zenon, <1>7 DEF BeginOutput, reqVars
  <2> QED  BY <1>3, <1>7, <2>1, OutputFlights DEF FlightsOK
<1>8. ASSUME NEW r \in Reqs, NEW stop \in BOOLEAN, ProcessRequest(r, stop)
      PROVE  FlightsOK'
  <2>1. /\ pc = "output" /\ pc' = pc /\ r \in todo /\ todo' = todo \ {r}
        /\ stale' = [stale EXCEPT ![r] = StaleAfter(r)]
        /\ \/ status' = status
           \/ status' = [status EXCEPT ![r] = "stopped"]
    BY Zenon, <1>8 DEF ProcessRequest, Finish, reqVars
  <2>2. ~Emit /\ ~BeginOutput
    BY <2>1 DEF Emit, BeginOutput
  <2>3. \A q \in Reqs : InFlight(q)' = InFlight(q)
    BY <2>2, InFlightKept
  <2>4. ASSUME NEW q \in Reqs, status'[q] \in Waits
        PROVE  Coming(q)' <= stale'[q]
    <3>1. status[q] = status'[q] /\ Coming(q) <= stale[q] /\ stale[q] \in Nat
      BY <1>1, <1>3, <2>1, <2>4
    <3>2. CASE q = r
      <4>1. Coming(q) = Cardinality(InFlight(q)) + 1 /\ Coming(q)' = Cardinality(InFlight(q))
        BY <1>2, <2>1, <2>3, <3>2 DEF Coming
      <4>2. stale'[q] = stale[q] - 1
        <5>1. stale[q] > 0
          BY <1>2, <3>1, <4>1
        <5> QED  BY <1>1, <2>1, <3>1, <3>2, <5>1 DEF StaleAfter, MaxOf
      <4> QED  BY <1>2, <3>1, <4>1, <4>2
    <3>3. CASE q # r
      <4>1. Coming(q)' = Coming(q)
        BY <2>1, <2>3, <3>3 DEF Coming
      <4>2. stale'[q] = stale[q]
        BY <1>1, <2>1, <3>3
      <4> QED  BY <3>1, <4>1, <4>2
    <3> QED  BY <3>2, <3>3
  <2> QED  BY <2>4 DEF FlightsOK
<1>9. ASSUME NEW S \in SUBSET Range(running), NEW drop, Preempt(S, drop), pc' # "output",
             ~Emit, ~BeginOutput, \A r \in Reqs, stop \in BOOLEAN : ~ProcessRequest(r, stop)
      PROVE  FlightsOK'
  <2>1. /\ status' = [r \in Reqs |-> IF r \in S THEN "waiting" ELSE status[r]]
        /\ stale' = [r \in Reqs |-> IF r \in S THEN Cardinality(InFlight(r)) ELSE stale[r]]
    BY Zenon, <1>9 DEF Preempt
  <2>2. ASSUME NEW r \in Reqs, status'[r] \in Waits
        PROVE  Coming(r)' <= stale'[r]
    <3>1. Coming(r)' <= Coming(r) /\ Coming(r)' \in Nat /\ Coming(r) \in Nat
      BY <1>4, <1>9
    <3>2. Coming(r)' = Cardinality(InFlight(r))
      BY <1>2, <1>9, InFlightKept DEF Coming
    <3>3. CASE r \in S
      BY <1>2, <2>1, <3>2, <3>3
    <3>4. CASE r \notin S
      BY <1>1, <1>3, <2>1, <2>2, <3>1, <3>4
    <3> QED  BY <3>3, <3>4
  <2> QED  BY <2>2 DEF FlightsOK
<1>10. ASSUME ~Emit, ~BeginOutput, \A r \in Reqs, stop \in BOOLEAN : ~ProcessRequest(r, stop)
       PROVE  FlightsOK'
  <2>1. \A r \in Reqs : Coming(r)' <= Coming(r) /\ Coming(r)' \in Nat /\ Coming(r) \in Nat
    BY <1>4, <1>10
  <2>2. ASSUME \A r \in Reqs : status'[r] \in Waits => status[r] \in Waits /\ stale'[r] = stale[r]
        PROVE  FlightsOK'
    BY <1>1, <1>3, <2>1, <2>2 DEF FlightsOK
  <2>3. ASSUME NEW r \in Reqs, Arrive(r)
        PROVE  FlightsOK'
    <3>1. /\ pc = "idle" /\ pc' = pc /\ InFlight(r) = {}
          /\ status' = [status EXCEPT ![r] = "waiting"] /\ stale' = [stale EXCEPT ![r] = 0]
      BY Zenon, <2>3 DEF Arrive, EngineFree, Forgotten, loopVars
    <3>2. Coming(r) = 0
      BY <3>1, FS_EmptySet DEF Coming
    <3>3. ASSUME NEW q \in Reqs, status'[q] \in Waits
          PROVE  Coming(q)' <= stale'[q]
      <4>1. CASE q = r
        BY <1>1, <2>1, <3>1, <3>2, <4>1
      <4>2. CASE q # r
        BY <1>1, <1>3, <2>1, <3>1, <3>3, <4>2
      <4> QED  BY <4>1, <4>2
    <3> QED  BY <3>3 DEF FlightsOK
  <2>4. ASSUME NEW r \in Reqs, Abort(r) \/ Promote(r) \/ AdmitLoad(r) \/ AdmitRunning(r)
        PROVE  FlightsOK'
    <3>1. /\ stale' = stale
          /\ \/ status' = [status EXCEPT ![r] = "aborted"]
             \/ status' = [status EXCEPT ![r] = "running"]
             \/ status[r] \in Waits /\ \E s : status' = [status EXCEPT ![r] = s]
      BY <2>4 DEF Abort, Finish, Promote, AdmitLoad, AdmitRunning, CanTry, asyncVars
    <3> QED  BY <1>1, <2>2, <3>1
  <2>5. CASE PreemptForBlocks
    <3>1. pc' # "output" /\ \E v \in Range(running) : Preempt({v}, FALSE)
      BY <2>5, PreemptedForBlocks
    <3> QED  BY <1>9, <1>10, <3>1
  <2>6. CASE Reset
    <3>1. pc = "idle" /\ (Preempt(Range(running), TRUE) \/ UNCHANGED <<status, stale>>)
      BY <2>6, ResetShape DEF reqVars, asyncVars
    <3>2. pc' = pc
      BY Zenon, <2>6 DEF Reset, ResetPrefixCache, loopVars
    <3> QED  BY <1>9, <1>10, <2>2, <3>1, <3>2
  <2>7. CASE EndOutput \/ \E j \in JobIds : CompleteJob(j)
    <3>1. UNCHANGED <<status, stale>>
      BY Zenon, <2>7 DEF EndOutput, CompleteJob, reqVars, asyncVars
    <3> QED  BY <2>2, <3>1
  <2>8. CASE UNCHANGED <<status, known, running, tracked, finSignaled, finishedIds>>
    <3>1. CASE UNCHANGED <<stale, dropStale>>
      BY <2>2, <2>8, <3>1
    <3> QED  BY <1>10, <2>3, <2>5, <2>6, <3>1, Changes
  <2> QED  BY <1>10, <2>3, <2>4, <2>5, <2>6, <2>7, <2>8, Changes
<1> QED  BY <1>6, <1>7, <1>8, <1>10

-----------------------------------------------------------------------------
(***************************************************************************)
(* Blocks that are freed.                                                  *)
(***************************************************************************)

\* A request that waits for a load cannot stop: its outputs are dropped.
LEMMA StoppedRequests ==
    ASSUME Inv, RemoteOK, FlightsOK, NEW r \in Reqs, ProcessRequest(r, TRUE)
    PROVE  status[r] # "remote" /\ ~Finished(r) /\ r \in known
<1>1. /\ pc = "output" /\ r \in todo /\ r \in known /\ ~Finished(r)
      /\ ~(stale[r] > 0 /\ dropStale[r])
  BY Zenon DEF ProcessRequest
<1>2. Cardinality(InFlight(r)) \in Nat /\ stale[r] \in Nat
  BY InFlightBound, SizesAssumption DEF Inv, StaleOK
<1>3. ASSUME status[r] = "remote"
      PROVE  FALSE
  <2>1. Coming(r) = Cardinality(InFlight(r)) + 1 /\ Coming(r) <= stale[r]
    BY <1>1, <1>3 DEF FlightsOK, Coming
  <2>2. stale[r] = 0 \/ dropStale[r]
    BY <1>3 DEF RemoteOK
  <2> QED  BY <1>1, <1>2, <2>1, <2>2
<1> QED  BY <1>1, <1>3

\* The requests whose blocks a step frees: running ones, which wait again, or ones
\* that are gone, and whose load is done if there was one.
Preempted(S) == S \subseteq Range(running) /\ known' = known
Gone(S) == /\ S \subseteq known /\ known' = known \ S
           /\ \A r \in S : r \in recvd \cup received \/ ~(status[r] = "remote" \/ Finished(r))
           /\ \A r \in S : status'[r] \in {"stopped", "aborted"}

\* Blocks are freed by preempting or finishing requests, and taken by scheduling.
LEMMA WhoFrees ==
    ASSUME Inv, RemoteOK, FlightsOK, [Next]_vars
    PROVE  \/ UNCHANGED <<held, deferred>> /\ known \subseteq known'
           \/ BeginOutput
           \/ ScheduleRunning \/ \E r \in Reqs : AdmitLoad(r) \/ AdmitRunning(r)
           \/ \E S \in SUBSET Reqs : FreeRequestBlocks(S) /\ (Preempted(S) \/ Gone(S))
<1> DEFINE Kept == UNCHANGED <<held, deferred>> /\ known \subseteq known'
           Freed == \E S \in SUBSET Reqs : FreeRequestBlocks(S) /\ (Preempted(S) \/ Gone(S))
<1>0. DOMAIN status = Reqs
  BY DEF Inv, MembersOK
<1>1. Range(running) \subseteq Reqs /\ known \subseteq Reqs
  BY DEF Inv, MembersOK
<1>2. ASSUME NEW r \in Reqs, Abort(r)
      PROVE  Kept \/ Freed
  <2>1. /\ r \in known /\ ~Finished(r) /\ status' = [status EXCEPT ![r] = "aborted"]
        /\ IF MustDelayFree(r) THEN UNCHANGED <<held, deferred, known>>
           ELSE FreeRequestBlocks({r}) /\ known' = known \ {r}
    BY Zenon, <1>2 DEF Abort, Finish
  <2>2. CASE MustDelayFree(r)
    BY <2>1, <2>2
  <2>3. CASE ~MustDelayFree(r)
    <3>1. status'[r] = "aborted"
      BY <1>0, <2>1
    <3>2. Gone({r})
      BY <2>1, <2>3, <3>1 DEF Gone, MustDelayFree
    <3> QED  BY <2>1, <2>3, <3>2
  <2> QED  BY <2>2, <2>3
<1>3. ASSUME NEW r \in Reqs, ProcessRequest(r, TRUE)
      PROVE  Freed
  <2>1. /\ FreeRequestBlocks({r}) /\ known' = known \ {r}
        /\ status' = [status EXCEPT ![r] = "stopped"]
    BY Zenon, <1>3 DEF ProcessRequest, Finish
  <2>2. Gone({r})
    BY <1>0, <1>3, <2>1, StoppedRequests DEF Gone
  <2> QED  BY <2>1, <2>2
<1>4. ASSUME NEW r \in Reqs, ProcessRequest(r, FALSE)
      PROVE  Kept
  BY Zenon, <1>4 DEF ProcessRequest, reqVars
<1>5. ASSUME NEW S \in SUBSET Range(running), NEW drop, Preempt(S, drop)
      PROVE  Freed
  <2>1. FreeRequestBlocks(S) /\ known' = known
    BY Zenon, <1>5 DEF Preempt
  <2> QED  BY <1>1, <2>1 DEF Preempted
<1>6. ASSUME Reset \/ PreemptForBlocks
      PROVE  Kept \/ Freed
  <2>1. ASSUME PreemptForBlocks
        PROVE  Freed
    BY <1>5, <2>1, PreemptedForBlocks
  <2>2. ASSUME Reset
        PROVE  Kept \/ Freed
    <3>1. Preempt(Range(running), TRUE) \/ UNCHANGED <<held, deferred, known>>
      BY Zenon, <2>2, ResetShape DEF reqVars, asyncVars
    <3> QED  BY <1>5, <3>1
  <2> QED  BY <1>6, <2>1, <2>2
<1>7. ASSUME EndOutput
      PROVE  Freed
  <2>1. PICK S : S = {r \in received \cap known : Finished(r)}
    OBVIOUS
  <2>2. FreeRequestBlocks(S) /\ known' = known \ S /\ status' = status
    BY Zenon, <1>7, <2>1 DEF EndOutput
  <2> QED  BY <1>1, <2>1, <2>2 DEF Gone, Finished
<1>8. ASSUME NEW r \in Reqs, Arrive(r)
      PROVE  Kept
  <2>1. UNCHANGED <<held, deferred>> /\ known' = known \cup {r}
    BY Zenon, <1>8 DEF Arrive
  <2> QED  BY <2>1
<1>9. ASSUME NEW r \in Reqs, Promote(r) \/ DeferLookup(r) \/ AdmitFails(r)
      PROVE  Kept
  BY <1>9 DEF Promote, DeferLookup, AdmitFails, reqVars, asyncVars
<1>10. ASSUME BuildMeta \/ Emit \/ \E j \in JobIds : CompleteJob(j)
       PROVE  Kept
  <2>1. ASSUME NEW j \in JobIds, CompleteJob(j)
        PROVE  UNCHANGED <<held, deferred, known>>
    BY Zenon, <2>1 DEF CompleteJob, reqVars, asyncVars
  <2>2. ASSUME BuildMeta \/ Emit
        PROVE  UNCHANGED <<held, deferred, known>>
    BY Zenon, <2>2 DEF BuildMeta, Emit, reqVars, asyncVars
  <2> QED  BY <1>10, <2>1, <2>2
<1>11. CASE UNCHANGED <<status, known, running, tracked, finSignaled, finishedIds>>
  <2>1. CASE UNCHANGED <<held, blockIds, hashed, curAlloc>>
    <3>1. CASE UNCHANGED deferred
      BY <1>11, <2>1, <3>1
    <3> QED  BY <1>2, <1>3, <1>4, <1>6, <1>7, <3>1, Changes
  <2> QED  BY <1>2, <1>3, <1>4, <1>6, <1>7, <1>8, <1>9, <1>10, <2>1, Changes
<1> QED  BY <1>2, <1>3, <1>4, <1>6, <1>7, <1>8, <1>9, <1>10, <1>11, Changes

\* A request keeps its blocks while it waits for a load or has one to wait for,
\* unless it is gone.
LEMMA HeldChanges ==
    ASSUME Inv, RemoteOK, FlightsOK, [Next]_vars, NEW q \in Reqs
    PROVE  /\ q \in known /\ q \notin known' => held'[q] = <<>> /\ Finished(q)'
           /\ \/ held'[q] = held[q]
              \/ held'[q] = <<>> /\ (status[q] = "running" \/ (q \notin known' /\ Finished(q)'))
              \/ AdmitLoad(q) \/ AdmitRunning(q)
              \/ ScheduleRunning /\ status[q] = "running"
<1>1. /\ \A r \in Range(running) : r \in known /\ status[r] = "running"
      /\ held \in [Reqs -> Seq(Blocks)] /\ known \subseteq Reqs
  BY DEF Inv, MembersOK, DataOK
<1>2. CASE UNCHANGED <<held, deferred>> /\ known \subseteq known'
  BY <1>2
<1>3. CASE BeginOutput
  <2>1. UNCHANGED <<held, known>>
    BY Zenon, <1>3 DEF BeginOutput, reqVars
  <2> QED  BY <2>1
<1>4. ASSUME NEW S \in SUBSET Reqs, FreeRequestBlocks(S), Preempted(S) \/ Gone(S)
      PROVE  /\ q \in known /\ q \notin known' => held'[q] = <<>> /\ Finished(q)'
             /\ \/ held'[q] = held[q]
                \/ held'[q] = <<>> /\ (status[q] = "running" \/ (q \notin known' /\ Finished(q)'))
  <2>1. held' = [r \in Reqs |-> IF r \in S THEN <<>> ELSE held[r]]
    BY Zenon, <1>4 DEF FreeRequestBlocks
  <2>2. held'[q] = IF q \in S THEN <<>> ELSE held[q]
    BY <2>1
  <2>3. CASE Preempted(S)
    <3>1. known' = known /\ (q \in S => status[q] = "running")
      BY <1>1, <2>3 DEF Preempted
    <3> QED  BY <2>2, <3>1
  <2>4. CASE Gone(S)
    <3>1. known' = known \ S /\ (q \in S => Finished(q)')
      BY <2>4 DEF Gone, Finished
    <3> QED  BY <2>2, <3>1
  <2> QED  BY <1>4, <2>3, <2>4
<1>5. ASSUME ScheduleRunning
      PROVE  /\ q \in known => q \in known'
             /\ held'[q] = held[q] \/ status[q] = "running"
  <2>1. PICK r \in Reqs, t \in Nat : \E new \in Seq(Blocks) :
               r \in Range(running) /\ Allocate(r, held[r], t, new)
    BY <1>5, ScheduledRequest
  <2>2. PICK new \in Seq(Blocks) : held' = [held EXCEPT ![r] = held[r] \o new]
    BY Zenon, <2>1 DEF Allocate
  <2>3. known' = known
    BY Zenon, <1>5 DEF ScheduleRunning
  <2> QED  BY <1>1, <2>1, <2>2, <2>3
<1>6. ASSUME NEW r \in Reqs, AdmitLoad(r) \/ AdmitRunning(r)
      PROVE  /\ q \in known => q \in known'
             /\ held'[q] = held[q] \/ r = q
  <2>1. known' = known
    BY Zenon, <1>6 DEF AdmitLoad, AdmitRunning
  <2>2. \E bs : held' = [held EXCEPT ![r] = bs]
    BY Zenon, <1>6 DEF AdmitLoad, AdmitRunning, Allocate
  <2> QED  BY <1>1, <2>1, <2>2
<1> QED  BY <1>2, <1>3, <1>4, <1>5, <1>6, WhoFrees

\* A request that is gone has no blocks.
LEMMA HeldStep ==
    ASSUME Inv, RemoteOK, FlightsOK, HeldOK, [Next]_vars
    PROVE  HeldOK'
<1>1. /\ \A r \in Range(running) : r \in known
      /\ pc = "waiting" => \A r \in todo : r \in known
      /\ \A r \in Reqs \ known : held[r] = <<>>
  BY DEF Inv, MembersOK, HeldOK
<1>2. ASSUME NEW q \in Reqs, q \notin known', q \notin known
      PROVE  held'[q] = <<>>
  <2>1. ~(AdmitLoad(q) \/ AdmitRunning(q))
    BY <1>1, <1>2 DEF AdmitLoad, AdmitRunning, CanTry
  <2>2. ASSUME ScheduleRunning
        PROVE  held'[q] = held[q]
    <3>1. PICK r \in Reqs, t \in Nat : \E new \in Seq(Blocks) :
                 r \in Range(running) /\ Allocate(r, held[r], t, new)
      BY <2>2, ScheduledRequest
    <3>2. PICK new \in Seq(Blocks) : held' = [held EXCEPT ![r] = held[r] \o new]
      BY Zenon, <3>1 DEF Allocate
    <3>3. q # r
      BY <1>1, <1>2, <3>1
    <3> QED  BY <3>2, <3>3 DEF Inv, DataOK
  <2> QED  BY <1>1, <1>2, <2>1, <2>2, HeldChanges
<1>3. ASSUME NEW q \in Reqs, q \notin known', q \in known
      PROVE  held'[q] = <<>>
  BY <1>3, HeldChanges
<1> QED  BY <1>2, <1>3 DEF HeldOK

-----------------------------------------------------------------------------
(***************************************************************************)
(* Requests that wait for a load.                                          *)
(***************************************************************************)

\* A request waits for a load from its admission until it is promoted or aborted.
LEMMA StatusChanges ==
    ASSUME Inv, RemoteOK, FlightsOK, [Next]_vars, NEW q \in Reqs
    PROVE  \/ status'[q] = status[q]
           \/ status[q] = "remote" /\ (Abort(q) \/ Promote(q))
           \/ status[q] # "remote" /\ status'[q] # "remote"
           \/ AdmitLoad(q) /\ status[q] = "waiting" /\ status'[q] = "remote"
<1>1. /\ DOMAIN status = Reqs
      /\ \A r \in Range(running) : status[r] = "running"
      /\ \A r \in Reqs : status[r] = "remote" => r \in known
  BY DEF Inv, MembersOK, RemoteOK
<1>2. ASSUME NEW r \in Reqs, Arrive(r)
      PROVE  status'[q] = status[q] \/ (status[q] # "remote" /\ status'[q] # "remote")
  <2>1. r \notin known /\ status' = [status EXCEPT ![r] = "waiting"]
    BY Zenon, <1>2 DEF Arrive, Forgotten
  <2> QED  BY <1>1, <2>1
<1>3. ASSUME NEW r \in Reqs, Abort(r)
      PROVE  status'[q] = status[q] \/ r = q
  <2>1. status' = [status EXCEPT ![r] = "aborted"]
    BY Zenon, <1>3 DEF Abort, Finish
  <2> QED  BY <1>1, <2>1
<1>4. ASSUME NEW r \in Reqs, Abort(r), r = q
      PROVE  (status[q] = "remote" /\ Abort(q)) \/ (status[q] # "remote" /\ status'[q] # "remote")
  <2>1. status' = [status EXCEPT ![r] = "aborted"]
    BY Zenon, <1>4 DEF Abort, Finish
  <2> QED  BY <1>1, <1>4, <2>1
<1>5. ASSUME NEW r \in Reqs, Promote(r)
      PROVE  status'[q] = status[q] \/ (status[q] = "remote" /\ Promote(q))
  <2>1. status[r] = "remote" /\ status' = [status EXCEPT ![r] = "waiting"]
    BY Zenon, <1>5 DEF Promote
  <2> QED  BY <1>1, <1>5, <2>1
<1>6. ASSUME NEW r \in Reqs, AdmitLoad(r)
      PROVE  \/ status'[q] = status[q]
             \/ AdmitLoad(q) /\ status[q] = "waiting" /\ status'[q] = "remote"
  <2>1. status[r] = "waiting" /\ status' = [status EXCEPT ![r] = "remote"]
    BY Zenon, <1>6 DEF AdmitLoad, CanTry
  <2> QED  BY <1>1, <1>6, <2>1
<1>7. ASSUME NEW r \in Reqs, AdmitRunning(r)
      PROVE  status'[q] = status[q] \/ (status[q] # "remote" /\ status'[q] # "remote")
  <2>1. status[r] = "waiting" /\ status' = [status EXCEPT ![r] = "running"]
    BY Zenon, <1>7 DEF AdmitRunning, CanTry
  <2> QED  BY <1>1, <2>1
<1>8. ASSUME NEW S \in SUBSET Range(running), NEW drop, Preempt(S, drop)
      PROVE  status'[q] = status[q] \/ (status[q] # "remote" /\ status'[q] # "remote")
  <2>1. status' = [r \in Reqs |-> IF r \in S THEN "waiting" ELSE status[r]]
    BY Zenon, <1>8 DEF Preempt
  <2> QED  BY <1>1, <2>1
<1>9. ASSUME Reset \/ PreemptForBlocks
      PROVE  status'[q] = status[q] \/ (status[q] # "remote" /\ status'[q] # "remote")
  <2>1. status' = status \/ \E S \in SUBSET Range(running), drop \in BOOLEAN : Preempt(S, drop)
    BY <1>9, ResetShape, PreemptedForBlocks DEF reqVars
  <2> QED  BY <1>8, <2>1
<1>10. ASSUME Emit \/ EndOutput \/ \E j \in JobIds : CompleteJob(j)
       PROVE  status'[q] = status[q]
  BY Zenon, <1>10 DEF Emit, EndOutput, CompleteJob, reqVars
<1>11. ASSUME NEW r \in Reqs, NEW stop \in BOOLEAN, ProcessRequest(r, stop)
       PROVE  status'[q] = status[q] \/ (status[q] # "remote" /\ status'[q] # "remote")
  <2>1. CASE stop
    <3>1. status' = [status EXCEPT ![r] = "stopped"]
      BY Zenon, <1>11, <2>1 DEF ProcessRequest, Finish
    <3>2. ProcessRequest(r, TRUE)
      BY <1>11, <2>1
    <3> QED  BY <1>1, <3>1, <3>2, StoppedRequests
  <2>2. CASE ~stop
    <3>1. status' = status
      BY Zenon, <1>11, <2>2 DEF ProcessRequest, reqVars
    <3> QED  BY <3>1
  <2> QED  BY <2>1, <2>2
<1>12. CASE UNCHANGED <<status, known, running, tracked, finSignaled, finishedIds>>
  BY <1>12
<1> QED  BY <1>2, <1>3, <1>4, <1>5, <1>6, <1>7, <1>9, <1>10, <1>11, <1>12, Changes

\* The progress of a request that waits for a load is what the load brings.
LEMMA ProgressKept ==
    ASSUME Inv, SchedOK, [Next]_vars, NEW q \in Reqs, status[q] = "remote", q \in known
    PROVE  computed'[q] = computed[q]
<1>1. /\ DOMAIN computed = Reqs
      /\ \A r \in Range(running) : status[r] = "running"
      /\ \A r \in DOMAIN sched : status[r] = "running"
  BY DEF Inv, MembersOK, DataOK, SchedOK
<1>2. ASSUME NEW r \in Reqs, Arrive(r) \/ AdmitLoad(r) \/ AdmitRunning(r)
      PROVE  computed'[q] = computed[q]
  <2>1. ASSUME Arrive(r)
        PROVE  r # q /\ \E n : computed' = [computed EXCEPT ![r] = n]
    BY Zenon, <2>1 DEF Arrive, Forgotten
  <2>2. ASSUME AdmitLoad(r) \/ AdmitRunning(r)
        PROVE  status[r] = "waiting" /\ \E n : computed' = [computed EXCEPT ![r] = n]
    BY Zenon, <2>2 DEF AdmitLoad, AdmitRunning, CanTry
  <2> QED  BY <1>1, <1>2, <2>1, <2>2
<1>3. ASSUME NEW S \in SUBSET Range(running), NEW drop, Preempt(S, drop)
      PROVE  computed'[q] = computed[q]
  <2>1. computed' = [r \in Reqs |-> IF r \in S THEN 0 ELSE computed[r]]
    BY Zenon, <1>3 DEF Preempt
  <2> QED  BY <1>1, <2>1
<1>4. ASSUME Reset \/ PreemptForBlocks
      PROVE  computed'[q] = computed[q]
  <2>1. computed' = computed \/ \E S \in SUBSET Range(running), drop \in BOOLEAN : Preempt(S, drop)
    BY <1>4, ResetShape, PreemptedForBlocks DEF reqVars
  <2> QED  BY <1>3, <2>1
<1>5. ASSUME Emit
      PROVE  computed'[q] = computed[q]
  <2>1. computed' = [r \in Reqs |-> IF r \in DOMAIN sched THEN sched[r].to ELSE computed[r]]
    BY Zenon, <1>5 DEF Emit
  <2> QED  BY <1>1, <2>1
<1>6. ASSUME ScheduleRunning
      PROVE  computed'[q] = computed[q]
  BY Zenon, <1>6 DEF ScheduleRunning
<1>7. CASE UNCHANGED <<computed, sched>>
  BY <1>7
<1> QED  BY <1>2, <1>4, <1>5, <1>6, <1>7, Changes

\* The output of a request that waits for a load stays dropped.
LEMMA StalenessKept ==
    ASSUME Inv, RemoteOK, [Next]_vars, NEW q \in Reqs, status[q] = "remote"
    PROVE  stale'[q] = 0 \/ dropStale'[q]
<1>1. /\ stale \in [Reqs -> 0..MaxBatches] /\ MaxBatches \in Nat
      /\ \A r \in Range(running) : status[r] = "running"
      /\ q \in known /\ (stale[q] = 0 \/ dropStale[q]) /\ DOMAIN dropStale = Reqs
  BY SizesAssumption DEF Inv, MembersOK, StaleOK, RemoteOK
<1>2. ASSUME NEW r \in Reqs, Arrive(r)
      PROVE  stale'[q] = stale[q] /\ dropStale'[q] = dropStale[q]
  <2>1. /\ r \notin known /\ stale' = [stale EXCEPT ![r] = 0]
        /\ dropStale' = [dropStale EXCEPT ![r] = FALSE]
    BY Zenon, <1>2 DEF Arrive, Forgotten
  <2>2. r # q
    BY <1>1, <2>1
  <2> QED  BY <1>1, <2>1, <2>2
<1>3. ASSUME NEW S \in SUBSET Range(running), NEW drop, Preempt(S, drop)
      PROVE  stale'[q] = stale[q] /\ dropStale'[q] = dropStale[q]
  <2>1. /\ stale' = [r \in Reqs |-> IF r \in S THEN Cardinality(InFlight(r)) ELSE stale[r]]
        /\ dropStale' = [r \in Reqs |-> IF r \in S THEN drop \/ (dropStale[r] /\ stale[r] > 0)
                                        ELSE dropStale[r]]
    BY Zenon, <1>3 DEF Preempt
  <2>2. q \notin S
    BY <1>1
  <2>3. PICK s, d : /\ s = [r \in Reqs |-> IF r \in S THEN Cardinality(InFlight(r)) ELSE stale[r]]
                    /\ d = [r \in Reqs |-> IF r \in S THEN drop \/ (dropStale[r] /\ stale[r] > 0)
                                            ELSE dropStale[r]]
    OBVIOUS
  <2>4. s[q] = stale[q] /\ d[q] = dropStale[q]
    BY <2>2, <2>3
  <2> QED  BY <2>1, <2>3, <2>4
<1>4. ASSUME Reset \/ PreemptForBlocks
      PROVE  stale'[q] = stale[q] /\ dropStale'[q] = dropStale[q]
  <2>1. UNCHANGED <<stale, dropStale>> \/ \E S \in SUBSET Range(running), drop \in BOOLEAN : Preempt(S, drop)
    BY <1>4, ResetShape, PreemptedForBlocks DEF asyncVars
  <2> QED  BY <1>3, <2>1
<1>5. ASSUME NEW r \in Reqs, NEW stop \in BOOLEAN, ProcessRequest(r, stop)
      PROVE  stale'[q] = 0 \/ dropStale'[q]
  <2>1. stale' = [stale EXCEPT ![r] = StaleAfter(r)] /\ dropStale' = dropStale
    BY Zenon, <1>5 DEF ProcessRequest
  <2>2. stale[r] = 0 => StaleAfter(r) = 0
    BY DEF StaleAfter, MaxOf
  <2> QED  BY <1>1, <2>1, <2>2
<1>6. CASE UNCHANGED <<stale, dropStale>>
  BY <1>1, <1>6
<1> QED  BY <1>1, <1>2, <1>4, <1>5, <1>6, Changes

\* Who is told that its load is done waits for it; reports are gathered while an
\* output is processed.
LEMMA ReceivedStep ==
    ASSUME Inv, RemoteOK, FlightsOK, [Next]_vars
    PROVE  /\ \A q \in recvd' : q \in Reqs /\ status'[q] = "remote"
           /\ received' # {} => pc' = "complete"
           /\ recvd' \subseteq recvd \cup (received \cap known)
<1>1. /\ \A q \in recvd : q \in Reqs /\ status[q] = "remote"
      /\ received # {} => pc = "complete"
      /\ DOMAIN status = Reqs /\ known \subseteq Reqs
  BY DEF Inv, MembersOK, RemoteOK
<1>2. ASSUME NEW r \in Reqs, Abort(r) \/ Promote(r)
      PROVE  /\ recvd' = recvd \ {r} /\ received' = received /\ pc' = pc
             /\ \E s : status' = [status EXCEPT ![r] = s]
  <2>1. ASSUME Abort(r)
        PROVE  /\ recvd' = recvd \ {r} /\ received' = received /\ pc' = pc
               /\ \E s : status' = [status EXCEPT ![r] = s]
    BY Zenon, <2>1 DEF Abort, Finish, loopVars
  <2>2. ASSUME Promote(r)
        PROVE  /\ recvd' = recvd \ {r} /\ received' = received /\ pc' = pc
               /\ \E s : status' = [status EXCEPT ![r] = s]
    BY Zenon, <2>2 DEF Promote, loopVars
  <2> QED  BY <1>2, <2>1, <2>2
<1>3. ASSUME EndOutput
      PROVE  /\ recvd' = recvd \cup {r \in received \cap known : status[r] = "remote"}
             /\ received' = {} /\ status' = status
  BY Zenon, <1>3 DEF EndOutput
<1>4. ASSUME NEW j \in JobIds, CompleteJob(j)
      PROVE  pc' = "complete" /\ UNCHANGED <<recvd, status>>
  <2>1. pc = "complete" /\ pc' = pc /\ UNCHANGED <<recvd, status>>
    BY Zenon, <1>4 DEF CompleteJob, reqVars
  <2> QED  BY <2>1
<1>5. ASSUME UNCHANGED <<recvd, received>>, ~EndOutput,
             \A r \in Reqs : ~Abort(r) /\ ~Promote(r),
             \A j \in JobIds : ~CompleteJob(j)
      PROVE  /\ \A q \in recvd' : q \in Reqs /\ status'[q] = "remote"
             /\ received' # {} => pc' = "complete"
  <2>1. \A q \in recvd : q \in Reqs /\ status'[q] = "remote"
    BY <1>1, <1>5, StatusChanges
  <2>2. pc = "complete" => pc' = "complete"
    <3>1. ASSUME NEW r \in Reqs, \/ SkipBlocked(r) \/ DeferLookup(r) \/ AdmitLoad(r) \/ AdmitRunning(r)
                                 \/ AdmitFails(r) \/ NothingToStore(r) \/ StoreRefused(r) \/ Store(r)
          PROVE  pc # "complete"
      BY <3>1 DEF SkipBlocked, DeferLookup, AdmitLoad, AdmitRunning, AdmitFails, CanTry,
         NothingToStore, StoreRefused, Store, StoreTurn
    <3>2. ASSUME \/ BeginSchedule \/ ScheduleRunning \/ PreemptForBlocks \/ TryWaiting \/ EndSchedule
                 \/ BuildMeta \/ AssertionFails \/ Emit \/ BeginOutput \/ BeginTransfers
          PROVE  pc # "complete"
      <4>1. BeginSchedule \/ TryWaiting \/ EndSchedule \/ AssertionFails \/ BeginTransfers
            => pc # "complete"
        BY DEF BeginSchedule, EngineFree, TryWaiting, EndSchedule, AssertionFails, BeginTransfers
      <4>2. ScheduleRunning => pc = "running"
        BY Zenon DEF ScheduleRunning
      <4>3. PreemptForBlocks => pc = "running"
        BY Zenon DEF PreemptForBlocks
      <4>4. BuildMeta => pc = "build"
        BY Zenon DEF BuildMeta
      <4>5. Emit => pc = "stores"
        BY Zenon DEF Emit
      <4>6. BeginOutput => pc = "idle"
        BY Zenon DEF BeginOutput
      <4> QED  BY <3>2, <4>1, <4>2, <4>3, <4>4, <4>5, <4>6
    <3>3. ASSUME NEW r \in Reqs, NEW stop \in BOOLEAN, ProcessRequest(r, stop)
          PROVE  pc # "complete"
      BY <3>3 DEF ProcessRequest
    <3>4. CASE UNCHANGED <<pc, todo, cursor>>
      BY <3>4
    <3> QED  BY <1>5, <3>1, <3>2, <3>3, <3>4, Changes
  <2> QED  BY <1>1, <1>5, <2>1, <2>2
<1>6. ASSUME NEW r \in Reqs, Abort(r) \/ Promote(r)
      PROVE  /\ \A q \in recvd' : q \in Reqs /\ status'[q] = "remote"
             /\ received' # {} => pc' = "complete"
             /\ recvd' \subseteq recvd \cup (received \cap known)
  BY <1>1, <1>2, <1>6
<1>7. ASSUME EndOutput \/ \E j \in JobIds : CompleteJob(j)
      PROVE  /\ \A q \in recvd' : q \in Reqs /\ status'[q] = "remote"
             /\ received' # {} => pc' = "complete"
             /\ recvd' \subseteq recvd \cup (received \cap known)
  <2>1. CASE EndOutput
    BY <1>1, <1>3, <2>1
  <2>2. ASSUME NEW j \in JobIds, CompleteJob(j)
        PROVE  /\ \A q \in recvd' : q \in Reqs /\ status'[q] = "remote"
               /\ received' # {} => pc' = "complete"
               /\ recvd' \subseteq recvd \cup (received \cap known)
    BY <1>1, <1>4, <2>2
  <2> QED  BY <1>7, <2>1, <2>2
<1> QED  BY <1>5, <1>6, <1>7, Changes

\* Whoever waits for a load is known, has its output dropped and the blocks the
\* load fills.
LEMMA RemoteStep ==
    ASSUME Inv, SchedOK, RemoteOK, FlightsOK, [Next]_vars
    PROVE  RemoteOK'
<1>1. \A q \in Reqs : status[q] = "remote" =>
         q \in known /\ (stale[q] = 0 \/ dropStale[q]) /\ Len(held[q]) >= computed[q]
  BY DEF RemoteOK
<1>2. ASSUME NEW q \in Reqs, status'[q] = "remote", status[q] = "remote"
      PROVE  q \in known' /\ (stale'[q] = 0 \/ dropStale'[q]) /\ Len(held'[q]) >= computed'[q]
  <2>1. q \in known /\ Len(held[q]) >= computed[q] /\ ~Finished(q)'
    BY <1>1, <1>2 DEF Finished
  <2>2. ~(AdmitLoad(q) \/ AdmitRunning(q))
    BY <1>2 DEF AdmitLoad, AdmitRunning, CanTry
  <2>3. q \in known' /\ held'[q] = held[q]
    BY <1>2, <2>1, <2>2, HeldChanges
  <2> QED  BY <1>1, <1>2, <2>1, <2>3, ProgressKept, StalenessKept
<1>3. ASSUME NEW q \in Reqs, AdmitLoad(q)
      PROVE  q \in known' /\ (stale'[q] = 0 \/ dropStale'[q]) /\ Len(held'[q]) >= computed'[q]
  <2>1. /\ pc = "waiting" /\ q \in todo /\ (stale[q] = 0 \/ dropStale[q])
        /\ UNCHANGED <<known, stale, dropStale>>
    BY Zenon, <1>3 DEF AdmitLoad, CanTry, asyncVars
  <2>2. q \in known
    BY <2>1 DEF Inv, MembersOK
  <2>3. PICK n, m \in Nat, j \in JobIds, hit, new \in Seq(Blocks), keys \in SUBSET Keys,
             x \in Xfer, b \in Job : LoadAdmitted(q, n, m, j, hit, new, keys, x, b)
    BY <1>3, AdmittedLoad
  <2>4. /\ Len(hit) = n /\ Len(new) = m
        /\ held' = [held EXCEPT ![q] = hit \o new] /\ computed' = [computed EXCEPT ![q] = n + m]
    BY <2>3 DEF LoadAdmitted
  <2>5. Len(hit \o new) = n + m
    BY <2>4
  <2>6. held'[q] = hit \o new /\ computed'[q] = n + m
    BY <2>4 DEF Inv, DataOK
  <2> QED  BY <2>1, <2>2, <2>5, <2>6
<1>4. \A q \in Reqs : status'[q] = "remote" => status[q] = "remote" \/ AdmitLoad(q)
  BY StatusChanges
<1>5. DOMAIN dropStale' = Reqs
  <2>1. DOMAIN dropStale = Reqs
    BY DEF RemoteOK
  <2>2. ASSUME NEW r \in Reqs, Arrive(r)
        PROVE  DOMAIN dropStale' = Reqs
    <3>1. dropStale' = [dropStale EXCEPT ![r] = FALSE]
      BY Zenon, <2>2 DEF Arrive
    <3> QED  BY <2>1, <3>1
  <2>3. ASSUME NEW S, NEW drop, Preempt(S, drop)
        PROVE  DOMAIN dropStale' = Reqs
    <3>1. PICK d : d = [r \in Reqs |-> IF r \in S THEN drop \/ (dropStale[r] /\ stale[r] > 0)
                                       ELSE dropStale[r]]
      OBVIOUS
    <3>2. dropStale' = d
      BY Zenon, <2>3, <3>1 DEF Preempt
    <3> QED  BY <3>1, <3>2
  <2>4. ASSUME Reset \/ PreemptForBlocks
        PROVE  DOMAIN dropStale' = Reqs
    <3>1. dropStale' = dropStale \/ \E S, drop : Preempt(S, drop)
      BY <2>4, ResetShape, PreemptedForBlocks DEF asyncVars
    <3> QED  BY <2>1, <2>3, <3>1
  <2>5. ASSUME NEW r \in Reqs, NEW stop \in BOOLEAN, ProcessRequest(r, stop)
        PROVE  dropStale' = dropStale
    BY Zenon, <2>5 DEF ProcessRequest
  <2>6. CASE UNCHANGED <<stale, dropStale>>
    BY <2>1, <2>6
  <2> QED  BY <2>1, <2>2, <2>4, <2>5, <2>6, Changes
<1> QED  BY <1>2, <1>3, <1>4, <1>5, ReceivedStep DEF RemoteOK

-----------------------------------------------------------------------------
(***************************************************************************)
(* Loads in flight.                                                        *)
(***************************************************************************)

\* A load that stays in flight keeps its request and its copies.
LoadStays(j) ==
    /\ j \in DOMAIN xfers /\ ~xfers[j].store
    /\ xfers'[j].req = xfers[j].req /\ xfers'[j].copies = xfers[j].copies

\* A load in flight was in flight before, or has just been admitted.
LEMMA LoadsInTable ==
    ASSUME Inv, [Next]_vars, NEW j \in DOMAIN xfers', ~xfers'[j].store
    PROVE  \/ LoadStays(j)
           \/ /\ j \notin DOMAIN xfers /\ \A i \in DOMAIN xfers' : i = j \/ i \in DOMAIN xfers
              /\ \E r \in Reqs : AdmitLoad(r) /\ xfers'[j].req = r
<1>1. CASE UNCHANGED <<jobs, xfers, mgrVars>>
  BY <1>1 DEF LoadStays
<1>2. ASSUME NEW r \in Reqs, AdmitLoad(r)
      PROVE  \/ LoadStays(j)
             \/ /\ j \notin DOMAIN xfers /\ \A i \in DOMAIN xfers' : i = j \/ i \in DOMAIN xfers
                /\ \E q \in Reqs : AdmitLoad(q) /\ xfers'[j].req = q
  <2>1. PICK n, m \in Nat, id \in JobIds, hit, new \in Seq(Blocks), keys \in SUBSET Keys,
             x \in Xfer, b \in Job : LoadAdmitted(r, n, m, id, hit, new, keys, x, b)
    BY <1>2, AdmittedLoad
  <2>2. id \notin DOMAIN xfers /\ x.req = r /\ xfers' = With(xfers, id, x)
    BY <2>1 DEF LoadAdmitted
  <2>3. /\ DOMAIN xfers' = DOMAIN xfers \cup {id} /\ xfers'[id] = x
        /\ \A i \in DOMAIN xfers : i # id => xfers'[i] = xfers[i]
    BY ONLY <2>2 DEF With
  <2>4. CASE j = id
    BY <1>2, <2>2, <2>3, <2>4
  <2>5. CASE j # id
    BY <2>3, <2>5 DEF LoadStays
  <2> QED  BY <2>4, <2>5
<1>3. ASSUME NEW r \in Reqs, Store(r)
      PROVE  LoadStays(j)
  <2>1. PICK new \in Seq(Keys), id \in JobIds, src \in SUBSET Blocks, b \in Job :
             \E copies, x : StoreMade(r, new, id, src, copies, x, b)
    BY <1>3, MadeStore
  <2>2. PICK copies, x : StoreMade(r, new, id, src, copies, x, b)
    BY <2>1
  <2>3. /\ xfers' = With(xfers, id, x)
        /\ x = [req |-> r, store |-> TRUE, stale |-> FALSE, left |-> Workers, copies |-> copies]
    BY <2>2 DEF StoreMade
  <2>4. /\ DOMAIN xfers' = DOMAIN xfers \cup {id} /\ xfers'[id] = x
        /\ \A i \in DOMAIN xfers : i # id => xfers'[i] = xfers[i]
    BY ONLY <2>3 DEF With
  <2>5. x.store = TRUE
    BY ONLY <2>3
  <2>6. j # id
    BY <2>4, <2>5
  <2> QED  BY <2>4, <2>6 DEF LoadStays
<1>4. ASSUME Reset
      PROVE  LoadStays(j)
  <2>1. CASE KeepConnector
    BY <2>1 DEF KeepConnector, LoadStays
  <2>2. CASE ConnectorReset
    <3>1. xfers' = StaleXfers
      BY Zenon, <2>2 DEF ConnectorReset
    <3>2. DOMAIN xfers' = DOMAIN xfers
      BY <3>1 DEF StaleXfers
    <3>3. PICK x \in Xfer : x = xfers[j]
      BY <3>2 DEF Inv, TableOK
    <3>4. xfers'[j] = [x EXCEPT !.stale = TRUE]
      BY <3>1, <3>2, <3>3 DEF StaleXfers
    <3>5. xfers'[j].store = x.store /\ xfers'[j].req = x.req /\ xfers'[j].copies = x.copies
      BY <3>4 DEF Xfer
    <3> QED  BY <3>2, <3>3, <3>5 DEF LoadStays
  <2> QED  BY <1>4, <2>1, <2>2, ResetShape
<1>5. ASSUME NEW id \in JobIds, CompleteJob(id)
      PROVE  LoadStays(j)
  <2>1. PICK left : left = xfers[id].left \ Reporters(id)
    OBVIOUS
  <2>2. Reported(id, left)
    BY <1>5, <2>1, CompletedJob
  <2>3. id \in DOMAIN xfers
    BY <1>5, CompletedJob
  <2> QED  BY <2>2, <2>3 DEF Reported, LoadStays
<1> QED  BY <1>1, <1>2, <1>3, <1>4, <1>5, Changes

\* A request whose load is in flight does not go away.
LEMMA KnownKept ==
    ASSUME Inv, RemoteOK, FlightsOK, [Next]_vars, NEW q \in known,
           status[q] = "remote" \/ Finished(q), q \notin recvd \cup received
    PROVE  q \in known'
<1>1. CASE BeginOutput
  <2>1. known' = known
    BY Zenon, <1>1 DEF BeginOutput, reqVars
  <2> QED  BY <2>1
<1>2. CASE ScheduleRunning \/ \E r \in Reqs : AdmitLoad(r) \/ AdmitRunning(r)
  <2>1. known' = known
    BY Zenon, <1>2 DEF ScheduleRunning, AdmitLoad, AdmitRunning
  <2> QED  BY <2>1
<1>3. ASSUME NEW S \in SUBSET Reqs, Preempted(S) \/ Gone(S)
      PROVE  q \in known'
  BY <1>3 DEF Preempted, Gone
<1> QED  BY <1>1, <1>2, <1>3, WhoFrees

\* Who loads waits for the load, or is finished and kept until it is done.
LEMMA LoadsStep ==
    ASSUME Inv, RemoteOK, FlightsOK, LoadsOK, [Next]_vars
    PROVE  LoadsOK'
<1>1. /\ DOMAIN status = Reqs /\ known \subseteq Reqs
      /\ \A q \in recvd : q \in Reqs /\ status[q] = "remote"
      /\ received # {} => pc = "complete"
      /\ pc = "waiting" => \A r \in todo : r \in known
  BY DEF Inv, MembersOK, RemoteOK
<1>2. \A j \in DOMAIN xfers : ~xfers[j].store =>
        /\ xfers[j].req \in known
        /\ status[xfers[j].req] = "remote" \/ Finished(xfers[j].req)
        /\ xfers[j].req \notin recvd \cup received
        /\ \A i \in DOMAIN xfers : ~xfers[i].store /\ xfers[i].req = xfers[j].req => i = j
  BY DEF LoadsOK
<1>3. ASSUME NEW j \in DOMAIN xfers', LoadStays(j)
      PROVE  /\ xfers'[j].req \in known'
             /\ status'[xfers'[j].req] \in {"remote", "stopped", "aborted"}
             /\ xfers'[j].req \notin recvd' \cup received'
  <2>1. PICK q : q = xfers[j].req /\ xfers'[j].req = q /\ ~xfers[j].store /\ j \in DOMAIN xfers
    BY <1>3 DEF LoadStays
  <2>2. /\ q \in known /\ q \in Reqs /\ (status[q] = "remote" \/ Finished(q))
        /\ q \notin recvd \cup received
    BY <1>1, <1>2, <2>1
  <2>3. q \in known'
    BY <2>2, KnownKept
  <2>4. status'[q] = "remote" \/ Finished(q)'
    <3>1. CASE Finished(q)
      <4>1. \A r \in Reqs : Arrive(r) => r \notin known
        BY DEF Arrive, Forgotten
      <4> QED  BY <2>2, <3>1, <4>1, FinishedStay
    <3>2. CASE status[q] = "remote"
      <4>1. ~Promote(q)
        BY <2>2 DEF Promote
      <4>2. ASSUME Abort(q)
            PROVE  Finished(q)'
        <5>1. status' = [status EXCEPT ![q] = "aborted"]
          BY Zenon, <4>2 DEF Abort, Finish
        <5> QED  BY <1>1, <2>2, <5>1 DEF Finished
      <4>3. ~AdmitLoad(q)
        BY <3>2 DEF AdmitLoad, CanTry
      <4> QED  BY <2>2, <3>2, <4>1, <4>2, <4>3, StatusChanges
    <3> QED  BY <2>2, <3>1, <3>2
  <2>5. q \notin recvd'
    BY <2>2, ReceivedStep
  <2>6. q \notin received'
    <3>1. ASSUME NEW id \in JobIds, CompleteJob(id), q \in received'
          PROVE  FALSE
      <4>1. PICK left : left = xfers[id].left \ Reporters(id)
        OBVIOUS
      <4>2. Reported(id, left) /\ id \in DOMAIN xfers
        BY <3>1, <4>1, CompletedJob
      <4>3. received' = IF ~xfers[id].store /\ left = {} THEN received \cup {xfers[id].req}
                        ELSE received
        BY Zenon, <3>1, <4>1 DEF CompleteJob, Reporters
      <4>4. ~xfers[id].store /\ left = {} /\ q = xfers[id].req
        BY <2>2, <3>1, <4>3
      <4>5. id = j
        BY <1>2, <2>1, <4>2, <4>4
      <4>6. id \notin DOMAIN xfers'
        BY <4>2, <4>4 DEF Reported
      <4> QED  BY <4>5, <4>6
    <3>2. ASSUME EndOutput
          PROVE  received' = {}
      BY Zenon, <3>2 DEF EndOutput
    <3>3. ASSUME NEW r \in Reqs, Abort(r) \/ Promote(r)
          PROVE  received' = received
      BY Zenon, <3>3 DEF Abort, Promote, loopVars
    <3> QED  BY <2>2, <3>1, <3>2, <3>3, Changes
  <2> QED  BY <2>1, <2>3, <2>4, <2>5, <2>6 DEF Finished
<1>4. ASSUME NEW r \in Reqs, AdmitLoad(r)
      PROVE  /\ r \in known' /\ status'[r] = "remote" /\ r \notin recvd' \cup received'
             /\ \A i \in DOMAIN xfers : ~xfers[i].store => xfers[i].req # r
  <2>1. /\ pc = "waiting" /\ r \in todo /\ status[r] = "waiting"
        /\ status' = [status EXCEPT ![r] = "remote"]
        /\ UNCHANGED <<known, recvd, received>>
    BY Zenon, <1>4 DEF AdmitLoad, CanTry
  <2>2. received = {}
    BY <1>1, <2>1
  <2>3. r \notin recvd /\ r \in known
    BY <1>1, <2>1
  <2>4. \A i \in DOMAIN xfers : ~xfers[i].store => xfers[i].req # r
    BY <1>2, <2>1 DEF Finished
  <2> QED  BY <1>1, <2>1, <2>2, <2>3, <2>4
<1>5. ASSUME NEW j \in DOMAIN xfers', ~xfers'[j].store
      PROVE  /\ xfers'[j].req \in known'
             /\ status'[xfers'[j].req] \in {"remote", "stopped", "aborted"}
             /\ xfers'[j].req \notin recvd' \cup received'
             /\ \A i \in DOMAIN xfers' : ~xfers'[i].store /\ xfers'[i].req = xfers'[j].req => i = j
  <2>1. ASSUME NEW i \in DOMAIN xfers', ~xfers'[i].store, xfers'[i].req = xfers'[j].req
        PROVE  i = j
    <3>1. CASE LoadStays(i) /\ LoadStays(j)
      BY <1>2, <2>1, <3>1 DEF LoadStays
    <3>2. ASSUME LoadStays(i), NEW r \in Reqs, AdmitLoad(r), xfers'[j].req = r
          PROVE  FALSE
      BY <1>4, <2>1, <3>2 DEF LoadStays
    <3>3. ASSUME LoadStays(j), NEW r \in Reqs, AdmitLoad(r), xfers'[i].req = r
          PROVE  FALSE
      BY <1>4, <2>1, <3>3 DEF LoadStays
    <3> QED  BY <1>5, <2>1, <3>1, <3>2, <3>3, LoadsInTable
  <2>2. CASE LoadStays(j)
    BY <1>3, <2>1, <2>2
  <2>3. ASSUME NEW r \in Reqs, AdmitLoad(r), xfers'[j].req = r
        PROVE  /\ xfers'[j].req \in known'
               /\ status'[xfers'[j].req] \in {"remote", "stopped", "aborted"}
               /\ xfers'[j].req \notin recvd' \cup received'
    BY <1>4, <2>3
  <2> QED  BY <1>5, <2>1, <2>2, <2>3, LoadsInTable
<1> QED  BY <1>5 DEF LoadsOK, Finished

-----------------------------------------------------------------------------
(***************************************************************************)
(* What loads write.                                                       *)
(***************************************************************************)

\* Caching full blocks changes the key of no other block.
LEMMA CachedBlocksOnly ==
    ASSUME NEW r \in Reqs, NEW h, NEW bs \in Seq(Blocks), NEW t \in Nat, Len(bs) >= t, NEW b \in Blocks
    PROVE  CacheBlocks(h, r, bs, t)[b] = h[b] \/ b \in Range(bs)
<1>1. PICK m : m = MinOf(t, NumChunks(r))
  OBVIOUS
<1>2. NumChunks(r) \in Nat /\ m \in Nat /\ m <= t
  BY <1>1, PromptKeys DEF MinOf
<1>3. Len(bs) \in Nat /\ \A i \in 1..Len(bs) : bs[i] \in Range(bs)
  BY ListPositions
<1>4. \A i \in 1..m : bs[i] \in Range(bs)
  BY <1>2, <1>3
<1>5. CASE \E i \in 1..m : bs[i] = b
  BY <1>4, <1>5
<1>6. CASE ~\E i \in 1..m : bs[i] = b
  BY <1>1, <1>6 DEF CacheBlocks
<1> QED  BY <1>5, <1>6

\* An allocation gives a request free blocks on top of those it starts from, and
\* changes the key of none but its blocks.
LEMMA AllocatedRequest ==
    ASSUME Inv, NEW r \in Reqs, NEW bs \in Seq(Blocks), NEW t \in Nat,
           NEW new \in Allocations(bs, t), Allocate(r, bs, t, new)
    PROVE  /\ \A q \in Reqs : q # r => held'[q] = held[q]
           /\ Range(held'[r]) = Range(bs) \cup Range(new) /\ Range(new) \subseteq FreeBlocks
           /\ \A b \in Blocks : hashed'[b] = hashed[b] \/ hashed'[b] = NoKey \/ b \in Range(held'[r])
<1>1. /\ new \in Seq(Blocks) /\ Len(new) = Lacking(bs, t) /\ Range(new) \subseteq FreeBlocks
  BY AllocatedBlocks
<1>2. PICK all, h : all = bs \o new /\ h = Unhash(hashed, Range(new))
  OBVIOUS
<1>3. held' = [held EXCEPT ![r] = all] /\ hashed' = CacheBlocks(h, r, all, t)
  BY Zenon, <1>2 DEF Allocate
<1>4. held'[r] = all /\ \A q \in Reqs : q # r => held'[q] = held[q]
  BY <1>3 DEF Inv, DataOK
<1>5. all \in Seq(Blocks) /\ Len(all) = Len(bs) + Len(new) /\ Range(all) = Range(bs) \cup Range(new)
  <2>1. new \in Seq(Blocks)
    BY <1>1
  <2>2. /\ bs \o new \in Seq(Blocks) /\ Len(bs \o new) = Len(bs) + Len(new)
        /\ Range(bs \o new) = Range(bs) \cup Range(new)
    BY ONLY <2>1, bs \in Seq(Blocks), JoinedKeys
  <2> QED  BY <1>2, <2>2
<1>6. Len(all) >= t
  BY <1>1, <1>5 DEF Lacking, MaxOf
<1>7. ASSUME NEW b \in Blocks
      PROVE  hashed'[b] = hashed[b] \/ hashed'[b] = NoKey \/ b \in Range(held'[r])
  <2>1. hashed'[b] = h[b] \/ b \in Range(all)
    BY <1>3, <1>5, <1>6, CachedBlocksOnly
  <2>2. h[b] = NoKey \/ h[b] = hashed[b]
    BY <1>2 DEF Unhash
  <2> QED  BY <1>4, <2>1, <2>2
<1> QED  BY <1>1, <1>4, <1>5, <1>7

\* The blocks of a local hit are cached.
LEMMA HitBlocksHaveKeys ==
    ASSUME NEW r \in Reqs, NEW b \in Range(HitBlocks(r))
    PROVE  hashed[b] \in Keys
<1>1. /\ HitBlocks(r) \in Seq(Blocks) /\ Len(HitBlocks(r)) = LocalHit(r)
      /\ \A i \in 1..LocalHit(r) : hashed[HitBlocks(r)[i]] = Prompt[r][i]
  BY HitBlocksAreCached
<1>2. PICK i \in 1..LocalHit(r) : HitBlocks(r)[i] = b
  BY <1>1, ListPositions
<1>3. i \in 1..NumChunks(r)
  BY HitIsPrefix, PromptKeys
<1> QED  BY <1>1, <1>2, <1>3, PromptKeys

\* A request gets a block it did not have only from the free ones or from the
\* GPU cache, and when it is scheduled or admitted.
LEMMA NewBlocks ==
    ASSUME Inv, RemoteOK, FlightsOK, [Next]_vars, NEW r \in Reqs, NEW b \in Range(held'[r])
    PROVE  b \in Range(held[r]) \/ b \in FreeBlocks \/ hashed[b] \in Keys
<1>1. ASSUME AdmitLoad(r)
      PROVE  b \in FreeBlocks \/ hashed[b] \in Keys
  <2>1. PICK n, m \in Nat, id \in JobIds, hit, new \in Seq(Blocks), keys \in SUBSET Keys,
             x \in Xfer, j \in Job : LoadAdmitted(r, n, m, id, hit, new, keys, x, j)
    BY <1>1, AdmittedLoad
  <2>2. hit = HitBlocks(r) /\ new \in Allocations(hit, n + m) /\ held' = [held EXCEPT ![r] = hit \o new]
    BY <2>1 DEF LoadAdmitted
  <2>3. n + m \in Nat
    OBVIOUS
  <2>4. Range(new) \subseteq FreeBlocks
    BY <2>2, <2>3, AllocatedBlocks
  <2>5. held'[r] = hit \o new
    BY <2>2 DEF Inv, DataOK
  <2>6. Range(hit \o new) = Range(hit) \cup Range(new)
    BY JoinedKeys
  <2> QED  BY <2>2, <2>4, <2>5, <2>6, HitBlocksHaveKeys
<1>2. ASSUME AdmitRunning(r)
      PROVE  b \in Range(held[r]) \/ b \in FreeBlocks \/ hashed[b] \in Keys
  <2>1. PICK bs, new \in Seq(Blocks), from, t \in Nat : RunAdmitted(r, bs, from, t, new)
    BY <1>2, AdmittedRequest
  <2>2. (bs = HitBlocks(r) \/ bs = held[r]) /\ new \in Allocations(bs, t) /\ Allocate(r, bs, t, new)
    BY <2>1 DEF RunAdmitted
  <2>3. Range(held'[r]) = Range(bs) \cup Range(new) /\ Range(new) \subseteq FreeBlocks
    BY <2>2, AllocatedRequest
  <2> QED  BY <2>2, <2>3, HitBlocksHaveKeys
<1>3. ASSUME ScheduleRunning
      PROVE  b \in Range(held[r]) \/ b \in FreeBlocks
  <2>1. PICK q \in Reqs, t \in Nat : \E new \in Seq(Blocks) :
               /\ held[q] \in Seq(Blocks) /\ new \in Allocations(held[q], t)
               /\ Allocate(q, held[q], t, new)
    BY <1>3, ScheduledRequest
  <2>2. PICK new \in Seq(Blocks) : /\ held[q] \in Seq(Blocks) /\ new \in Allocations(held[q], t)
                                   /\ Allocate(q, held[q], t, new)
    BY <2>1
  <2>3. PICK bs \in Seq(Blocks) : bs = held[q]
    BY <2>2
  <2>4. new \in Allocations(bs, t) /\ Allocate(q, bs, t, new)
    BY <2>2, <2>3
  <2>5. /\ \A p \in Reqs : p # q => held'[p] = held[p]
        /\ Range(held'[q]) = Range(bs) \cup Range(new) /\ Range(new) \subseteq FreeBlocks
    BY <2>4, AllocatedRequest
  <2> QED  BY <2>3, <2>5
<1>4. CASE held'[r] = <<>>
  BY <1>4 DEF Range
<1> QED  BY <1>1, <1>2, <1>3, <1>4, HeldChanges

\* A block is cached under a new key only if a request has it that runs from now
\* on, or whose load is done.
LEMMA NewHashes ==
    ASSUME Inv, RemoteOK, FlightsOK, [Next]_vars, NEW b \in Blocks
    PROVE  \/ hashed'[b] = hashed[b] \/ hashed'[b] = NoKey
           \/ \E r \in Reqs : b \in Range(held'[r]) /\ status'[r] = "running"
           \/ \E r \in Reqs : Promote(r) /\ b \in Range(held[r])
<1> DEFINE Goal == \/ hashed'[b] = hashed[b] \/ hashed'[b] = NoKey
                   \/ \E r \in Reqs : b \in Range(held'[r]) /\ status'[r] = "running"
                   \/ \E r \in Reqs : Promote(r) /\ b \in Range(held[r])
<1>1. /\ DOMAIN status = Reqs /\ \A r \in Range(running) : r \in Reqs /\ status[r] = "running"
      /\ held \in [Reqs -> Seq(Blocks)] /\ computed \in [Reqs -> Nat]
  BY DEF Inv, MembersOK, DataOK
<1>2. ASSUME NEW r \in Reqs, AdmitLoad(r)
      PROVE  Goal
  <2>1. PICK n, m \in Nat, id \in JobIds, hit, new \in Seq(Blocks), keys \in SUBSET Keys,
             x \in Xfer, j \in Job : LoadAdmitted(r, n, m, id, hit, new, keys, x, j)
    BY <1>2, AdmittedLoad
  <2>2. hashed' = Unhash(hashed, Range(new))
    BY <2>1 DEF LoadAdmitted
  <2> QED  BY <2>2 DEF Unhash
<1>3. ASSUME NEW r \in Reqs, AdmitRunning(r)
      PROVE  Goal
  <2>1. PICK bs, new \in Seq(Blocks), from, t \in Nat : RunAdmitted(r, bs, from, t, new)
    BY <1>3, AdmittedRequest
  <2>2. new \in Allocations(bs, t) /\ Allocate(r, bs, t, new)
    BY <2>1 DEF RunAdmitted
  <2>3. hashed'[b] = hashed[b] \/ hashed'[b] = NoKey \/ b \in Range(held'[r])
    BY <2>2, AllocatedRequest
  <2>4. status' = [status EXCEPT ![r] = "running"]
    BY Zenon, <1>3 DEF AdmitRunning
  <2> QED  BY <1>1, <2>3, <2>4
<1>4. ASSUME ScheduleRunning
      PROVE  Goal
  <2>1. PICK r \in Reqs, t \in Nat : \E new \in Seq(Blocks) :
               /\ r \in Range(running) /\ new \in Allocations(held[r], t)
               /\ Allocate(r, held[r], t, new)
    BY <1>4, ScheduledRequest
  <2>2. PICK new \in Seq(Blocks) : new \in Allocations(held[r], t) /\ Allocate(r, held[r], t, new)
    BY <2>1
  <2>3. PICK bs \in Seq(Blocks) : bs = held[r]
    BY <1>1
  <2>4. new \in Allocations(bs, t) /\ Allocate(r, bs, t, new)
    BY <2>2, <2>3
  <2>5. hashed'[b] = hashed[b] \/ hashed'[b] = NoKey \/ b \in Range(held'[r])
    BY <2>4, AllocatedRequest
  <2>6. status' = status
    BY Zenon, <1>4 DEF ScheduleRunning
  <2> QED  BY <1>1, <2>1, <2>5, <2>6
<1>5. ASSUME NEW r \in Reqs, Promote(r)
      PROVE  Goal
  <2>1. status[r] = "remote" /\ hashed' = CacheBlocks(hashed, r, held[r], computed[r])
    BY Zenon, <1>5 DEF Promote
  <2>2. PICK bs \in Seq(Blocks), t \in Nat : bs = held[r] /\ t = computed[r]
    BY <1>1
  <2>3. Len(bs) >= t
    BY <2>1, <2>2 DEF RemoteOK
  <2>4. hashed'[b] = hashed[b] \/ b \in Range(bs)
    BY <2>1, <2>2, <2>3, CachedBlocksOnly
  <2> QED  BY <1>5, <2>2, <2>4
<1>6. ASSUME Reset
      PROVE  Goal
  BY <1>6, ResetShape
<1>7. ASSUME NEW r \in Reqs, Arrive(r) \/ Abort(r) \/ DeferLookup(r) \/ AdmitFails(r)
      PROVE  hashed' = hashed
  BY Zenon, <1>7 DEF Arrive, Abort, DeferLookup, AdmitFails
<1>8. ASSUME PreemptForBlocks \/ BuildMeta \/ Emit \/ EndOutput
      PROVE  hashed' = hashed
  BY Zenon, <1>8 DEF PreemptForBlocks, BuildMeta, Emit, EndOutput
<1>9. ASSUME NEW r \in Reqs, NEW stop \in BOOLEAN, ProcessRequest(r, stop)
      PROVE  hashed' = hashed
  BY Zenon, <1>9 DEF ProcessRequest
<1>10. CASE UNCHANGED <<held, blockIds, hashed, curAlloc>>
  BY <1>10
<1> QED  BY <1>2, <1>3, <1>4, <1>5, <1>6, <1>7, <1>8, <1>9, <1>10, Changes

\* The blocks a load writes stay with its request, and nobody else gets them or
\* finds them in the GPU cache before the load is done.
LEMMA TargetsStep ==
    ASSUME Inv, RemoteOK, FlightsOK, LoadsOK, LoadsOK', LoadsOwnTheirTargets, [Next]_vars
    PROVE  LoadsOwnTheirTargets'
<1>1. /\ DOMAIN status = Reqs /\ known \subseteq Reqs
      /\ held \in [Reqs -> Seq(Blocks)] /\ hashed \in [Blocks -> Keys \cup {NoKey}]
  BY DEF Inv, MembersOK, DataOK
<1>2. ASSUME NEW j \in DOMAIN xfers, ~xfers[j].store
      PROVE  /\ xfers[j].req \in known /\ xfers[j].req \in Reqs
             /\ status[xfers[j].req] = "remote" \/ Finished(xfers[j].req)
             /\ xfers[j].req \notin recvd \cup received
             /\ \A c \in xfers[j].copies :
                  /\ c.block \in Range(held[xfers[j].req]) /\ c.block \in Blocks
                  /\ \A r \in Reqs \ {xfers[j].req} : c.block \notin Range(held[r])
                  /\ hashed[c.block] = NoKey
  <2>1. xfers[j] \in Xfer
    BY DEF Inv, TableOK
  <2>2. \A c \in xfers[j].copies : c.block \in Blocks
    BY <2>1 DEF Xfer, Copy
  <2> QED  BY <1>1, <1>2, <2>2 DEF LoadsOK, LoadsOwnTheirTargets
<1>3. \A j \in DOMAIN xfers' : ~xfers'[j].store =>
        xfers'[j].req \in known' /\ status'[xfers'[j].req] \in {"remote", "stopped", "aborted"}
  BY DEF LoadsOK, Finished
<1>4. ASSUME NEW j \in DOMAIN xfers', ~xfers'[j].store, LoadStays(j), NEW c \in xfers'[j].copies
      PROVE  /\ c.block \in Range(held'[xfers'[j].req])
             /\ \A r \in Reqs \ {xfers'[j].req} : c.block \notin Range(held'[r])
             /\ hashed'[c.block] = NoKey
  <2>1. PICK q, b : /\ q = xfers[j].req /\ xfers'[j].req = q /\ b = c.block
                    /\ c \in xfers[j].copies /\ ~xfers[j].store /\ j \in DOMAIN xfers
    BY <1>4 DEF LoadStays
  <2>2. /\ q \in known /\ q \in Reqs /\ (status[q] = "remote" \/ Finished(q))
        /\ q \notin recvd \cup received
        /\ b \in Range(held[q]) /\ b \in Blocks /\ hashed[b] = NoKey
        /\ \A r \in Reqs \ {q} : b \notin Range(held[r])
    BY <1>2, <2>1
  <2>3. q \in known' /\ status'[q] \in {"remote", "stopped", "aborted"}
    BY <1>3, <1>4, <2>1
  <2>4. held'[q] = held[q]
    <3>1. ~(AdmitLoad(q) \/ AdmitRunning(q)) /\ status[q] # "running"
      BY <2>2 DEF AdmitLoad, AdmitRunning, CanTry, Finished
    <3> QED  BY <2>2, <2>3, <3>1, HeldChanges
  <2>5. b \notin FreeBlocks /\ hashed[b] \notin Keys
    BY <2>2, NoKeyAssumption DEF FreeBlocks
  <2>6. \A r \in Reqs \ {q} : b \notin Range(held'[r])
    BY <2>2, <2>5, NewBlocks
  <2>7. ~Promote(q)
    BY <2>2 DEF Promote
  <2>8. hashed'[b] = NoKey
    BY <2>2, <2>3, <2>6, <2>7, NewHashes
  <2> QED  BY <2>1, <2>2, <2>4, <2>6, <2>8
<1>5. ASSUME NEW j \in DOMAIN xfers', j \notin DOMAIN xfers, NEW q \in Reqs, AdmitLoad(q),
             xfers'[j].req = q, NEW c \in xfers'[j].copies
      PROVE  /\ c.block \in Range(held'[q])
             /\ \A r \in Reqs \ {q} : c.block \notin Range(held'[r])
             /\ hashed'[c.block] = NoKey
  <2>1. PICK n, m \in Nat, id \in JobIds, hit, new \in Seq(Blocks), keys \in SUBSET Keys,
             x \in Xfer, b \in Job : LoadAdmitted(q, n, m, id, hit, new, keys, x, b)
    BY <1>5, AdmittedLoad
  <2>2. /\ xfers' = With(xfers, id, x) /\ \A d \in x.copies : d.block \in Range(new)
        /\ new \in Allocations(hit, n + m) /\ held' = [held EXCEPT ![q] = hit \o new]
        /\ hashed' = Unhash(hashed, Range(new))
    BY <2>1 DEF LoadAdmitted
  <2>3. xfers'[j] = x
    BY <1>5, <2>2 DEF With
  <2>4. c.block \in Range(new)
    BY <1>5, <2>2, <2>3
  <2>5. n + m \in Nat
    OBVIOUS
  <2>6. Range(new) \subseteq FreeBlocks /\ Range(new) \subseteq Blocks
    BY <2>2, <2>5, AllocatedBlocks DEF FreeBlocks
  <2>7. Range(hit \o new) = Range(hit) \cup Range(new)
    BY JoinedKeys
  <2>8. held'[q] = hit \o new /\ \A r \in Reqs \ {q} : held'[r] = held[r]
    BY <1>1, <2>2
  <2>9. \A r \in Reqs : c.block \notin Range(held[r])
    BY <2>4, <2>6 DEF FreeBlocks
  <2>10. hashed'[c.block] = NoKey
    BY <2>2, <2>4, <2>6 DEF Unhash
  <2> QED  BY <2>4, <2>7, <2>8, <2>9, <2>10
<1> QED  BY <1>4, <1>5, LoadsInTable DEF LoadsOwnTheirTargets

-----------------------------------------------------------------------------
(***************************************************************************)
(* Deferred blocks.                                                        *)
(***************************************************************************)

\* There are finitely many batches in flight.
LEMMA WorkingBatches ==
    ASSUME Inv
    PROVE  /\ Len(steps) \in Nat /\ DOMAIN steps = 1..Len(steps)
           /\ Working \in SUBSET (1..Len(steps)) /\ IsFiniteSet(Working)
           /\ Cardinality(Working) \in Nat
<1>1. Len(steps) \in Nat /\ DOMAIN steps = 1..Len(steps)
  BY DEF Inv, LoopsOK
<1>2. Working \in SUBSET (1..Len(steps))
  BY <1>1 DEF Working
<1>3. IsFiniteSet(1..Len(steps))
  BY <1>1, FS_Interval
<1> QED  BY <1>1, <1>2, <1>3, FS_Subset, FS_CardinalityType

\* Blocks that batches in flight may still write are deferred by as many batches.
LEMMA DeferredBlocks ==
    ASSUME Inv, AgingOK, NEW S \in SUBSET Reqs, FreeRequestBlocks(S)
    PROVE  /\ deferred' \in Seq(Deferral)
           /\ \A d \in Range(deferred') : d.left \in 1..Cardinality(Working)
<1>1. /\ deferred \in Seq(Deferral) /\ \A d \in Range(deferred) : d.left \in 1..Cardinality(Working)
      /\ held \in [Reqs -> Seq(Blocks)]
  BY DEF Inv, DataOK, AgingOK
<1>2. PICK late, given : /\ late = {r \in S : InFlight(r) # {} /\ held[r] # <<>>}
                         /\ given = UNION {Range(held[r]) : r \in late}
  OBVIOUS
<1>3. deferred' = IF late = {} THEN deferred
                  ELSE Append(deferred, [left |-> Cardinality(Working), blocks |-> given])
  BY Zenon, <1>2 DEF FreeRequestBlocks, Working
<1>4. CASE late = {}
  BY <1>1, <1>3, <1>4
<1>5. CASE late # {}
  <2>1. PICK r \in S : InFlight(r) # {}
    BY <1>2, <1>5
  <2>2. Working # {}
    BY <2>1 DEF InFlight, Working
  <2>3. Cardinality(Working) \in Nat /\ Cardinality(Working) # 0
    BY <2>2, WorkingBatches, FS_EmptySet
  <2>4. \A q \in late : Range(held[q]) \subseteq Blocks
    BY <1>1, <1>2, ListPositions
  <2>5. PICK d : d = [left |-> Cardinality(Working), blocks |-> given]
    OBVIOUS
  <2>6. d \in Deferral /\ d.left \in 1..Cardinality(Working)
    BY <1>2, <2>3, <2>4, <2>5 DEF Deferral
  <2>7. PICK u : u = Append(deferred, d)
    OBVIOUS
  <2>8. deferred' = u
    BY <1>3, <1>5, <2>5, <2>7
  <2>9. /\ u \in Seq(Deferral) /\ Len(deferred) \in Nat
        /\ DOMAIN u = 1..(Len(deferred) + 1) /\ u[Len(deferred) + 1] = d
        /\ \A i \in 1..Len(deferred) : u[i] = deferred[i] /\ u[i] \in Range(deferred)
    <3>1. \A i \in 1..Len(deferred) : deferred[i] \in Range(deferred)
      BY <1>1, ListPositions
    <3> QED  BY ONLY <1>1, <2>6, <2>7, <3>1
  <2>10. \A i \in 1..(Len(deferred) + 1) : i \in 1..Len(deferred) \/ i = Len(deferred) + 1
    BY <2>9
  <2>11. \A e \in Range(u) : e = d \/ e \in Range(deferred)
    BY <2>9, <2>10 DEF Range
  <2> QED  BY <1>1, <2>6, <2>8, <2>9, <2>11
<1> QED  BY <1>4, <1>5

\* Deferred blocks wait for batches that are in flight.
LEMMA AgingStep ==
    ASSUME Inv, RemoteOK, FlightsOK, AgingOK, [Next]_vars
    PROVE  AgingOK'
<1>1. /\ deferred \in Seq(Deferral) /\ \A d \in Range(deferred) : d.left \in 1..Cardinality(Working)
      /\ Cardinality(Working) \in Nat
  BY WorkingBatches DEF AgingOK
<1>2. CASE BeginOutput
  <2>1. /\ DOMAIN steps' = 1..(Len(steps) - 1) /\ Len(steps) > 0
        /\ \A i \in 1..(Len(steps) - 1) : steps'[i] = steps[i + 1]
    BY <1>2, TakenBatch
  <2>2. PICK S, T : S = Working /\ T = Working'
    OBVIOUS
  <2>3. S \in SUBSET (1..Len(steps)) /\ \A i : i \in T <=> i \in 1..(Len(steps) - 1) /\ i + 1 \in S
    BY <2>1, <2>2, WorkingBatches DEF Working
  <2>4. Len(steps) \in Nat
    BY WorkingBatches
  <2>5. /\ Cardinality(S) \in Nat /\ Cardinality(T) \in Nat
        /\ Cardinality(S) = Cardinality(T) + (IF 1 \in S THEN 1 ELSE 0)
    BY ONLY <2>3, <2>4, ShiftedCount
  <2>6. 1 \in S <=> Head(steps).work # {}
    <3>1. Head(steps) = steps[1] /\ 1 \in DOMAIN steps
      BY <2>1, WorkingBatches DEF Inv, LoopsOK
    <3> QED  BY <2>2, <3>1 DEF Working
  <2>7. PICK aged : aged = [i \in DOMAIN deferred |-> [deferred[i] EXCEPT !.left = deferred[i].left - 1]]
    OBVIOUS
  <2>8. deferred' = IF Head(steps).work = {} THEN deferred
                    ELSE Within(aged, {d \in Range(aged) : d.left > 0})
    BY Zenon, <1>2, <2>7 DEF BeginOutput
  <2>9. CASE 1 \notin S
    <3>1. deferred' = deferred /\ Cardinality(T) = Cardinality(S)
      BY <2>5, <2>6, <2>8, <2>9
    <3> QED  BY <1>1, <2>2, <3>1 DEF AgingOK
  <2>10. CASE 1 \in S
    <3>1. Len(deferred) \in Nat /\ DOMAIN deferred = 1..Len(deferred)
      BY <1>1
    <3>2. \A i \in 1..Len(deferred) :
             deferred[i] \in Deferral /\ deferred[i].left \in 1..Cardinality(S)
      BY <1>1, <2>2, ListPositions
    <3>3. ASSUME NEW i \in 1..Len(deferred)
          PROVE  aged[i] \in Deferral /\ aged[i].left \in 0..Cardinality(T)
      <4>1. PICK d \in Deferral : d = deferred[i]
        BY <3>2
      <4>2. aged[i] = [d EXCEPT !.left = d.left - 1]
        BY <2>7, <3>1, <4>1
      <4>3. aged[i] = [left |-> d.left - 1, blocks |-> d.blocks]
        BY <4>2 DEF Deferral
      <4>4. d.left \in 1..Cardinality(S) /\ d.blocks \in SUBSET Blocks
        BY <3>2, <4>1 DEF Deferral
      <4> QED  BY <2>5, <2>10, <4>3, <4>4 DEF Deferral
    <3>4. aged \in [1..Len(deferred) -> Deferral]
      BY <2>7, <3>1, <3>3
    <3>5. aged \in Seq(Deferral) /\ DOMAIN aged = 1..Len(deferred)
      BY <3>1, <3>4, FunctionIsList
    <3>6. PICK kept : kept = {d \in Range(aged) : d.left > 0}
      OBVIOUS
    <3>7. /\ Within(aged, kept) \in Seq(Deferral)
          /\ Range(Within(aged, kept)) = Range(aged) \cap kept
      BY <3>5, WithinKeys
    <3>8. \A d \in Range(aged) : d.left \in 0..Cardinality(T)
      BY <3>3, <3>5 DEF Range
    <3>9. deferred' = Within(aged, kept)
      BY <2>6, <2>8, <2>10, <3>6
    <3>10. \A d \in Range(deferred') : d.left \in 1..Cardinality(T)
      BY <2>5, <3>6, <3>7, <3>8, <3>9
    <3> QED  BY <2>2, <3>7, <3>9, <3>10 DEF AgingOK
  <2> QED  BY <2>9, <2>10
<1>3. CASE Emit
  <2>1. deferred' = deferred
    BY Zenon, <1>3 DEF Emit, asyncVars
  <2>2. PICK b \in Batch : steps' = Append(steps, b)
    BY <1>3, EmittedBatch
  <2>3. /\ Len(steps) \in Nat /\ DOMAIN steps = 1..Len(steps)
        /\ DOMAIN steps' = 1..(Len(steps) + 1) /\ \A i \in 1..Len(steps) : steps'[i] = steps[i]
    <3>1. steps \in Seq(Batch)
      BY DEF Inv, LoopsOK
    <3> QED  BY <2>2, <3>1
  <2>4. Working \subseteq Working' /\ Working' \in SUBSET (1..(Len(steps) + 1))
    BY <2>3 DEF Working
  <2>5. Cardinality(Working') \in Nat /\ Cardinality(Working) <= Cardinality(Working')
    <3>1. Len(steps) + 1 \in Nat
      BY <2>3
    <3>2. IsFiniteSet(1..(Len(steps) + 1))
      BY <3>1, FS_Interval
    <3>3. PICK T : T = Working'
      OBVIOUS
    <3>4. IsFiniteSet(T)
      BY <2>4, <3>2, <3>3, FS_Subset
    <3>5. Cardinality(T) \in Nat /\ Cardinality(Working) <= Cardinality(T)
      BY <2>4, <3>3, <3>4, FS_Subset, FS_CardinalityType
    <3> QED  BY <3>3, <3>5
  <2>6. \A d \in Range(deferred) : d.left \in 1..Cardinality(Working')
    BY <1>1, <2>5
  <2> QED  BY <1>1, <2>1, <2>6 DEF AgingOK
<1>4. CASE ~Emit /\ ~BeginOutput
  <2>1. Working' = Working
    BY <1>4, InFlightKept
  <2>2. CASE deferred' = deferred
    BY <1>1, <2>1, <2>2 DEF AgingOK
  <2>3. ASSUME NEW S \in SUBSET Reqs, FreeRequestBlocks(S)
        PROVE  AgingOK'
    BY <2>1, <2>3, DeferredBlocks DEF AgingOK
  <2>4. CASE ScheduleRunning \/ \E r \in Reqs : AdmitLoad(r) \/ AdmitRunning(r)
    <3>1. deferred' = deferred
      BY Zenon, <2>4 DEF ScheduleRunning, AdmitLoad, AdmitRunning, asyncVars
    <3> QED  BY <2>2, <3>1
  <2> QED  BY <1>4, <2>2, <2>3, <2>4, WhoFrees
<1> QED  BY <1>2, <1>3, <1>4

-----------------------------------------------------------------------------
(***************************************************************************)
(* What the connector keeps.                                               *)
(***************************************************************************)

\* A job stays what it is until it is completed or dropped by a reset.
JobStays(j) ==
    /\ j \in DOMAIN jobs' /\ jobs'[j].req = jobs[j].req
    /\ jobs'[j].store = jobs[j].store /\ jobs'[j].keys = jobs[j].keys

\* Jobs are added beside the ones there are.
LEMMA JobsStay ==
    ASSUME Inv, [Next]_vars, NEW j \in DOMAIN jobs
    PROVE  \/ JobStays(j)
           \/ Reset /\ ConnectorReset
           \/ CompleteJob(j) /\ \E left : Completed(j, left)
<1>1. j \in JobIds /\ j \in DOMAIN xfers
  BY JobsAreIds
<1>2. CASE UNCHANGED <<jobs, xfers, mgrVars>>
  BY <1>2 DEF JobStays
<1>3. ASSUME NEW id, id \notin DOMAIN xfers, NEW b, jobs' = With(jobs, id, b)
      PROVE  JobStays(j)
  <2>1. j \in DOMAIN jobs' /\ jobs'[j] = jobs[j]
    BY <1>1, <1>3 DEF With
  <2> QED  BY <2>1 DEF JobStays
<1>4. ASSUME NEW r \in Reqs, AdmitLoad(r)
      PROVE  JobStays(j)
  <2>1. PICK n, m \in Nat, id \in JobIds, hit, new \in Seq(Blocks), keys \in SUBSET Keys,
             x \in Xfer, b \in Job : LoadAdmitted(r, n, m, id, hit, new, keys, x, b)
    BY <1>4, AdmittedLoad
  <2>2. id \notin DOMAIN xfers /\ jobs' = With(jobs, id, b)
    BY <2>1 DEF LoadAdmitted
  <2> QED  BY <1>3, <2>2
<1>5. ASSUME NEW r \in Reqs, Store(r)
      PROVE  JobStays(j)
  <2>1. PICK new \in Seq(Keys), id \in JobIds, src \in SUBSET Blocks, b \in Job :
             \E copies, x : StoreMade(r, new, id, src, copies, x, b)
    BY <1>5, MadeStore
  <2>2. id \notin DOMAIN xfers /\ jobs' = With(jobs, id, b)
    BY <2>1 DEF StoreMade
  <2> QED  BY <1>3, <2>2
<1>6. ASSUME Reset
      PROVE  JobStays(j) \/ ConnectorReset
  <2>1. KeepConnector => jobs' = jobs
    BY DEF KeepConnector, jobTable
  <2> QED  BY <1>6, <2>1, ResetShape DEF JobStays
<1>7. ASSUME NEW id \in JobIds, CompleteJob(id)
      PROVE  JobStays(j) \/ (id = j /\ \E left : Completed(j, left))
  <2>1. PICK left : left = xfers[id].left \ Reporters(id)
    OBVIOUS
  <2>2. Skipped(id) \/ (id \in DOMAIN jobs /\ (CountedDown(id, left) \/ Completed(id, left)))
    BY <1>7, <2>1, CompletedJob
  <2>3. CASE Skipped(id)
    BY <2>3 DEF Skipped, JobStays
  <2>4. CASE CountedDown(id, left)
    BY <2>4 DEF CountedDown, JobStays
  <2>5. CASE Completed(id, left)
    <3>1. id # j => JobStays(j)
      BY <2>5 DEF Completed, JobStays
    <3> QED  BY <2>5, <3>1
  <2> QED  BY <2>2, <2>3, <2>4, <2>5
<1> QED  BY <1>1, <1>2, <1>4, <1>5, <1>6, <1>7, Changes

\* A key is loaded by some job as long as it is said to be.
LEMMA BeingLoadedStep ==
    ASSUME Inv, BeingLoadedOK, [Next]_vars
    PROVE  BeingLoadedOK'
<1>1. \A k \in beingLoaded : \E j \in DOMAIN jobs : ~jobs[j].store /\ k \in jobs[j].keys
  BY DEF BeingLoadedOK
<1>2. ASSUME Reset, ConnectorReset
      PROVE  BeingLoadedOK'
  <2>1. beingLoaded' = {}
    BY Zenon, <1>2 DEF ConnectorReset
  <2> QED  BY <2>1 DEF BeingLoadedOK
<1>3. ASSUME NEW j \in JobIds, CompleteJob(j), NEW left, Completed(j, left)
      PROVE  BeingLoadedOK'
  <2>1. DOMAIN jobs' = DOMAIN jobs \ {j} /\ \A i \in DOMAIN jobs' : jobs'[i] = jobs[i]
    BY <1>3 DEF Completed
  <2>2. j \in DOMAIN jobs /\ ~xfers[j].stale /\ j \notin DOMAIN jobs'
    <3>1. PICK l : l = xfers[j].left \ Reporters(j)
      OBVIOUS
    <3>2. Skipped(j) \/ (j \in DOMAIN jobs /\ (CountedDown(j, l) \/ Completed(j, l)))
      BY <1>3, <3>1, CompletedJob
    <3>3. ~xfers[j].stale
      BY <1>3 DEF Completed
    <3> QED  BY <2>1, <3>2, <3>3 DEF Skipped
  <2>3. IF xfers[j].stale
        THEN UNCHANGED <<jobTable, tracked, mgrVars>>
        ELSE IF jobs[j].pending # Cardinality(Reporters(j))
        THEN /\ jobs' = [jobs EXCEPT ![j].pending = @ - Cardinality(Reporters(j))]
             /\ UNCHANGED <<fences, beingLoaded, tracked, mgrVars>>
        ELSE beingLoaded' = IF jobs[j].store THEN beingLoaded ELSE beingLoaded \ jobs[j].keys
    BY Zenon, <1>3 DEF CompleteJob, Reporters
  <2>4. ASSUME NEW c, jobs' = [jobs EXCEPT ![j].pending = c]
        PROVE  FALSE
    <3>1. DOMAIN jobs' = DOMAIN jobs
      BY ONLY <2>4
    <3> QED  BY <2>2, <3>1
  <2>5. beingLoaded' = IF jobs[j].store THEN beingLoaded ELSE beingLoaded \ jobs[j].keys
    <3>1. PICK c : c = Cardinality(Reporters(j))
      OBVIOUS
    <3>2. \/ jobs' = [jobs EXCEPT ![j].pending = @ - c]
          \/ beingLoaded' = IF jobs[j].store THEN beingLoaded ELSE beingLoaded \ jobs[j].keys
      BY <2>2, <2>3, <3>1
    <3>3. jobs' = [jobs EXCEPT ![j].pending = @ - c] => DOMAIN jobs' = DOMAIN jobs
      OBVIOUS
    <3> QED  BY <2>2, <3>2, <3>3
  <2>6. ASSUME NEW k \in beingLoaded'
        PROVE  \E i \in DOMAIN jobs' : ~jobs'[i].store /\ k \in jobs'[i].keys
    <3>1. k \in beingLoaded /\ (~jobs[j].store => k \notin jobs[j].keys)
      BY <2>5, <2>6
    <3>2. PICK i \in DOMAIN jobs : ~jobs[i].store /\ k \in jobs[i].keys
      BY <1>1, <3>1
    <3>3. i # j
      BY <3>1, <3>2
    <3>4. i \in DOMAIN jobs' /\ jobs'[i] = jobs[i]
      BY <2>1, <3>2, <3>3
    <3> QED  BY <3>2, <3>4
  <2> QED  BY <2>6 DEF BeingLoadedOK
<1>4. ASSUME \A j \in DOMAIN jobs : JobStays(j), beingLoaded' \subseteq beingLoaded
      PROVE  BeingLoadedOK'
  <2>1. \A k \in beingLoaded' : \E j \in DOMAIN jobs' : ~jobs'[j].store /\ k \in jobs'[j].keys
    BY <1>1, <1>4 DEF JobStays
  <2> QED  BY <2>1 DEF BeingLoadedOK
<1>5. ASSUME NEW r \in Reqs, AdmitLoad(r)
      PROVE  BeingLoadedOK'
  <2>1. PICK n, m \in Nat, id \in JobIds, hit, new \in Seq(Blocks), keys \in SUBSET Keys,
             x \in Xfer, b \in Job : LoadAdmitted(r, n, m, id, hit, new, keys, x, b)
    BY <1>5, AdmittedLoad
  <2>2. id \notin DOMAIN xfers /\ jobs' = With(jobs, id, b) /\ ~b.store /\ b.keys = keys
    BY <2>1 DEF LoadAdmitted
  <2>3. beingLoaded' = beingLoaded \cup keys
    BY <2>1 DEF LoadAdmitted
  <2>4. /\ DOMAIN jobs' = DOMAIN jobs \cup {id} /\ jobs'[id] = b
        /\ \A j \in DOMAIN jobs : j # id => jobs'[j] = jobs[j]
    BY ONLY <2>2 DEF With
  <2>5. id \notin DOMAIN jobs
    BY <2>2, JobsAreIds
  <2>6. \A k \in beingLoaded' : \E j \in DOMAIN jobs' : ~jobs'[j].store /\ k \in jobs'[j].keys
    BY <1>1, <2>2, <2>3, <2>4, <2>5
  <2> QED  BY <2>6 DEF BeingLoadedOK
<1>6. ASSUME NEW j \in DOMAIN jobs, ~JobStays(j), ~(Reset /\ ConnectorReset)
      PROVE  BeingLoadedOK'
  <2>1. CompleteJob(j) /\ (\E left : Completed(j, left)) /\ j \in JobIds
    BY <1>6, JobsStay, JobsAreIds
  <2> QED  BY <1>3, <2>1
<1>7. ASSUME \A j \in DOMAIN jobs : JobStays(j), ~(Reset /\ ConnectorReset),
             \A r \in Reqs : ~AdmitLoad(r)
      PROVE  beingLoaded' \subseteq beingLoaded
  <2>1. CASE UNCHANGED <<nextStored, beingLoaded, preemptedIds, curFlush, curLoads, curStores>>
    BY <2>1
  <2>2. ASSUME NEW r \in Reqs, Arrive(r) \/ NothingToStore(r) \/ Store(r)
        PROVE  beingLoaded' = beingLoaded
    BY Zenon, <2>2 DEF Arrive, NothingToStore, Store, KeepForStores, jobTable
  <2>3. ASSUME Reset
        PROVE  beingLoaded' = beingLoaded
    <3>1. KeepConnector
      BY <1>7, <2>3, ResetShape
    <3> QED  BY Zenon, <3>1 DEF KeepConnector, jobTable
  <2>4. ASSUME PreemptForBlocks \/ BuildMeta \/ Emit
        PROVE  beingLoaded' = beingLoaded
    BY Zenon, <2>4 DEF PreemptForBlocks, BuildMeta, Emit, jobTable
  <2>5. ASSUME NEW j \in JobIds, CompleteJob(j)
        PROVE  beingLoaded' \subseteq beingLoaded
    <3>1. IF xfers[j].stale
          THEN UNCHANGED <<jobTable, tracked, mgrVars>>
          ELSE IF jobs[j].pending # Cardinality(Reporters(j))
          THEN UNCHANGED <<fences, beingLoaded, tracked, mgrVars>>
          ELSE beingLoaded' = IF jobs[j].store THEN beingLoaded ELSE beingLoaded \ jobs[j].keys
      BY Zenon, <2>5 DEF CompleteJob, Reporters
    <3>2. \/ beingLoaded' = beingLoaded
          \/ beingLoaded' = IF jobs[j].store THEN beingLoaded ELSE beingLoaded \ jobs[j].keys
      BY Zenon, <3>1 DEF jobTable
    <3> QED  BY <3>2
  <2> QED  BY <1>7, <2>1, <2>2, <2>3, <2>4, <2>5, Changes
<1> QED  BY <1>2, <1>4, <1>5, <1>6, <1>7

\* A finished request that has been announced is forgotten with its last job.
LEMMA TransfersStay ==
    ASSUME Inv, [Next]_vars, NEW q, q \in tracked', q \in finSignaled,
           TransferJobs(q) # {}, ~(Reset /\ ConnectorReset)
    PROVE  TransferJobs(q)' # {}
<1>1. \A i : i \in TransferJobs(q) <=> i \in DOMAIN jobs /\ jobs[i].req = q
  BY DEF TransferJobs
<1>2. \A i : i \in TransferJobs(q)' <=> i \in DOMAIN jobs' /\ jobs'[i].req = q
  BY DEF TransferJobs
<1>3. \A i \in TransferJobs(q) : JobStays(i) => i \in TransferJobs(q)'
  BY <1>1, <1>2 DEF JobStays
<1>4. PICK j : j \in TransferJobs(q)
  OBVIOUS
<1>5. ASSUME ~JobStays(j)
      PROVE  TransferJobs(q)' # {}
  <2>1. CompleteJob(j) /\ \E left : Completed(j, left)
    BY <1>1, <1>4, <1>5, JobsStay
  <2>2. /\ DOMAIN jobs' = DOMAIN jobs \ {j} /\ \A i \in DOMAIN jobs' : jobs'[i] = jobs[i]
        /\ tracked' = IF jobs[j].req \in finSignaled /\ TransferJobs(jobs[j].req) = {j}
                      THEN tracked \ {jobs[j].req} ELSE tracked
    BY <2>1 DEF Completed
  <2>3. TransferJobs(q) # {j}
    BY <1>1, <1>4, <2>2
  <2>4. PICK i : i \in TransferJobs(q) /\ i # j
    BY <1>4, <2>3
  <2>5. i \in TransferJobs(q)'
    BY <1>1, <1>2, <2>2, <2>4
  <2> QED  BY <2>5
<1> QED  BY <1>3, <1>4, <1>5

\* What the connector must know of a request it tracks.
Kept(q) ==
    IF Finished(q) THEN q \in finishedIds \/ (q \in finSignaled /\ TransferJobs(q) # {})
    ELSE q \in known

\* A finished request is tracked until it is announced and its last job is done.
LEMMA TrackedStep ==
    ASSUME Inv, TrackedOK, [Next]_vars
    PROVE  TrackedOK'
<1>1. \A q \in tracked : Kept(q)
  BY DEF TrackedOK, Kept
<1>2. /\ status \in [Reqs -> {"absent", "waiting", "remote", "running", "stopped", "aborted"}]
      /\ tracked \subseteq Reqs /\ \A r \in Range(running) : status[r] = "running"
  BY DEF Inv, MembersOK
<1>3. SUFFICES ASSUME NEW q \in tracked' PROVE Kept(q)'
  BY <1>3 DEF TrackedOK, Kept
<1>4. Finished(q)' <=> status'[q] \in {"stopped", "aborted"}
  BY DEF Finished
<1>5. Finished(q) <=> status[q] \in {"stopped", "aborted"}
  BY DEF Finished
<1>6. ASSUME q \in tracked, Finished(q) => Finished(q)',
             Finished(q)' => Finished(q) \/ q \in finishedIds',
             q \in finishedIds => q \in finishedIds', q \in finSignaled => q \in finSignaled',
             q \in known => q \in known' \/ Finished(q)',
             ~(Reset /\ ConnectorReset) \/ ~Finished(q)
      PROVE  Kept(q)'
  <2>1. ASSUME Finished(q), q \notin finishedIds
        PROVE  q \in finSignaled /\ TransferJobs(q)' # {}
    <3>1. q \in finSignaled /\ TransferJobs(q) # {}
      BY <1>1, <1>6, <2>1 DEF Kept
    <3> QED  BY <1>6, <2>1, <3>1, TransfersStay
  <2>2. ~Finished(q) => q \in known
    BY <1>1, <1>6 DEF Kept
  <2> QED  BY <1>6, <2>1, <2>2 DEF Kept
<1>7. ASSUME q \in tracked, status' = status, finishedIds' = finishedIds,
             finSignaled' = finSignaled, known' = known
      PROVE  ~(Reset /\ ConnectorReset) => Kept(q)'
  BY <1>4, <1>5, <1>6, <1>7
<1>8. ASSUME Reset
      PROVE  Kept(q)'
  <2>1. finishedIds' = finishedIds
    BY Zenon, <1>8 DEF Reset, ResetPrefixCache
  <2>2. Preempt(Range(running), TRUE) \/ UNCHANGED reqVars
    BY <1>8, ResetShape
  <2>3. /\ known' = known
        /\ status' = status \/ status' = [r \in Reqs |-> IF r \in Range(running) THEN "waiting" ELSE status[r]]
    BY Zenon, <2>2 DEF Preempt, reqVars
  <2>4. Finished(q)' <=> Finished(q)
    <3>1. q \in tracked
      <4>1. ConnectorReset \/ KeepConnector
        BY <1>8, ResetShape
      <4>2. tracked' \subseteq tracked
        BY <4>1 DEF ConnectorReset, KeepConnector, TrackedAfterReset, connReqVars
      <4> QED  BY <4>2
    <3> QED  BY <1>2, <1>4, <1>5, <2>3, <3>1
  <2>5. CASE ConnectorReset
    <3>1. q \in tracked /\ ~Finished(q) /\ finSignaled' = finSignaled
      BY <2>5 DEF ConnectorReset, TrackedAfterReset
    <3> QED  BY <1>6, <2>1, <2>3, <2>4, <3>1
  <2>6. CASE KeepConnector /\ ~ConnectorReset
    <3>1. tracked' = tracked /\ finSignaled' = finSignaled
      BY <2>6 DEF KeepConnector, connReqVars
    <3> QED  BY <1>6, <2>1, <2>3, <2>4, <2>6, <3>1
  <2> QED  BY <1>8, <2>5, <2>6, ResetShape
<1>9. ASSUME NEW r \in Reqs, Arrive(r)
      PROVE  Kept(q)'
  <2>1. /\ status' = [status EXCEPT ![r] = "waiting"] /\ known' = known \cup {r}
        /\ tracked' = tracked \cup {r} /\ finSignaled' = finSignaled \ {r}
    BY Zenon, <1>9 DEF Arrive
  <2>2. finishedIds' = finishedIds
    BY Zenon, <1>9 DEF Arrive, batchIds
  <2>3. CASE q = r
    <3>1. status'[q] = "waiting" /\ q \in known'
      BY <1>2, <2>1, <2>3
    <3> QED  BY <1>4, <3>1 DEF Kept
  <2>4. CASE q # r
    <3>1. q \in tracked /\ status'[q] = status[q]
      BY <1>2, <2>1, <2>4
      <3>2. Reset => Kept(q)'
      BY <1>8
    <3> QED  BY <1>4, <1>5, <1>6, <2>1, <2>2, <2>4, <3>1, <3>2
  <2> QED  BY <2>3, <2>4
<1>10. ASSUME NEW r \in Reqs, NEW final \in {"stopped", "aborted"}, NEW delayFree,
              Finish(r, final, delayFree), UNCHANGED <<tracked, finSignaled>>
       PROVE  Kept(q)'
  <2>1. /\ status' = [status EXCEPT ![r] = final] /\ finishedIds' = finishedIds \cup {r}
        /\ known' = known \/ known' = known \ {r}
    BY Zenon, <1>10 DEF Finish
  <2>2. q \in tracked /\ finSignaled' = finSignaled
    BY <1>10
  <2>3. IF q = r THEN status'[q] = final ELSE status'[q] = status[q]
    BY <1>2, <2>1, <2>2
  <2> QED  BY <1>4, <1>5, <1>6, <1>8, <2>1, <2>2, <2>3
<1>11. ASSUME NEW r \in Reqs, Abort(r)
       PROVE  Kept(q)'
  <2>1. Finish(r, "aborted", MustDelayFree(r)) /\ UNCHANGED <<tracked, finSignaled>>
    BY <1>11 DEF Abort, connReqVars
  <2> QED  BY <1>10, <2>1
<1>12. ASSUME NEW r \in Reqs, NEW stop \in BOOLEAN, ProcessRequest(r, stop)
       PROVE  Kept(q)'
  <2>1. UNCHANGED <<tracked, finSignaled>>
    BY Zenon, <1>12 DEF ProcessRequest, connReqVars
  <2>2. Finish(r, "stopped", FALSE) \/ UNCHANGED <<status, known, finishedIds>>
    BY Zenon, <1>12 DEF ProcessRequest, reqVars
  <2> QED  BY <1>7, <1>8, <1>10, <2>1, <2>2
<1>13. ASSUME NEW r \in Reqs, Promote(r) \/ AdmitLoad(r) \/ AdmitRunning(r)
       PROVE  Kept(q)'
  <2>1. /\ status[r] \in {"waiting", "remote"} /\ UNCHANGED <<known, tracked, finSignaled>>
        /\ \E s \in {"waiting", "remote", "running"} : status' = [status EXCEPT ![r] = s]
    BY <1>13 DEF Promote, AdmitLoad, AdmitRunning, CanTry, connReqVars
  <2>2. finishedIds' = finishedIds
    BY <1>13 DEF Promote, AdmitLoad, AdmitRunning, batchIds
  <2>3. q \in tracked
    BY <2>1
  <2>4. Finished(q)' <=> Finished(q)
    BY <1>2, <1>4, <1>5, <2>1, <2>3
  <2> QED  BY <1>6, <1>8, <2>1, <2>2, <2>3, <2>4
<1>14. ASSUME PreemptForBlocks
       PROVE  Kept(q)'
  <2>1. PICK v \in Range(running) : Preempt({v}, FALSE)
    BY <1>14, PreemptedForBlocks
  <2>2. status' = [r \in Reqs |-> IF r \in {v} THEN "waiting" ELSE status[r]] /\ known' = known
    BY Zenon, <2>1 DEF Preempt
  <2>3. UNCHANGED <<tracked, finSignaled, finishedIds>>
    BY Zenon, <1>14 DEF PreemptForBlocks, connReqVars
  <2>4. q \in tracked /\ (Finished(q)' <=> Finished(q))
    BY <1>2, <1>4, <1>5, <2>1, <2>2, <2>3
  <2> QED  BY <1>6, <1>8, <2>2, <2>3, <2>4
<1>15. ASSUME Emit
       PROVE  Kept(q)'
  <2>1. /\ finSignaled' = finSignaled \cup (finishedIds \cap tracked)
        /\ tracked' = tracked \ {r \in finishedIds \cap tracked : TransferJobs(r) = {}}
        /\ UNCHANGED <<status, known>>
    BY Zenon, <1>15 DEF Emit
  <2>2. jobs' = jobs
    BY Zenon, <1>15 DEF Emit, jobTable
  <2>3. q \in tracked /\ (q \in finishedIds => TransferJobs(q) # {})
    BY <2>1
  <2>4. TransferJobs(q)' = TransferJobs(q)
    BY <2>2 DEF TransferJobs
  <2>5. Finished(q)' <=> Finished(q)
    BY <1>4, <1>5, <2>1
  <2>6. Kept(q)
    BY <1>1, <2>3
  <2> QED  BY <2>1, <2>3, <2>4, <2>5, <2>6 DEF Kept
<1>16. ASSUME EndOutput
       PROVE  Kept(q)'
  <2>1. /\ known' = known \ {r \in received \cap known : Finished(r)}
        /\ UNCHANGED <<status, tracked, finSignaled, finishedIds>>
    BY Zenon, <1>16 DEF EndOutput, connReqVars, batchIds
  <2> QED  BY <1>4, <1>5, <1>6, <1>8, <2>1
<1>17. ASSUME NEW j \in JobIds, CompleteJob(j)
       PROVE  Kept(q)'
  <2>1. UNCHANGED <<status, known, finSignaled, finishedIds>>
    BY Zenon, <1>17 DEF CompleteJob, reqVars, batchIds
  <2>2. q \in tracked
    <3>1. PICK l : l = xfers[j].left \ Reporters(j)
      OBVIOUS
    <3>2. Skipped(j) \/ CountedDown(j, l) \/ Completed(j, l)
      BY <1>17, <3>1, CompletedJob
    <3>3. tracked' \subseteq tracked
      BY <3>2 DEF Skipped, CountedDown, Completed
    <3> QED  BY <3>3
  <2> QED  BY <1>7, <1>8, <2>1, <2>2
<1>18. CASE UNCHANGED <<status, known, running, tracked, finSignaled, finishedIds>>
  BY <1>7, <1>8, <1>18
<1> QED  BY <1>8, <1>9, <1>11, <1>12, <1>13, <1>14, <1>15, <1>16, <1>17, <1>18, Changes

-----------------------------------------------------------------------------
(***************************************************************************)
(* The theorems.                                                           *)
(***************************************************************************)

\* Every step of the engine or a worker keeps the invariant about ownership.
LEMMA NextOwn == Inv /\ OwnInv /\ [Next]_vars => OwnInv'
<1> SUFFICES ASSUME Inv, OwnInv, [Next]_vars PROVE OwnInv'
  OBVIOUS
<1>1. /\ LoadsOK /\ LoadsOwnTheirTargets /\ RemoteOK /\ SchedOK /\ FlightsOK
      /\ HeldOK /\ AgingOK /\ TrackedOK /\ BeingLoadedOK
  BY DEF OwnInv
<1>2. SchedOK' /\ FlightsOK' /\ RemoteOK'
  BY <1>1, SchedStep, FlightsStep, RemoteStep
<1>3. LoadsOK'
  BY <1>1, LoadsStep
<1>4. LoadsOwnTheirTargets'
  BY <1>1, <1>3, TargetsStep
<1>5. HeldOK' /\ AgingOK'
  BY <1>1, HeldStep, AgingStep
<1>6. TrackedOK' /\ BeingLoadedOK'
  BY <1>1, TrackedStep, BeingLoadedStep
<1> QED  BY <1>2, <1>3, <1>4, <1>5, <1>6 DEF OwnInv

\* In every reachable state the blocks, requests and keys that transfers use are
\* owned as the transfers need it.
THEOREM OwnHolds == Spec => []OwnInv
<1>1. Init => OwnInv
  BY InitOwn
<1>2. Inv /\ OwnInv /\ [Next]_vars => OwnInv'
  BY NextOwn
<1> QED  BY <1>1, <1>2, InvHolds, PTL DEF Spec

\* While a load is in flight its target blocks belong to its request alone and
\* no prefix hit finds them: no abort, preemption, reset or deferred free gives
\* them away while a worker may still write them.
THEOREM OwnedTargets == Spec => []LoadsOwnTheirTargets
<1>1. OwnInv => LoadsOwnTheirTargets
  BY DEF OwnInv
<1> QED  BY <1>1, OwnHolds, PTL

\* Without requests and jobs the manager has no block pinned or half written.
LEMMA QuietManager ==
    ASSUME Inv, DOMAIN jobs = {}
    PROVE  Mgr!Idle = Mgr!Present
<1>1. JobLoads = [j \in JobIds |-> {}] /\ JobStores = [j \in JobIds |-> {}]
  BY DEF JobLoads, JobStores
<1>2. \A k : MP!Writers(k) = {} /\ MP!Pinners(k) = {}
  BY <1>1 DEF MP!Writers, MP!Pinners
<1>3. \A k \in MP!Present : blocks[k].ref = IF MP!Writers(k) # {} THEN -1
                                            ELSE MP!Cardinality(MP!Pinners(k))
  BY DEF Inv, MP!Inv, MP!RefCountsAreExact
<1>4. MP!Cardinality({}) = 0
  BY MP!FS_EmptySet
<1>5. \A k \in MP!Present : blocks[k].ref = 0
  BY <1>2, <1>3, <1>4
<1> QED  BY <1>5 DEF Mgr!Idle, Mgr!Present, MP!Present

\* With no request and no batch in flight every GPU block is free.
LEMMA QuietBlocks ==
    ASSUME Inv, HeldOK, AgingOK, known = {}, steps = <<>>
    PROVE  FreeBlocks = Blocks
<1>1. \A r \in Reqs : held[r] = <<>>
  BY DEF HeldOK
<1>2. \A r \in Reqs : Range(held[r]) = {}
  BY <1>1 DEF Range
<1>3. deferred = <<>>
  <2>1. Working = {}
    BY DEF Working
  <2>2. Cardinality(Working) = 0
    BY <2>1, FS_EmptySet
  <2>3. deferred \in Seq(Deferral) /\ Range(deferred) = {}
    BY <2>2 DEF AgingOK
  <2>4. DOMAIN deferred = {}
    BY <2>3 DEF Range
  <2> QED  BY <2>3, <2>4
<1>4. DOMAIN deferred = {}
  BY <1>3
<1>5. (UNION {Range(held[r]) : r \in Reqs}) = {}
  BY <1>2
<1>6. (UNION {deferred[i].blocks : i \in DOMAIN deferred}) = {}
  BY <1>4
<1> QED  BY Zenon, <1>5, <1>6 DEF FreeBlocks

\* When the last request is gone and its transfers are done, nothing of it is
\* left: in the connector, in the manager, or among the GPU blocks.
THEOREM QuietEngine == Spec => []QuiescenceLeavesNothing
<1>1. Inv /\ OwnInv => QuiescenceLeavesNothing
  <2> SUFFICES ASSUME Inv, OwnInv, pc = "idle", steps = <<>>, ~HasRequests
               PROVE  /\ tracked = {} /\ fences = {} /\ beingLoaded = {}
                      /\ Mgr!Idle = Mgr!Present
                      /\ FreeBlocks = Blocks
    BY DEF QuiescenceLeavesNothing
  <2>1. known = {} /\ finishedIds = {} /\ DOMAIN jobs = {}
    BY DEF HasRequests
  <2>2. HeldOK /\ AgingOK /\ TrackedOK /\ BeingLoadedOK
    BY DEF OwnInv
  <2>3. tracked = {}
    <3>1. \A r : TransferJobs(r) = {}
      BY <2>1 DEF TransferJobs
    <3> QED  BY <2>1, <2>2, <3>1 DEF TrackedOK
  <2>4. fences = {}
    <3>1. \A f \in fences : f \in Blocks \X {}
      BY <2>1 DEF Inv, FencesOK
    <3> QED  BY <3>1
  <2>5. beingLoaded = {}
    BY <2>1, <2>2 DEF BeingLoadedOK
  <2>6. Mgr!Idle = Mgr!Present
    BY <2>1, QuietManager
  <2>7. FreeBlocks = Blocks
    BY <2>1, <2>2, QuietBlocks
  <2> QED  BY <2>3, <2>4, <2>5, <2>6, <2>7
<1> QED  BY <1>1, InvHolds, OwnHolds, PTL

=============================================================================

-------------------------- MODULE OffloadingConnector --------------------------
(***************************************************************************)
(* The engine core: the vLLM scheduler (cstech-mamba-interval/              *)
(* sched_scheduler.partial-tail.py), the offloading connector's scheduler    *)
(* side (cstech-offload/scheduler.partial-tail.py) and the CPU manager under  *)
(* it, driving the workers of OffloadingWorker.                            *)
(*                                                                         *)
(* The engine core is one thread.  schedule() and update_from_output() run    *)
(* to the end before anything else of the engine happens; here they are       *)
(* sequences of actions, one per request or job handled, ordered by `pc`.     *)
(* The workers touch nothing those actions use before the batch is emitted,    *)
(* so they move only while pc is "idle".                                    *)
(*                                                                         *)
(* One full-attention KV group, an offload chunk of one GPU block, no partial  *)
(* tails.  The token budget, the order in which waiting requests are tried     *)
(* and the choice of free blocks and of evicted keys are left open.          *)
(***************************************************************************)
EXTENDS OffloadingWorker

CONSTANTS
    MaxBatches,  \* max_concurrent_batches: 2 with async scheduling
    ResetKinds,  \* the reset_prefix_cache calls a client makes
    MaxResets    \* bound: how many of them

ASSUME IdsAssumption == JobIds \subseteq Nat /\ IsFiniteSet(JobIds)
ASSUME SizesAssumption == /\ IsFiniteSet(Workers) /\ Workers # {} /\ IsFiniteSet(Keys)
                          /\ NumSlots \in Nat /\ MaxBatches \in Nat
ASSUME NoKeyAssumption == NoKey \notin Keys
\* A key names its whole prefix, so a prompt has none twice.
ASSUME PromptAssumption == /\ Prompt \in [Reqs -> Seq(Keys)]
                           /\ \A r \in Reqs : IsInjective(Prompt[r])

VARIABLES
    \* where schedule() / update_from_output() is
    pc,            \* "idle", "running", "waiting", "build", "stores", "output", "complete" or "failed"
    todo,          \* requests (or jobs) the current loop has left
    cursor,        \* req_index of the loop over the running requests
    preemptedNow,  \* this schedule() preempted a request
    out,           \* the batch whose output is being processed, if any
    received,      \* requests whose load every worker has reported in it
    \* scheduler
    status,        \* request -> its RequestStatus ("absent" before it arrives)
    known,         \* self.requests
    computed,      \* request -> num_computed_tokens, as progress
    held,          \* request -> its GPU blocks
    running,       \* self.running
    stale,         \* request -> batches in flight from before its preemption
    dropStale,     \* request -> drop_stale_output
    recvd,         \* finished_recving_kv_req_ids
    hashed,        \* GPU block -> key it is cached under
    deferred,      \* deferred_frees
    sched,         \* request -> what the batch being built schedules of it
    finishedIds,   \* finished_req_ids
    preemptedIds,  \* preempted requests of the batch, reset_preempted_req_ids included
    resets,        \* reset calls so far
    \* connector, scheduler side
    tracked,       \* requests in _req_status
    blockIds,      \* request -> block_ids the connector knows of
    nextStored,    \* request -> next_stored_chunk_idx
    finSignaled,   \* requests with finished_signaled
    jobs,          \* _jobs: job id -> status
    fences,        \* _block_id_to_pending_jobs, as pairs <<block, job>>
    beingLoaded,   \* _chunks_being_loaded
    curLoads, curStores, curFlush, curAlloc,  \* the _current_batch_* collections
    \* CPU manager
    blocks, freeList, numAllocated, numEvictable, numPending

loopVars == <<pc, todo, cursor, preemptedNow, out, received>>
reqVars == <<status, known, computed, held, running>>
asyncVars == <<stale, dropStale, deferred>>
batchIds == <<sched, finishedIds, preemptedIds>>
connReqVars == <<tracked, blockIds, nextStored, finSignaled>>
jobTable == <<jobs, fences, beingLoaded>>
curVars == <<curLoads, curStores, curFlush, curAlloc>>
mgrVars == <<blocks, freeList, numAllocated, numEvictable, numPending>>
vars == <<loopVars, reqVars, asyncVars, recvd, hashed, batchIds, resets, connReqVars,
          jobTable, curVars, mgrVars, workerVars, steps, xfers>>

\* What the manager's clients have in flight, from the job table.
JobLoads == [j \in JobIds |-> IF j \in DOMAIN jobs /\ ~jobs[j].store THEN jobs[j].keys ELSE {}]
JobStores == [j \in JobIds |-> IF j \in DOMAIN jobs /\ jobs[j].store THEN jobs[j].keys ELSE {}]

Mgr == INSTANCE CPUOffloadingManager WITH
         NumBlocks <- NumSlots, loads <- JobLoads, stores <- JobStores

-----------------------------------------------------------------------------

MinOf(a, b) == IF a <= b THEN a ELSE b
MaxOf(a, b) == IF a >= b THEN a ELSE b
Nothing == [x \in {} |-> x]
With(f, x, v) == [y \in DOMAIN f \cup {x} |-> IF y = x THEN v ELSE f[y]]
Minus(f, S) == [y \in DOMAIN f \ S |-> f[y]]

Finished(r) == status[r] \in {"stopped", "aborted"}
TransferJobs(r) == {j \in DOMAIN jobs : jobs[j].req = r}

\* Batches in flight that schedule tokens of r.
InFlight(r) == {i \in DOMAIN steps : \E p \in steps[i].work : p.req = r}

FreeBlocks == Blocks \ ((UNION {Range(held[r]) : r \in Reqs})
                          \cup (UNION {deferred[i].blocks : i \in DOMAIN deferred}))

\* Mutant: a block of the prefix hit is handed out a second time.
ForgetsHit(bs) == FreeBlocks

\* Ways to take the free GPU blocks that bs lacks to hold progress t.
Lacking(bs, t) == MaxOf(t - Len(bs), 0)
Available(bs) == FreeBlocks \ Range(bs)
Allocations(bs, t) == UNION {SetToSeqs(S) : S \in kSubset(Lacking(bs, t), Available(bs))}

\* Mutant: a block that is given away stays in the prefix cache.
KeepsHash(h, S) == h

\* Allocating blocks drops the hash they are cached under; cache_blocks gives
\* the full blocks among the first t of a request theirs.
Unhash(h, S) == [b \in Blocks |-> IF b \in S THEN NoKey ELSE h[b]]
CacheBlocks(h, r, bs, t) ==
    LET full == 1..MinOf(t, NumChunks(r))
    IN [b \in Blocks |-> IF \E i \in full : bs[i] = b
                         THEN Prompt[r][CHOOSE i \in full : bs[i] = b] ELSE h[b]]

Init ==
    /\ WorkerInit /\ steps = <<>> /\ xfers = Nothing
    /\ pc = "idle" /\ todo = {} /\ cursor = 1 /\ preemptedNow = FALSE /\ out = {} /\ received = {}
    /\ status = [r \in Reqs |-> "absent"] /\ known = {}
    /\ computed = [r \in Reqs |-> 0] /\ held = [r \in Reqs |-> <<>>]
    /\ running = <<>> /\ recvd = {} /\ hashed = [b \in Blocks |-> NoKey]
    /\ stale = [r \in Reqs |-> 0] /\ dropStale = [r \in Reqs |-> FALSE] /\ deferred = <<>>
    /\ sched = Nothing /\ finishedIds = {} /\ preemptedIds = {} /\ resets = 0
    /\ tracked = {} /\ blockIds = [r \in Reqs |-> <<>>]
    /\ nextStored = [r \in Reqs |-> 0] /\ finSignaled = {}
    /\ jobs = Nothing /\ fences = {} /\ beingLoaded = {}
    /\ curLoads = <<>> /\ curStores = <<>> /\ curFlush = {} /\ curAlloc = {}
    /\ blocks = Nothing /\ freeList = <<>>
    /\ numAllocated = 0 /\ numEvictable = 0 /\ numPending = 0

-----------------------------------------------------------------------------
(***************************************************************************)
(* Steps the handlers share.                                               *)
(***************************************************************************)

\* _free_request_blocks of the requests in S: their blocks go back to the pool
\* at once, unless a batch in flight may still write them; then they wait until
\* every batch now in flight has been processed.
FreeRequestBlocks(S) ==
    LET late == {r \in S : InFlight(r) # {} /\ held[r] # <<>>}
        inFlight == Cardinality({i \in DOMAIN steps : steps[i].work # {}})
    IN /\ held' = [r \in Reqs |-> IF r \in S THEN <<>> ELSE held[r]]
       /\ deferred' = IF late = {} THEN deferred
                      ELSE Append(deferred, [left |-> inFlight,
                                             blocks |-> UNION {Range(held[r]) : r \in late}])

\* _preempt_request: back to the waiting queue with nothing computed; the
\* outputs in flight are stale, and dropped if drop says so.
Preempt(S, drop) ==
    /\ FreeRequestBlocks(S)
    /\ status' = [r \in Reqs |-> IF r \in S THEN "waiting" ELSE status[r]]
    /\ computed' = [r \in Reqs |-> IF r \in S THEN 0 ELSE computed[r]]
    /\ running' = Without(running, S)
    /\ dropStale' = [r \in Reqs |-> IF r \in S THEN drop \/ (dropStale[r] /\ stale[r] > 0)
                                    ELSE dropStale[r]]
    /\ stale' = [r \in Reqs |-> IF r \in S THEN Cardinality(InFlight(r)) ELSE stale[r]]
    /\ preemptedIds' = preemptedIds \cup S
    /\ UNCHANGED known

\* Mutant: request_finished fences nothing.
NoFences(r) == {}

\* request_finished: the source blocks of the request's stores are about to be
\* freed; from now on reusing one flushes the store.
FencesOf(r) == UNION {{<<b, j>> : b \in jobs[j].srcBlocks} : j \in TransferJobs(r)}

\* finish_requests / a stop: the request leaves the queues with a final status.
\* Its blocks are freed unless a load may still write them.
Finish(r, final, delayFree) ==
    /\ status' = [status EXCEPT ![r] = final]
    /\ running' = Without(running, {r})
    /\ fences' = IF r \in tracked THEN fences \cup FencesOf(r) ELSE fences
    /\ finishedIds' = finishedIds \cup {r}
    /\ IF delayFree THEN UNCHANGED <<held, deferred, known>>
       ELSE FreeRequestBlocks({r}) /\ known' = known \ {r}
    /\ UNCHANGED <<computed, jobs, beingLoaded>>

-----------------------------------------------------------------------------
(***************************************************************************)
(* Between steps: requests arrive and are aborted, caches are reset.  With   *)
(* MaxBatches = 1 the engine does this only with no batch in flight.         *)
(***************************************************************************)

EngineFree == pc = "idle" /\ Len(steps) < MaxBatches

\* A slot stands for a new request once nothing refers to its last one.
Forgotten(r) ==
    /\ r \notin known \cup tracked \cup finishedIds \cup preemptedIds
    /\ InFlight(r) = {}

\* add_request and on_new_request
Arrive(r) ==
    /\ EngineFree
    /\ Forgotten(r)
    /\ status' = [status EXCEPT ![r] = "waiting"]
    /\ known' = known \cup {r}
    /\ computed' = [computed EXCEPT ![r] = 0]
    /\ stale' = [stale EXCEPT ![r] = 0]
    /\ dropStale' = [dropStale EXCEPT ![r] = FALSE]
    /\ tracked' = tracked \cup {r}
    /\ finSignaled' = finSignaled \ {r}
    /\ blockIds' = [blockIds EXCEPT ![r] = <<>>]
    /\ nextStored' = [nextStored EXCEPT ![r] = 0]
    /\ UNCHANGED <<loopVars, held, running, recvd, hashed, deferred, batchIds, resets,
                   jobTable, curVars, mgrVars, workerVars, steps, xfers>>

\* Mutant: the blocks of an aborted request are always freed at once.
FreesAtOnce(r) == FALSE

\* A load may still write the blocks of the request.
MustDelayFree(r) == status[r] = "remote" /\ r \notin recvd

\* finish_requests(FINISHED_ABORTED) from a client.
Abort(r) ==
    /\ EngineFree
    /\ r \in known
    /\ ~Finished(r)
    /\ Finish(r, "aborted", MustDelayFree(r))
    /\ recvd' = recvd \ {r}
    /\ UNCHANGED <<loopVars, stale, dropStale, hashed, sched, preemptedIds, resets,
                   connReqVars, curVars, mgrVars, workerVars, steps, xfers>>

\* reset_prefix_cache of the GPU cache: refused while any block is in use.
GPUCacheReset(free) ==
    hashed' = IF free = Blocks THEN [b \in Blocks |-> NoKey] ELSE hashed

\* Mutants: reset_cache keeps the requests that finished, and leaves the stale
\* job threshold where it was.
KeepsFinished == tracked
KeepsThreshold == xfers

\* What reset_cache keeps of the requests, and of the jobs the workers have.
TrackedAfterReset == {r \in tracked : ~Finished(r)}
StaleXfers == [j \in DOMAIN xfers |-> [xfers[j] EXCEPT !.stale = TRUE]]

\* reset_cache of the connector: every job is forgotten, its completions will be
\* skipped as stale, and the workers are told to finish it in the next batch.
ConnectorReset ==
    /\ curFlush' = curFlush \cup DOMAIN jobs
    /\ tracked' = TrackedAfterReset
    /\ nextStored' = [r \in Reqs |-> IF r \in tracked' THEN 0 ELSE nextStored[r]]
    /\ Mgr!ResetEffect
    /\ xfers' = StaleXfers
    /\ jobs' = Nothing
    /\ fences' = {}
    /\ beingLoaded' = {}
    /\ UNCHANGED <<blockIds, finSignaled, curLoads, curStores, curAlloc>>

KeepConnector == UNCHANGED <<connReqVars, jobTable, curVars, mgrVars, xfers>>

\* What reset_cache asserts first: it is not called in the middle of a step.
BatchIsEmpty == curLoads = <<>> /\ curFlush = {} /\ curAlloc = {}

\* reset_prefix_cache(reset_running_requests, reset_connector).  With
\* reset_running_requests every running request is preempted; if blocks are
\* still in use then (a load, a deferred free), it raises before it reaches the
\* connector.  An exception goes to the caller: what was done so far stays done.
ResetPrefixCache(resetRunning, resetConnector) ==
    /\ EngineFree
    /\ resets < MaxResets
    /\ resets' = resets + 1
    /\ IF resetRunning
       THEN Preempt(Range(running), TRUE)
       ELSE UNCHANGED <<reqVars, asyncVars, preemptedIds>>
    /\ LET free == Blocks \ ((UNION {Range(held'[r]) : r \in Reqs})
                               \cup (UNION {deferred'[i].blocks : i \in DOMAIN deferred'}))
       IN /\ GPUCacheReset(free)
          /\ IF resetConnector /\ (resetRunning => free = Blocks) /\ BatchIsEmpty
             THEN ConnectorReset ELSE KeepConnector
    /\ UNCHANGED <<loopVars, recvd, sched, finishedIds, workerVars, steps>>

Reset ==
    \/ "cache" \in ResetKinds /\ ResetPrefixCache(FALSE, FALSE)
    \/ "running" \in ResetKinds /\ ResetPrefixCache(TRUE, FALSE)
    \/ "connector" \in ResetKinds /\ ResetPrefixCache(FALSE, TRUE)
    \/ "both" \in ResetKinds /\ ResetPrefixCache(TRUE, TRUE)

-----------------------------------------------------------------------------
(***************************************************************************)
(* schedule(), first part: the running requests, in order.                  *)
(***************************************************************************)

\* Mutants: has_requests forgets transfers in flight, or finished requests.
IgnoresJobs == known # {} \/ finishedIds # {}
IgnoresFinished == known # {} \/ DOMAIN jobs # {}

\* has_requests: something to schedule, to report, or to wait for.
HasRequests == known # {} \/ finishedIds # {} \/ DOMAIN jobs # {}

BeginSchedule ==
    /\ EngineFree
    /\ HasRequests
    /\ pc' = "running"
    /\ cursor' = 1
    /\ preemptedNow' = FALSE
    /\ UNCHANGED <<todo, out, received, reqVars, asyncVars, recvd, hashed, batchIds, resets,
                   connReqVars, jobTable, curVars, mgrVars, workerVars, steps, xfers>>

\* The progress a request can be given: any number of blocks of its prompt, or
\* all of it; a complete request decodes in its last block.
Targets(r, from) == IF from = Complete(r) THEN {from} ELSE (from + 1)..Complete(r)

\* allocate_slots for progress t, on top of the blocks bs: takes the missing
\* blocks and caches what will be full after the batch.
Allocate(r, bs, t, new) ==
    /\ held' = [held EXCEPT ![r] = bs \o new]
    /\ hashed' = CacheBlocks(Unhash(hashed, Range(new)), r, bs \o new, t)

TooFew(bs, t) == Lacking(bs, t) > Cardinality(Available(bs))

ScheduleRunning ==
    /\ pc = "running"
    /\ cursor <= Len(running)
    /\ LET r == running[cursor]
       IN \E t \in Targets(r, computed[r]) :
            \E new \in Allocations(held[r], t) :
                 /\ Allocate(r, held[r], t, new)
                 /\ sched' = With(sched, r, [from |-> computed[r], to |-> t, new |-> new])
    /\ cursor' = cursor + 1
    /\ UNCHANGED <<pc, todo, preemptedNow, out, received, status, known, computed, running,
                   asyncVars, recvd, finishedIds, preemptedIds, resets, connReqVars,
                   jobTable, curVars, mgrVars, workerVars, steps, xfers>>

\* No blocks for the request at the cursor: the last running request is
\* preempted and it is tried again, unless it was the last itself.
PreemptForBlocks ==
    /\ pc = "running"
    /\ cursor <= Len(running)
    /\ \E t \in Targets(running[cursor], computed[running[cursor]]) :
         TooFew(held[running[cursor]], t)
    /\ Preempt({Last(running)}, FALSE)
    /\ preemptedNow' = TRUE
    /\ pc' = IF cursor = Len(running) THEN "build" ELSE "running"
    /\ UNCHANGED <<todo, cursor, out, received, recvd, hashed, sched, finishedIds, resets,
                   connReqVars, jobTable, curVars, mgrVars, workerVars, steps, xfers>>

-----------------------------------------------------------------------------
(***************************************************************************)
(* schedule(), second part: the waiting requests, unless one was preempted.  *)
(* todo holds the requests not tried in this step.                          *)
(***************************************************************************)

TryWaiting ==
    /\ pc = "running"
    /\ cursor > Len(running)
    /\ ~preemptedNow
    /\ pc' = "waiting"
    /\ todo' = {r \in known : status[r] \in {"waiting", "remote"}}
    /\ UNCHANGED <<cursor, preemptedNow, out, received, reqVars, asyncVars, recvd, hashed, batchIds,
                   resets, connReqVars, jobTable, curVars, mgrVars, workerVars, steps, xfers>>

\* _try_promote_blocked_waiting_request: the load is done, its blocks are
\* cached and the request can be scheduled.
Promote(r) ==
    /\ pc = "waiting"
    /\ r \in todo
    /\ status[r] = "remote"
    /\ r \in recvd
    /\ hashed' = CacheBlocks(hashed, r, held[r], computed[r])
    /\ recvd' = recvd \ {r}
    /\ status' = [status EXCEPT ![r] = "waiting"]
    /\ UNCHANGED <<loopVars, known, computed, held, running, asyncVars, batchIds, resets,
                   connReqVars, jobTable, curVars, mgrVars, workerVars, steps, xfers>>

\* Requests the loop steps over: still loading, or with output in flight that
\* will be delivered.
SkipBlocked(r) ==
    /\ pc = "waiting"
    /\ r \in todo
    /\ \/ status[r] = "remote" /\ r \notin recvd
       \/ status[r] = "waiting" /\ stale[r] > 0 /\ ~dropStale[r]
    /\ todo' = todo \ {r}
    /\ UNCHANGED <<pc, cursor, preemptedNow, out, received, reqVars, asyncVars, recvd, hashed, batchIds,
                   resets, connReqVars, jobTable, curVars, mgrVars, workerVars, steps, xfers>>

CanTry(r) ==
    /\ pc = "waiting"
    /\ r \in todo
    /\ status[r] = "waiting"
    /\ stale[r] = 0 \/ dropStale[r]

\* The local prefix hit: cached GPU blocks for the first n blocks of the prompt.
HasHash(k) == \E b \in Blocks : hashed[b] = k
LocalHit(r) == CHOOSE n \in 0..NumChunks(r) :
                  /\ \A i \in 1..n : HasHash(Prompt[r][i])
                  /\ n < NumChunks(r) => ~HasHash(Prompt[r][n + 1])
HitBlocks(r) == [i \in 1..LocalHit(r) |-> CHOOSE b \in Blocks : hashed[b] = Prompt[r][i]]

\* The run of keys beyond n local blocks that the manager has, in any state.
RemoteRun(r, n) ==
    CHOOSE h \in 0..(NumChunks(r) - n) :
       /\ \A i \in 1..h : Mgr!Lookup(Prompt[r][n + i]) # "MISS"
       /\ n + h < NumChunks(r) => Mgr!Lookup(Prompt[r][n + h + 1]) = "MISS"

\* Mutant: a chunk that is still being written counts as a hit.
TakesPending(r, n) == RemoteRun(r, n)

\* _lookup_complete_chunks beyond n local blocks: the run of keys the manager
\* has.  -1 when the answer is put off: a key of the run is being written, or
\* is being loaded already.
Lookup(r, n) ==
    LET run == {Prompt[r][n + i] : i \in 1..RemoteRun(r, n)}
    IN IF \E k \in run : Mgr!Lookup(k) = "HIT_PENDING" \/ k \in beingLoaded THEN -1
       ELSE RemoteRun(r, n)

\* get_num_new_matched_tokens.  It forgets the blocks the connector knew of, and
\* puts the request off while it has transfers in flight.
Matched(r) == IF TransferJobs(r) # {} THEN -1 ELSE Lookup(r, LocalHit(r))

DeferLookup(r) ==
    /\ CanTry(r)
    /\ computed[r] = 0
    /\ Matched(r) = -1
    /\ blockIds' = [blockIds EXCEPT ![r] = <<>>]
    /\ todo' = todo \ {r}
    /\ UNCHANGED <<pc, cursor, preemptedNow, out, received, reqVars, asyncVars, recvd, hashed, batchIds,
                   resets, tracked, nextStored, finSignaled, jobTable, curVars, mgrVars,
                   workerVars, steps, xfers>>

\* Blocks other prefills still need before they are complete; a load is only
\* admitted beside that reserve.
Prefilling == {r \in known : \/ status[r] = "remote"
                             \/ status[r] = "waiting" /\ held[r] # <<>>
                             \/ status[r] = "running" /\ computed[r] < Complete(r)}
Reserved == MapThenSumSet(LAMBDA r : MaxOf(Complete(r) - Len(held[r]), 0), Prefilling)

\* Ids only grow in the code; here one is taken again when nothing refers to it,
\* and JobIds bounds how many are in use.
UsedIds == DOMAIN xfers \cup curFlush \cup UNION {steps[i].flush : i \in DOMAIN steps}
FreeId == JobIds \ UsedIds # {}
NewJobId == CHOOSE j \in JobIds \ UsedIds : \A i \in JobIds \ UsedIds : j <= i

\* A remote hit: the request gets blocks for it and waits while they are loaded
\* (update_state_after_alloc).
AdmitLoad(r) ==
    LET n == LocalHit(r)
        m == Matched(r)
        keys == {Prompt[r][i] : i \in (n + 1)..(n + m)}
        j == NewJobId
    IN /\ CanTry(r)
       /\ computed[r] = 0
       /\ m > 0
       /\ m <= Cardinality(Available(HitBlocks(r))) - Reserved
       /\ FreeId
       /\ \E new \in Allocations(HitBlocks(r), n + m) :
            /\ held' = [held EXCEPT ![r] = HitBlocks(r) \o new]
            /\ hashed' = Unhash(hashed, Range(new))
            /\ xfers' = With(xfers, j,
                 [req |-> r, store |-> FALSE, stale |-> FALSE, left |-> Workers,
                  copies |-> {[block |-> new[i], slot |-> blocks[Prompt[r][n + i]].id] : i \in 1..m}])
            /\ curAlloc' = curAlloc \cup Range(HitBlocks(r)) \cup Range(new)
       /\ Mgr!PrepareLoadEffect(keys)
       /\ jobs' = With(jobs, j, [req |-> r, store |-> FALSE, keys |-> keys,
                                 pending |-> Cardinality(Workers), srcBlocks |-> {}])
       /\ curLoads' = Append(curLoads, j)
       /\ beingLoaded' = beingLoaded \cup keys
       /\ nextStored' = [nextStored EXCEPT ![r] = n + m]
       /\ blockIds' = [blockIds EXCEPT ![r] = <<>>]
       /\ status' = [status EXCEPT ![r] = "remote"]
       /\ computed' = [computed EXCEPT ![r] = n + m]
       /\ todo' = todo \ {r}
       /\ UNCHANGED <<pc, cursor, preemptedNow, out, received, known, running, asyncVars, recvd, batchIds,
                      resets, tracked, finSignaled, fences, curStores, curFlush,
                      workerVars, steps>>

\* No remote hit, or one already loaded: the request joins the running ones.
AdmitRunning(r) ==
    LET fresh == computed[r] = 0
        bs == IF fresh THEN HitBlocks(r) ELSE held[r]
        from == IF fresh THEN LocalHit(r) ELSE computed[r]
    IN /\ CanTry(r)
       /\ fresh => Matched(r) = 0
       /\ \E t \in Targets(r, from) :
            \E new \in Allocations(bs, t) :
                 /\ Allocate(r, bs, t, new)
                 /\ sched' = With(sched, r, [from |-> from, to |-> t, new |-> bs \o new])
       /\ blockIds' = IF fresh THEN [blockIds EXCEPT ![r] = <<>>] ELSE blockIds
       /\ status' = [status EXCEPT ![r] = "running"]
       /\ computed' = [computed EXCEPT ![r] = from]
       /\ running' = Append(running, r)
       /\ todo' = todo \ {r}
       /\ UNCHANGED <<pc, cursor, preemptedNow, out, received, known, asyncVars, recvd, finishedIds,
                      preemptedIds, resets, tracked, nextStored, finSignaled, jobTable,
                      curVars, mgrVars, workerVars, steps, xfers>>

\* Too few blocks: the loop over the waiting requests ends.
AdmitFails(r) ==
    /\ CanTry(r)
    /\ IF computed[r] = 0
       THEN \/ /\ Matched(r) > 0
               /\ Matched(r) > Cardinality(Available(HitBlocks(r))) - Reserved
            \/ /\ Matched(r) = 0
               /\ \E t \in Targets(r, LocalHit(r)) : TooFew(HitBlocks(r), t)
       ELSE \E t \in Targets(r, computed[r]) : TooFew(held[r], t)
    /\ blockIds' = IF computed[r] = 0 THEN [blockIds EXCEPT ![r] = <<>>] ELSE blockIds
    /\ pc' = "build"
    /\ UNCHANGED <<todo, cursor, preemptedNow, out, received, reqVars, asyncVars, recvd, hashed, batchIds,
                   resets, tracked, nextStored, finSignaled, jobTable, curVars, mgrVars,
                   workerVars, steps, xfers>>

\* Both loops end when the token budget is spent, or nothing is left to try.
EndSchedule ==
    /\ \/ pc = "running" /\ (sched # Nothing \/ (cursor > Len(running) /\ preemptedNow))
       \/ pc = "waiting" /\ (sched # Nothing \/ todo = {})
    /\ pc' = "build"
    /\ UNCHANGED <<todo, cursor, preemptedNow, out, received, reqVars, asyncVars, recvd, hashed, batchIds,
                   resets, connReqVars, jobTable, curVars, mgrVars, workerVars, steps, xfers>>

-----------------------------------------------------------------------------
(***************************************************************************)
(* schedule(), end: build_connector_meta.                                   *)
(***************************************************************************)

\* The jobs of the requests this batch preempted, or a reset preempted before it.
PreemptedJobs == UNION {TransferJobs(r) : r \in preemptedIds \cap tracked}

\* _update_req_states and the flushes: jobs of preempted requests, and jobs
\* whose source blocks this batch gives to somebody.
BuildMeta ==
    LET given == UNION {Range(sched[r].new) : r \in DOMAIN sched}
    IN /\ pc = "build"
       /\ \A j \in PreemptedJobs : jobs[j].store
       /\ blockIds' = [r \in Reqs |-> IF r \in DOMAIN sched THEN blockIds[r] \o sched[r].new
                                      ELSE blockIds[r]]
       /\ curAlloc' = curAlloc \cup given
       /\ curFlush' = curFlush \cup PreemptedJobs
                        \cup {f[2] : f \in {f \in fences : f[1] \in curAlloc'}}
       /\ todo' = DOMAIN sched \cup finishedIds
       /\ pc' = "stores"
       /\ UNCHANGED <<cursor, preemptedNow, out, received, reqVars, asyncVars, recvd, hashed, batchIds,
                      resets, tracked, nextStored, finSignaled, jobTable, curLoads, curStores,
                      mgrVars, workerVars, steps, xfers>>

\* The assertion that preempted requests only have stores to flush fails: the
\* exception leaves schedule() halfway and the engine is lost.
AssertionFails ==
    /\ pc = "build"
    /\ \E j \in PreemptedJobs : ~jobs[j].store
    /\ pc' = "failed"
    /\ UNCHANGED <<todo, cursor, preemptedNow, out, received, reqVars, asyncVars, recvd, hashed, batchIds,
                   resets, connReqVars, jobTable, curVars, mgrVars, workerVars, steps, xfers>>

EngineFailed == pc = "failed" /\ UNCHANGED vars

\* The full blocks of r the connector may store: those computed after the batch
\* (all of a finished request, what an aborted one has) of which it knows the
\* GPU block.
Storable(r) ==
    LET after == IF status[r] = "aborted" THEN computed[r]
                 ELSE IF status[r] = "stopped" THEN NumChunks(r) ELSE sched[r].to
    IN MinOf(MinOf(after, NumChunks(r)), Len(blockIds[r]))

NewKeys(r) == SubSeq(Prompt[r], nextStored[r] + 1, Storable(r))
ToStore(r) == Without(NewKeys(r), DOMAIN blocks)

\* The turn of r in _build_store_jobs: scheduled requests before finished ones.
StoreTurn(r) ==
    /\ pc = "stores"
    /\ r \in todo
    /\ r \in finishedIds => todo \subseteq finishedIds
    /\ todo' = todo \ {r}

KeepForStores == UNCHANGED <<pc, cursor, preemptedNow, out, received, reqVars, asyncVars, recvd, hashed,
                             batchIds, resets, blockIds, tracked, finSignaled, beingLoaded,
                             curLoads, curAlloc, workerVars, steps>>

\* Everything is stored already: the progress advances.
NothingToStore(r) ==
    /\ StoreTurn(r)
    /\ r \in tracked => ToStore(r) = <<>>
    /\ nextStored' = IF r \in tracked
                     THEN [nextStored EXCEPT ![r] = MaxOf(@, Storable(r))] ELSE nextStored
    /\ KeepForStores
    /\ UNCHANGED <<jobs, fences, curStores, curFlush, mgrVars, xfers>>

\* prepare_store finds too few blocks to evict: the keys are tried again later.
StoreRefused(r) ==
    /\ StoreTurn(r)
    /\ r \in tracked /\ ToStore(r) # <<>>
    /\ Mgr!NumToEvict(Range(NewKeys(r))) > Cardinality(Mgr!Idle \ Range(NewKeys(r)))
    /\ KeepForStores
    /\ UNCHANGED <<nextStored, jobs, fences, curStores, curFlush, mgrVars, xfers>>

\* A store job for the keys the manager does not have, from the GPU blocks the
\* connector knows them to be in.  The blocks of a finished request are free
\* already: they are fenced, and flushed if this batch gives one away.
Store(r) ==
    LET new == ToStore(r)
        j == NewJobId
        blockOf(k) == blockIds[r][CHOOSE i \in DOMAIN Prompt[r] : Prompt[r][i] = k]
        src == {blockOf(k) : k \in Range(new)}
    IN /\ StoreTurn(r)
       /\ r \in tracked /\ new # <<>>
       /\ FreeId
       /\ \E evicted \in Mgr!EvictionChoices(Range(NewKeys(r))) :
            /\ Mgr!CanEvict(Range(NewKeys(r)), evicted)
            /\ Mgr!PrepareStoreEffect(new, evicted)
       /\ nextStored' = [nextStored EXCEPT ![r] = MaxOf(@, Storable(r))]
       /\ jobs' = With(jobs, j, [req |-> r, store |-> TRUE, keys |-> Range(new),
                                 pending |-> Cardinality(Workers), srcBlocks |-> src])
       /\ xfers' = With(xfers, j,
            [req |-> r, store |-> TRUE, stale |-> FALSE, left |-> Workers,
             copies |-> {[block |-> blockOf(k), slot |-> blocks'[k].id] : k \in Range(new)}])
       /\ curStores' = Append(curStores, j)
       /\ IF Finished(r)
          THEN /\ fences' = fences \cup {<<b, j>> : b \in src}
               /\ curFlush' = IF src \cap curAlloc # {} THEN curFlush \cup {j} ELSE curFlush
          ELSE UNCHANGED <<fences, curFlush>>
       /\ KeepForStores

\* The rest of build_connector_meta and _update_after_schedule: the batch goes
\* to the workers, finished requests without transfers are forgotten, and the
\* scheduled ones advance.
Emit ==
    LET signaled == finishedIds \cap tracked
    IN /\ pc = "stores"
       /\ todo = {}
       /\ steps' = Append(steps,
            [work |-> {[req |-> r, from |-> sched[r].from, to |-> sched[r].to,
                        blocks |-> held[r]] : r \in DOMAIN sched},
             loads |-> curLoads, stores |-> curStores, flush |-> curFlush,
             reports |-> [w \in Workers |-> {}]])
       /\ finSignaled' = finSignaled \cup signaled
       /\ tracked' = tracked \ {r \in signaled : TransferJobs(r) = {}}
       /\ computed' = [r \in Reqs |-> IF r \in DOMAIN sched THEN sched[r].to ELSE computed[r]]
       /\ sched' = Nothing /\ finishedIds' = {} /\ preemptedIds' = {}
       /\ curLoads' = <<>> /\ curStores' = <<>> /\ curFlush' = {} /\ curAlloc' = {}
       /\ pc' = "idle"
       /\ cursor' = 1
       /\ preemptedNow' = FALSE
       /\ UNCHANGED <<todo, out, received, status, known, held, running, asyncVars, recvd, hashed, resets,
                      blockIds, nextStored, jobTable, mgrVars, workerVars, xfers>>

-----------------------------------------------------------------------------
(***************************************************************************)
(* update_from_output for the oldest batch, once every worker reported.       *)
(***************************************************************************)

\* Deferred blocks whose batches are all processed return to the pool.
BeginOutput ==
    LET step == Head(steps)
        aged == [i \in DOMAIN deferred |-> [deferred[i] EXCEPT !.left = @ - 1]]
    IN /\ pc = "idle"
       /\ steps # <<>>
       /\ \A w \in Workers : pos[w] > 0
       /\ out' = {step}
       /\ steps' = Tail(steps)
       /\ pos' = [w \in Workers |-> pos[w] - 1]
       /\ deferred' = IF step.work = {} THEN deferred
                      ELSE Within(aged, {d \in Range(aged) : d.left > 0})
       /\ todo' = {p.req : p \in step.work}
       /\ pc' = "output"
       /\ UNCHANGED <<cursor, preemptedNow, received, reqVars, stale, dropStale, recvd, hashed, batchIds,
                      resets, connReqVars, jobTable, curVars, mgrVars, phase, unsub, storeQ,
                      loadQ, done, gpu, cpu, xfers>>

\* Mutant: the count of stale batches is not clamped.
UnclampedStale(r) == stale[r] - 1

StaleAfter(r) == MaxOf(stale[r] - 1, 0)

\* The output of one request.  It may stop if the batch completed its prompt,
\* unless it is finished already or its output is stale and to be dropped.
ProcessRequest(r, stop) ==
    LET p == CHOOSE p \in UNION {s.work : s \in out} : p.req = r
        dropped == stale[r] > 0 /\ dropStale[r]
    IN /\ pc = "output"
       /\ r \in todo
       /\ todo' = todo \ {r}
       /\ stop => r \in known /\ ~Finished(r) /\ ~dropped /\ p.to = Complete(r)
       /\ stale' = [stale EXCEPT ![r] = StaleAfter(r)]
       /\ IF stop THEN Finish(r, "stopped", FALSE)
          ELSE UNCHANGED <<reqVars, deferred, finishedIds, jobTable>>
       /\ UNCHANGED <<pc, cursor, preemptedNow, out, received, dropStale, recvd, hashed, sched,
                      preemptedIds, resets, connReqVars, curVars, mgrVars, workerVars,
                      steps, xfers>>

\* Then the transfers: todo holds the jobs some worker reported.
BeginTransfers ==
    /\ pc = "output"
    /\ todo = {}
    /\ todo' = UNION {s.reports[w] : s \in out, w \in Workers}
    /\ pc' = "complete"
    /\ UNCHANGED <<cursor, preemptedNow, out, received, reqVars, asyncVars, recvd, hashed, batchIds,
                   resets, connReqVars, jobTable, curVars, mgrVars, workerVars, steps, xfers>>

\* One job of update_connector_output: jobs from before a reset are skipped; a
\* job every worker reported is completed in the manager, its fences go, and a
\* finished request without transfers left is forgotten.
CompleteJob(j) ==
    LET reporters == {w \in Workers : \E s \in out : j \in s.reports[w]}
        left == xfers[j].left \ reporters
        isLast == jobs[j].pending = Cardinality(reporters)
        r == jobs[j].req
    IN /\ pc = "complete"
       /\ j \in todo
       /\ todo' = todo \ {j}
       /\ xfers' = IF left = {} THEN Minus(xfers, {j}) ELSE [xfers EXCEPT ![j].left = left]
       /\ IF xfers[j].stale
          THEN UNCHANGED <<jobTable, tracked, mgrVars>>
          ELSE IF ~isLast
          THEN /\ jobs' = [jobs EXCEPT ![j].pending = @ - Cardinality(reporters)]
               /\ UNCHANGED <<fences, beingLoaded, tracked, mgrVars>>
          ELSE /\ IF jobs[j].store THEN Mgr!StoredEffect(jobs[j].keys)
                  ELSE Mgr!CompleteLoadEffect(jobs[j].keys)
               /\ beingLoaded' = IF jobs[j].store THEN beingLoaded ELSE beingLoaded \ jobs[j].keys
               /\ fences' = IF Finished(r) THEN {f \in fences : f[2] # j} ELSE fences
               /\ jobs' = Minus(jobs, {j})
               /\ tracked' = IF r \in finSignaled /\ TransferJobs(r) = {j}
                             THEN tracked \ {r} ELSE tracked
       /\ received' = IF ~xfers[j].store /\ left = {} THEN received \cup {xfers[j].req}
                      ELSE received
       /\ UNCHANGED <<pc, cursor, preemptedNow, out, reqVars, asyncVars, recvd, hashed, batchIds,
                      resets, blockIds, nextStored, finSignaled, curVars, workerVars, steps>>

\* _update_from_kv_xfer_finished: a request whose load every worker reported can
\* be resumed; if it was aborted meanwhile, its blocks are freed now.
EndOutput ==
    LET aborted == {r \in received \cap known : Finished(r)}
    IN /\ pc = "complete"
       /\ todo = {}
       /\ recvd' = recvd \cup {r \in received \cap known : status[r] = "remote"}
       /\ FreeRequestBlocks(aborted)
       /\ known' = known \ aborted
       /\ received' = {}
       /\ out' = {}
       /\ pc' = "idle"
       /\ UNCHANGED <<todo, cursor, preemptedNow, status, computed, running, stale, dropStale,
                      hashed, batchIds, resets, connReqVars, jobTable, curVars, mgrVars,
                      workerVars, steps, xfers>>

-----------------------------------------------------------------------------

ScheduleStep ==
    \/ BeginSchedule \/ ScheduleRunning \/ PreemptForBlocks \/ TryWaiting
    \/ \E r \in Reqs :
         \/ Promote(r) \/ SkipBlocked(r) \/ DeferLookup(r)
         \/ AdmitLoad(r) \/ AdmitRunning(r) \/ AdmitFails(r)
    \/ EndSchedule
    \/ BuildMeta \/ AssertionFails
    \/ \E r \in Reqs : NothingToStore(r) \/ StoreRefused(r) \/ Store(r)
    \/ Emit

OutputStep ==
    \/ BeginOutput
    \/ \E r \in Reqs, stop \in BOOLEAN : ProcessRequest(r, stop)
    \/ BeginTransfers
    \/ \E j \in JobIds : CompleteJob(j)
    \/ EndOutput

\* The workers move between the engine's steps.
WorkersStep ==
    /\ pc = "idle"
    /\ \E w \in Workers : WorkerStep(w)
    /\ UNCHANGED <<loopVars, reqVars, asyncVars, recvd, hashed, batchIds, resets, connReqVars,
                   jobTable, curVars, mgrVars>>

Next ==
    \/ \E r \in Reqs : Arrive(r) \/ Abort(r)
    \/ Reset
    \/ ScheduleStep
    \/ OutputStep
    \/ WorkersStep
    \/ EngineFailed

Spec == Init /\ [][Next]_vars

-----------------------------------------------------------------------------

\* The copy engines and the workers run at all times: that they move only
\* between the engine's steps is how the steps are grouped, so a copy that can
\* be made again and again is made.  The engine steps while it has_requests.
Fairness ==
    /\ WF_vars(ScheduleStep \/ OutputStep)
    /\ \A w \in Workers :
         /\ WF_vars(WorkersStep /\ (SubmitStores(w) \/ SubmitLoads(w) \/ RunModel(w) \/ Report(w)))
         /\ SF_vars(WorkersStep /\ StoreTransfer(w))
         /\ SF_vars(WorkersStep /\ LoadTransfer(w))

FairSpec == Spec /\ Fairness

-----------------------------------------------------------------------------
(***************************************************************************)
(* Properties.                                                             *)
(***************************************************************************)

TypeOK ==
    /\ WorkerTypeOK
    /\ pc \in {"idle", "running", "waiting", "build", "stores", "output", "complete",
              "failed"}
    /\ todo \subseteq Reqs \/ (pc = "complete" /\ todo \subseteq JobIds)
    /\ status \in [Reqs -> {"absent", "waiting", "remote", "running", "stopped", "aborted"}]
    /\ known \subseteq Reqs /\ tracked \subseteq Reqs /\ finSignaled \subseteq Reqs
    /\ computed \in [Reqs -> Nat] /\ \A r \in Reqs : computed[r] <= Complete(r)
    /\ held \in [Reqs -> Seq(Blocks)] /\ blockIds \in [Reqs -> Seq(Blocks)]
    /\ hashed \in [Blocks -> Keys \cup {NoKey}]
    /\ stale \in [Reqs -> 0..MaxBatches]
    /\ DOMAIN jobs \subseteq DOMAIN xfers /\ DOMAIN xfers \subseteq JobIds
    /\ fences \subseteq Blocks \X DOMAIN jobs
    /\ beingLoaded \subseteq Keys
    /\ Len(steps) <= MaxBatches

\* No request is ever computed from a wrong prefix: when the model runs, every
\* GPU block below the request's computed tokens holds the KV of its own key,
\* whether it was computed, shared with another request or loaded from the host.
NoGarbageComputed == \A w \in Workers, b \in Blocks : gpu[w][b] # Garbage

\* A key the manager would let anybody load has its own data in its CPU slot, on
\* every worker: no store is read before it is done, and none copies a GPU block
\* that was given away in between.
ReadyKeysHoldTheirData ==
    \A k \in Mgr!Present, w \in Workers :
       Mgr!IsReady(k) => cpu[w][blocks[k].id] = k

\* Batches worker w still has to run.
Ahead(w) == {i \in DOMAIN steps : i > pos[w] /\ (i = pos[w] + 1 => phase[w] # "ran")}

\* A GPU block cached under a key holds its data, or a batch the worker has not
\* run yet, or the one being built, will write it: a prefix hit never shares a
\* block whose load or computation was dropped.
CachedBlocksHoldTheirData ==
    \A b \in {b \in Blocks : hashed[b] # NoKey}, w \in Workers :
       \/ gpu[w][b] = hashed[b]
       \/ <<b, hashed[b]>> \in UNION {WrittenTo(steps[i].work) : i \in Ahead(w)}
       \/ \E r \in DOMAIN sched :
            \E i \in (sched[r].from + 1)..MinOf(sched[r].to, NumChunks(r)) :
               held[r][i] = b /\ Prompt[r][i] = hashed[b]

SlotsOf(j) == {x.slot : x \in xfers[j].copies}

\* "CPU->GPU reads from host pinned memory, which is never written by a concurrent
\* GPU stream" (gpu_worker.py): while a load copies, the store that copies beside
\* it writes none of the slots the load reads.
LoadSourcesAreNotWritten ==
    \A w \in Workers : loadQ[w] # <<>> /\ storeQ[w] # <<>> =>
       SlotsOf(Head(loadQ[w])) \cap SlotsOf(Head(storeQ[w])) = {}

\* While a load is in flight its target blocks belong to its request alone and
\* are cached under no key: an abort or a reset never frees them early.
LoadsOwnTheirTargets ==
    \A j \in DOMAIN xfers : ~xfers[j].store =>
       \A c \in xfers[j].copies :
          /\ c.block \in Range(held[xfers[j].req])
          /\ \A r \in Reqs \ {xfers[j].req} : c.block \notin Range(held[r])
          /\ hashed[c.block] = NoKey

\* A completion that update_connector_output does not skip as stale finds its job
\* and the state of its request: neither is dropped while a worker has the job.
CompletedJobsAreKnown ==
    \A j \in DOMAIN xfers : ~xfers[j].stale =>
       /\ j \in DOMAIN jobs
       /\ jobs[j].req \in tracked
       /\ jobs[j].pending = Cardinality(xfers[j].left)

\* When the last request is gone and its transfers are done, nothing is left
\* behind: no request state, fence, pinned or half-written CPU block, and every
\* GPU block is free.
QuiescenceLeavesNothing ==
    (pc = "idle" /\ steps = <<>> /\ ~HasRequests) =>
       /\ tracked = {} /\ fences = {} /\ beingLoaded = {}
       /\ Mgr!Idle = Mgr!Present
       /\ FreeBlocks = Blocks

\* The connector drives the manager as CPUOffloadingManager lets it be driven:
\* Mgr!Spec, with the steps that leave the manager alone tested first.
ImplementsManager ==
    Mgr!Init /\ [][UNCHANGED Mgr!vars \/ Mgr!Next]_(Mgr!vars)

\* "Preemptions only need to flush stores" (the assertion in
\* build_connector_meta): a preempted request never has a load in flight.
PreemptionsOnlyFlushStores == pc # "failed"

\* "reset_cache cannot be called in the middle of a schedule step": whenever a
\* reset reaches the connector between two steps, its asserts find no batch.
ResetFindsNoBatch == [][resets' # resets => BatchIsEmpty]_vars

\* Every transfer job is completed or dropped by a reset in the end, also when no
\* request is left to schedule.
JobsEnd == \A j \in JobIds : j \in DOMAIN jobs ~> j \notin DOMAIN jobs

\* A finished request is forgotten and its GPU blocks come back: no load or
\* batch in flight keeps them forever.
FinishedRequestsGoAway == \A r \in Reqs :
    Finished(r) ~> (~Finished(r) \/ (r \notin known \cup tracked /\ deferred = <<>>))

=============================================================================

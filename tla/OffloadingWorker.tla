---------------------------- MODULE OffloadingWorker ----------------------------
(***************************************************************************)
(* The worker side of the offloading connector (offloading/worker.py) and   *)
(* the two copy engines under it (kv_offload/cpu/gpu_worker.py).            *)
(*                                                                         *)
(* The scheduler appends a step to `steps` for each batch it emits; every    *)
(* worker runs them in order.  In one step a worker                         *)
(*   - submits the stores it put off in the previous step, and those of this  *)
(*     step that must be flushed, then waits for the jobs to flush           *)
(*     (handle_preemptions);                                               *)
(*   - submits the step's loads (start_kv_transfers), runs the model, which   *)
(*     writes KV data to GPU blocks, and puts off the step's stores to the    *)
(*     next step (prepare_store_kv);                                        *)
(*   - reports the transfers that are done (get_finished).                   *)
(* Each direction copies its jobs one after the other; the two directions     *)
(* and the model run concurrently.  A transfer waits for the model work       *)
(* queued before it, so the model's writes are atomic here.                  *)
(*                                                                         *)
(* The data of a block is the key it holds the KV of, NoKey when it is        *)
(* anything else, and Garbage when the model computed it from a prefix that   *)
(* was not in place.                                                       *)
(***************************************************************************)
EXTENDS OrderedKeys

CONSTANTS
    Keys,      \* keys of full blocks; a key names the whole prefix up to its block
    Reqs,      \* request slots
    Prompt,    \* request -> the keys of its full blocks
    Blocks,    \* GPU blocks
    NumSlots,  \* CPU slots
    JobIds,    \* transfer job ids
    Workers,
    NoKey, Garbage

VARIABLES
    steps,   \* batches emitted and not yet processed by the scheduler, oldest first
    xfers,   \* job id -> the copies a worker performs for it
    pos,     \* steps[1..pos[w]] are done on worker w
    phase,   \* where worker w is in its current step
    unsub,   \* _unsubmitted_store_jobs
    storeQ,  \* GPU->CPU transfers submitted and not done, in order
    loadQ,   \* CPU->GPU transfers submitted and not done, in order
    done,    \* transfers done and not reported
    gpu,     \* data of every GPU block
    cpu      \* data of every CPU slot

workerVars == <<pos, phase, unsub, storeQ, loadQ, done, gpu, cpu>>

Slots == 0..(NumSlots - 1)
NumChunks(r) == Len(Prompt[r])

\* Progress of a request: the full blocks computed, and one more once the
\* prompt's last, partial block is computed too.
Complete(r) == NumChunks(r) + 1

WorkerInit ==
    /\ pos = [w \in Workers |-> 0]
    /\ phase = [w \in Workers |-> "idle"]
    /\ unsub = [w \in Workers |-> <<>>]
    /\ storeQ = [w \in Workers |-> <<>>]
    /\ loadQ = [w \in Workers |-> <<>>]
    /\ done = [w \in Workers |-> {}]
    /\ gpu = [w \in Workers |-> [b \in Blocks |-> NoKey]]
    /\ cpu = [w \in Workers |-> [s \in Slots |-> NoKey]]

\* The step worker w is in, or the next one it will run.
Current(w) == steps[pos[w] + 1]

-----------------------------------------------------------------------------

\* handle_preemptions, up to the wait.
SubmitStores(w) ==
    /\ phase[w] = "idle"
    /\ pos[w] < Len(steps)
    /\ storeQ' = [storeQ EXCEPT ![w] =
                    @ \o unsub[w] \o Within(Current(w).stores, Current(w).flush)]
    /\ unsub' = [unsub EXCEPT ![w] = <<>>]
    /\ phase' = [phase EXCEPT ![w] = "flushing"]
    /\ UNCHANGED <<steps, xfers, pos, loadQ, done, gpu, cpu>>

\* The KV the model writes for one scheduled request: blocks from+1 .. to of its
\* prompt, which for the last, partial block (and decoding) is no full block.
Writes(p) == {<<p.blocks[i], Prompt[p.req][i]>> : i \in (p.from + 1)..NumChunks(p.req) \cap 1..p.to}
             \cup {<<p.blocks[i], NoKey>> : i \in {Complete(p.req)} \cap 1..p.to}

WrittenTo(work) == UNION {Writes(p) : p \in work}

\* The data after the model ran, provided every request found its prefix.
AfterForward(w, work) ==
    [b \in Blocks |-> IF \E d \in WrittenTo(work) : d[1] = b
                      THEN (CHOOSE d \in WrittenTo(work) : d[1] = b)[2]
                      ELSE gpu[w][b]]

PrefixInPlace(w, work, p) ==
    \A i \in 1..p.from : i <= NumChunks(p.req) =>
        AfterForward(w, work)[p.blocks[i]] = Prompt[p.req][i]

\* start_kv_transfers, once the jobs to flush are done.
SubmitLoads(w) ==
    /\ phase[w] = "flushing"
    /\ Current(w).flush \cap (Range(storeQ[w]) \cup Range(loadQ[w])) = {}
    /\ loadQ' = [loadQ EXCEPT ![w] = @ \o Current(w).loads]
    /\ phase' = [phase EXCEPT ![w] = "loading"]
    /\ UNCHANGED <<steps, xfers, pos, unsub, storeQ, done, gpu, cpu>>

\* The forward pass and prepare_store_kv.
RunModel(w) ==
    LET step == Current(w)
        spoilt == {d[1] : d \in WrittenTo({p \in step.work : ~PrefixInPlace(w, step.work, p)})}
    IN /\ phase[w] = "loading"
       /\ gpu' = [gpu EXCEPT ![w] = [b \in Blocks |-> IF b \in spoilt THEN Garbage
                                                      ELSE AfterForward(w, step.work)[b]]]
       /\ unsub' = [unsub EXCEPT ![w] =
                      Without(step.stores, step.flush)]
       /\ phase' = [phase EXCEPT ![w] = "ran"]
       /\ UNCHANGED <<steps, xfers, pos, storeQ, loadQ, done, cpu>>

\* get_finished and build_connector_worker_meta.
Report(w) ==
    /\ phase[w] = "ran"
    /\ steps' = [steps EXCEPT ![pos[w] + 1].reports[w] = done[w]]
    /\ done' = [done EXCEPT ![w] = {}]
    /\ pos' = [pos EXCEPT ![w] = @ + 1]
    /\ phase' = [phase EXCEPT ![w] = "idle"]
    /\ UNCHANGED <<xfers, unsub, storeQ, loadQ, gpu, cpu>>

\* The oldest submitted GPU->CPU transfer copies its blocks.
StoreTransfer(w) ==
    /\ storeQ[w] # <<>>
    /\ LET j == Head(storeQ[w])
       IN /\ cpu' = [cpu EXCEPT ![w] =
                       [s \in Slots |->
                          IF \E c \in xfers[j].copies : c.slot = s
                          THEN gpu[w][(CHOOSE c \in xfers[j].copies : c.slot = s).block]
                          ELSE cpu[w][s]]]
          /\ done' = [done EXCEPT ![w] = @ \cup {j}]
    /\ storeQ' = [storeQ EXCEPT ![w] = Tail(@)]
    /\ UNCHANGED <<steps, xfers, pos, phase, unsub, loadQ, gpu>>

\* The oldest submitted CPU->GPU transfer copies its blocks.
LoadTransfer(w) ==
    /\ loadQ[w] # <<>>
    /\ LET j == Head(loadQ[w])
       IN /\ gpu' = [gpu EXCEPT ![w] =
                       [b \in Blocks |->
                          IF \E c \in xfers[j].copies : c.block = b
                          THEN cpu[w][(CHOOSE c \in xfers[j].copies : c.block = b).slot]
                          ELSE gpu[w][b]]]
          /\ done' = [done EXCEPT ![w] = @ \cup {j}]
    /\ loadQ' = [loadQ EXCEPT ![w] = Tail(@)]
    /\ UNCHANGED <<steps, xfers, pos, phase, unsub, storeQ, cpu>>

WorkerStep(w) ==
    \/ SubmitStores(w)
    \/ SubmitLoads(w)
    \/ RunModel(w)
    \/ Report(w)
    \/ StoreTransfer(w)
    \/ LoadTransfer(w)

WorkerTypeOK ==
    /\ pos \in [Workers -> 0..Len(steps)]
    /\ phase \in [Workers -> {"idle", "flushing", "loading", "ran"}]
    /\ unsub \in [Workers -> Seq(JobIds)]
    /\ storeQ \in [Workers -> Seq(JobIds)]
    /\ loadQ \in [Workers -> Seq(JobIds)]
    /\ done \in [Workers -> SUBSET JobIds]
    /\ gpu \in [Workers -> [Blocks -> Keys \cup {NoKey, Garbage}]]
    /\ cpu \in [Workers -> [Slots -> Keys \cup {NoKey, Garbage}]]
=============================================================================

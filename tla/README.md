# TLA+ models of the KV-cache offload stack

The repository serves GLM-5.3-Flash with vLLM on two GPUs. Most of what it adds
is a set of vLLM overlays under `src/patches/`. The part with a protocol in it
is the **KV-cache offload**: a scheduler that shares GPU blocks between requests
by their prefix, a connector that copies full blocks to a host-RAM tier and back,
workers that perform the copies next to the model, and behind the host-RAM tier
slower tiers (files, other engines) with threads and sessions of their own. These
modules model that part, check it with TLC and prove most of it with TLAPS.

Short names used below:

| name | file |
|---|---|
| scheduler | `src/patches/cstech-mamba-interval/sched_scheduler.partial-tail.py` |
| connector | `src/patches/cstech-offload/scheduler.partial-tail.py` |
| worker | `src/patches/cstech-offload/upstream.pristine/offloading/worker.py` |
| copy engines | `.../upstream.pristine/kv_offload/cpu/gpu_worker.py` |
| manager | `.../upstream.pristine/kv_offload/cpu/manager.py` |
| policies | `.../upstream.pristine/kv_offload/cpu/policies/{base,lru,arc}.py` |
| kv managers | `src/patches/cstech-partial-tail/single_type_kv_cache_manager.py` |
| coordinator | `src/patches/cstech-coord/kv_cache_coordinator.py` |
| runner | `src/patches/cstech-mamba-interval/mamba_hybrid.py` |
| tiering | `.../upstream.pristine/kv_offload/tiering/{base,manager,async_lookup}.py` |
| fs tier | `.../kv_offload/tiering/fs/{manager,thread_pool,io}.py` |
| p2p tier | `.../kv_offload/tiering/p2p/manager.py`, `p2p/session/{client,server,session}.py` |

## 1. Inventory

### The engine core (one thread)

**Scheduler.** State: the waiting and running queues, every request's status and
number of computed tokens, its GPU blocks, the batches in flight, blocks whose
release is deferred, requests whose load has arrived. Operations: `add_request`,
`finish_requests`, `schedule`, `update_from_output`, `reset_prefix_cache`,
`has_requests`. It calls the connector inside `schedule` (lookup, after
allocation, end of the batch), in `update_from_output` (completions) and when a
request finishes. *Correct when* the model is only ever run for a request whose
whole prefix is in its blocks; when no block in use, or about to be written, is
given to somebody else; and when every finished request gives its blocks back.

**Connector, scheduler side.** State: one record per request (`_req_status`), the
transfer jobs (`_jobs`), the fences from GPU blocks to the stores that still read
them, the chunks being loaded, and the collections of the batch being built.
Operations: `on_new_request`, `get_num_new_matched_tokens`,
`update_state_after_alloc`, `build_connector_meta`, `update_connector_output`,
`request_finished`, `reset_cache`. *Correct when* a stored key holds the data of
its prefix, a load reads only completed stores, a block is never reused under a
copy that still needs it, and no record outlives its use.

**CPU manager and policies.** State: key -> (ref count, slot), a free list, a
count of slots ever used, two cached counters, and the order kept by the policy.
Operations: `lookup`, `prepare_load`, `complete_load`, `prepare_store`,
`complete_store`, `touch`, `reset_cache`. *Correct when* slots are never shared or
lost, a block in use by a job stays where it is, the counters are exact, and the
policy finds a victim whenever there is one.

**KV-cache managers and coordinator.** State: block tables and the hash of each
cached block. Operations: prefix lookup, allocation, caching of full blocks. A
mamba block holds one recurrent state that the runner overwrites as the request
advances. In "align" mode a prefill is cut into chunks that end where a state is
worth keeping (`_mamba_block_aligned_split`); the state at the last hash boundary of
a prompt is registered although its block is not full (the *partial tail*), and who
hits it, or goes on writing over it, does so in a copy. *Correct when* the hit
length of all groups agrees, every registered block holds the state of exactly its
position, nobody writes into a state that others can hit, a prompt that goes on from
one already prefilled finds its tail, and no position is one from which a step cannot
advance.

### The workers (one process per GPU)

State: stores put off to the next step, two queues of transfers (GPU to CPU and
back), transfers done and not reported. In each batch a worker submits the stores
put off earlier, waits for the jobs the scheduler wants flushed, submits the
loads, runs the model and reports what is done. *Correct when* the copies see the
data the scheduler thinks they see.

### The tiers behind the host RAM

They are not enabled by the shipped recipe, but the connector's code is written
against them.

**Tiering manager.** It has the interface of the manager, with the CPU manager as its
primary tier. State: transfers submitted to a tier and not collected (`_jobs`),
promotions of the step being built, per request the stores in flight and whether it
is finished. A lookup that misses asks the tiers in order; a hit there starts a
promotion into the primary tier, and the request waits. A store that completes
cascades to every tier. Finished jobs are collected once per step, by the first
call that needs room. *Correct when* a promotion that fails halfway publishes
exactly what it read, slots are pinned while a tier reads or fills them, every job
is collected once, tiers are told once that a request is over, and after that get
no work for it.

**Asynchronous lookup.** One thread per tier probes files in batches. State: a verdict
per key with the requests that asked, two queues. *Correct when* verdicts are
forgotten with the last request that wants them, and a promotion that failed is not
tried again for ever.

**File-system tier.** Per tier a pool with two queues and two kinds of threads; a job is
copied block by block and ends at the first error. *Correct when* files and slots
hold the data of their keys, and `wait_idle` means that no thread copies.

**Peer-to-peer tier.** A client role asks a peer which blocks it has (or takes it for
granted, with a remote prefiller), fetches them in *rounds*, and gives up with an abort
after a timeout. A server role matches blocks it stored or looked up (supply) with
fetches (demand), and writes them into the client's memory. *Correct when* a load
that succeeds was written completely, no transfer touches the memory of a load that
was answered, and every load is answered.

**Object-store tier** (the file-system tier's contract over an external library) and the
**shared mmap region** (set up once at start). Model code, quantised layers, layout
arithmetic, tools and the start script keep no protocol state.

### What is hard here

* a store is put off by a step and reads GPU blocks that may be free already;
* several workers report one job at different times, in different batches;
* with asynchronous scheduling a second batch is emitted before the output of the
  first is known, so blocks are freed late and outputs are stale;
* aborts, preemptions and three kinds of cache reset happen while copies run;
* counters and lists are kept beside the state they summarise;
* probes, promotions and cascades end in threads at any time, and are seen by the
  engine a step later;
* chunk ends, hash boundaries, attention and mamba blocks have four different sizes,
  and states are shared, moved and copied at the boundaries;
* a peer's answers, its transfers, timeouts and a lost connection race each other.

`PROJECT.json` lists these hazards at their lines, with the properties that cover them.

## 2. Modules

| module | models |
|---|---|
| `OffloadStore` | the contract of `OffloadingManager` in `kv_offload/base.py`, without slots or policy |
| `CPUOffloadingManager` | the manager, with any choice of victims a policy may make |
| `OrderedKeys` | the keys of an `OrderedDict`, or a list, as a sequence, and what deleting some leaves |
| `LRUManager`, `ARCManager` | the manager with each policy |
| `OffloadingWorker` | the workers, their copy engines, and the data in GPU blocks and CPU slots |
| `OffloadingConnector` | scheduler + connector + manager, driving the workers |
| `PrefixCache` | the chunk split, the mamba manager block by block, registered attention hashes, the coordinator's lookup, the states the runner writes |
| `AsyncLookup` | the verdict tables and lookup threads |
| `FsThreadPool` | the thread pools, files and slots of the file-system tiers |
| `TieringManager` | the tiering manager over its primary tier, driven by a simplified connector |
| `P2PClient`, `P2PServer` | what the methods of the two roles do to their state |
| `P2PSession` | the two roles on two engines, the channels and transfers between them |
| `MC*` | instances for TLC |
| `DataProofs` | lemmas about data: induction and recursion over numbers and finite sets, ordered lists |
| `CPUOffloadingManagerProofs` | theorems about the manager with any policy |
| `PolicyProofs` | theorems about the two policies, and that each is one the manager allows |
| `PrefixCacheProofs` | theorems about the states of mamba blocks and about chunks |
| `TieringManagerProofs` | theorems about the tiering manager, its pools, files and verdicts |
| `P2PSessionProofs` | theorems about the loads of a peer-to-peer request |
| `OffloadingConnectorProofs` | theorems about the scheduler, the connector and the workers: types, completions, the manager driven as it may be |
| `OffloadingOwnershipProofs` | theorems about who owns the blocks of a load, and what is left when the engine is idle |

`OffloadingConnector` EXTENDS `OffloadingWorker` and INSTANCEs
`CPUOffloadingManager`, whose job variables it computes from its own job table
(`JobLoads`, `JobStores`); `CPUOffloadingManager` INSTANCEs `OffloadStore` with a
refinement mapping. So one chain of implementation runs from the engine down to
the contract: `ImplementsManager` and `ImplementsStore`, both checked and proved; from the policies' side, `LRUImplementsStore` and `ARCImplementsStore` are
proved. `TieringManager` INSTANCEs `AsyncLookup` and `FsThreadPool`, `P2PSession`
INSTANCEs `P2PClient` and `P2PServer`; each composition adds the interleaving.

### State and actions

*Manager.* `blocks`, `freeList`, `numAllocated`, `numEvictable` and `numPending`
are the code's attributes; `loads` and `stores` say what the callers have in
flight, so that preconditions the code states in docstrings ("the blocks were
looked up") are guards. Each method is one action; its effect is an operator of
its own (`PrepareStoreEffect`, ...) which the connector model reuses.
`prepare_store` that returns nothing changes nothing and is no action.

*Scheduler and connector.* `schedule()` and `update_from_output()` are sequences of
actions ordered by `pc`, one per request or job the code's loops handle:

| action | code |
|---|---|
| `Arrive`, `Abort` | `add_request` + `on_new_request`, `finish_requests` + `request_finished` |
| `ScheduleRunning`, `PreemptForBlocks` | the loop over the running requests |
| `Promote`, `SkipBlocked`, `DeferLookup`, `AdmitLoad`, `AdmitRunning`, `AdmitFails` | the loop over the waiting requests, by outcome |
| `BuildMeta`, `NothingToStore`, `StoreRefused`, `Store`, `Emit` | `build_connector_meta`, `_build_store_jobs` by outcome, `_update_after_schedule` |
| `AssertionFails` | the assertion in `build_connector_meta` raises |
| `BeginOutput`, `ProcessRequest`, `BeginTransfers`, `CompleteJob`, `EndOutput` | `update_from_output`, `update_connector_output`, `_update_from_kv_xfer_finished` |
| `ResetPrefixCache` | `reset_prefix_cache(reset_running_requests, reset_connector)`, exceptions included |
| `SubmitStores`, `SubmitLoads`, `RunModel`, `Report`, `StoreTransfer`, `LoadTransfer` | the worker's step and its copy engines |

The engine is one thread, so nothing else of the engine happens inside a
sequence. Workers run concurrently in the program; here they move between
sequences only. This loses nothing: until `Emit` appends the batch, or after
`BeginOutput` has taken it, a sequence reads or writes no variable a worker uses
except `xfers`, the record of copies still wanted, of which a worker reads only
entries already emitted.

*Data.* A GPU block or CPU slot holds the key whose KV it contains, `NoKey` or
`Garbage`. A key names a whole prefix (the code chains block hashes), so holding
the right key is holding the right data. The model writes `Garbage` for a request
whose earlier blocks do not hold its own keys when it runs; so one state
predicate, `NoGarbageComputed`, says that no request was ever computed from a
wrong prefix, however the wrong block came about.

*Prefix cache.* `Continue` and `Admit` are the scheduler's running and waiting branch
for one request: the chunk (`ChunkEnd`), then allocation and caching in all groups
(`Allocate`: trim, pad, copy on write, move of a hash to the copy, registration).
`Execute` is the runner: copies, then each request's state from the column of its last
token. `Preempt`, `Finish` and `Evict` (an attention block is taken) happen around
them. A state or hash is the prefix it stands for, `Key(r, n)`; running on a wrong state
writes `Garbage`.

*Tiering.* The engine's step is a sequence ordered by `stage`: `BeginStep`, for each
waiting request `StartScan` and one action per key looked up, by outcome
(`LookupInPrimary`, `LookupUndecided`, `LookupPromotes`, `LookupRefused`), then
`StayWaiting` or `Admit` (`prepare_load`); `OnScheduleEnd` (promotions are submitted,
the probes are sent); `BuildStore` / `BuildNoStore` for each request; `FinishMeta`
(`on_request_finished`). `CompleteLoad`, `CompleteStore`, `Arrive`, `Finish`,
`StartReset` / `ResetCache` lie between steps. The threads (`ProbeFiles`, `MoveBlocks`,
`Fault`) run at any moment, also inside a step and inside the reset's drain. An
assertion that fails ends the run (`LookupCrashes`, `AdmitCrashes`).

*Peer to peer.* `Schedule` and `ScheduleFetch` are one step of the client's engine for the
request; every message, timeout and transfer that `poll()` handles is an action of
its own (`ClientPoll`, `LoadTimeout`, `AckTimeout`, `OnFetch`, `OnLookup`, `OnAbort`,
`TransferDone`, `TransferFails`, `DrainAbort`, `Serve`). Channels keep order and lose
everything when the connection dies (`LoseConnection`), which each side finds out
by itself (`ClientReaps`, `ServerReaps`).

*Left open (any choice is allowed).* The token budget of a batch, the order in
which waiting requests are tried, which free GPU blocks are taken and which idle
keys evicted, when a request stops after its prompt.

*Abstractions.* Progress is counted in blocks; the last, partial block of a prompt
and everything decoded count as one more block without a key. Job ids only grow in
the code; the model takes an id again once nothing refers to it, and replaces the
comparison with the stale-job threshold by a mark (`stale`) set at the reset.
A request slot stands for a new request once nothing refers to its last one.

## 3. Runs

| run | instance | shows |
|---|---|---|
| `lru` | 4 keys, 3 slots, 3 jobs | the manager's invariants and its refinement of the store, under the LRU policy; the LRU list is exact; eviction takes only what it may and succeeds whenever it must |
| `arc` | 4 keys, 2 slots, 2 jobs, target in halves | lists and ghosts are consistent; eviction takes only what it may, and a one-block store of an idle cache succeeds |
| `connector_resets` | 2 requests (`<<a,b>>`, `<<a>>`), 3 GPU blocks, 2 CPU slots, 1 worker, 1 batch, one reset: of the GPU cache, of the running requests too, or of these and the connector | data integrity, ownership of load targets, clean quiescence, refinement of the manager |
| `connector_async` | the same with 1 CPU slot, 2 batches in flight, no reset | data integrity under asynchronous scheduling, with refused stores |
| `connector_live` | 1 request slot, 2 GPU blocks, 1 CPU slot, 2 workers, one reset | liveness, and that completions find their jobs |
| `connector_preempt` | that of `connector_resets`, one reset with the running requests | violated: see 5 |
| `connector_race` | 3 requests (`<<a>>`, `<<b>>`, `<<>>`), 3 GPU blocks, 1 CPU slot, 1 worker, one reset of the connector | violated: see 5 |
| `tiering` | 5 workloads of up to 2 requests, 3 keys, 1 or 2 slots, 1 or 2 tiers, 1 load and 1 store thread, at most one fault and one reset | data in slots and files, ref counts, jobs, verdicts, notices to the tiers; every waiting request is decided |
| `p2p` | 2 keys, 3 loads, 7 workloads in both modes with different faults | success means written, answered loads are quiet, no load is forgotten, every load is answered |
| `p2p_finish`, `p2p_rounds` | the same | violated: see 5 |
| `prefix` | hash, attention and mamba blocks of 2, 4 and 8 tokens, 5 mamba blocks, 9 workloads of 2 requests | states match their keys, running states are right, the tail serves the prompts that go on from it, no dead end |

**Why these bounds are enough to be interesting.** More keys than slots, so stores
evict, reuse slots in the wrong order if they can, and are refused. Two requests
that need three and two GPU blocks where three exist, so that one preempts the
other, they share a cached block, and freed blocks are given away while a store
still reads them. Two workers, so a job is half-reported. Two batches, so a block is
freed while a batch that writes it is in flight. Between them the passing runs fire
every action and every disjunct of the next-state relations; every property is
broken by a mutant of the code (`mutants` in `PROJECT.json`).

`tiering`: a prompt with a tail fills the primary tier, so a promotion needs the room
of what was promoted before; files lie on one tier or are spread over two; two
requests share a key, so that one asks while the other's probe or promotion is in
flight; a store is refused by a slot that is pinned. A fault is a read or write error,
a short or vanished file, or a probe that raises. `p2p`: the second key may be a hit, a
miss or undecided, so rounds differ in size; each workload combines two kinds of
trouble (preemption and timeout, abort without an answer, a lost connection, a failed
transfer, the eviction of a block the request waits with), which is what the code's races need. `prefix`: prompts of 10 to 21 tokens
end inside every kind of block and on a hash unit; chunks are narrower than a mamba block in some
workloads (the shipped configuration) and wider in others; EAGLE is on and off and
drops one or two hash units; texts are equal, or share a prefix that ends inside a
block; five blocks make requests take each other's.

Bounds that the code does not have: `MaxLoads`, `MaxOutputs`, the bounds in a
workload (`faults`, `resets`, `preempts`, `evictions`, ...), `MaxResets` (calls of `reset_prefix_cache`),
`JobIds` (jobs in flight at one time), and the sizes above. `MaxBatches` is the
code's `max_concurrent_batches`: 1, or 2 with asynchronous scheduling.

**Resets of the connector.** `reset_prefix_cache(reset_connector=True)` resets the connector
although requests hold GPU blocks and loads are in flight. What is in the blocks and slots after
that is not right in the code: `connector_race` shows where it starts (section 5). The data
properties are therefore checked under the other resets, including `reset_running_requests` with
`reset_connector`, which gets to the connector only when no GPU block is held, so no load is in
flight. Everything else about a connector reset beside transfers is covered:
`connector_live` resets it with jobs half reported, and the theorems about jobs, completions,
the manager, load targets and quiescence are of every kind of reset. `LoadSourcesAreNotWritten`
holds in the instances of `connector_resets` and `connector_async`, where it can be added
as an INVARIANT.

**Deadlock** is checked except in `tiering`, `p2p` and `prefix`, where requests run once
and the system stops when they are over (and in `tiering` when an assertion failed).

**Symmetry** is used for keys and jobs of the manager and for GPU blocks, which no
definition tells apart; never with a liveness property.

**Fairness.** *`connector_live`:* The engine core's busy loop
steps while `has_requests()`: weak fairness of `ScheduleStep \/ OutputStep`. A
worker executes each batch it receives without waiting for anybody except the
copies it flushes: weak fairness of each worker's steps. The copy engines run on
their own at all times, while the model groups engine steps into sequences during
which they stand still: a submitted copy is therefore enabled again and again
rather than always, and strong fairness says that it is made. Nothing is assumed of clients:
they may never abort, reset or send another request. *`tiering`:* the engine
steps while it has work (weak fairness of `Step`); the lookup threads and the pools'
threads run (weak fairness per tier, faults excluded: nobody is obliged to fail); a
worker's completions are enabled again and again, between steps, and in the end are
taken (strong fairness of `Report`, per request). *`p2p`:* both engines poll for ever,
because `has_pending_work` of the tier is always true; transfers end one way or the
other; a lookup the peer cannot decide now is decided in the end (strong fairness of
`Answer`, as its queue may be emptied in between). No timeout is assumed to fire.

## 4. Proofs

A theorem holds for every value of the constants that satisfies the assumptions of its
model, where a run checks one instance. The assumptions are what a model's definitions
need to make sense, and no more:

| model | assumed |
|---|---|
| manager, LRU | finitely many keys and jobs; a number of slots (`KeysAssumption`, `JobIdsAssumption`, `NumBlocksAssumption`) |
| ARC | also that the unit of the target is divisible by every list length (`ScaleAssumption`: the code's float, exactly) |
| prefix cache | finitely many requests; a hash unit smaller than an attention block smaller than a mamba block, each dividing the next, as in the shipped configuration (the coordinator asserts that hash units divide blocks); prompts of at least one token; `NoKey` is no key |
| tiering | finitely many requests; each workload has a tier, and prompts whose chunks differ (block hashes are chained); files hold keys; `NoKey` and `Garbage` are no keys |
| sessions | finitely many keys; a number of loads; a prompt is a sequence of keys (`KeysAssumption`, `MaxLoadsAssumption`, `WorkloadsAssumption`) |
| connector | job ids are numbers, finitely many at a time; finitely many workers, at least one, and keys; a number of CPU slots and of batches in flight; `NoKey` is no key; a prompt is a sequence of keys, none twice, as a block's hash covers its whole prefix |

### What is proved

**Manager** (`CPUOffloadingManagerProofs`): every invariant of the manager, with any victims
a policy may choose (the `lru` run checks them with LRU's):
(`TypeCorrect`, `ExclusiveSlots`, `NoLeaks`, `ExactCounters`, `ExactRefCounts`,
`JobBlocksStay`); `SlotsStayPut`, that no step but a reset moves or evicts a block a job is
using; `Refinement`, that it implements the contract of `base.py`.

None of these invariants is inductive alone. That slots stay exclusive needs that a
fresh slot is not in use (`NoSlotLeaks` with the count of slots handed out); that an
evicted block is in nobody's way needs exact reference counts; that those stay exact
when a load completes needs that a job's keys are all present and ready
(`JobsHoldTheirBlocks`); and the exact counters need the types. Their conjunction `Inv`
is inductive. There is one lemma per action (`PrepareLoadInv` ... `ResetCacheInv`) with
one step per conjunct. The hard one is `PrepareStore`: `StoreShape` and
`FreedListExclusive` describe the free list after the victims are put back,
`NewSlotsExclusive` shows that the new keys get pairwise different slots that no surviving
key holds, and `SubsetDifference` / `DisjointUnion` do the counting for the two cached
counters. `Refinement` maps each action to one of the store (`NextRefines`); the capacity
conjunct of `StartWrite` follows from exclusive slots (`Fits`: the present keys inject into
the slots).

**Policies** (`PolicyProofs`). The manager's theorems hold for any
choice of victims that respects `CanEvict`. `LRUEvictionContract` and `ARCEvictionContract`
prove that each policy's `evict` respects it, and succeeds when it has to (LRU: whenever
enough idle blocks exist; ARC: for one block of a cache with an idle block, see 5).
They rest on the lists being exact: LRU's list has every idle block once (`ListIsExact`);
ARC's t1 and t2 split the cache and the ghosts are bounded and not cached (`ListsAreExact`),
through every branch of `touch` and through the demotions of a store. `touch` and `evict`
are loops; the invariant of the loop is a set (`Lists`, `Taken`) and the loop a function on
0..n that stays in it. `LRUImplementsManager`, `LRUImplementsStore` and the two for ARC
conclude that the manager with each policy is the manager, and the store.

**Prefix cache** (`PrefixCacheProofs`): `RegisteredStatesMatch` and `RunningStatesAreTheirs`,
that a registered mamba block holds the state of exactly its prefix and that every
running request finds its own; `NoChunkIsStuck`, that no position and no budget of a whole
step leaves an empty chunk.

The invariant `PInv` has to say what becomes true only when the runner has run. A request
in the batch owns its *home*, the block of the state it will reach (`Homes`: nobody else's
table has it if it will be written), and that block is registered only as new in this step
or not at all; a block that is copied into gets one copy, from a block that holds the
right state unless a chunk writes over it (`Copies`); a chunk starts from a state that is
there already or arrives with a copy (`StartState`). Then `Execute` turns what is promised
into what is there. The case analysis of `Allocate` (same block, new block, copy on write,
copy whose hash moves) is in `Schedules`. `NoChunkIsStuck` is arithmetic over the chunk's
alignment, the stop at the tail's boundary and the junction.

**Tiering manager** (`TieringManagerProofs`): every safety property of the `tiering` run.
`ReadyKeysAreRight` and `FilesAreRight`, that slots and files hold the data of their keys
whatever fails; `TransfersKeepTheirSlots`; `TierCountsAreExact`; `EveryJobIsTracked`;
`NoVerdictIsLeftOver`; `TiersAreToldLast`, that a tier hears of a request's end once and of
nothing afterwards.

The invariant has two halves. `Books` accounts for the blocks: each block of the primary
tier is idle, filled by exactly one of a GPU store, a promotion under way and a promotion
not submitted yet, or read by as many loads and cascades as its count says (`Exact`); jobs
name the slots of their keys; a tier's jobs are each in exactly one place, queued, running
or finished (`Placed`); and what was copied so far is where it belongs (`CopiedTo`), so that
a promotion that fails publishes the part it read and no more. `Engine` says where
each request stands (`LifeOf`): the tiering manager keeps a record until the request is over
and its last store is done, the count of stores is exact, promotions wait only inside a
step and only for requests that are not over. `TiersAreToldLast` needs that half:
a cascade or a promotion always names a request with a record. The parts of `Books` take the
state as parameters, because a handler does several of these things in a row
(`complete_store`: ref counts, one cascade per tier, the record's count; the promotions
of `on_schedule_end`: one job per tier and request), and each is a lemma about an
intermediate state.

**Sessions** (`P2PSessionProofs`): `SuccessHolds`, that a load that ends well has every block,
read while it was pinned, and `PromisesHold`, that no load in flight is forgotten while the
connection lives, for any prompts and any number of faults.

Success is decided by the server from a count (`remaining`), told in a message that names
only a round, and a round number is used again once the client's entry was pruned
(`_maybe_prune`). So `Inv` has to follow a load from its fetch to its answer: while the fetch
is on its way it is the load's only trace (`Asked`); while the round is open its count is the
number of blocks the load lacks, its demand and its live transfers are disjoint parts of what
is lacking (`Shares`, `Pins`), and no answer of it is on its way (`Served`); an answer comes
once, after the last transfer of its load, and with success only if the load is complete
(`Answers`). What a cancelled transfer still writes belongs to a load that no open round
serves. A number can be used again because, as long as the request can start loads,
everything under way is of loads it still waits for (`Current`): the client gives up loads
without an answer only when the request finishes, fails or loses its session, and
`_failed_req_ids` and the closed session keep it from fetching again. `Held` says that jobs
of open rounds pin their blocks; it is given up when a store timed out, as the property is.

A handler of the server changes its state in several steps (supply, transfer, finalize,
send), a serve or a bind does so for a list of lookups or batches. `Sound` is therefore
stated of any server state with what it sent so far, and shown to survive each of the steps
(`Supplies`, `Starts`, `Brings`, `Shrinks`, `Posts`); the loops are recursive functions
(`ReplayedLoop`, `ServedLoop`). `Keeps` says that a handler leaves every open round open, or
its abort pending, or tells its end, from which `PromisesHold` follows.

**Connector** (`OffloadingConnectorProofs`), for any requests and prompts, GPU blocks, CPU slots,
workers and jobs, any number of batches in flight and of resets, preemptions and aborts:
`TypeCorrect`; `KnownCompletions`, that a completion which is not skipped as stale finds its
job with exactly the workers that still owe it, and the state of its request;
`DrivesManager`, that the scheduler, the connector and the workers together use the manager
as its clients may, so that with `Refinement` the engine implements the store.

What makes a completion safe is far from the table it looks up. `CompleteJob` subtracts the
workers that report a job from a counter, and `complete_load` and `complete_store` of the
manager may be called once per job: no worker may report a job twice, nor one the scheduler
has dropped, though a worker names a job in up to nine places, stores are put off for a
batch, flushed by a preemption or a reset, and ids are used again. `PlacesOK` says that for
each worker there is an assignment `at` of one place to each job: whoever names a job finds
it there, and the job is then in the table with that worker among those it waits for
(`Expected`). Each step of a worker or the engine moves some jobs from one place to another
(`Moved`); as batches are numbered from the oldest in flight, taking one off the queue
shifts the places of all others. The rest of `Inv` says where the loops of `schedule()` and
`update_from_output()` stand (`LoopsOK`: only reported jobs are completed, no batch is
built beyond the bound), that running and waiting requests are known (`MembersOK`), that the
job table is the transfers that are not stale, for requests with a record (`TableOK`), that
fences name jobs of finished requests (`FencesOK`), that no more batches
of a request are ignored than are in flight (`StaleOK`) and that what is left to store was scheduled or is
finished (`TurnsOK`). The manager's own invariant, of `CPUOffloadingManagerProofs`, is a part
of it, with the jobs of the table for its clients (`MP`): a store of the connector fits
because the manager's slots add up, and in return the manager keeps its invariant because
`ManagerStep` maps every step of the engine to one of its actions or a stutter.

`Changes` states once which actions can change which variables, so that a part of the
invariant is only proved of the actions that disturb it. Actions with many assignments are
reduced to what matters first (`AdmittedLoad`, `MadeStore`, `CompletedJob`, `SubmittedStores`
...), with their existential quantifiers in front.

**Ownership** (`OffloadingOwnershipProofs`), on top of that invariant: `OwnedTargets`, that the
blocks a load writes are its request's alone and are found by no prefix hit, and `QuietEngine`,
that nothing is left behind when the last request is gone.

A load writes into GPU blocks long after `schedule()` chose them, so whatever frees blocks in
between must not free these: a preemption, an abort, the end of a batch, a reset. `OwnInv` says
why none does. The request of a load in flight is known, waits in `WAITING_FOR_REMOTE_KVS` or
is finished with its blocks kept, is not in `finished_recving_kv_req_ids`, and has no other load
(`LoadsOK`); that it is there for one load only needs that `get_num_new_matched_tokens` puts a
request off while it has transfers, and that a job a reset dropped still keeps its request
waiting. A waiting request must not be stopped by the output of a batch from before its
preemption, which would free its blocks at once; it is not, because the outputs to come of a
request that waits are all counted as stale (`FlightsOK`) and a request is admitted with a load
only if they are dropped (`RemoteOK`). Counting them needs that a batch has a request once and
that what is scheduled is running and behind the cursor (`SchedOK`), so that a preemption never
takes a request the batch being built already has. A request that is
told that its load is done waits for it still (`RemoteOK`), so that its blocks are cached only
after the last worker wrote them.

What is left when the engine is idle is the other half: a request that is gone has no blocks
(`HeldOK`), blocks freed late wait for batches that are in flight, and so for nothing when there
are none (`AgingOK`), a finished request is tracked only until it has been announced and its last job
is done (`TrackedOK`), and a key is said to be loaded only while a job loads it
(`BeingLoadedOK`). That no CPU slot stays pinned follows from the manager's exact
reference counts.

**Data** (`DataProofs`). The library's induction theorems take the predicate as an operator,
which none of the provers can instantiate. `Induction` states it for a set of numbers
instead and derives it from the well-foundedness of <; `Recursion` and `SetRecursion` derive
from it that a function defined from its previous value, or over a finite set, exists. So
properties of the loops that are written as recursive functions are proved.

### What is only model-checked

* Of the connector, what its transfers and batches do to the data: `NoGarbageComputed`,
  `ReadyKeysHoldTheirData` and `CachedBlocksHoldTheirData` need to follow what is in every
  GPU block and CPU slot of every worker through the order in which batches, flushed stores
  and loads reach it, on top of where the jobs are and who owns the blocks. They cannot
  be theorems as they stand: after a reset of the connector with a load in flight the code
  breaks them ("A store overtakes a load the reset forgot", section 5), so the runs that check
  them have the other resets (section 3). Two requests, too, are a bound of those runs.
* `AnsweredLoadsAreQuiet`. An `AbortAck` names a round by its number, and an ack of an
  earlier round of the same number can still be under way when the number is used again.
  That it finds no load needs a history of the numbers' uses, which `Inv` does not keep.
* `TailServesItsPrompt`: that a longer prompt finds the tail of the one it begins with relates the chunks of a
  whole earlier run to the lookup of a later one, while the invariant above speaks of
  blocks. Proving it needs a history of where each prompt's prefill stopped.
* Liveness, which is beyond the prover.

## 5. Where the code and its comments disagree

* **Preemption by a reset** (`connector_preempt`). `build_connector_meta` asserts
  that preempted requests have only stores (connector:1844). A request preempted by
  `reset_prefix_cache(reset_running_requests=True)` can be admitted again with a CPU
  hit by the same `schedule()` that reports it as preempted: the assertion meets its
  load. In `connector_resets` the engine stops there (`AssertionFails`).
* **A store overtakes a load the reset forgot** (`connector_race`). `gpu_worker.py:647-649` says
  of the loads' source that "CPU->GPU reads from host pinned memory, which is never written by
  a concurrent GPU stream". The load of a request q is in flight, from CPU slot 0, when
  `reset_prefix_cache(reset_connector=True)` forgets its job, notes it to be flushed
  (connector:2050) and empties the manager, so that slot 0 is free. A running request r with a
  computed key is aborted, and the next `schedule()` gives its block to a third request. The
  store of r's key is made in the same step, into slot 0, and joins the jobs to flush
  (connector:1819-1824). `handle_preemptions` submits the flushed stores before it waits for
  the jobs to flush (`worker.py:292-317`), and the streams of loads and stores do not wait for
  each other: the store writes slot 0 while the old load reads it. The flush is there so that
  nothing of before the reset is under way after it (connector:2049, 2077-2078). If the store
  wins, q is promoted and its block cached under its key with r's data: with
  `CachedBlocksHoldTheirData` instead of `LoadSourcesAreNotWritten`, TLC finds a trace that is
  some steps longer, in a few minutes.
* **A finished request with a load in flight** (`p2p_finish`). `tiering/base.py:280-281`
  says that jobs already submitted will still report. The p2p client aborts the
  request's loads and forgets them (`client.py:260`); the answer that follows finds no
  load. The tiering manager waits for the job for ever, and its blocks stay pending.
* **Round numbers start again** (`p2p_rounds`). `client.py:70-72` says that every round is
  isolated on the wire, because each fetch advances `round_seq`. `_maybe_prune`
  (`client.py:152-161`) deletes the entry when the last load ends and no probe is left; a
  request that looks up again, because the primary tier evicted a block it waits with,
  starts at 0 again. The ack of an abort that lost the race against the old round's
  completion then fails the new load of the same number, while the server serves it
  into blocks the client has given back: `AnsweredLoadsAreQuiet` excepts the loads that
  end this way (`Mistaken`). A lookup answer of the old round is taken for the new one's,
  and a fetch may then ask for what its own round does not supply: it waits for the
  load timeout, so `LoadsAreAnswered` excepts loads that begin after such an eviction.

Found while modelling, without a run of their own; a definition named here can be
added to the configuration as an INVARIANT to see the counterexample:

* **Two connector resets in a row** (`ResetFindsNoBatch`, `MCOffloadingConnector.cfg` with
  `ResetKinds = {"connector"}` and `MaxResets = 2`, as a PROPERTY). `reset_cache` asserts that
  no batch is being built (connector:2045-2047, "reset_cache cannot be called in the middle of a
  schedule step") but leaves the jobs to flush of the first reset in the batch (2050, 2077-2078).
* **A prompt that ends on a hash unit misses its own tail** (`TailServesTheSamePrompt`,
  `MCPrefixCache.cfg`). With EAGLE the tail is registered one hash unit early, "where the
  attention group's drop lands, so the Mamba finder can return it" (kv managers:1879-1880), because
  "the Mamba finder is called with `max_length = last_hash_boundary - hash_block_size`"
  (scheduler:452-453). When the same prompt comes again, the lookup leaves out its last token. If the
  prompt is a multiple of the hash unit, its last hash cannot be used, the attention group's
  match ends a unit earlier and the drop lands below the tail. For 12 tokens with
  hash units of 2 the tail is at 10; the attention hashes at 4, 8 and 12 are cut at 11 to 8, the
  drop leads to 6, and nothing is hit. A longer prompt that begins with it does hit the tail:
  that is what `TailServesItsPrompt` states, of all prompts. A prompt that is not a
  multiple of the hash unit is served alike in both cases.
* **ARC refuses stores it has room for** (`EvictsWheneverPossible`, `MCARCManager.cfg`).
  `CachePolicy.evict` promises None only "if n evictions cannot be satisfied"
  (`policies/base.py:76-77`); ARC returns None when t1, less what it took, falls below the
  target and t2 has no candidate (`arc.py:147-149`). A store of several blocks is
  refused although enough blocks are idle. For one block of an idle cache it
  never happens: that is the part that `ARCEvictKeepsItsContract` states.
* **A key is probed twice** (`ProbedOnce`, `MCTieringManager.cfg`). A request that finishes
  with a probe in flight takes the entry of its key with it; another request asks again
  before the first answer is drained, both answers arrive, and the assertion of
  `drain_results` (`async_lookup.py:173-181`) fails on the second.
* **A counted hit is evicted before it is loaded** (`HitsCanBeLoaded`,
  `MCTieringManager.cfg`). A lookup counts idle primary keys as hits without pinning
  them; promoting the boundary tail at the end of the same lookup may evict one, and
  `prepare_load` asserts that it is there. It needs a primary tier that is too small.
* **A prompt larger than the primary tier** is never decided: each promotion evicts what
  the last one brought. `LookupsAreDecided` is checked on workloads whose prompt fits.
* **A late poll.** `prepare_store` after `on_schedule_end` sets `_processed_jobs_this_step`,
  so the next step's lookups do not collect; jobs are seen one step later.
* **Unpinned blocks are served** (`server.py:1121`). A store that is not fetched in time is
  reported and unpinned, but stays in the round's supply: a later fetch reads blocks that
  may be reused by then, and succeeds. `SuccessMeansWritten` excepts that case.
* **Transfers of a failed round** are cancelled without waiting before the client is told.
  If a cancelled transfer could still write, it would write into blocks the client
  has given away; the transfer library decides.
* **Supply for a closed round**, arriving when the peer's lookup is no longer open, stays
  pinned until the store timeout.
* **EAGLE with a tail that is a whole mamba block** (`RunsOverTheTail`). If the backed-off
  boundary is a multiple of the mamba block and chunks are at least a block wide, no
  stop is made there and the state is not cached, contrary to the comments at
  scheduler:473-475 and kv managers:1889-1893. The shipped sizes (blocks of 14336, chunks
  of 2048) are not concerned.

## 6. Not modelled, and why

**Simplifications inside the modelled parts.**

* *Connector.* The running loop's "skip this request" branches, `full_sequence_must_fit`,
  priorities, encoder inputs, speculative tokens, LoRA and structured output; load
  failures (the worker asserts success); the store threshold; events and metrics;
  `_is_store_writer` (which worker copies which bytes). They choose among behaviours
  the model allows already, or belong to features the recipe does not enable.
  One full-attention group with chunks of one block: sliding-window and mamba groups,
  the partial-tail store jobs and the boundary scan per group are left out, because
  each multiplies the keys of a request, in a model that already has more than a
  million states.
* *Prefix cache.* One attention and one mamba group; of the attention group only which
  hashes are registered, and its pool is never full; a decode step computes one token;
  no speculative blocks, no `long_prefill_token_threshold`, no externally computed blocks,
  dense retention. With EAGLE all groups drop. The request preempted is not one of the
  step being built. Free blocks that are not registered are interchangeable. The block
  pool is not in the repository and is modelled from its uses.
* *Tiering.* The primary tier has no free list (any free slot serves) and any idle block
  may be evicted, so it covers every policy but refuses only for lack of idle blocks.
  The GPU side is reduced to chunks computed and offered. The step looks at every
  waiting request. A probe is answered in one go. A file write is one step, because the code
  renames a complete temporary file. The file-system tier never asks for request-level
  stores itself; the model lets one tier do so, as the p2p tier does. Tier filters,
  `exclude_tier_idx`, metrics, events and shutdown are left out.
* *Peer to peer.* One request id on one session; the connect handshake (its queue of
  waiting messages is the channel); blocks are named by load and key instead of an
  index; a store's result is that its job leaves `_store_jobs`; transfers the code cancels at once
  count as ended;
  the client's primary tier never refuses a promotion; no preemption with a remote
  prefiller. ZeroMQ and NIXL are external and modelled as ordered channels and
  transfers that end once.
  `write_blocks` returns None only for a peer that is not registered (`nixl.py:162-171`), and a
  client's `ConnectMsg` registers it before its first fetch. So the branch of `_submit_transfer` for None
  (`server.py:1094-1119`: the round is marked finishing, and finalized with failure if nothing
  of it is in flight) is not modelled, nor is what it would do to `on_fetch`, which finalizes
  the round a second time when the first time was inside `_submit_transfer` (391-395).
  `OnFetch` is one step with what the manager does for the session after the poll that handled the fetch:
  it binds the request and replays the batches that waited (`p2p/manager.py:772-777`). Other
  messages of the same poll are handled by the code before that, in the model after it.

**Parts left out.**

* The object-store tier: the contract `TieringManager` already covers, over an external
  library. The shared region: one race at creation, no state afterwards.
* Managers for sliding-window, chunked-local, cross-attention and kpool tails; the layout
  arithmetic of `kv_cache_utils.py`: pure functions of the configuration.
* The model runner, the block pool and the output aggregation are not in the
  repository; they are modelled from how the scheduler uses them and marked external.
* Model code, quantisation, layouts, older versions of the overlays (`*.pristine.py` and
  the variants the shipped one replaced) and tools: numerical code, copies and pure
  I/O. They are most of the lines of the repository and hold no state a protocol depends on.

## 7. Plan

1. *(done)* Manager, policies, abstract store; worker; connector and scheduler for
   one full-attention group; proofs of the manager.
2. *(done)* `PrefixCache`: chunk split, partial tails, copy on write, hybrid lookup.
3. *(done)* `TieringManager` over `AsyncLookup` and `FsThreadPool`.
4. *(done)* `P2PSession` over `P2PClient` and `P2PServer`.
5. *(done)* Proofs of both policies, the prefix cache's states and chunks, the tiering
   manager with its pools and files, and the sessions.
6. *(done)* Proofs of the connector's job table and of who owns the blocks of a load
   (`CompletedJobsAreKnown`, `LoadsOwnTheirTargets`, `QuiescenceLeavesNothing`).
7. Partial-tail store jobs and a mamba group in the connector model, if an instance of it
   stays within reach.

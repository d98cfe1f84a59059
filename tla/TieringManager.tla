---------------------------- MODULE TieringManager ----------------------------
(***************************************************************************)
(* The tiered offloading manager (kv_offload/tiering/manager.py): a primary *)
(* tier in host RAM and file-system tiers behind it, each with an            *)
(* AsyncLookup and an FsThreadPool.                                        *)
(*                                                                         *)
(* The scheduler thread calls the manager; the lookup threads and the pools' *)
(* threads run beside it at any time and meet it only in queues.             *)
(*                                                                         *)
(* The caller is the OffloadingConnectorScheduler.  An engine step looks up   *)
(* every waiting request, ends the schedule, offers stores, signals finished  *)
(* requests, and collects what the workers transferred; requests come, are    *)
(* aborted and finish, and the cache is reset, between steps.  The GPU side   *)
(* is OffloadingConnector's; here a request computes its prompt chunk by      *)
(* chunk.  The primary tier is CPUOffloadingManager's, without the free list: *)
(* any free slot serves, and any idle block may be evicted.                  *)
(***************************************************************************)
EXTENDS OrderedKeys, FiniteSetsExt

CONSTANTS
    Keys,          \* offload keys
    Reqs,          \* requests; each runs once
    MaxTiers,      \* bound on the secondary tiers of a workload
    Workloads,     \* what may happen to the manager: see workload
    RequestLevel,  \* request -> tiers that answer REQUEST_LEVEL for it
    LoadThreads,   \* load-priority threads of a pool
    StoreThreads,  \* store-priority threads of a pool
    NoKey,         \* no key, no file
    Garbage        \* the content of a slot nothing was copied to

ASSUME ReqsAssumption == IsFiniteSet(Reqs)
ASSUME ThreadsAssumption == LoadThreads \in Nat /\ StoreThreads \in Nat
ASSUME WorkloadsAssumption ==
    \A w \in Workloads :
       /\ w.tiers \in 1..MaxTiers /\ w.slots \in Nat
       /\ \A t \in 1..w.tiers : w.onDisk[t] \subseteq Keys
       /\ DOMAIN w.prompt \subseteq Reqs
       /\ \A r \in DOMAIN w.prompt : /\ w.prompt[r] \in Seq(Keys) /\ IsInjective(w.prompt[r])
                                     /\ w.tail[r] \in Keys \cup {NoKey}
ASSUME NoKeyAssumption == NoKey \notin Keys /\ Garbage \notin Keys

VARIABLES
    verdicts, asked, probes, answers, mustDrain,          \* AsyncLookup
    loadQ, storeQ, running, finished, data, disk,         \* FsThreadPool
    primary,    \* the primary tier: key -> [ref, slot]
    jobs,       \* _jobs: transfers submitted to a tier and not collected
    pending,    \* _pending_load_submissions: tier -> request -> [key, slot]s
    polled,     \* _processed_jobs_this_step
    reqState,   \* _req_state: request -> [stores, finished]
    told,       \* tier -> request -> how often on_request_finished was called
    stage,      \* where the engine is in its step
    scan,       \* the lookup in progress
    scanned,    \* requests looked up in this step
    phase,      \* request -> where it is in its life
    computed,   \* request -> chunks it has on the GPU
    offered,    \* request -> next_stored_chunk_idx
    gpuLoads,   \* request -> keys a worker loads for it
    gpuStores,  \* request -> key sets the workers store for it
    crashed,    \* the assertion that failed
    workload,   \* prompt: the keys of each request's chunks, in order;
                \* tail: the boundary key of its last, partial block, or NoKey;
                \* slots: the size of the primary tier;
                \* tiers: how many secondary tiers there are, asked in order;
                \* onDisk: the keys that have a file at the start;
                \* faults, resets: bounds on the files lost and the probes,
                \* reads, writes and allocations that fail, and on reset_cache
    faults, resets

Lookup == INSTANCE AsyncLookup
Pool == INSTANCE FsThreadPool

mgrVars == <<primary, jobs, pending, polled>>
reqVars == <<reqState, told>>
lookupVars == <<verdicts, asked, probes, answers, mustDrain>>
poolVars == <<loadQ, storeQ, running, finished>>
storageVars == <<data, disk>>
engineVars == <<stage, scan, scanned>>
progressVars == <<phase, computed, offered>>
gpuVars == <<gpuLoads, gpuStores>>
boundVars == <<workload, faults, resets>>
vars == <<mgrVars, reqVars, lookupVars, poolVars, storageVars, engineVars,
          progressVars, gpuVars, boundVars, crashed>>

Tiers == 1..workload.tiers
Slots == 0..(workload.slots - 1)
Prompt(r) == workload.prompt[r]
TailKey(r) == workload.tail[r]

NoScan == [req |-> NoKey, part |-> "none", i |-> 0, hits |-> 0, wait |-> FALSE]

Init ==
    /\ workload \in Workloads
    /\ Lookup!LookupInit(Tiers)
    /\ Pool!PoolInit(Tiers, Slots, workload.onDisk)
    /\ primary = [k \in {} |-> [ref |-> 0, slot |-> 0]]
    /\ jobs = {}
    /\ pending = [t \in Tiers |-> [r \in Reqs |-> <<>>]]
    /\ polled = FALSE
    /\ reqState = [r \in {} |-> [stores |-> 0, finished |-> FALSE]]
    /\ told = [t \in Tiers |-> [r \in Reqs |-> 0]]
    /\ stage = "outputs"
    /\ scan = NoScan
    /\ scanned = {}
    /\ phase = [r \in Reqs |-> "new"]
    /\ computed = [r \in Reqs |-> 0]
    /\ offered = [r \in Reqs |-> 0]
    /\ gpuLoads = [r \in Reqs |-> {}]
    /\ gpuStores = [r \in Reqs |-> {}]
    /\ crashed = "no"
    /\ faults = 0
    /\ resets = 0

-----------------------------------------------------------------------------
(***************************************************************************)
(* The primary tier p, a function from the keys it holds.                   *)
(***************************************************************************)

Ready(p, k) == k \in DOMAIN p /\ p[k].ref >= 0
Idle(p) == {k \in DOMAIN p : p[k].ref = 0}
FreeSlots(p) == Slots \ {p[k].slot : k \in DOMAIN p}

PrimaryLookup(p, k) == IF k \notin DOMAIN p THEN "MISS"
                       ELSE IF Ready(p, k) THEN "HIT" ELSE "HIT_PENDING"

\* prepare_read, complete_read, and their plain load counterparts.
Pinned(p, keys) == [k \in DOMAIN p |-> IF k \in keys THEN [p[k] EXCEPT !.ref = @ + 1] ELSE p[k]]
Unpinned(p, keys) == [k \in DOMAIN p |-> IF k \in keys THEN [p[k] EXCEPT !.ref = @ - 1] ELSE p[k]]

\* complete_write: the pending blocks become ready, or go.
Written(p, keys) ==
    [k \in DOMAIN p |-> IF k \in keys /\ ~Ready(p, k) THEN [p[k] EXCEPT !.ref = 0] ELSE p[k]]
Removed(p, keys) ==
    [k \in {x \in DOMAIN p : x \notin keys \/ Ready(p, x)} |-> p[k]]

\* prepare_write of keys p does not hold, after evicting some idle ones.
Evicted(p, evicted) == [k \in DOMAIN p \ evicted |-> p[k]]
Reserve(p, new) ==
    LET order == SetToSeq(FreeSlots(p))
    IN [k \in DOMAIN p \cup Range(new) |->
          IF k \in DOMAIN p THEN p[k]
          ELSE [ref |-> -1, slot |-> order[CHOOSE i \in DOMAIN new : new[i] = k]]]

\* The sets of blocks policy.evict may choose to make room for these keys;
\* there are none if not enough blocks are idle.
Victims(p, keys) ==
    LET missing == Cardinality(keys \ DOMAIN p) - Cardinality(FreeSlots(p))
    IN IF missing <= 0 THEN {{}} ELSE kSubset(missing, Idle(p) \ keys)

-----------------------------------------------------------------------------
(***************************************************************************)
(* _maybe_process_finished_jobs: the first lookup or prepare_store after     *)
(* on_schedule_end collects what the tiers have finished.  The operators     *)
(* give the state the rest of the handler sees.                             *)
(***************************************************************************)

Collected(t) == IF polled THEN {} ELSE finished[t]
CollectedJobs == UNION {{f.job : f \in Collected(t)} : t \in Tiers}

\* Mutant: a promotion that failed keeps all its keys.
KeepsAll(f) == IF f.job.promotion THEN Range(f.job.keys) ELSE {}

\* _complete_promotion: a promotion that failed keeps what was copied before.
KeptKeys(f) == IF f.job.promotion THEN {f.job.keys[i] : i \in 1..f.n} ELSE {}
LostKeys(f) == IF f.job.promotion THEN Range(f.job.keys) \ KeptKeys(f) ELSE {}
KeptIn(t) == UNION {KeptKeys(f) : f \in Collected(t)}
LostIn(t) == UNION {LostKeys(f) : f \in Collected(t)}

\* Mutant: cascades that end together unpin their block once.
ReadsDoneOnce(k) == IF \E j \in CollectedJobs : ~j.promotion /\ k \in Range(j.keys) THEN 1 ELSE 0

ReadsDone(k) == Cardinality({j \in CollectedJobs : ~j.promotion /\ k \in Range(j.keys)})

PolledPrimary ==
    LET kept == UNION {KeptIn(t) : t \in Tiers}
        lost == UNION {LostIn(t) : t \in Tiers}
        p == Removed(Written(primary, kept), lost)
    IN [k \in DOMAIN p |-> [p[k] EXCEPT !.ref = @ - ReadsDone(k)]]

PolledVerdicts(t) == Lookup!MarkMiss(LostIn(t), verdicts[t])

\* Mutant: jobs that failed are not forgotten.
PollKeepsFailed ==
    /\ jobs' = jobs \ (UNION {{f.job : f \in {x \in Collected(t) : x.ok}} : t \in Tiers})
    /\ finished' = [t \in Tiers |-> finished[t] \ Collected(t)]

Poll ==
    /\ jobs' = jobs \ CollectedJobs
    /\ finished' = [t \in Tiers |-> finished[t] \ Collected(t)]

Transfer(t, r, promotion, keys, slots) ==
    [tier |-> t, req |-> r, promotion |-> promotion, keys |-> keys, slots |-> slots]

SlotsOf(p, keys) == [i \in DOMAIN keys |-> p[keys[i]].slot]

-----------------------------------------------------------------------------
(***************************************************************************)
(* Between steps: requests come and go, workers report.                      *)
(***************************************************************************)

Alive == crashed = "no"

BeginStep ==
    /\ Alive /\ stage = "outputs"
    /\ stage' = "schedule"
    /\ scanned' = {}
    /\ UNCHANGED <<mgrVars, reqVars, lookupVars, poolVars, storageVars, scan,
                   progressVars, gpuVars, boundVars, crashed>>

\* on_new_request.
Arrive(r) ==
    /\ Alive /\ stage = "outputs" /\ phase[r] = "new"
    /\ r \in DOMAIN workload.prompt
    /\ phase' = [phase EXCEPT ![r] = "waiting"]
    /\ reqState' = [x \in DOMAIN reqState \cup {r} |->
                      IF x = r THEN [stores |-> 0, finished |-> FALSE] ELSE reqState[x]]
    /\ UNCHANGED <<mgrVars, told, lookupVars, poolVars, storageVars, engineVars,
                   computed, offered, gpuVars, boundVars, crashed>>

\* The request ends or is aborted; the connector says so in its next step.
Finish(r) ==
    /\ Alive /\ stage = "outputs"
    /\ phase[r] \in {"waiting", "loading", "running"}
    /\ phase' = [phase EXCEPT ![r] = "finished"]
    /\ UNCHANGED <<mgrVars, reqVars, lookupVars, poolVars, storageVars, engineVars,
                   computed, offered, gpuVars, boundVars, crashed>>

\* complete_load.  After a reset the job is stale and nothing is unpinned.
CompleteLoad(r) ==
    /\ Alive /\ stage = "outputs"
    /\ phase[r] = "loading" \/ gpuLoads[r] # {}
    /\ primary' = Unpinned(primary, gpuLoads[r])
    /\ gpuLoads' = [gpuLoads EXCEPT ![r] = {}]
    /\ phase' = [phase EXCEPT ![r] = IF @ = "loading" THEN "running" ELSE @]
    /\ UNCHANGED <<jobs, pending, polled, reqVars, lookupVars, poolVars, storageVars,
                   engineVars, computed, offered, gpuStores, boundVars, crashed>>

\* _maybe_finalize_request, for requests that end with their last store: every
\* tier is told, and forgets what they asked about.
Finalize(rs, v) ==
    /\ told' = [t \in Tiers |-> [r \in Reqs |-> told[t][r] + IF r \in rs THEN 1 ELSE 0]]
    /\ verdicts' = [t \in Tiers |-> Lookup!Cleanup(rs, v[t])]

\* Mutant: a finished request is finalised by its first store that completes.
StoreDoneTooEarly(r) == {x \in {r} \cap DOMAIN reqState : reqState[x].finished}

\* The requests complete_store finalises.
StoreDone(r) == IF reqState[r].finished /\ reqState[r].stores = 1 THEN {r} ELSE {}

\* Mutant: a cascade does not pin its blocks.
NoCascadePins == 0

CascadePins == workload.tiers

\* complete_store: the blocks are ready, and cascade to every tier.
CompleteStore(r, keys, order) ==
    LET p == Written(primary, keys)
        slots == SlotsOf(p, order)
    IN /\ Alive /\ stage = "outputs"
       /\ data' = [s \in Slots |-> IF \E i \in DOMAIN slots : slots[i] = s
                                   THEN order[CHOOSE i \in DOMAIN slots : slots[i] = s]
                                   ELSE data[s]]
       /\ primary' = [k \in DOMAIN p |-> IF k \in keys THEN [p[k] EXCEPT !.ref = @ + CascadePins] ELSE p[k]]
       /\ jobs' = jobs \cup {Transfer(t, r, FALSE, order, slots) : t \in Tiers}
       /\ storeQ' = [t \in Tiers |-> Append(storeQ[t], Transfer(t, r, FALSE, order, slots))]
       /\ gpuStores' = [gpuStores EXCEPT ![r] = @ \ {keys}]
       /\ reqState' = [x \in DOMAIN reqState \ StoreDone(r) |->
                         IF x = r THEN [reqState[r] EXCEPT !.stores = @ - 1] ELSE reqState[x]]
       /\ Finalize(StoreDone(r), verdicts)
       /\ UNCHANGED <<pending, polled, asked, probes, answers, mustDrain, loadQ, running,
                      finished, disk, engineVars, progressVars, gpuLoads, boundVars, crashed>>

-----------------------------------------------------------------------------
(***************************************************************************)
(* The schedule: _maximal_prefix_lookup and the boundary scan of _lookup,    *)
(* one manager.lookup at a time.                                           *)
(***************************************************************************)

Chunks(r) == Len(Prompt(r))
KeyToScan == IF scan.part = "prefix" THEN Prompt(scan.req)[scan.i + 1] ELSE TailKey(scan.req)
ScanNow == Alive /\ scan.part \in {"prefix", "tail"}

\* Where the scan goes on once the prefix is known: a tail is worth asking for
\* when every chunk is a hit and no answer is outstanding.
AfterPrefix(s) ==
    IF s.i < Chunks(s.req) THEN s
    ELSE IF s.wait \/ TailKey(s.req) = NoKey THEN [s EXCEPT !.part = "done"]
    ELSE [s EXCEPT !.part = "tail"]

StartScan(r) ==
    /\ Alive /\ stage = "schedule" /\ scan = NoScan
    /\ phase[r] = "waiting" /\ r \notin scanned
    /\ scan' = AfterPrefix([NoScan EXCEPT !.req = r, !.part = "prefix"])
    /\ scanned' = scanned \cup {r}
    /\ UNCHANGED <<mgrVars, reqVars, lookupVars, poolVars, storageVars, stage,
                   progressVars, gpuVars, boundVars, crashed>>

AfterLookup(s, result) ==
    IF s.part = "tail"
    THEN [s EXCEPT !.part = "done",
                   !.hits = IF result = "HIT" THEN @ + 1 ELSE @,
                   !.wait = result \in {"HIT_PENDING", "RETRY"} /\ s.hits = 0]
    ELSE IF result = "MISS" THEN [s EXCEPT !.part = "done"]
    ELSE AfterPrefix([s EXCEPT !.i = @ + 1,
                               !.hits = IF result = "RETRY" THEN @ ELSE @ + 1,
                               !.wait = @ \/ result # "HIT"])

\* The verdict table of tier t as its lookup sees it, and the first tier that
\* has the key; the tiers after that one are not asked.
SeenVerdicts(t) == Lookup!Seen(t, PolledVerdicts(t))
Holders == {t \in Tiers : Lookup!ResultFor(KeyToScan, SeenVerdicts(t)) = "hit"}
AskedTiers == {t \in Tiers : \A h \in Holders : t <= h}

\* lookup, answered by the primary tier.
LookupInPrimary ==
    /\ ScanNow
    /\ KeyToScan \in DOMAIN PolledPrimary
    /\ Poll /\ polled' = TRUE
    /\ primary' = PolledPrimary
    /\ verdicts' = [t \in Tiers |-> PolledVerdicts(t)]
    /\ scan' = AfterLookup(scan, PrimaryLookup(PolledPrimary, KeyToScan))
    /\ UNCHANGED <<pending, reqVars, asked, probes, answers, mustDrain, loadQ, storeQ, running,
                   storageVars, stage, scanned, progressVars, gpuVars, boundVars, crashed>>

\* The verdict tables after the secondary tiers were asked.
AskTiers ==
    /\ verdicts' = [t \in Tiers |->
                      IF t \in AskedTiers THEN Lookup!AskedBy(KeyToScan, scan.req, SeenVerdicts(t))
                      ELSE PolledVerdicts(t)]
    /\ asked' = [t \in Tiers |->
                   IF t \in AskedTiers /\ ~Lookup!Known(KeyToScan, SeenVerdicts(t))
                   THEN Append(asked[t], [key |-> KeyToScan, req |-> scan.req]) ELSE asked[t]]
    /\ answers' = [t \in Tiers |-> IF t \in AskedTiers /\ mustDrain[t] THEN <<>> ELSE answers[t]]
    /\ mustDrain' = [t \in Tiers |-> mustDrain[t] /\ t \notin AskedTiers]

SecondVerdict ==
    \E t \in AskedTiers : mustDrain[t] /\ Lookup!AnsweredTwice(t, PolledVerdicts(t))

AskSecondary ==
    /\ ScanNow
    /\ KeyToScan \notin DOMAIN PolledPrimary
    /\ ~SecondVerdict
    /\ Poll /\ polled' = TRUE
    /\ AskTiers
    /\ UNCHANGED <<reqVars, probes, loadQ, storeQ, running, storageVars, stage, scanned,
                   progressVars, gpuVars, boundVars, crashed>>

\* lookup, when no tier is known to hold the key.
LookupUndecided ==
    /\ AskSecondary
    /\ Holders = {}
    /\ primary' = PolledPrimary
    /\ scan' = AfterLookup(scan,
                 IF \E t \in Tiers : Lookup!ResultFor(KeyToScan, SeenVerdicts(t)) = "none"
                 THEN "RETRY" ELSE "MISS")
    /\ UNCHANGED pending

\* lookup, when a tier holds the key: _initiate_promotion reserves a slot now.
LookupPromotes(evicted) ==
    LET t == Min(Holders)
        p == Reserve(Evicted(PolledPrimary, evicted), <<KeyToScan>>)
    IN /\ AskSecondary
       /\ Holders # {}
       /\ evicted \in Victims(PolledPrimary, {KeyToScan})
       /\ primary' = p
       /\ pending' = [pending EXCEPT ![t][scan.req] =
                        Append(@, [key |-> KeyToScan, slot |-> p[KeyToScan].slot])]
       /\ scan' = AfterLookup(scan, "HIT_PENDING")

\* The primary tier is full: the block counts as missing.
LookupRefused ==
    /\ AskSecondary
    /\ Holders # {}
    /\ Victims(PolledPrimary, {KeyToScan}) = {}
    /\ primary' = PolledPrimary
    /\ scan' = AfterLookup(scan, "MISS")
    /\ UNCHANGED pending

\* The assertion of drain_results ends the engine.
LookupCrashes ==
    /\ ScanNow
    /\ KeyToScan \notin DOMAIN PolledPrimary
    /\ SecondVerdict
    /\ crashed' = "second verdict"
    /\ UNCHANGED <<mgrVars, reqVars, lookupVars, poolVars, storageVars, engineVars,
                   progressVars, gpuVars, boundVars>>

ScanOver == Alive /\ scan.part = "done"
HitKeys == {IF i <= Chunks(scan.req) THEN Prompt(scan.req)[i] ELSE TailKey(scan.req)
            : i \in 1..scan.hits}

\* The lookup was deferred, or no GPU blocks were free: asked again next step.
StayWaiting ==
    /\ ScanOver
    /\ \/ scan.wait /\ UNCHANGED faults
       \/ ~scan.wait /\ faults < workload.faults /\ faults' = faults + 1
    /\ scan' = NoScan
    /\ UNCHANGED <<mgrVars, reqVars, lookupVars, poolVars, storageVars, stage, scanned,
                   progressVars, gpuVars, workload, resets, crashed>>

\* update_state_after_alloc and prepare_load.
Admit ==
    LET r == scan.req
        chunks == IF scan.hits <= Chunks(r) THEN scan.hits ELSE Chunks(r)
    IN /\ ScanOver /\ ~scan.wait
       /\ \A k \in HitKeys : Ready(primary, k)
       /\ primary' = Pinned(primary, HitKeys)
       /\ gpuLoads' = [gpuLoads EXCEPT ![r] = HitKeys]
       /\ phase' = [phase EXCEPT ![r] = IF HitKeys = {} THEN "running" ELSE "loading"]
       /\ computed' = [computed EXCEPT ![r] = chunks]
       /\ offered' = [offered EXCEPT ![r] = chunks]
       /\ scan' = NoScan
       /\ UNCHANGED <<jobs, pending, polled, reqVars, lookupVars, poolVars, storageVars, stage,
                      scanned, gpuStores, boundVars, crashed>>

\* The assertions of prepare_load: a block counted as a hit is gone.
AdmitCrashes ==
    /\ ScanOver /\ ~scan.wait
    /\ \E k \in HitKeys : ~Ready(primary, k)
    /\ crashed' = "hit is gone"
    /\ UNCHANGED <<mgrVars, reqVars, lookupVars, poolVars, storageVars, engineVars,
                   progressVars, gpuVars, boundVars>>

-----------------------------------------------------------------------------
(***************************************************************************)
(* build_connector_meta.                                                   *)
(***************************************************************************)

\* _flush_pending_promotions: one job per tier and request.
PromotionsOf(t) ==
    {Transfer(t, r, TRUE, [i \in DOMAIN pending[t][r] |-> pending[t][r][i].key],
                          [i \in DOMAIN pending[t][r] |-> pending[t][r][i].slot])
     : r \in {x \in Reqs : pending[t][x] # <<>>}}

OnScheduleEnd ==
    /\ Alive /\ stage = "schedule" /\ scan = NoScan
    /\ \A r \in Reqs : phase[r] = "waiting" => r \in scanned
    /\ primary' = PolledPrimary
    /\ jobs' = (jobs \ CollectedJobs) \cup (UNION {PromotionsOf(t) : t \in Tiers})
    /\ finished' = [t \in Tiers |-> finished[t] \ Collected(t)]
    /\ loadQ' = [t \in Tiers |-> loadQ[t] \o SetToSeq(PromotionsOf(t))]
    /\ pending' = [t \in Tiers |-> [r \in Reqs |-> <<>>]]
    /\ polled' = FALSE
    /\ verdicts' = [t \in Tiers |-> PolledVerdicts(t)]
    /\ Lookup!Flush(Tiers)
    /\ stage' = "meta"
    /\ scanned' = {}
    /\ UNCHANGED <<reqVars, answers, storeQ, running, storageVars, scan, progressVars,
                   gpuVars, boundVars, crashed>>

InMeta(r) == /\ Alive /\ stage = "meta" /\ r \notin scanned
             /\ phase[r] \in {"running", "finished"}
ToOffer(r, upto) == SubSeq(Prompt(r), offered[r] + 1, upto)

\* _build_store_jobs for one request, which has computed up to this chunk.  No
\* chunk is new, or prepare_store finds no room.
BuildNoStore(r, upto) ==
    /\ InMeta(r)
    /\ upto \in computed[r]..(IF phase[r] = "running" THEN Chunks(r) ELSE computed[r])
    /\ computed' = [computed EXCEPT ![r] = upto]
    /\ scanned' = scanned \cup {r}
    /\ \/ /\ upto <= offered[r]
          /\ UNCHANGED <<mgrVars, verdicts, finished>>
       \/ /\ upto > offered[r]
          /\ Victims(PolledPrimary, Range(ToOffer(r, upto))) = {}
          /\ primary' = PolledPrimary
          /\ verdicts' = [t \in Tiers |-> PolledVerdicts(t)]
          /\ Poll /\ polled' = TRUE
          /\ UNCHANGED pending
    /\ UNCHANGED <<reqVars, asked, probes, answers, mustDrain, loadQ, storeQ, running, storageVars,
                   stage, scan, phase, offered, gpuVars, boundVars, crashed>>

\* prepare_store succeeds; request-level tiers get the chunks stored already.
BuildStore(r, upto, evicted) ==
    LET keys == ToOffer(r, upto)
        p0 == PolledPrimary
        new == Without(keys, DOMAIN p0)
        p == Reserve(Evicted(p0, evicted), new)
        old == Within(keys, {k \in DOMAIN p : Ready(p, k)})
        tiers == IF old = <<>> THEN {} ELSE RequestLevel[r] \cap Tiers
        Cascade(t) == Transfer(t, r, FALSE, old, SlotsOf(p, old))
    IN /\ InMeta(r)
       /\ upto \in computed[r]..(IF phase[r] = "running" THEN Chunks(r) ELSE computed[r])
       /\ upto > offered[r]
       /\ evicted \in Victims(p0, Range(keys))
       /\ primary' = [k \in DOMAIN p |-> IF k \in Range(old)
                                         THEN [p[k] EXCEPT !.ref = @ + Cardinality(tiers)] ELSE p[k]]
       /\ jobs' = (jobs \ CollectedJobs) \cup {Cascade(t) : t \in tiers}
       /\ finished' = [t \in Tiers |-> finished[t] \ Collected(t)]
       /\ storeQ' = [t \in Tiers |-> IF t \in tiers THEN Append(storeQ[t], Cascade(t)) ELSE storeQ[t]]
       /\ verdicts' = [t \in Tiers |-> PolledVerdicts(t)]
       /\ polled' = TRUE
       /\ gpuStores' = [gpuStores EXCEPT ![r] = IF new = <<>> THEN @ ELSE @ \cup {Range(new)}]
       /\ reqState' = [reqState EXCEPT ![r].stores = IF new = <<>> THEN @ ELSE @ + 1]
       /\ computed' = [computed EXCEPT ![r] = upto]
       /\ offered' = [offered EXCEPT ![r] = upto]
       /\ scanned' = scanned \cup {r}
       /\ UNCHANGED <<pending, told, asked, probes, answers, mustDrain, loadQ, running,
                      storageVars, stage, scan, phase, gpuLoads, boundVars, crashed>>

\* on_request_finished for the requests that ended.
FinishMeta ==
    LET ended == {r \in Reqs : phase[r] = "finished"}
        over == {r \in ended : reqState[r].stores = 0}
    IN /\ Alive /\ stage = "meta"
       /\ \A r \in Reqs : phase[r] \in {"running", "finished"} => r \in scanned
       /\ reqState' = [r \in DOMAIN reqState \ over |->
                         IF r \in ended THEN [reqState[r] EXCEPT !.finished = TRUE] ELSE reqState[r]]
       /\ Finalize(over, verdicts)
       /\ phase' = [r \in Reqs |-> IF r \in ended THEN "gone" ELSE phase[r]]
       /\ stage' = "outputs"
       /\ scanned' = {}
       /\ UNCHANGED <<mgrVars, asked, probes, answers, mustDrain, poolVars, storageVars, scan,
                      computed, offered, gpuVars, boundVars, crashed>>

-----------------------------------------------------------------------------
(***************************************************************************)
(* reset_cache: the tiers drain, what they finished is collected, then the   *)
(* primary tier is emptied.                                                *)
(***************************************************************************)

StartReset ==
    /\ Alive /\ stage = "outputs" /\ resets < workload.resets
    /\ stage' = "draining"
    /\ resets' = resets + 1
    /\ UNCHANGED <<mgrVars, reqVars, lookupVars, poolVars, storageVars, scan, scanned,
                   progressVars, gpuVars, workload, faults, crashed>>

ResetCache ==
    LET over == {r \in DOMAIN reqState : reqState[r].finished \/ phase[r] = "finished"}
        lost(t) == UNION {LostKeys(f) : f \in finished[t]}
    IN /\ Alive /\ stage = "draining"
       /\ \A t \in Tiers : Pool!PoolIdle(t)
       /\ primary' = [k \in {} |-> [ref |-> 0, slot |-> 0]]
       /\ jobs' = jobs \ (UNION {{f.job : f \in finished[t]} : t \in Tiers})
       /\ finished' = [t \in Tiers |-> {}]
       /\ pending' = [t \in Tiers |-> [r \in Reqs |-> <<>>]]
       /\ polled' = FALSE
       /\ Finalize(over, [t \in Tiers |-> Lookup!MarkMiss(lost(t), verdicts[t])])
       /\ reqState' = [r \in DOMAIN reqState \ over |-> [reqState[r] EXCEPT !.stores = 0]]
       /\ phase' = [r \in Reqs |-> IF phase[r] = "finished" THEN "gone" ELSE phase[r]]
       /\ offered' = [r \in Reqs |-> 0]
       /\ gpuLoads' = [r \in Reqs |-> {}]
       /\ gpuStores' = [r \in Reqs |-> {}]
       /\ stage' = "outputs"
       /\ UNCHANGED <<asked, probes, answers, mustDrain, loadQ, storeQ, running, storageVars, scan,
                      scanned, computed, boundVars, crashed>>

-----------------------------------------------------------------------------
(***************************************************************************)
(* The tiers' threads, and what can go wrong around them.                   *)
(***************************************************************************)

ProbeFiles(t, failing) ==
    /\ Alive
    /\ Lookup!Probe(t, Pool!HasFile(t), failing)
    /\ UNCHANGED <<mgrVars, reqVars, poolVars, storageVars, engineVars, progressVars, gpuVars,
                   workload, resets, crashed>>

MoveBlocks(t) ==
    /\ Alive
    /\ Pool!Work(t)
    /\ UNCHANGED <<mgrVars, reqVars, lookupVars, engineVars, progressVars, gpuVars, boundVars,
                   crashed>>

Fault(t) ==
    /\ Alive
    /\ faults < workload.faults
    /\ faults' = faults + 1
    /\ \/ /\ \E k \in Keys : Pool!FileVanishes(t, k)
          /\ UNCHANGED lookupVars
       \/ /\ \E w \in running[t] : \/ Pool!StoreBlockFails(t, w)
                                   \/ \E short \in BOOLEAN : Pool!LoadBlockFails(t, w, short)
          /\ UNCHANGED lookupVars
    /\ UNCHANGED <<mgrVars, reqVars, engineVars, progressVars, gpuVars, workload, resets, crashed>>

FailingProbe(t, r) ==
    /\ faults < workload.faults
    /\ faults' = faults + 1
    /\ probes[t] # <<>> /\ \E i \in DOMAIN Head(probes[t]) : Head(probes[t])[i].req = r
    /\ ProbeFiles(t, {r})

\* What the scheduler thread does by itself in every step.
Step ==
    \/ BeginStep
    \/ \E r \in Reqs : StartScan(r)
    \/ LookupInPrimary \/ LookupUndecided \/ LookupRefused \/ LookupCrashes
    \/ \E evicted \in SUBSET Keys : LookupPromotes(evicted)
    \/ StayWaiting \/ Admit \/ AdmitCrashes
    \/ OnScheduleEnd
    \/ \E r \in Reqs, upto \in 0..Cardinality(Keys) :
         \/ BuildNoStore(r, upto)
         \/ \E evicted \in SUBSET Keys : BuildStore(r, upto, evicted)
    \/ FinishMeta
    \/ ResetCache

Report(r) ==
    \/ CompleteLoad(r)
    \/ \E keys \in gpuStores[r] : \E order \in SetToSeqs(keys) : CompleteStore(r, keys, order)

Next ==
    \/ Step
    \/ \E r \in Reqs : Arrive(r) \/ Finish(r) \/ Report(r)
    \/ StartReset
    \/ \E t \in Tiers :
         \/ ProbeFiles(t, {}) /\ UNCHANGED faults
         \/ MoveBlocks(t)
         \/ Fault(t)
         \/ \E r \in Reqs : FailingProbe(t, r)

Spec == Init /\ [][Next]_vars

\* The engine steps while it has work, the threads run, and workers finish.
Fairness ==
    /\ WF_vars(Step)
    /\ \A r \in Reqs : SF_vars(Report(r))
    /\ \A t \in 1..MaxTiers :
         /\ WF_vars(t \in Tiers /\ ProbeFiles(t, {}) /\ UNCHANGED faults)
         /\ WF_vars(t \in Tiers /\ MoveBlocks(t))

FairSpec == Spec /\ Fairness

-----------------------------------------------------------------------------
(***************************************************************************)
(* Properties.                                                             *)
(***************************************************************************)

\* A block the primary tier offers for reading holds its key's KV: a promotion
\* that fails half-way, an eviction or a reset never leaves a ready key over
\* other data.
ReadyKeysHoldTheirData == \A k \in DOMAIN primary : Ready(primary, k) => data[primary[k].slot] = k

\* A file never holds another key's KV, though its cascade is asynchronous and
\* the slot it reads can be reused as soon as it is unpinned.
FilesHoldTheirData == \A t \in Tiers, k \in Keys : disk[t][k] \in {NoKey, k}

InFlight(t) == Range(loadQ[t]) \cup Range(storeQ[t]) \cup {w.job : w \in running[t]}

\* While a job is queued or copying, its slots serve its keys: pinned for a
\* cascade, write-pending for a promotion.
TransfersOwnTheirSlots ==
    \A t \in Tiers : \A j \in InFlight(t) : \A i \in DOMAIN j.keys :
       /\ j.keys[i] \in DOMAIN primary
       /\ primary[j.keys[i]].slot = j.slots[i]
       /\ IF j.promotion THEN primary[j.keys[i]].ref = -1 ELSE primary[j.keys[i]].ref > 0

Readers(k) == Cardinality({r \in Reqs : k \in gpuLoads[r]})
              + Cardinality({j \in jobs : ~j.promotion /\ k \in Range(j.keys)})
Writers(k) == Cardinality({r \in Reqs : \E keys \in gpuStores[r] : k \in keys})
              + Cardinality({j \in jobs : j.promotion /\ k \in Range(j.keys)})
              + Cardinality({x \in Tiers \X Reqs :
                               \E i \in DOMAIN pending[x[1]][x[2]] : pending[x[1]][x[2]][i].key = k})

\* A block is pinned by exactly the GPU loads and cascades that read it, and
\* write-pending exactly while one GPU store or promotion fills it.
RefCountsAreExact ==
    \A k \in DOMAIN primary :
       IF primary[k].ref = -1 THEN Writers(k) = 1 /\ Readers(k) = 0
       ELSE Writers(k) = 0 /\ Readers(k) = primary[k].ref

\* The pools and the manager agree on what is in flight: every job a tier will
\* report is one the manager waits for, once.
JobsAreTracked ==
    \A t \in Tiers :
       /\ {j \in jobs : j.tier = t} = InFlight(t) \cup {f.job : f \in finished[t]}
       /\ Cardinality({j \in jobs : j.tier = t})
            = Len(loadQ[t]) + Len(storeQ[t]) + Cardinality(running[t]) + Cardinality(finished[t])

\* A tier remembers verdicts only for requests it has not been told are over.
VerdictsAreWanted ==
    \A t \in Tiers : \A k \in DOMAIN verdicts[t] :
       /\ verdicts[t][k].reqs # {}
       /\ \A r \in verdicts[t][k].reqs : told[t][r] = 0

\* Tiers are told once that a request is over, and get no job of it afterwards.
ToldOnceAndLast ==
    [][\A t \in Tiers, r \in Reqs :
          /\ told'[t][r] <= 1
          /\ told[t][r] = 1 => \A j \in jobs' \ jobs : ~(j.tier = t /\ j.req = r)]_vars

\* A waiting request is decided in the end, whatever promotions fail.
LookupsAreDecided == \A r \in Reqs : (phase[r] = "waiting") ~> (phase[r] # "waiting" \/ ~Alive)

\* Not kept: a cached verdict is decided once (the assertion of drain_results).
ProbedOnce == crashed # "second verdict"

\* Not kept: keys the lookup counted as hits can be loaded (the assertions of
\* prepare_load).
HitsCanBeLoaded == crashed # "hit is gone"

=============================================================================

----------------------------- MODULE FsThreadPool -----------------------------
(***************************************************************************)
(* The I/O side of the file-system tiers (kv_offload/tiering/fs): a          *)
(* DualQueueThreadPool per tier whose threads copy blocks between slots of    *)
(* the primary tier and files, one file per key.  A job is one task: its     *)
(* blocks are copied in order and the first error ends it.                   *)
(*                                                                         *)
(* A job is the record the manager keeps of it; no two alike are in flight.  *)
(* Load-priority threads take loads first, store-priority threads stores;    *)
(* threads of one kind are interchangeable.                                 *)
(***************************************************************************)
EXTENDS Integers, SequencesExt, FiniteSetsExt

CONSTANTS
    Keys,
    LoadThreads,   \* load-priority threads of a pool
    StoreThreads,  \* store-priority threads of a pool
    NoKey,         \* no file
    Garbage        \* the content of a slot nothing was copied to

VARIABLES
    loadQ,     \* tier -> _load_q
    storeQ,    \* tier -> _store_q
    running,   \* tier -> [job, n, loads]: n blocks copied, by a load-priority thread or not
    finished,  \* tier -> _finished_q: [job, ok, n]
    data,      \* slot -> the key whose KV it holds
    disk       \* tier -> key -> the key whose KV its file holds, or NoKey

queueVars == <<loadQ, storeQ>>
poolVars == <<loadQ, storeQ, running, finished>>
storageVars == <<data, disk>>

HasFile(t) == {k \in Keys : disk[t][k] # NoKey}

\* One pool per tier; onDisk: the keys that have a file at the start.
PoolInit(Tiers, Slots, onDisk) ==
    /\ loadQ = [t \in Tiers |-> <<>>]
    /\ storeQ = [t \in Tiers |-> <<>>]
    /\ running = [t \in Tiers |-> {}]
    /\ finished = [t \in Tiers |-> {}]
    /\ data = [s \in Slots |-> Garbage]
    /\ disk = [t \in Tiers |-> [k \in Keys |-> IF k \in onDisk[t] THEN k ELSE NoKey]]

-----------------------------------------------------------------------------

\* Mutant: wait_idle waits for the queues only.
QueuesEmpty(t) == loadQ[t] = <<>> /\ storeQ[t] = <<>>

\* wait_idle: _inflight_jobs counts queued and running jobs.
PoolIdle(t) == loadQ[t] = <<>> /\ storeQ[t] = <<>> /\ running[t] = {}

IdleThread(t, loads) ==
    Cardinality({w \in running[t] : w.loads = loads})
       < IF loads THEN LoadThreads ELSE StoreThreads

Started(t, job, loads) ==
    running' = [running EXCEPT ![t] = @ \cup {[job |-> job, n |-> 0, loads |-> loads]}]

\* An idle thread takes the oldest job of its own queue, or else of the other.
TakeLoad(t, loads) ==
    /\ IdleThread(t, loads)
    /\ loadQ[t] # <<>>
    /\ loads \/ storeQ[t] = <<>>
    /\ Started(t, Head(loadQ[t]), loads)
    /\ loadQ' = [loadQ EXCEPT ![t] = Tail(@)]
    /\ UNCHANGED <<storeQ, finished, data, disk>>

TakeStore(t, loads) ==
    /\ IdleThread(t, loads)
    /\ storeQ[t] # <<>>
    /\ loads => loadQ[t] = <<>>
    /\ Started(t, Head(storeQ[t]), loads)
    /\ storeQ' = [storeQ EXCEPT ![t] = Tail(@)]
    /\ UNCHANGED <<loadQ, finished, data, disk>>

\* task_done: the job is published with what was copied before an error.
Ended(t, w, ok, n) ==
    /\ running' = [running EXCEPT ![t] = @ \ {w}]
    /\ finished' = [finished EXCEPT ![t] = @ \cup {[job |-> w.job, ok |-> ok, n |-> n]}]

Copied(t, w) ==
    IF w.n + 1 = Len(w.job.keys)
    THEN Ended(t, w, TRUE, w.n + 1)
    ELSE /\ running' = [running EXCEPT ![t] = (@ \ {w}) \cup {[w EXCEPT !.n = @ + 1]}]
         /\ UNCHANGED finished

KeyOf(w) == w.job.keys[w.n + 1]
SlotOf(w) == w.job.slots[w.n + 1]

\* _store_block: a file that exists is left alone; os.replace makes it atomic.
StoreBlock(t, w) ==
    /\ ~w.job.promotion
    /\ disk' = [disk EXCEPT ![t][KeyOf(w)] = IF @ = NoKey THEN data[SlotOf(w)] ELSE @]
    /\ Copied(t, w)
    /\ UNCHANGED <<loadQ, storeQ, data>>

\* The write fails and the temporary file is removed.
StoreBlockFails(t, w) ==
    /\ ~w.job.promotion
    /\ KeyOf(w) \notin HasFile(t)
    /\ Ended(t, w, FALSE, w.n)
    /\ UNCHANGED <<loadQ, storeQ, data, disk>>

\* _load_block.
LoadBlock(t, w) ==
    /\ w.job.promotion
    /\ KeyOf(w) \in HasFile(t)
    /\ data' = [data EXCEPT ![SlotOf(w)] = disk[t][KeyOf(w)]]
    /\ Copied(t, w)
    /\ UNCHANGED <<loadQ, storeQ, disk>>

\* There is no such file any more.
LoadBlockMissing(t, w) ==
    /\ w.job.promotion
    /\ KeyOf(w) \notin HasFile(t)
    /\ Ended(t, w, FALSE, w.n)
    /\ UNCHANGED <<loadQ, storeQ, data, disk>>

\* The read fails half-way; a file that proves too short is removed.
LoadBlockFails(t, w, short) ==
    /\ w.job.promotion
    /\ KeyOf(w) \in HasFile(t)
    /\ data' = [data EXCEPT ![SlotOf(w)] = Garbage]
    /\ disk' = [disk EXCEPT ![t][KeyOf(w)] = IF short THEN NoKey ELSE @]
    /\ Ended(t, w, FALSE, w.n)
    /\ UNCHANGED <<loadQ, storeQ>>

\* Another process that shares root_dir removes a file.
FileVanishes(t, k) ==
    /\ k \in HasFile(t)
    /\ disk' = [disk EXCEPT ![t][k] = NoKey]
    /\ UNCHANGED <<loadQ, storeQ, running, finished, data>>

Work(t) ==
    \/ \E loads \in BOOLEAN : TakeLoad(t, loads) \/ TakeStore(t, loads)
    \/ \E w \in running[t] : StoreBlock(t, w) \/ LoadBlock(t, w) \/ LoadBlockMissing(t, w)

=============================================================================

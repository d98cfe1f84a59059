----------------------------- MODULE OffloadStore -----------------------------
(***************************************************************************)
(* What the host-RAM tier promises the connector, without slots, counters   *)
(* or a policy (the contract of OffloadingManager in kv_offload/base.py):   *)
(* a set of readable keys, jobs that read some of them or write new ones,   *)
(* and room for Capacity keys.  A key that is being read stays readable,     *)
(* and a key becomes readable only when the job that writes it is done.      *)
(***************************************************************************)
EXTENDS Integers, FiniteSets

CONSTANTS Keys, JobIds, Capacity

VARIABLES
    ready,    \* keys that can be loaded
    reading,  \* job -> keys it loads
    writing   \* job -> keys it stores

storeVars == <<ready, reading, writing>>

Written == UNION {writing[j] : j \in JobIds}
InUse == UNION {reading[j] : j \in JobIds}
Free(j) == reading[j] = {} /\ writing[j] = {}

StoreInit ==
    /\ ready = {}
    /\ reading = [j \in JobIds |-> {}]
    /\ writing = [j \in JobIds |-> {}]

StartRead(j, keys) ==
    /\ Free(j)
    /\ keys \subseteq ready
    /\ reading' = [reading EXCEPT ![j] = keys]
    /\ UNCHANGED <<ready, writing>>

EndRead(j) ==
    /\ reading' = [reading EXCEPT ![j] = {}]
    /\ UNCHANGED <<ready, writing>>

\* Room for the new keys is made from keys nobody reads.
StartWrite(j, keys, evicted) ==
    /\ Free(j)
    /\ keys \cap (ready \cup Written) = {}
    /\ evicted \subseteq ready \ InUse
    /\ Cardinality((ready \ evicted) \cup Written \cup keys) <= Capacity
    /\ ready' = ready \ evicted
    /\ writing' = [writing EXCEPT ![j] = keys]
    /\ UNCHANGED reading

Commit(j) ==
    /\ ready' = ready \cup writing[j]
    /\ writing' = [writing EXCEPT ![j] = {}]
    /\ UNCHANGED reading

Abort(j) ==
    /\ writing' = [writing EXCEPT ![j] = {}]
    /\ UNCHANGED <<ready, reading>>

Clear ==
    /\ ready' = {}
    /\ reading' = [j \in JobIds |-> {}]
    /\ writing' = [j \in JobIds |-> {}]

StoreNext ==
    \/ \E j \in JobIds :
         \/ \E keys \in SUBSET Keys : StartRead(j, keys)
         \/ EndRead(j)
         \/ \E keys, evicted \in SUBSET Keys : StartWrite(j, keys, evicted)
         \/ Commit(j)
         \/ Abort(j)
    \/ Clear

StoreSpec == StoreInit /\ [][StoreNext]_storeVars
=============================================================================

------------------------------ MODULE P2PClient ------------------------------
(***************************************************************************)
(* ClientRole (kv_offload/tiering/p2p/session/client.py) for one             *)
(* kv_request_id: what its methods do to the entry _ClientRequestState, and   *)
(* the messages they send.  No entry is the same as a fresh one.             *)
(***************************************************************************)
EXTENDS Integers, SequencesExt, FiniteSetsExt

\* probes: key -> "none", "hit" or "miss"; unsent: keys of the next LookupMsg;
\* round: round_seq; open: peer_lookup_open; loads: round -> [job, aborting].
FreshClient ==
    [probes |-> [k \in {} |-> "none"], unsent |-> {}, round |-> 0, open |-> FALSE,
     loads |-> [n \in {} |-> [job |-> 0, aborting |-> FALSE]]]

\* _maybe_prune: the entry goes, and with it the round number.
Prune(c) ==
    IF c.loads = FreshClient.loads /\ c.probes = FreshClient.probes /\ c.unsent = {}
    THEN FreshClient ELSE c

\* register_lookup of keys that have no probe yet.
Registered(c, keys) ==
    [c EXCEPT !.probes = [k \in DOMAIN @ \cup keys |-> IF k \in DOMAIN @ THEN @[k] ELSE "none"],
              !.unsent = @ \cup keys]

\* request_blocks: a fetch closes the round; probes go, what is unsent stays.
Requested(c, job) ==
    [c EXCEPT !.round = @ + 1,
              !.loads = [n \in DOMAIN @ \cup {c.round} |->
                           IF n = c.round THEN [job |-> job, aborting |-> FALSE] ELSE @[n]],
              !.open = FALSE,
              !.probes = FreshClient.probes]
FetchMsg(c, keys, job) == [type |-> "fetch", keys |-> keys, job |-> job, round |-> c.round]

\* flush_pending_lookups.
Flushed(c) == IF c.unsent = {} THEN c ELSE [c EXCEPT !.open = TRUE, !.unsent = {}]
LookupMsgs(c) == IF c.unsent = {} THEN <<>>
                 ELSE <<[type |-> "lookup", keys |-> c.unsent, job |-> 0, round |-> c.round]>>

AbortMsg(n) == [type |-> "abort", keys |-> {}, job |-> 0, round |-> n]

\* finish: loads are aborted and forgotten, and the peer's lookup state closed.
FinishMsgs(c) ==
    LET awaited == {n \in DOMAIN c.loads : ~c.loads[n].aborting}
    IN [i \in DOMAIN SetToSeq(awaited) |-> AbortMsg(SetToSeq(awaited)[i])]
       \o IF c.open THEN <<FetchMsg(c, {}, 0)>> ELSE <<>>

\* A load ends: on_transfer_done, on_abort_ack, or no ack came in time.
LoadOver(c, n) ==
    LET loads == [x \in DOMAIN c.loads \ {n} |-> c.loads[x]]
        c1 == [c EXCEPT !.loads = loads]
    IN IF loads = FreshClient.loads THEN Prune(c1) ELSE c1

Aborting(c, n) == [c EXCEPT !.loads[n].aborting = TRUE]

\* on_lookup_resp: answers to keys nobody probes any more are dropped.
Answered(c, answers) ==
    [c EXCEPT !.probes = [k \in DOMAIN @ |-> IF k \in DOMAIN answers THEN answers[k] ELSE @[k]]]

=============================================================================

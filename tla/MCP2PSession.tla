---------------------------- MODULE MCP2PSession ----------------------------
(* Model-checking instances of P2PSession. *)
EXTENDS P2PSession

CONSTANTS a, b

TwoKeys == {a, b}

\* limits: the faults that may happen, each once or as often as it says.
Workload(mode, results, limits) ==
    [f \in {"mode", "prompt", "results"} \cup Faults |->
        CASE f = "mode" -> mode
          [] f = "prompt" -> <<a, b>>
          [] f = "results" -> results
          [] OTHER -> IF f \in DOMAIN limits THEN limits[f] ELSE 0]

\* The peer has a, and may or may not have b; the answer may take its time.
Decided == [k \in TwoKeys |-> IF k = a THEN {"HIT"} ELSE {"HIT", "MISS"}]
Slow == [k \in TwoKeys |-> IF k = a THEN {"HIT"} ELSE {"MISS", "PENDING", "HIT"}]

MCWorkloads ==
    {Workload("probe", Slow, [preempts |-> 1, loadTimeouts |-> 1, failures |-> 1]),
     Workload("probe", Decided, [preempts |-> 1, loadTimeouts |-> 1, ackTimeouts |-> 1]),
     Workload("probe", Decided, [evictions |-> 1, loadTimeouts |-> 1]),
     Workload("probe", Decided, [losses |-> 1, preempts |-> 1, failures |-> 1]),
     Workload("prefill", Decided, [failures |-> 1, loadTimeouts |-> 1]),
     Workload("prefill", Decided, [storeTimeouts |-> 1, loadTimeouts |-> 1]),
     Workload("prefill", Decided, [losses |-> 1, failures |-> 1])}
=============================================================================

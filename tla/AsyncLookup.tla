------------------------------ MODULE AsyncLookup ------------------------------
(***************************************************************************)
(* The asynchronous existence checks of the secondary tiers                *)
(* (kv_offload/tiering/async_lookup.py), one AsyncLookupManager per tier.    *)
(* The scheduler thread keeps a verdict for every key a live request has     *)
(* asked about; a key asked for the first time joins the step's batch, the   *)
(* batch goes through a queue to the tier's lookup thread, and the thread's  *)
(* answers come back through another queue.                                 *)
(***************************************************************************)
EXTENDS Integers, SequencesExt

CONSTANTS
    Keys,  \* offload keys
    Reqs   \* requests

VARIABLES
    verdicts,  \* tier -> _lookup_state: key -> [result, reqs]
    asked,     \* tier -> _lookup_batch: [key, req] this step's lookups ask about
    probes,    \* tier -> _lookup_queue: batches on their way to the thread
    answers,   \* tier -> _pending_results: [key, found] on their way back
    mustDrain  \* tier -> _need_to_drain

lookupVars == <<verdicts, asked, probes, answers, mustDrain>>

NoVerdicts == [k \in {} |-> [result |-> "none", reqs |-> {}]]

LookupInit(Tiers) ==
    /\ verdicts = [t \in Tiers |-> NoVerdicts]
    /\ asked = [t \in Tiers |-> <<>>]
    /\ probes = [t \in Tiers |-> <<>>]
    /\ answers = [t \in Tiers |-> <<>>]
    /\ mustDrain = [t \in Tiers |-> FALSE]

-----------------------------------------------------------------------------
(***************************************************************************)
(* What the scheduler thread does to a verdict table v.                     *)
(***************************************************************************)

Verdict(found) == IF found THEN "hit" ELSE "miss"

\* drain_results: an answer decides its key, unless no request asks any more.
AnswersFor(t, k) == SelectSeq(answers[t], LAMBDA a : a.key = k)

Drain(t, v) ==
    [k \in DOMAIN v |->
       IF AnswersFor(t, k) = <<>> THEN v[k]
       ELSE [v[k] EXCEPT !.result = Verdict(AnswersFor(t, k)[1].found)]]

\* The assertion of drain_results fails: a decided key is answered again.
AnsweredTwice(t, v) ==
    \E k \in DOMAIN v :
       Len(AnswersFor(t, k)) > IF v[k].result = "none" THEN 1 ELSE 0

\* lookup drains first, once in a step.
Seen(t, v) == IF mustDrain[t] THEN Drain(t, v) ELSE v

Known(k, v) == k \in DOMAIN v
ResultFor(k, v) == IF Known(k, v) THEN v[k].result ELSE "none"

AskedBy(k, r, v) ==
    [x \in DOMAIN v \cup {k} |->
       IF x # k THEN v[x]
       ELSE IF Known(k, v) THEN [v[k] EXCEPT !.reqs = @ \cup {r}]
       ELSE [result |-> "none", reqs |-> {r}]]

\* Mutant: the verdict of a key whose promotion failed stays a hit.
MarkMissForgotten(keys, v) == v

\* mark_miss: keys whose promotion failed are no longer hits.
MarkMiss(keys, v) ==
    [k \in DOMAIN v |-> IF k \in keys THEN [v[k] EXCEPT !.result = "miss"] ELSE v[k]]

\* Mutant: entries outlive the requests that asked for them.
CleanupKeeps(rs, v) ==
    [k \in DOMAIN v |-> [v[k] EXCEPT !.reqs = @ \ rs]]

\* cleanup, for the requests rs: entries no request needs any more go.
Cleanup(rs, v) ==
    [k \in {x \in DOMAIN v : ~(v[x].reqs \subseteq rs)} |-> [v[k] EXCEPT !.reqs = @ \ rs]]

\* flush: the step's batch goes to the thread.
Flush(Tiers) ==
    /\ mustDrain' = [t \in Tiers |-> TRUE]
    /\ probes' = [t \in Tiers |-> IF asked[t] = <<>> THEN probes[t]
                                  ELSE Append(probes[t], asked[t])]
    /\ asked' = [t \in Tiers |-> <<>>]

-----------------------------------------------------------------------------
(***************************************************************************)
(* The lookup thread: one batch at a time, answered as one item.             *)
(***************************************************************************)

\* What the thread finds; a batch_lookup that raises finds nothing for its request.
Found(ask, present, failing) == ask.key \in present /\ ask.req \notin failing

Probe(t, present, failing) ==
    /\ probes[t] # <<>>
    /\ probes' = [probes EXCEPT ![t] = Tail(@)]
    /\ answers' = [answers EXCEPT ![t] = @ \o
                     [i \in DOMAIN Head(probes[t]) |->
                        LET ask == Head(probes[t])[i]
                        IN [key |-> ask.key, found |-> Found(ask, present, failing)]]]
    /\ UNCHANGED <<verdicts, asked, mustDrain>>

=============================================================================

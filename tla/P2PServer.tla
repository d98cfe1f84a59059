------------------------------ MODULE P2PServer ------------------------------
(***************************************************************************)
(* ServerRole (kv_offload/tiering/p2p/session/server.py) for one             *)
(* kv_request_id: what its methods do to its state s,                        *)
(*   rounds   outbound: round -> supply and demand of a fetch round,          *)
(*   queue    pending_lookups: LookupMsgs not processed yet,                  *)
(*   parked   lookups: LookupMsgs with keys that are not decided yet,          *)
(*   aborts   _pending_aborts: rounds whose transfers are being cancelled,     *)
(*   stores   _store_jobs: jobs that pin blocks of the primary tier,           *)
(*   xfers    _inflight: transfers submitted and not polled,                  *)
(*   sent     the messages the method sends.                                 *)
(***************************************************************************)
EXTENDS Integers, SequencesExt, FiniteSetsExt

\* job: the client's load the demand is for; blocks are named by their keys.
NewRound == [supplied |-> FALSE, fetched |-> FALSE, job |-> 0, remaining |-> 0,
             available |-> [k \in {} |-> 0], demanded |-> {}, finishing |-> FALSE, jobs |-> {}]

FreshServer == [rounds |-> [n \in {} |-> NewRound], queue |-> <<>>, parked |-> <<>>,
                aborts |-> {}, stores |-> {}, xfers |-> {}, sent |-> <<>>]

RoundOf(s, n) == IF n \in DOMAIN s.rounds THEN s.rounds[n] ELSE NewRound
WithRound(s, n, r) ==
    [s EXCEPT !.rounds = [x \in DOMAIN @ \cup {n} |-> IF x = n THEN r ELSE @[x]]]

\* Rounds leave outbound; their transfers stay in flight, but serve no round.
AllPopped(s, ns) ==
    [s EXCEPT !.rounds = [x \in DOMAIN @ \ ns |-> @[x]],
              !.xfers = {IF x.round \in ns THEN [x EXCEPT !.live = FALSE] ELSE x : x \in @}]
Popped(s, n) == AllPopped(s, {n})

Sent(s, type, n, ok, answers) ==
    [s EXCEPT !.sent = Append(@, [type |-> type, round |-> n, ok |-> ok, answers |-> answers])]
NoAnswers == [k \in {} |-> "none"]

InFlight(s, n) == {x \in s.xfers : x.round = n /\ x.live}

\* Job ids that nothing refers to any more may be used again; what an unfetched
\* round has available is of its jobs.
UsedIds(s) == s.stores \cup (UNION {x.jobs : x \in s.xfers})
              \cup (UNION {s.rounds[n].jobs : n \in DOMAIN s.rounds})
FreshId(taken) == CHOOSE j \in 1..(Cardinality(taken) + 1) : j \notin taken
NextId(s) == FreshId(UsedIds(s))

\* _finalize_outbound: rounds go, and their jobs are reported.
Dropped(s, ns) == [AllPopped(s, ns) EXCEPT !.stores = @ \ UNION {s.rounds[n].jobs : n \in ns}]

\* Mutant: a client is told of success only.
FinalizedTellsSuccess(s, n, ok) ==
    IF ok THEN Sent(Dropped(s, {n}), "done", n, ok, NoAnswers) ELSE Dropped(s, {n})

\* The same, and the client is told that the round is done.
Finalized(s, n, ok) ==
    IF s.rounds[n].fetched THEN Sent(Dropped(s, {n}), "done", n, ok, NoAnswers) ELSE Dropped(s, {n})

\* _submit_transfer.  write_blocks takes every transfer: it refuses one only to a
\* peer that is not registered, and the peer registers before its first fetch.
Submitted(s, n, keys, jobs) ==
    [s EXCEPT !.xfers = @ \cup {[round |-> n, live |-> TRUE, keys |-> keys, jobs |-> jobs,
                                 to |-> s.rounds[n].job]}]

\* add_stored_blocks: supply meets the demand of its round, or waits for it.
Stored(s, n, keys, job, lookup) ==
    LET r == RoundOf(s, n)
        matched == keys \cap r.demanded
        s1 == WithRound([s EXCEPT !.stores = @ \cup {job}], n,
                [r EXCEPT !.supplied = @ \/ lookup,
                          !.jobs = @ \cup {job},
                          !.demanded = @ \ matched,
                          !.available = [k \in DOMAIN @ \cup (keys \ matched) |->
                                           IF k \in keys THEN job ELSE @[k]]])
    IN IF matched = {} THEN s1 ELSE Submitted(s1, n, matched, {job})

\* The batches that waited for the id to be bound, in order.
Replayed(s, batches) ==
    LET after[i \in 0..Len(batches)] ==
          IF i = 0 THEN s ELSE Stored(after[i - 1], 0, batches[i].keys, batches[i].job, FALSE)
    IN after[Len(batches)]

\* _finish_inbound_lookups.
LookupsClosed(s) == [s EXCEPT !.queue = <<>>, !.parked = <<>>]

\* Two fetches for one round: the session is closed.
DuplicateFetch(s, n) == RoundOf(s, n).fetched

\* on_fetch.  The empty fetch closes the id; a round supplied by lookups fails
\* if it misses a block.
Fetched(s, n, keys, job) ==
    LET r == RoundOf(s, n)
        matched == keys \cap DOMAIN r.available
        s1 == WithRound(s, n,
                [r EXCEPT !.fetched = TRUE, !.job = job, !.remaining = Cardinality(keys),
                          !.available = [k \in DOMAIN @ \ matched |-> @[k]],
                          !.demanded = keys \ matched])
        s2 == IF matched = {} THEN s1
              ELSE Submitted(s1, n, matched, {r.available[k] : k \in matched})
    IN IF keys = {}
       THEN Dropped(LookupsClosed(s1), DOMAIN s1.rounds)
       ELSE IF r.supplied /\ keys # matched THEN Finalized(s1, n, FALSE)
       ELSE IF r.finishing /\ InFlight(s2, n) = {} THEN Finalized(s2, n, FALSE)
       ELSE s2

\* Mutant: an abort that has to wait for its transfers is not tried again.
DrainedOnce(s, n, stuck) ==
    LET s1 == Popped([s EXCEPT !.stores = @ \ RoundOf(s, n).jobs, !.aborts = @ \ {n}], n)
    IN IF \E x \in stuck : x.round = n THEN s1
       ELSE Sent([s1 EXCEPT !.xfers = {x \in @ : x.round # n}], "ack", n, FALSE, NoAnswers)

\* _drain_abort: the round goes and its jobs with it; the client is told once
\* no transfer of the round's number is left.  The transport cannot cancel the
\* transfers in stuck yet.
Drained(s, n, stuck) ==
    LET s1 == Popped([s EXCEPT !.stores = @ \ RoundOf(s, n).jobs], n)
        left == {[x EXCEPT !.live = FALSE] : x \in {y \in stuck : y.round = n}}
        s2 == [s1 EXCEPT !.xfers = {x \in @ : x.round # n} \cup left]
    IN IF left # {} THEN s2
       ELSE Sent([s2 EXCEPT !.aborts = @ \ {n}], "ack", n, FALSE, NoAnswers)

\* Mutant: the abort is acknowledged before its transfers are cancelled.
AbortedAtOnce(s, n, stuck) ==
    Sent(Popped([s EXCEPT !.stores = @ \ RoundOf(s, n).jobs], n), "ack", n, FALSE, NoAnswers)

\* on_abort_fetch.
Aborted(s, n, stuck) == Drained([s EXCEPT !.aborts = @ \cup {n}], n, stuck)

\* serve_external_requests for one LookupMsg: keys the parent has are pinned and
\* supply the lookup's round; the answer waits until every key is decided, or
\* until it is late.
Served(s, l, result, late) ==
    LET hits == {k \in l.pending : result[k] = "HIT"}
        misses == {k \in l.pending : result[k] = "MISS" \/ (late /\ result[k] # "HIT")}
        pending == l.pending \ (hits \cup misses)
        answers == [k \in DOMAIN l.answers |-> IF k \in hits THEN "hit"
                                               ELSE IF k \in misses THEN "miss" ELSE l.answers[k]]
        s1 == IF hits = {} THEN s ELSE Stored(s, l.round, hits, NextId(s), TRUE)
    IN IF pending = {} THEN Sent(s1, "answer", l.round, TRUE, answers)
       ELSE [s1 EXCEPT !.parked = Append(@, [l EXCEPT !.answers = answers, !.pending = pending])]

\* The lookups ls in their order; the first ones may be late.
ServedEach(s, ls, result, late) ==
    LET after[i \in 0..Len(ls)] ==
          IF i = 0 THEN s ELSE Served(after[i - 1], ls[i], result, i <= late)
    IN after[Len(ls)]

\* serve_external_requests: first what came in, then what is parked, of which
\* the oldest may be late.
ServedAll(s, result, late) ==
    LET s1 == ServedEach([s EXCEPT !.queue = <<>>], s.queue, result, 0)
    IN ServedEach([s1 EXCEPT !.parked = <<>>], s1.parked, result, late)

\* on_lookup.
Enqueued(s, n, keys) ==
    [s EXCEPT !.queue = Append(@, [round |-> n, pending |-> keys, answers |-> [k \in keys |-> "none"]])]

\* Mutant: a round with no transfer left is done.
XferDoneIdle(s, x) ==
    LET s1 == [s EXCEPT !.xfers = @ \ {x}, !.stores = @ \ x.jobs]
    IN IF x.live /\ InFlight(s1, x.round) = {} THEN Finalized(s1, x.round, TRUE) ELSE s1

\* collect_results, for a transfer that is done.
XferDone(s, x) ==
    LET s1 == [s EXCEPT !.xfers = @ \ {x}, !.stores = @ \ x.jobs]
        r == [s.rounds[x.round] EXCEPT !.remaining = @ - Cardinality(x.keys), !.jobs = @ \ x.jobs]
        s2 == WithRound(s1, x.round, r)
    IN IF ~x.live THEN s1
       ELSE IF r.remaining = 0 THEN Finalized(s2, x.round, TRUE)
       ELSE IF r.finishing /\ InFlight(s2, x.round) = {} THEN Finalized(s2, x.round, FALSE)
       ELSE s2

\* A transfer that failed fails its round; the round's others are cancelled.
XferFailed(s, x) ==
    LET s1 == [s EXCEPT !.xfers = @ \ {x}, !.stores = @ \ x.jobs]
    IN IF ~x.live THEN s1
       ELSE Finalized([s1 EXCEPT !.xfers = @ \ InFlight(s1, x.round)], x.round, FALSE)

\* finish: what the client demands and is not on its way will never come.
Finished(s) ==
    LET s1 == [LookupsClosed(s) EXCEPT !.rounds = [n \in DOMAIN @ |-> [@[n] EXCEPT !.finishing = TRUE]]]
        over == {n \in DOMAIN s1.rounds : s1.rounds[n].fetched /\ InFlight(s1, n) = {}}
        order == SetToSeq(over)
    IN [Dropped(s1, over) EXCEPT
          !.sent = @ \o [i \in DOMAIN order |->
                           [type |-> "done", round |-> order[i], answers |-> NoAnswers,
                            ok |-> s1.rounds[order[i]].remaining = 0]]]

=============================================================================

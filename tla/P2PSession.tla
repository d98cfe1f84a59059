------------------------------ MODULE P2PSession ------------------------------
(***************************************************************************)
(* A request of one engine that fetches KV blocks from another engine        *)
(* (kv_offload/tiering/p2p): the client role, the server role, the ordered    *)
(* channels between them (session.py over ZeroMQ) and the transfers the      *)
(* server writes into the client's memory (NIXL), with the parts of           *)
(* P2PSecondaryTierManager that drive the two roles.                         *)
(*                                                                         *)
(* Two kinds of request: "probe" (remote_kv_source) asks the peer which        *)
(* blocks it has; "prefill" (remote_prefiller) takes it for granted that the   *)
(* peer, where a request of the same id is prefilled, stores them all.        *)
(*                                                                         *)
(* poll() handles the messages that arrived one by one and then looks at       *)
(* timeouts and transfers: each is an action here.  A message waiting for the  *)
(* handshake is one more message in the channel.                             *)
(***************************************************************************)
EXTENDS Integers, SequencesExt, FiniteSetsExt

CONSTANTS
    Keys,      \* offload keys
    MaxLoads,  \* bound on the loads of the request
    Workloads  \* what may happen: see workload

Faults == {"loadTimeouts", "ackTimeouts", "storeTimeouts", "failures", "preempts", "losses",
           "evictions"}

ASSUME KeysAssumption == IsFiniteSet(Keys)
ASSUME MaxLoadsAssumption == MaxLoads \in Nat
ASSUME WorkloadsAssumption == \A w \in Workloads : w.prompt \in Seq(Keys)

VARIABLES
    workload,  \* mode: "probe" or "prefill"; prompt: the request's keys, in order;
               \* results: key -> what the peer's lookup may answer;
               \* loadTimeouts, ackTimeouts, storeTimeouts, failures, preempts,
               \* losses, evictions: bounds on what may go wrong
    client,    \* ClientRole's entry for the request
    server,    \* ServerRole's state for it
    toServer, toClient,  \* the messages on their way
    session,   \* side -> whether it still has the session
    connected, \* the connection is alive
    phase,     \* the request: waiting, running, or finished
    primary,   \* client: key -> absent, pending or ready in its primary tier
    loads,     \* client: load -> [state, keys, got, clean]
    failedReq, \* client: the request is in _failed_req_ids
    expired,   \* loads given up without an answer of the server, or on that to another
    prefiller, \* server: keys its request stored, whether it is finished
    bound,     \* server: the id is in _kv_to_session
    unbound,   \* server: _unbound_stores: batches [job, keys], oldest first
    used       \* how often each thing went wrong

C == INSTANCE P2PClient
S == INSTANCE P2PServer

clientVars == <<client, phase, primary, loads, failedReq, expired>>
serverVars == <<server, prefiller, bound, unbound>>
channelVars == <<toServer, toClient>>
linkVars == <<session, connected>>
vars == <<clientVars, serverVars, channelVars, linkVars, workload, used>>

Loads == 1..MaxLoads
Unused == [state |-> "unused", keys |-> {}, got |-> {}, clean |-> TRUE]

Init ==
    /\ workload \in Workloads
    /\ client = C!FreshClient
    /\ server = S!FreshServer
    /\ toServer = <<>> /\ toClient = <<>>
    /\ session = [side \in {"client", "server"} |-> TRUE]
    /\ connected = TRUE
    /\ phase = "waiting"
    /\ primary = [k \in Keys |-> "absent"]
    /\ loads = [j \in Loads |-> Unused]
    /\ failedReq = FALSE
    /\ expired = {}
    /\ prefiller = [stored |-> {}, finished |-> FALSE]
    /\ bound = FALSE
    /\ unbound = <<>>
    /\ used = [f \in Faults |-> 0]

May(f) == used[f] < workload[f]
Uses(f) == May(f) /\ used' = [used EXCEPT ![f] = @ + 1]

\* A session that is closed or broken sends nothing.
Sends(channel, msgs) == IF connected THEN channel \o msgs ELSE channel

-----------------------------------------------------------------------------
(***************************************************************************)
(* The client's engine.                                                    *)
(***************************************************************************)

\* lookup of the tier, for a key the primary tier does not have.
TierResult(k) ==
    IF failedReq THEN "MISS"
    ELSE IF workload.mode = "prefill" THEN "HIT"
    ELSE IF ~session["client"] THEN "MISS"
    ELSE IF k \notin DOMAIN client.probes THEN "RETRY"
    ELSE CASE client.probes[k] = "none" -> "RETRY"
           [] client.probes[k] = "hit" -> "HIT"
           [] client.probes[k] = "miss" -> "MISS"

\* The keys an engine step looks up: up to the first miss.
Missing(i) == primary[workload.prompt[i]] = "absent" /\ TierResult(workload.prompt[i]) = "MISS"
Scanned == {workload.prompt[i] : i \in {i \in DOMAIN workload.prompt : \A j \in 1..i : ~Missing(j)}}
Hits == {k \in Scanned : primary[k] = "absent" /\ TierResult(k) = "HIT"}
NewProbes == {k \in Scanned : primary[k] = "absent" /\ TierResult(k) = "RETRY"
                              /\ k \notin DOMAIN client.probes}

NextLoad == {j \in Loads : loads[j].state = "unused" /\ \A i \in 1..(j - 1) : loads[i].state # "unused"}

Began(j, state) == loads' = [loads EXCEPT ![j] = [Unused EXCEPT !.state = state, !.keys = Hits]]

\* A schedule that has nothing to fetch: lookups, on_schedule_end.  The request
\* runs once nothing it looked up is outstanding.
Schedule ==
    LET c == IF NewProbes = {} THEN client ELSE C!Registered(client, NewProbes)
    IN /\ phase = "waiting" /\ Hits = {}
       /\ client' = C!Flushed(c)
       /\ toServer' = Sends(toServer, C!LookupMsgs(c))
       /\ phase' = IF \A k \in Scanned : primary[k] = "ready" THEN "running" ELSE "waiting"
       /\ UNCHANGED <<primary, loads, failedReq, expired, serverVars, toClient, linkVars,
                      workload, used>>

\* Promotions: submit_load sends the FetchMsg, then the lookups are flushed.
ScheduleFetch(j) ==
    LET c == IF NewProbes = {} THEN client ELSE C!Registered(client, NewProbes)
        c1 == C!Requested(c, j)
    IN /\ phase = "waiting" /\ Hits # {} /\ session["client"]
       /\ j \in NextLoad
       /\ client' = C!Flushed(c1)
       /\ toServer' = Sends(toServer, <<C!FetchMsg(c, Hits, j)>> \o C!LookupMsgs(c1))
       /\ Began(j, "wait")
       /\ primary' = [k \in Keys |-> IF k \in Hits THEN "pending" ELSE primary[k]]
       /\ UNCHANGED <<phase, failedReq, expired, serverVars, toClient, linkVars, workload, used>>

\* submit_load finds no session: the job fails.
ScheduleNoSession(j) ==
    /\ phase = "waiting" /\ Hits # {} /\ ~session["client"]
    /\ j \in NextLoad
    /\ Began(j, "failed")
    /\ failedReq' = TRUE
    /\ UNCHANGED <<client, phase, primary, expired, serverVars, channelVars, linkVars,
                   workload, used>>

\* The request is preempted, and some of its keys are evicted meanwhile.
Preempt(lost) ==
    /\ phase = "running"
    /\ Uses("preempts")
    /\ phase' = "waiting"
    /\ primary' = [k \in Keys |-> IF k \in lost /\ primary[k] = "ready" THEN "absent" ELSE primary[k]]
    /\ UNCHANGED <<client, loads, failedReq, expired, serverVars, channelVars, linkVars, workload>>

\* The primary tier evicts a block the request waits with: nothing pins it yet.
Evict(k) ==
    /\ phase = "waiting" /\ primary[k] = "ready"
    /\ Uses("evictions")
    /\ primary' = [primary EXCEPT ![k] = "absent"]
    /\ UNCHANGED <<client, phase, loads, failedReq, expired, serverVars, channelVars, linkVars, workload>>

\* on_request_finished.
FinishRequest ==
    /\ phase # "finished"
    /\ phase' = "finished"
    /\ client' = C!FreshClient
    /\ toServer' = Sends(toServer, C!FinishMsgs(client))
    /\ failedReq' = FALSE
    /\ UNCHANGED <<primary, loads, expired, serverVars, toClient, linkVars, workload, used>>

\* A load is reported: its blocks are ready, or go back to the primary tier.
Reported(js, ok) ==
    /\ loads' = [j \in Loads |-> IF j \in js THEN [loads[j] EXCEPT !.state = IF ok THEN "ok" ELSE "failed"]
                                 ELSE loads[j]]
    /\ primary' = [k \in Keys |-> IF \E j \in js : k \in loads[j].keys
                                  THEN IF ok THEN "ready" ELSE "absent" ELSE primary[k]]
    /\ failedReq' = (failedReq \/ (js # {} /\ ~ok))

\* The load an AbortAck ends although it is not aborted: the answer to the abort
\* of an earlier load with the same round number.
Mistaken(m) == {client.loads[n].job : n \in {n \in DOMAIN client.loads :
                   m.type = "ack" /\ m.round = n /\ ~client.loads[n].aborting}}

\* on_transfer_done, on_abort_ack and on_lookup_resp; an answer for a load that
\* is not in flight is dropped.
ClientPoll ==
    /\ session["client"] /\ connected
    /\ toClient # <<>>
    /\ toClient' = Tail(toClient)
    /\ LET m == Head(toClient)
       IN IF m.type = "answer"
          THEN /\ client' = C!Answered(client, m.answers)
               /\ UNCHANGED <<loads, primary, failedReq>>
          ELSE IF m.round \in DOMAIN client.loads
          THEN /\ client' = C!LoadOver(client, m.round)
               /\ Reported({client.loads[m.round].job}, m.ok)
          ELSE UNCHANGED <<client, loads, primary, failedReq>>
    /\ expired' = expired \cup Mistaken(Head(toClient))
    /\ UNCHANGED <<phase, serverVars, toServer, linkVars, workload, used>>

\* _LOAD_TIMEOUT_S: the load is aborted.
LoadTimeout(n) ==
    /\ session["client"] /\ n \in DOMAIN client.loads /\ ~client.loads[n].aborting
    /\ Uses("loadTimeouts")
    /\ client' = C!Aborting(client, n)
    /\ toServer' = Sends(toServer, <<C!AbortMsg(n)>>)
    /\ UNCHANGED <<phase, primary, loads, failedReq, expired, serverVars, toClient, linkVars,
                   workload>>

\* _ABORT_ACK_TIMEOUT_S: the load fails without an answer.
AckTimeout(n) ==
    /\ session["client"] /\ n \in DOMAIN client.loads /\ client.loads[n].aborting
    /\ Uses("ackTimeouts")
    /\ client' = C!LoadOver(client, n)
    /\ Reported({client.loads[n].job}, FALSE)
    /\ expired' = expired \cup {client.loads[n].job}
    /\ UNCHANGED <<phase, serverVars, channelVars, linkVars, workload>>

-----------------------------------------------------------------------------
(***************************************************************************)
(* The server's engine.                                                    *)
(***************************************************************************)

\* The server is in state s after a handler: what it sent is on its way.
Becomes(s) ==
    /\ server' = [s EXCEPT !.sent = <<>>]
    /\ toClient' = Sends(toClient, s.sent)

Serving == session["server"] /\ connected

\* A FetchMsg; then the id is bound, and the stores that waited are replayed.  A
\* second fetch for a round is a protocol error, which ends the connection.
OnFetch ==
    LET m == Head(toServer)
        s == S!Fetched(server, m.round, m.keys, m.job)
    IN /\ Serving /\ toServer # <<>> /\ m.type = "fetch"
       /\ toServer' = Tail(toServer)
       /\ IF S!DuplicateFetch(server, m.round)
          THEN connected' = FALSE /\ Becomes(server) /\ UNCHANGED <<bound, unbound>>
          ELSE /\ bound' = TRUE /\ unbound' = <<>>
               /\ Becomes(S!Replayed(s, unbound))
               /\ UNCHANGED connected
       /\ UNCHANGED <<clientVars, prefiller, session, workload, used>>

OnAbort(stuck) ==
    /\ Serving /\ toServer # <<>> /\ Head(toServer).type = "abort"
    /\ toServer' = Tail(toServer)
    /\ Becomes(S!Aborted(server, Head(toServer).round, stuck))
    /\ UNCHANGED <<clientVars, prefiller, bound, unbound, linkVars, workload, used>>

OnLookup ==
    /\ Serving /\ toServer # <<>> /\ Head(toServer).type = "lookup"
    /\ toServer' = Tail(toServer)
    /\ Becomes(S!Enqueued(server, Head(toServer).round, Head(toServer).keys))
    /\ UNCHANGED <<clientVars, prefiller, bound, unbound, linkVars, workload, used>>

\* serve_external_requests, with what the tiering manager answers now.
Serve(result, late) ==
    /\ session["server"]
    /\ server.queue \o server.parked # <<>>
    /\ \A k \in Keys : result[k] \in workload.results[k]
    /\ late \in 0..Len(server.parked)
    /\ Becomes(S!ServedAll(server, result, late))
    /\ UNCHANGED <<clientVars, prefiller, bound, unbound, toServer, linkVars, workload, used>>

\* The transfer wrote its blocks; the data is right if they were pinned.
Wrote(x) ==
    loads' = [loads EXCEPT ![x.to].got = @ \cup x.keys,
                           ![x.to].clean = @ /\ x.jobs \subseteq server.stores]

TransferDone(x) ==
    /\ session["server"] /\ x \in server.xfers
    /\ Becomes(S!XferDone(server, x))
    /\ Wrote(x)
    /\ UNCHANGED <<client, phase, primary, failedReq, expired, prefiller, bound, unbound, toServer,
                   linkVars, workload, used>>

TransferFails(x) ==
    /\ session["server"] /\ x \in server.xfers
    /\ Uses("failures")
    /\ Becomes(S!XferFailed(server, x))
    /\ UNCHANGED <<clientVars, prefiller, bound, unbound, toServer, linkVars, workload>>

\* drain_pending_aborts.
DrainAbort(n, stuck) ==
    /\ session["server"] /\ n \in server.aborts
    /\ Becomes(S!Drained(server, n, stuck))
    /\ UNCHANGED <<clientVars, prefiller, bound, unbound, toServer, linkVars, workload, used>>

\* submit_store of the prefiller's request.
SubmitStore(keys) ==
    LET job == S!FreshId(S!UsedIds(server) \cup {b.job : b \in Range(unbound)})
    IN /\ workload.mode = "prefill" /\ ~prefiller.finished
       /\ keys # {} /\ keys \cap prefiller.stored = {}
       /\ prefiller' = [prefiller EXCEPT !.stored = @ \cup keys]
       /\ IF bound THEN Becomes(S!Stored(server, 0, keys, job, FALSE)) /\ UNCHANGED unbound
          ELSE unbound' = Append(unbound, [job |-> job, keys |-> keys]) /\ UNCHANGED <<server, toClient>>
       /\ UNCHANGED <<clientVars, bound, toServer, linkVars, workload, used>>

\* on_request_finished of the prefiller's request.
FinishPrefill ==
    /\ workload.mode = "prefill" /\ ~prefiller.finished
    /\ prefiller' = [prefiller EXCEPT !.finished = TRUE]
    /\ bound' = FALSE
    /\ IF bound THEN Becomes(S!Finished(server)) ELSE UNCHANGED <<server, toClient>>
    /\ UNCHANGED <<clientVars, unbound, toServer, linkVars, workload, used>>

\* _timeout_pending_store_jobs: the job is reported, its pins are gone.
StoreTimeout(j) ==
    /\ session["server"] /\ j \in server.stores
    /\ Uses("storeTimeouts")
    /\ server' = [server EXCEPT !.stores = @ \ {j}]
    /\ UNCHANGED <<clientVars, prefiller, bound, unbound, channelVars, linkVars, workload>>

\* _reap_unbound_stores.
ReapUnbound ==
    /\ unbound # <<>>
    /\ Uses("storeTimeouts")
    /\ unbound' = <<>>
    /\ UNCHANGED <<clientVars, server, prefiller, bound, channelVars, linkVars, workload>>

-----------------------------------------------------------------------------
(***************************************************************************)
(* The connection dies, and each side notices by itself.                     *)
(***************************************************************************)

LoseConnection ==
    /\ connected
    /\ Uses("losses")
    /\ connected' = FALSE
    /\ UNCHANGED <<clientVars, serverVars, channelVars, session, workload>>

\* _reap_dead_sessions: close() fails the loads in flight, and the request if a
\* load or a probe of it is not answered.
ClientReaps ==
    LET js == {client.loads[n].job : n \in DOMAIN client.loads}
        asking == \E k \in DOMAIN client.probes : client.probes[k] = "none"
    IN /\ session["client"] /\ ~connected
       /\ session' = [session EXCEPT !["client"] = FALSE]
       /\ client' = C!FreshClient
       /\ loads' = [j \in Loads |-> IF j \in js THEN [loads[j] EXCEPT !.state = "failed"] ELSE loads[j]]
       /\ primary' = [k \in Keys |-> IF \E j \in js : k \in loads[j].keys THEN "absent" ELSE primary[k]]
       /\ failedReq' = (failedReq \/ js # {} \/ asking)
       /\ expired' = expired \cup js
       /\ UNCHANGED <<phase, serverVars, channelVars, connected, workload, used>>

ServerReaps ==
    /\ session["server"] /\ ~connected
    /\ session' = [session EXCEPT !["server"] = FALSE]
    /\ server' = S!FreshServer
    /\ bound' = FALSE
    /\ UNCHANGED <<clientVars, prefiller, unbound, channelVars, connected, workload, used>>

-----------------------------------------------------------------------------

Poll ==
    \/ OnFetch \/ OnLookup
    \/ \E stuck \in SUBSET server.xfers : OnAbort(stuck)
Transfer == \E x \in server.xfers : TransferDone(x)
Drain == \E n \in server.aborts, stuck \in SUBSET server.xfers : DrainAbort(n, stuck)
Answer == \E result \in [Keys -> {"HIT", "MISS"}] : Serve(result, 0)

Next ==
    \/ Schedule
    \/ \E j \in Loads : ScheduleFetch(j) \/ ScheduleNoSession(j)
    \/ \E lost \in SUBSET Keys : Preempt(lost)
    \/ \E k \in Keys : Evict(k)
    \/ FinishRequest
    \/ ClientPoll
    \/ \E n \in DOMAIN client.loads : LoadTimeout(n) \/ AckTimeout(n)
    \/ Poll
    \/ \E result \in [Keys -> {"HIT", "MISS", "PENDING"}], late \in 0..2 : Serve(result, late)
    \/ Transfer
    \/ \E x \in server.xfers : TransferFails(x)
    \/ Drain
    \/ \E keys \in SUBSET Keys : SubmitStore(keys)
    \/ FinishPrefill
    \/ \E j \in server.stores : StoreTimeout(j)
    \/ ReapUnbound
    \/ LoseConnection
    \/ ClientReaps
    \/ ServerReaps

Spec == Init /\ [][Next]_vars

\* Both engines keep stepping (has_pending_work is always true), transfers end,
\* and the peer's tiers decide in the end; no timeout is needed.
Fairness ==
    /\ WF_vars(Schedule) /\ WF_vars(\E j \in Loads : ScheduleFetch(j) \/ ScheduleNoSession(j))
    /\ WF_vars(ClientPoll) /\ WF_vars(Poll) /\ WF_vars(Transfer) /\ WF_vars(Drain)
    /\ SF_vars(Answer)
    /\ WF_vars(ClientReaps) /\ WF_vars(ServerReaps)

FairSpec == Spec /\ Fairness

-----------------------------------------------------------------------------
(***************************************************************************)
(* Properties.                                                             *)
(***************************************************************************)

\* A load that ends well has every block, read while the server had it pinned: no
\* completion is taken for another round's, though round numbers are used again.
\* A store that timed out is excepted.  (Answers that fail a load are another
\* matter: see RoundsAreIsolated.)
SuccessMeansWritten ==
    \A j \in Loads : loads[j].state = "ok" =>
        /\ loads[j].got = loads[j].keys
        /\ loads[j].clean \/ used["storeTimeouts"] > 0

\* Once the server answered a load, none of its transfers is in flight: the
\* client's primary tier gives the blocks to others.  Loads the client gave up
\* without an answer are excepted, and those RoundsAreIsolated is about.
AnsweredLoadsAreQuiet ==
    \A x \in server.xfers : loads[x.to].state = "wait" \/ x.to \in expired

\* "Every round's supply/demand/completion is isolated on the wire": the answer to
\* an abort is never on its way to a load that is not aborted.
RoundsAreIsolated ==
    \A i \in DOMAIN toClient :
        (toClient[i].type = "ack" /\ toClient[i].round \in DOMAIN client.loads)
           => client.loads[toClient[i].round].aborting

Promised(n) ==
    \/ \E i \in DOMAIN toServer : toServer[i].round = n /\ toServer[i].type \in {"fetch", "abort"}
    \/ n \in DOMAIN server.rounds /\ server.rounds[n].job = client.loads[n].job
    \/ n \in server.aborts
    \/ \E i \in DOMAIN toClient : toClient[i].round = n /\ toClient[i].type \in {"done", "ack"}

\* While the connection lives, the server never forgets a load the client waits
\* for: the fetch, the round, the abort or the answer is somewhere.
NoLoadIsForgotten ==
    connected => \A n \in DOMAIN client.loads : Promised(n)

\* A load of probed blocks ends without any timeout, whatever transfers fail and
\* whether or not the connection breaks; a finished request's loads are given up.
\* Once a block was evicted, an answer to an earlier lookup round with the same
\* number may let a fetch ask for blocks its own round does not supply.
LoadsAreAnswered ==
    \A j \in Loads : (loads[j].state = "wait" /\ workload.mode = "probe" /\ used["evictions"] = 0)
                        ~> (loads[j].state # "wait" \/ phase = "finished")

\* A job submitted to the tier is reported by it in the end, though its request
\* finishes: it is still in flight.
SubmittedLoadsReport ==
    \A j \in Loads : loads[j].state = "wait" => \E n \in DOMAIN client.loads : client.loads[n].job = j

=============================================================================

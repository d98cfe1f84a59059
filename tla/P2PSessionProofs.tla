--------------------------- MODULE P2PSessionProofs ---------------------------
(***************************************************************************)
(* Proofs about P2PSession, for any workloads, keys and number of loads: a    *)
(* load that ends well has all its blocks, and no load in flight is forgotten  *)
(* while the connection lives.                                             *)
(*                                                                         *)
(* The parts of the invariant take the server's state, the messages and the   *)
(* loads as parameters, so that they can be stated half-way through a handler,  *)
(* which changes the server step by step.  out is what the server told the     *)
(* client and the client has not read: toClient, then what the handler sent.  *)
(***************************************************************************)
EXTENDS P2PSession, DataProofs

-----------------------------------------------------------------------------
(***************************************************************************)
(* The invariant.                                                          *)
(***************************************************************************)

Words == {"none", "hit", "miss"}
Verdicts == UNION {[K -> Words] : K \in SUBSET Keys}
Request == [type : {"fetch", "lookup", "abort"}, keys : SUBSET Keys, job : Nat, round : Nat]
Reply == [type : {"done", "ack", "answer"}, round : Nat, ok : BOOLEAN, answers : Verdicts]
Lookup == [round : Nat, pending : SUBSET Keys, answers : Verdicts]

\* A round of the server.  Before its fetch it only has supply, held by its jobs.
IsRound(r) ==
    /\ r = [supplied |-> r.supplied, fetched |-> r.fetched, job |-> r.job, remaining |-> r.remaining,
            available |-> r.available, demanded |-> r.demanded, finishing |-> r.finishing,
            jobs |-> r.jobs]
    /\ r.supplied \in BOOLEAN /\ r.fetched \in BOOLEAN /\ r.finishing \in BOOLEAN
    /\ r.demanded \in SUBSET Keys /\ r.jobs \in SUBSET Nat /\ DOMAIN r.available \in SUBSET Keys
    /\ ~r.fetched => /\ r.demanded = {} /\ r.job = 0
                     /\ \A k \in DOMAIN r.available : r.available[k] \in r.jobs

IsXfer(x) ==
    /\ x = [round |-> x.round, live |-> x.live, keys |-> x.keys, jobs |-> x.jobs, to |-> x.to]
    /\ x.live \in BOOLEAN /\ x.keys \in SUBSET Keys /\ x.keys # {} /\ x.jobs \in SUBSET Nat
    /\ x.to \in Loads

IsServer(s) ==
    /\ s = [rounds |-> s.rounds, queue |-> s.queue, parked |-> s.parked, aborts |-> s.aborts,
            stores |-> s.stores, xfers |-> s.xfers, sent |-> s.sent]
    /\ DOMAIN s.rounds \in SUBSET Nat /\ \A n \in DOMAIN s.rounds : IsRound(s.rounds[n])
    /\ \A x \in s.xfers : IsXfer(x)
    /\ s.aborts \in SUBSET Nat /\ s.stores \in SUBSET Nat
    /\ s.queue \in Seq(Lookup) /\ s.parked \in Seq(Lookup) /\ s.sent \in Seq(Reply)
    /\ IsFiniteSet(S!UsedIds(s))

Open(s) == {n \in DOMAIN s.rounds : s.rounds[n].fetched}

\* Every job serves one round and at most one transfer; a live transfer serves
\* a fetched round, and no two bring the same key.
Pins(s) ==
    /\ \A n, m \in DOMAIN s.rounds : n # m => s.rounds[n].jobs \cap s.rounds[m].jobs = {}
    /\ \A x \in s.xfers, n \in DOMAIN s.rounds :
          IF x.live /\ x.round = n THEN x.jobs \subseteq s.rounds[n].jobs
          ELSE x.jobs \cap s.rounds[n].jobs = {}
    /\ \A x, y \in s.xfers :
          (x.live /\ y.live /\ x.round = y.round /\ x # y) =>
             x.jobs \cap y.jobs = {} /\ x.keys \cap y.keys = {}
    /\ \A x \in s.xfers :
          x.live => /\ x.round \in Open(s) /\ s.rounds[x.round].job = x.to
                    /\ x.keys \cap s.rounds[x.round].demanded = {}

\* What a job supplies is pinned; so what was written is right.
Held(s, ls) ==
    /\ \A n \in DOMAIN s.rounds : s.rounds[n].jobs \subseteq s.stores
    /\ \A n \in Open(s) : ls[s.rounds[n].job].clean

Begun(l) == l.state \notin {"unused", "ok"}
Lacks(l) == l.keys \ l.got

\* What a fetched round still has to bring is what its load lacks; each load is
\* served by one round, and what a cancelled transfer writes is no round's.
Shares(s, ls) ==
    /\ \A n \in Open(s) :
          /\ s.rounds[n].job \in Loads /\ Begun(ls[s.rounds[n].job])
          /\ s.rounds[n].remaining = Cardinality(Lacks(ls[s.rounds[n].job]))
          /\ s.rounds[n].demanded \subseteq Lacks(ls[s.rounds[n].job])
    /\ \A n, m \in Open(s) : n # m => s.rounds[n].job # s.rounds[m].job
    /\ \A x \in s.xfers :
          /\ Begun(ls[x.to]) /\ x.keys \subseteq ls[x.to].keys
          /\ x.live => x.keys \subseteq Lacks(ls[x.to])
          /\ ~x.live => \A n \in Open(s) : s.rounds[n].job # x.to

Fetching(m) == m.type = "fetch" /\ m.keys # {}
Done(m, n) == m.type = "done" /\ m.round = n

\* A load's fetch that is on its way is the only trace of the load, and nothing
\* of its round is left over.  cl are the loads the client waits for, by round.
Asked(s, ts, out, cl, ls) ==
    \A i \in DOMAIN ts : Fetching(ts[i]) =>
       /\ ts[i].job \in Loads /\ Begun(ls[ts[i].job]) /\ ls[ts[i].job].keys = ts[i].keys
       /\ ls[ts[i].job].got = {} /\ ls[ts[i].job].clean
       /\ ts[i].round \notin Open(s) /\ \A n \in Open(s) : s.rounds[n].job # ts[i].job
       /\ \A x \in s.xfers : x.to # ts[i].job
       /\ \A k \in DOMAIN out : ~Done(out[k], ts[i].round)
       /\ \A k \in DOMAIN ts : (Fetching(ts[k]) /\ k # i) =>
                                  ts[k].job # ts[i].job /\ ts[k].round # ts[i].round
       /\ \A n \in DOMAIN cl : (cl[n].job = ts[i].job) <=> (n = ts[i].round)

\* A fetched round was not answered yet, and is its load's.
Served(s, out, cl) ==
    \A n \in Open(s) : /\ \A k \in DOMAIN out : ~Done(out[k], n)
                       /\ \A m \in DOMAIN cl : (cl[m].job = s.rounds[n].job) <=> (m = n)

Complete(l, late) == l.got = l.keys /\ (l.clean \/ late)

LoadStates == {"unused", "wait", "ok", "failed"}

\* A round is answered once, when its load's transfers are over, and with
\* success only if the load has everything.
Answers(s, out, cl, ls, late) ==
    \A i \in DOMAIN out :
       /\ out[i].type = "ack" => ~out[i].ok
       /\ out[i].type = "done" =>
            /\ \A k \in DOMAIN out : Done(out[k], out[i].round) => k = i
            /\ out[i].round \in DOMAIN cl =>
                 /\ \A x \in s.xfers : x.to # cl[out[i].round].job
                 /\ out[i].ok => Complete(ls[cl[out[i].round].job], late)

LoadsAreSound(ls, late) ==
    \A j \in Loads : /\ ls[j].keys \in SUBSET Keys /\ ls[j].got \subseteq ls[j].keys
                     /\ ls[j].clean \in BOOLEAN /\ ls[j].state \in LoadStates
                     /\ ls[j].state = "ok" => Complete(ls[j], late)

\* As long as the request can start loads, all that is under way is of loads it
\* waits for: a round number that it uses again is free.
Current(s, ts, out, cl) ==
    /\ \A i \in DOMAIN ts : Fetching(ts[i]) => ts[i].round \in DOMAIN cl
    /\ Open(s) \subseteq DOMAIN cl
    /\ \A i \in DOMAIN out : out[i].type = "done" => out[i].round \in DOMAIN cl

\* The server and the messages, between and within handlers; late: a store timed
\* out; alive: the request can start loads.
Sound(s, ts, tc, cl, ls, late, alive) ==
    /\ IsServer(s) /\ Pins(s) /\ Shares(s, ls)
    /\ late \/ Held(s, ls)
    /\ Asked(s, ts, tc \o s.sent, cl, ls) /\ Served(s, tc \o s.sent, cl)
    /\ Answers(s, tc \o s.sent, cl, ls, late)
    /\ alive => Current(s, ts, tc \o s.sent, cl)

-----------------------------------------------------------------------------
(***************************************************************************)
(* Messages.                                                               *)
(***************************************************************************)

\* What a message is where two lists of messages are joined.
LEMMA JoinedMessages ==
    ASSUME NEW T, NEW q \in Seq(T), NEW u \in Seq(T)
    PROVE  /\ q \o u \in Seq(T) /\ Len(q) \in Nat /\ Len(u) \in Nat
           /\ DOMAIN q = 1..Len(q) /\ DOMAIN u = 1..Len(u) /\ DOMAIN (q \o u) = 1..(Len(q) + Len(u))
           /\ \A i \in 1..Len(q) : (q \o u)[i] = q[i]
           /\ \A i \in 1..Len(u) : (q \o u)[Len(q) + i] = u[i]
           /\ \A i \in DOMAIN (q \o u) : i \in DOMAIN q \/ \E k \in DOMAIN u : i = Len(q) + k
<1>1. /\ q \o u \in Seq(T) /\ Len(q \o u) = Len(q) + Len(u)
      /\ \A i \in 1..(Len(q) + Len(u)) : (q \o u)[i] = IF i <= Len(q) THEN q[i] ELSE u[i - Len(q)]
  BY ConcatProperties
<1>2. /\ Len(q) \in Nat /\ Len(u) \in Nat /\ DOMAIN q = 1..Len(q) /\ DOMAIN u = 1..Len(u)
      /\ DOMAIN (q \o u) = 1..(Len(q) + Len(u))
  BY <1>1
<1>3. \A i \in 1..Len(q) : (q \o u)[i] = q[i]
  BY <1>1, <1>2
<1>4. ASSUME NEW i \in 1..Len(u) PROVE (q \o u)[Len(q) + i] = u[i]
  <2>1. Len(q) + i \in 1..(Len(q) + Len(u)) /\ ~(Len(q) + i <= Len(q)) /\ Len(q) + i - Len(q) = i
    BY <1>2
  <2> QED  BY <1>1, <2>1
<1>5. ASSUME NEW i \in 1..(Len(q) + Len(u)), i \notin 1..Len(q)
      PROVE  \E k \in 1..Len(u) : i = Len(q) + k
  <2>1. i - Len(q) \in 1..Len(u) /\ i = Len(q) + (i - Len(q))
    BY <1>2, <1>5
  <2> QED  BY <2>1
<1> QED  BY <1>1, <1>2, <1>3, <1>4, <1>5

\* A message more is a list of one message more.
LEMMA OneMessage ==
    ASSUME NEW T, NEW q \in Seq(T), NEW m \in T
    PROVE  /\ Append(q, m) = q \o <<m>> /\ <<m>> \in Seq(T) /\ Len(<<m>>) = 1
           /\ DOMAIN <<m>> = {1} /\ <<m>>[1] = m
<1>1. <<m>> \in Seq(T) /\ Len(<<m>>) = 1 /\ <<m>>[1] = m
  OBVIOUS
<1>2. DOMAIN <<m>> = 1..1
  BY <1>1
<1>3. Append(q, m) = q \o <<m>>
  BY <1>1, AppendProperties, ConcatProperties
<1> QED  BY <1>1, <1>2, <1>3

\* Lists of messages are joined in any grouping.
LEMMA JoinedTwice ==
    \A q, u, v \in Seq(Reply) : (q \o u) \o v = q \o (u \o v)
BY ConcatAssociative

-----------------------------------------------------------------------------
(***************************************************************************)
(* Handlers that end rounds.                                                *)
(***************************************************************************)

SameRound(r, r2) ==
    /\ r2.fetched = r.fetched /\ r2.job = r.job /\ r2.remaining = r.remaining
    /\ r2.demanded = r.demanded /\ r2.jobs = r.jobs

\* A transfer is as it was, or its round is over.
KeptXfer(s, u, x) ==
    \E y \in s.xfers : /\ x.round = y.round /\ x.keys = y.keys /\ x.jobs = y.jobs /\ x.to = y.to
                       /\ \/ x = y /\ y.live /\ y.round \in DOMAIN u.rounds
                          \/ ~x.live /\ (y.live => y.round \notin DOMAIN u.rounds)

\* From s to u rounds end, with their jobs and transfers.
Shrinks(s, u) ==
    /\ DOMAIN u.rounds \subseteq DOMAIN s.rounds
    /\ \A n \in DOMAIN u.rounds : SameRound(s.rounds[n], u.rounds[n])
    /\ u.stores \subseteq s.stores
    /\ \A n \in DOMAIN u.rounds : s.rounds[n].jobs \cap s.stores \subseteq u.stores
    /\ \A x \in u.xfers : KeptXfer(s, u, x)
    /\ \A x, y \in u.xfers : (x.live /\ y.live) => x \in s.xfers /\ y \in s.xfers

\* What the client is told: of rounds that ended, each once, that they are done;
\* nothing is on its way to their loads, and success is for what lacks nothing.
Tells(s, u, new) ==
    /\ new \in Seq(Reply)
    /\ \A i \in DOMAIN new : new[i].type = "ack" => ~new[i].ok
    /\ \A i \in DOMAIN new : new[i].type = "done" =>
          /\ new[i].round \in Open(s) /\ new[i].round \notin DOMAIN u.rounds
          /\ \A k \in DOMAIN new : Done(new[k], new[i].round) => k = i
          /\ new[i].ok => s.rounds[new[i].round].remaining = 0
          /\ \A x \in u.xfers : x.to # s.rounds[new[i].round].job

\* What remains of the server still keeps its jobs and keys apart.
LEMMA ShrunkPins ==
    ASSUME NEW s, NEW u, IsServer(s), Pins(s), Shrinks(s, u)
    PROVE  Pins(u)
<1>1. Open(u) = Open(s) \cap DOMAIN u.rounds
  BY DEF Shrinks, SameRound, Open
<1>2. \A n, m \in DOMAIN u.rounds : n # m => u.rounds[n].jobs \cap u.rounds[m].jobs = {}
  BY DEF Shrinks, SameRound, Pins
<1>3. ASSUME NEW x \in u.xfers
      PROVE  /\ x.live => x \in s.xfers /\ x.round \in DOMAIN u.rounds
             /\ ~x.live => \E y \in s.xfers : /\ x.round = y.round /\ x.jobs = y.jobs /\ x.to = y.to
                                              /\ y.live => y.round \notin DOMAIN u.rounds
  BY DEF Shrinks, KeptXfer
<1>4. ASSUME NEW x \in u.xfers, NEW n \in DOMAIN u.rounds
      PROVE  IF x.live /\ x.round = n THEN x.jobs \subseteq u.rounds[n].jobs
             ELSE x.jobs \cap u.rounds[n].jobs = {}
  <2>1. u.rounds[n].jobs = s.rounds[n].jobs /\ n \in DOMAIN s.rounds
    BY DEF Shrinks, SameRound
  <2>2. CASE x.live
    BY <1>3, <2>1, <2>2 DEF Pins
  <2>3. CASE ~x.live
    BY <1>3, <2>1, <2>3 DEF Pins
  <2> QED  BY <2>2, <2>3
<1>5. ASSUME NEW x \in u.xfers, x.live
      PROVE  /\ x.round \in Open(u) /\ u.rounds[x.round].job = x.to
             /\ x.keys \cap u.rounds[x.round].demanded = {}
  <2>1. x \in s.xfers /\ x.round \in DOMAIN u.rounds
    BY <1>3, <1>5
  <2>2. SameRound(s.rounds[x.round], u.rounds[x.round])
    BY <2>1 DEF Shrinks
  <2> QED  BY <1>1, <1>5, <2>1, <2>2 DEF Pins, SameRound
<1>6. ASSUME NEW x \in u.xfers, NEW y \in u.xfers, x.live, y.live, x.round = y.round, x # y
      PROVE  x.jobs \cap y.jobs = {} /\ x.keys \cap y.keys = {}
  BY <1>3, <1>6 DEF Pins
<1> QED  BY <1>2, <1>4, <1>5, <1>6 DEF Pins

\* What remains of the server still brings just what its loads lack.
LEMMA ShrunkShares ==
    ASSUME NEW s, NEW u, NEW ls, IsServer(s), Pins(s), Shares(s, ls), Shrinks(s, u)
    PROVE  Shares(u, ls) /\ (Held(s, ls) => Held(u, ls))
<1>1. Open(u) = Open(s) \cap DOMAIN u.rounds
  BY DEF Shrinks, SameRound, Open
<1>2. ASSUME NEW n \in Open(u)
      PROVE  /\ u.rounds[n].job = s.rounds[n].job /\ u.rounds[n].remaining = s.rounds[n].remaining
             /\ u.rounds[n].demanded = s.rounds[n].demanded /\ n \in Open(s)
  BY <1>1 DEF Shrinks, SameRound
<1>3. ASSUME NEW n \in Open(u)
      PROVE  /\ u.rounds[n].job \in Loads /\ Begun(ls[u.rounds[n].job])
             /\ u.rounds[n].remaining = Cardinality(Lacks(ls[u.rounds[n].job]))
             /\ u.rounds[n].demanded \subseteq Lacks(ls[u.rounds[n].job])
  BY <1>2 DEF Shares
<1>4. \A n, m \in Open(u) : n # m => u.rounds[n].job # u.rounds[m].job
  BY <1>2 DEF Shares
<1>5. ASSUME NEW x \in u.xfers
      PROVE  /\ Begun(ls[x.to]) /\ x.keys \subseteq ls[x.to].keys
             /\ x.live => x.keys \subseteq Lacks(ls[x.to])
             /\ ~x.live => \A n \in Open(u) : u.rounds[n].job # x.to
  <2>1. PICK y \in s.xfers :
           /\ x.round = y.round /\ x.keys = y.keys /\ x.jobs = y.jobs /\ x.to = y.to
           /\ \/ x = y /\ y.live /\ y.round \in DOMAIN u.rounds
              \/ ~x.live /\ (y.live => y.round \notin DOMAIN u.rounds)
    BY DEF Shrinks, KeptXfer
  <2>2. /\ Begun(ls[x.to]) /\ x.keys \subseteq ls[x.to].keys
        /\ x.live => x.keys \subseteq Lacks(ls[x.to])
    BY <2>1 DEF Shares
  <2>3. ASSUME ~x.live, NEW n \in Open(u)
        PROVE  u.rounds[n].job # x.to
    <3>1. n \in Open(s) /\ u.rounds[n].job = s.rounds[n].job /\ n \in DOMAIN u.rounds
      BY <1>1, <1>2
    <3>2. CASE y.live
      <4>1. y.round \in Open(s) /\ s.rounds[y.round].job = y.to /\ y.round # n
        BY <2>1, <2>3, <3>1, <3>2 DEF Pins
      <4> QED  BY <2>1, <3>1, <4>1 DEF Shares
    <3>3. CASE ~y.live
      BY <2>1, <3>1, <3>3 DEF Shares
    <3> QED  BY <3>2, <3>3
  <2> QED  BY <2>2, <2>3
<1>6. Held(s, ls) => Held(u, ls)
  BY <1>1, <1>2 DEF Held, Shrinks, SameRound
<1> QED  BY <1>3, <1>4, <1>5, <1>6 DEF Shares

\* The messages are right when the server lets go of rounds and tells so.
LEMMA ShrunkMessages ==
    ASSUME NEW s, NEW u, NEW ts, NEW out \in Seq(Reply), NEW new, NEW out2, out2 = out \o new,
           NEW cl, NEW ls, NEW late, IsServer(s), Pins(s), Shares(s, ls), Shrinks(s, u),
           Tells(s, u, new), LoadsAreSound(ls, late), late \/ Held(s, ls),
           Asked(s, ts, out, cl, ls), Served(s, out, cl), Answers(s, out, cl, ls, late)
    PROVE  /\ Asked(u, ts, out2, cl, ls) /\ Served(u, out2, cl) /\ Answers(u, out2, cl, ls, late)
           /\ Current(s, ts, out, cl) => Current(u, ts, out2, cl)
<1>1. Open(u) = Open(s) \cap DOMAIN u.rounds
  BY DEF Shrinks, SameRound, Open
<1>2. \A n \in Open(u) : n \in Open(s) /\ u.rounds[n].job = s.rounds[n].job
  BY <1>1 DEF Shrinks, SameRound
<1>3. \A x \in u.xfers : \E y \in s.xfers : x.to = y.to
  BY DEF Shrinks, KeptXfer
<1>4. new \in Seq(Reply)
  BY DEF Tells
<1>5. /\ DOMAIN out2 = 1..(Len(out) + Len(new)) /\ Len(out) \in Nat /\ Len(new) \in Nat
      /\ DOMAIN out = 1..Len(out) /\ DOMAIN new = 1..Len(new)
      /\ \A i \in DOMAIN out : i \in DOMAIN out2 /\ out2[i] = out[i]
      /\ \A i \in DOMAIN new : Len(out) + i \in DOMAIN out2 /\ out2[Len(out) + i] = new[i]
      /\ \A i \in DOMAIN out2 : i \in DOMAIN out \/ \E k \in DOMAIN new : i = Len(out) + k
  BY <1>4, JoinedMessages
<1>6. ASSUME NEW n, NEW i \in DOMAIN out2, Done(out2[i], n)
      PROVE  \/ i \in DOMAIN out /\ Done(out[i], n)
             \/ \E k \in DOMAIN new : i = Len(out) + k /\ Done(new[k], n)
  BY <1>5, <1>6
<1>7. \A k \in DOMAIN new : new[k].type = "done" =>
         new[k].round \in Open(s) /\ new[k].round \notin Open(u)
  BY <1>1 DEF Tells
<1>8. Served(u, out2, cl)
  <2> SUFFICES ASSUME NEW n \in Open(u)
               PROVE  /\ \A k \in DOMAIN out2 : ~Done(out2[k], n)
                      /\ \A m \in DOMAIN cl : (cl[m].job = u.rounds[n].job) <=> (m = n)
    BY DEF Served
  <2>1. /\ \A k \in DOMAIN out : ~Done(out[k], n)
        /\ \A m \in DOMAIN cl : (cl[m].job = u.rounds[n].job) <=> (m = n)
    BY <1>2 DEF Served
  <2>2. \A k \in DOMAIN new : ~Done(new[k], n)
    BY <1>7 DEF Done
  <2> QED  BY <1>6, <2>1, <2>2
<1>9. Asked(u, ts, out2, cl, ls)
  <2> SUFFICES ASSUME NEW i \in DOMAIN ts, Fetching(ts[i])
               PROVE  /\ ts[i].round \notin Open(u) /\ \A n \in Open(u) : u.rounds[n].job # ts[i].job
                      /\ \A x \in u.xfers : x.to # ts[i].job
                      /\ \A k \in DOMAIN out2 : ~Done(out2[k], ts[i].round)
    BY DEF Asked
  <2>1. /\ ts[i].round \notin Open(s) /\ \A n \in Open(s) : s.rounds[n].job # ts[i].job
        /\ \A x \in s.xfers : x.to # ts[i].job
        /\ \A k \in DOMAIN out : ~Done(out[k], ts[i].round)
    BY DEF Asked
  <2>2. \A k \in DOMAIN new : ~Done(new[k], ts[i].round)
    BY <1>7, <2>1 DEF Done
  <2>3. \A k \in DOMAIN out2 : ~Done(out2[k], ts[i].round)
    BY <1>6, <2>1, <2>2
  <2> QED  BY <1>2, <1>3, <2>1, <2>3
<1>10. Answers(u, out2, cl, ls, late)
  <2> SUFFICES ASSUME NEW i \in DOMAIN out2
               PROVE  /\ out2[i].type = "ack" => ~out2[i].ok
                      /\ out2[i].type = "done" =>
                           /\ \A k \in DOMAIN out2 : Done(out2[k], out2[i].round) => k = i
                           /\ out2[i].round \in DOMAIN cl =>
                                /\ \A x \in u.xfers : x.to # cl[out2[i].round].job
                                /\ out2[i].ok => Complete(ls[cl[out2[i].round].job], late)
    BY DEF Answers
  <2>1. CASE i \in DOMAIN out
    <3>1. out2[i] = out[i]
      BY <1>5, <2>1
    <3>2. /\ out[i].type = "ack" => ~out[i].ok
          /\ out[i].type = "done" =>
               /\ \A k \in DOMAIN out : Done(out[k], out[i].round) => k = i
               /\ out[i].round \in DOMAIN cl =>
                    /\ \A x \in s.xfers : x.to # cl[out[i].round].job
                    /\ out[i].ok => Complete(ls[cl[out[i].round].job], late)
      BY <2>1 DEF Answers
    <3>3. ASSUME out[i].type = "done", NEW k \in DOMAIN new
          PROVE  ~Done(new[k], out[i].round)
      <4>1. Done(out[i], out[i].round)
        BY <3>3 DEF Done
      <4>2. out[i].round \notin Open(s)
        BY <2>1, <4>1 DEF Served
      <4> QED  BY <1>7, <4>2 DEF Done
    <3>4. ASSUME out[i].type = "done", NEW k \in DOMAIN out2, Done(out2[k], out[i].round)
          PROVE  k = i
      BY <1>6, <3>2, <3>3, <3>4
    <3>5. ASSUME out[i].type = "done", out[i].round \in DOMAIN cl, NEW x \in u.xfers
          PROVE  x.to # cl[out[i].round].job
      BY <1>3, <3>2, <3>5
    <3> QED  BY <3>1, <3>2, <3>4, <3>5
  <2>2. ASSUME NEW h \in DOMAIN new, i = Len(out) + h
        PROVE  /\ out2[i].type = "ack" => ~out2[i].ok
               /\ out2[i].type = "done" =>
                    /\ \A k \in DOMAIN out2 : Done(out2[k], out2[i].round) => k = i
                    /\ out2[i].round \in DOMAIN cl =>
                         /\ \A x \in u.xfers : x.to # cl[out2[i].round].job
                         /\ out2[i].ok => Complete(ls[cl[out2[i].round].job], late)
    <3>1. out2[i] = new[h]
      BY <1>5, <2>2
    <3>2. new[h].type = "ack" => ~new[h].ok
      BY DEF Tells
    <3> SUFFICES ASSUME new[h].type = "done"
                 PROVE  /\ \A k \in DOMAIN out2 : Done(out2[k], new[h].round) => k = i
                        /\ new[h].round \in DOMAIN cl =>
                             /\ \A x \in u.xfers : x.to # cl[new[h].round].job
                             /\ new[h].ok => Complete(ls[cl[new[h].round].job], late)
      BY <3>1, <3>2
    <3> DEFINE n == new[h].round
    <3>3. /\ n \in Open(s) /\ n \notin DOMAIN u.rounds
          /\ \A k \in DOMAIN new : Done(new[k], n) => k = h
          /\ new[h].ok => s.rounds[n].remaining = 0
          /\ \A x \in u.xfers : x.to # s.rounds[n].job
      BY DEF Tells
    <3> HIDE DEF n
    <3>4. /\ \A k \in DOMAIN out : ~Done(out[k], n)
          /\ \A m \in DOMAIN cl : (cl[m].job = s.rounds[n].job) <=> (m = n)
      BY <3>3 DEF Served
    <3>5. ASSUME NEW k \in DOMAIN out2, Done(out2[k], n)
          PROVE  k = i
      BY <1>6, <2>2, <3>3, <3>4, <3>5
    <3>6. ASSUME n \in DOMAIN cl
          PROVE  cl[n].job = s.rounds[n].job
      BY <3>4, <3>6
    <3>7. ASSUME s.rounds[n].remaining = 0
          PROVE  Complete(ls[s.rounds[n].job], late)
      <4>1. /\ s.rounds[n].job \in Loads /\ Cardinality(Lacks(ls[s.rounds[n].job])) = 0
            /\ late \/ ls[s.rounds[n].job].clean
        BY <3>3, <3>7 DEF Shares, Held
      <4>2. /\ ls[s.rounds[n].job].keys \in SUBSET Keys
            /\ ls[s.rounds[n].job].got \subseteq ls[s.rounds[n].job].keys
        BY <4>1 DEF LoadsAreSound
      <4>3. IsFiniteSet(Lacks(ls[s.rounds[n].job]))
        BY <4>2, KeysAssumption, FS_Subset DEF Lacks
      <4>4. Lacks(ls[s.rounds[n].job]) = {}
        BY <4>1, <4>3, FS_EmptySet
      <4> QED  BY <4>1, <4>2, <4>4 DEF Lacks, Complete
    <3> QED  BY <3>3, <3>5, <3>6, <3>7 DEF n
  <2> QED  BY <1>5, <2>1, <2>2
<1>11. ASSUME Current(s, ts, out, cl)
       PROVE  Current(u, ts, out2, cl)
  <2>1. /\ \A i \in DOMAIN ts : Fetching(ts[i]) => ts[i].round \in DOMAIN cl
        /\ Open(s) \subseteq DOMAIN cl
        /\ \A i \in DOMAIN out : out[i].type = "done" => out[i].round \in DOMAIN cl
    BY <1>11 DEF Current
  <2>2. ASSUME NEW i \in DOMAIN out2, out2[i].type = "done"
        PROVE  out2[i].round \in DOMAIN cl
    BY <1>5, <1>7, <2>1, <2>2
  <2> QED  BY <1>2, <2>1, <2>2 DEF Current
<1> QED  BY <1>8, <1>9, <1>10, <1>11

\* A server that lets go of rounds uses no new ids.
LEMMA ShrunkIds ==
    ASSUME NEW s, NEW u, Shrinks(s, u)
    PROVE  S!UsedIds(u) \subseteq S!UsedIds(s)
<1> SUFFICES ASSUME NEW j \in S!UsedIds(u)
             PROVE  j \in S!UsedIds(s)
  OBVIOUS
<1>1. CASE j \in u.stores
  BY <1>1 DEF Shrinks, S!UsedIds
<1>2. ASSUME NEW x \in u.xfers, j \in x.jobs
      PROVE  j \in S!UsedIds(s)
  <2>1. PICK y \in s.xfers : x.jobs = y.jobs
    BY DEF Shrinks, KeptXfer
  <2> QED  BY <1>2, <2>1 DEF S!UsedIds
<1>3. ASSUME NEW n \in DOMAIN u.rounds, j \in u.rounds[n].jobs
      PROVE  j \in S!UsedIds(s)
  <2>1. n \in DOMAIN s.rounds /\ u.rounds[n].jobs = s.rounds[n].jobs
    BY DEF Shrinks, SameRound
  <2> QED  BY <1>3, <2>1 DEF S!UsedIds
<1> QED  BY <1>1, <1>2, <1>3 DEF S!UsedIds

\* Ids of jobs that are used stay few.
LEMMA FewerIds ==
    ASSUME NEW s, NEW u, IsServer(s), S!UsedIds(u) \subseteq S!UsedIds(s)
    PROVE  IsFiniteSet(S!UsedIds(u))
BY FS_Subset DEF IsServer

\* Rounds that end, told as it must be, leave everything sound.
LEMMA ShrunkSound ==
    ASSUME NEW s, NEW u, NEW ts, NEW tc \in Seq(Reply), NEW cl, NEW ls, NEW late, NEW alive,
           LoadsAreSound(ls, late), Sound(s, ts, tc, cl, ls, late, alive),
           IsServer(u), Shrinks(s, u), NEW new, u.sent = s.sent \o new, Tells(s, u, new)
    PROVE  Sound(u, ts, tc, cl, ls, late, alive)
<1> DEFINE out == tc \o s.sent
           out2 == tc \o u.sent
<1>1. /\ IsServer(s) /\ Pins(s) /\ Shares(s, ls) /\ (late \/ Held(s, ls))
      /\ Asked(s, ts, out, cl, ls) /\ Served(s, out, cl) /\ Answers(s, out, cl, ls, late)
      /\ alive => Current(s, ts, out, cl)
  BY DEF Sound
<1>2. s.sent \in Seq(Reply) /\ new \in Seq(Reply)
  BY <1>1 DEF IsServer, Tells
<1>3. out \in Seq(Reply)
  BY <1>2
<1>4. out2 = out \o new
  <2>1. (tc \o s.sent) \o new = tc \o (s.sent \o new)
    BY Zenon, <1>2, JoinedTwice
  <2> QED  BY <2>1
<1>5. Sound(u, ts, tc, cl, ls, late, alive)
          <=> /\ IsServer(u) /\ Pins(u) /\ Shares(u, ls) /\ (late \/ Held(u, ls))
              /\ Asked(u, ts, out2, cl, ls) /\ Served(u, out2, cl)
              /\ Answers(u, out2, cl, ls, late) /\ (alive => Current(u, ts, out2, cl))
  BY DEF Sound
<1> HIDE DEF out, out2
<1>6. Pins(u) /\ Shares(u, ls) /\ (Held(s, ls) => Held(u, ls))
  BY <1>1, ShrunkPins, ShrunkShares
<1>7. /\ Asked(u, ts, out2, cl, ls) /\ Served(u, out2, cl) /\ Answers(u, out2, cl, ls, late)
      /\ Current(s, ts, out, cl) => Current(u, ts, out2, cl)
  BY <1>1, <1>3, <1>4, ShrunkMessages
<1> QED  BY <1>1, <1>5, <1>6, <1>7

\* Told: the client reads that the round is over.
TellsOf(s, n) == \E i \in DOMAIN s.sent : s.sent[i].round = n /\ s.sent[i].type \in {"done", "ack"}

\* From s to u no promise is broken: a fetched round stays, is being aborted, or
\* the client is told; so is what becomes of a round being aborted.
Keeps(s, u) ==
    /\ \A n \in Open(s) : \/ n \in Open(u) /\ u.rounds[n].job = s.rounds[n].job
                          \/ n \in u.aborts \/ TellsOf(u, n)
    /\ \A n \in s.aborts : n \in u.aborts \/ TellsOf(u, n)
    /\ \A n : TellsOf(s, n) => TellsOf(u, n)

\* What is kept twice is kept.
LEMMA KeepsOn ==
    ASSUME NEW s, NEW u, NEW v, Keeps(s, u), Keeps(u, v)
    PROVE  Keeps(s, v)
<1>1. ASSUME NEW n \in Open(s)
      PROVE  (n \in Open(v) /\ v.rounds[n].job = s.rounds[n].job) \/ n \in v.aborts \/ TellsOf(v, n)
  BY DEF Keeps
<1>2. ASSUME NEW n \in s.aborts
      PROVE  n \in v.aborts \/ TellsOf(v, n)
  BY DEF Keeps
<1>3. ASSUME NEW n, TellsOf(s, n)
      PROVE  TellsOf(v, n)
  BY <1>3 DEF Keeps
<1> QED  BY <1>1, <1>2, <1>3 DEF Keeps

\* What is sent stays sent.
LEMMA SentStays ==
    ASSUME NEW s, NEW u, s.sent \in Seq(Reply), NEW new \in Seq(Reply), u.sent = s.sent \o new
    PROVE  /\ \A n : TellsOf(s, n) => TellsOf(u, n)
           /\ \A i \in DOMAIN new : new[i].type \in {"done", "ack"} => TellsOf(u, new[i].round)
<1>1. /\ \A i \in DOMAIN s.sent : i \in DOMAIN u.sent /\ u.sent[i] = s.sent[i]
      /\ \A i \in DOMAIN new : Len(s.sent) + i \in DOMAIN u.sent /\ u.sent[Len(s.sent) + i] = new[i]
  BY JoinedMessages
<1>2. ASSUME NEW n, TellsOf(s, n)
      PROVE  TellsOf(u, n)
  BY <1>1, <1>2 DEF TellsOf
<1>3. ASSUME NEW i \in DOMAIN new, new[i].type \in {"done", "ack"}
      PROVE  TellsOf(u, new[i].round)
  BY <1>1, <1>3 DEF TellsOf
<1> QED  BY <1>2, <1>3

\* _finalize_outbound without its message.
LEMMA DroppedRounds ==
    ASSUME NEW s, IsServer(s), Pins(s), NEW ns \in SUBSET DOMAIN s.rounds,
           NEW u, u = S!Dropped(s, ns)
    PROVE  /\ IsServer(u) /\ Shrinks(s, u)
           /\ DOMAIN u.rounds = DOMAIN s.rounds \ ns
           /\ \A n \in DOMAIN u.rounds : u.rounds[n] = s.rounds[n]
           /\ \A x \in u.xfers : \E y \in s.xfers :
                 x.to = y.to /\ (x.live => x = y /\ y.round \notin ns)
           /\ u.sent = s.sent /\ u.aborts = s.aborts /\ u.queue = s.queue /\ u.parked = s.parked
<1>1. /\ u = [rounds |-> u.rounds, queue |-> u.queue, parked |-> u.parked, aborts |-> u.aborts,
              stores |-> u.stores, xfers |-> u.xfers, sent |-> u.sent]
      /\ u.rounds = [n \in DOMAIN s.rounds \ ns |-> s.rounds[n]]
      /\ u.xfers = {IF x.round \in ns THEN [x EXCEPT !.live = FALSE] ELSE x : x \in s.xfers}
      /\ u.stores = s.stores \ UNION {s.rounds[n].jobs : n \in ns}
      /\ u.sent = s.sent /\ u.aborts = s.aborts /\ u.queue = s.queue /\ u.parked = s.parked
  BY DEF S!Dropped, S!AllPopped, IsServer
<1>2. /\ DOMAIN u.rounds = DOMAIN s.rounds \ ns
      /\ \A n \in DOMAIN u.rounds : u.rounds[n] = s.rounds[n] /\ n \in DOMAIN s.rounds
  BY <1>1
<1>3. ASSUME NEW x \in u.xfers
      PROVE  \E y \in s.xfers :
               /\ x = [round |-> y.round, live |-> x.live, keys |-> y.keys, jobs |-> y.jobs, to |-> y.to]
               /\ x.live = (y.live /\ y.round \notin ns)
  <2>1. PICK y \in s.xfers : x = IF y.round \in ns THEN [y EXCEPT !.live = FALSE] ELSE y
    BY <1>1
  <2>2. /\ y = [round |-> y.round, live |-> y.live, keys |-> y.keys, jobs |-> y.jobs, to |-> y.to]
        /\ y.live \in BOOLEAN
    BY DEF IsServer, IsXfer
  <2>3. CASE y.round \in ns
    <3>1. x = [round |-> y.round, live |-> FALSE, keys |-> y.keys, jobs |-> y.jobs, to |-> y.to]
      BY <2>1, <2>2, <2>3
    <3> QED  BY <2>3, <3>1
  <2>4. CASE y.round \notin ns
    BY <2>1, <2>2, <2>4
  <2> QED  BY <2>3, <2>4
<1>4. ASSUME NEW x \in u.xfers
      PROVE  /\ IsXfer(x)
             /\ \E y \in s.xfers : /\ x.round = y.round /\ x.keys = y.keys /\ x.jobs = y.jobs
                                   /\ x.to = y.to /\ (x.live => x = y /\ y.round \notin ns)
                                   /\ (~x.live => (y.live => y.round \in ns))
  <2>1. PICK y \in s.xfers :
          /\ x = [round |-> y.round, live |-> x.live, keys |-> y.keys, jobs |-> y.jobs, to |-> y.to]
          /\ x.live = (y.live /\ y.round \notin ns)
    BY <1>3
  <2>2. IsXfer(y)
    BY DEF IsServer
  <2>3. x.round = y.round /\ x.keys = y.keys /\ x.jobs = y.jobs /\ x.to = y.to /\ x.live \in BOOLEAN
    BY <2>1
  <2>4. IsXfer(x)
    BY <2>1, <2>2, <2>3 DEF IsXfer
  <2>5. x.live => x = y /\ y.round \notin ns
    BY <2>1, <2>2 DEF IsXfer
  <2> QED  BY <2>1, <2>3, <2>4, <2>5
<1>5. ASSUME NEW n \in DOMAIN u.rounds
      PROVE  s.rounds[n].jobs \cap s.stores \subseteq u.stores
  <2>1. n \in DOMAIN s.rounds /\ n \notin ns
    BY <1>2
  <2>2. ASSUME NEW j \in s.rounds[n].jobs, NEW m \in ns, j \in s.rounds[m].jobs
        PROVE  FALSE
    BY <2>1, <2>2 DEF Pins
  <2> QED  BY <1>1, <2>1, <2>2
<1>6. Shrinks(s, u)
  <2>1. \A n \in DOMAIN u.rounds : SameRound(s.rounds[n], u.rounds[n])
    BY <1>2 DEF SameRound
  <2>2. ASSUME NEW x \in u.xfers
        PROVE  KeptXfer(s, u, x) /\ (x.live => x \in s.xfers)
    <3>1. PICK y \in s.xfers : /\ x.round = y.round /\ x.keys = y.keys /\ x.jobs = y.jobs
                               /\ x.to = y.to /\ (x.live => x = y /\ y.round \notin ns)
                               /\ (~x.live => (y.live => y.round \in ns))
      BY <1>4
    <3>2. y.live => y.round \in DOMAIN s.rounds
      BY DEF Pins, Open
    <3>3. CASE x.live
      BY <1>2, <3>1, <3>2, <3>3 DEF KeptXfer
    <3>4. CASE ~x.live
      BY <1>2, <3>1, <3>2, <3>4 DEF KeptXfer
    <3> QED  BY <3>3, <3>4
  <2> QED  BY <1>1, <1>2, <1>5, <2>1, <2>2 DEF Shrinks
<1>7. IsServer(u)
  <2>1. IsFiniteSet(S!UsedIds(u))
    BY <1>6, ShrunkIds, FewerIds
  <2>2. \A n \in DOMAIN u.rounds : IsRound(u.rounds[n])
    BY <1>2 DEF IsServer
  <2> QED  BY <1>1, <1>2, <1>4, <2>1, <2>2 DEF IsServer
<1>8. \A x \in u.xfers : \E y \in s.xfers : x.to = y.to /\ (x.live => x = y /\ y.round \notin ns)
  BY <1>4
<1> QED  BY <1>1, <1>2, <1>6, <1>7, <1>8

\* An answer that a round is over is sent.
LEMMA NoVerdicts == S!NoAnswers \in Verdicts
<1>1. S!NoAnswers \in [{} -> Words]
  BY DEF S!NoAnswers
<1> QED  BY <1>1 DEF Verdicts

\* _finalize_outbound of a fetched round.
LEMMA FinalizedRound ==
    ASSUME NEW s, NEW ts, NEW tc \in Seq(Reply), NEW cl, NEW ls, NEW late, NEW alive,
           LoadsAreSound(ls, late), Sound(s, ts, tc, cl, ls, late, alive),
           NEW n \in Open(s), NEW ok \in BOOLEAN, ok => s.rounds[n].remaining = 0,
           \A x \in s.xfers : x.live => x.round # n,
           NEW u, u = S!Finalized(s, n, ok)
    PROVE  Sound(u, ts, tc, cl, ls, late, alive) /\ Keeps(s, u)
<1> DEFINE d == S!Dropped(s, {n})
           m == [type |-> "done", round |-> n, ok |-> ok, answers |-> S!NoAnswers]
<1>1. IsServer(s) /\ Pins(s) /\ Shares(s, ls) /\ n \in DOMAIN s.rounds /\ s.rounds[n].fetched
  BY DEF Sound, Open
<1>2. PICK v : v = d
  OBVIOUS
<1>3. /\ IsServer(v) /\ Shrinks(s, v) /\ DOMAIN v.rounds = DOMAIN s.rounds \ {n}
      /\ \A k \in DOMAIN v.rounds : v.rounds[k] = s.rounds[k]
      /\ \A x \in v.xfers : \E y \in s.xfers : x.to = y.to /\ (x.live => x = y /\ y.round \notin {n})
      /\ v.sent = s.sent /\ v.aborts = s.aborts
  <2>1. {n} \in SUBSET DOMAIN s.rounds
    BY <1>1
  <2> QED  BY <1>1, <1>2, <2>1, DroppedRounds
<1>4. u = [v EXCEPT !.sent = Append(@, m)]
  BY <1>1, <1>2 DEF S!Finalized, S!Sent
<1>5. m \in Reply
  BY <1>1, NoVerdicts DEF Reply, IsServer
<1> HIDE DEF d, m
<1>6. PICK one : one = <<m>>
  OBVIOUS
<1>7. s.sent \in Seq(Reply)
  BY <1>1 DEF IsServer
<1>8. /\ Append(s.sent, m) = s.sent \o one /\ one \in Seq(Reply) /\ DOMAIN one = {1} /\ one[1] = m
  BY <1>5, <1>6, <1>7, OneMessage
<1>9. /\ u = [rounds |-> v.rounds, queue |-> v.queue, parked |-> v.parked, aborts |-> v.aborts,
              stores |-> v.stores, xfers |-> v.xfers, sent |-> s.sent \o one]
  BY <1>3, <1>4, <1>8 DEF IsServer
<1>10. IsServer(u)
  <2>1. s.sent \o one \in Seq(Reply)
    BY <1>7, <1>8
  <2>2. S!UsedIds(u) = S!UsedIds(v)
    BY <1>9 DEF S!UsedIds
  <2> QED  BY <1>3, <1>9, <2>1, <2>2 DEF IsServer
<1>11. Shrinks(s, u)
  BY <1>3, <1>9 DEF Shrinks, KeptXfer
<1>12. Tells(s, u, one)
  <2>1. m.type = "done" /\ m.round = n /\ m.ok = ok
    BY DEF m
  <2>2. ASSUME NEW x \in v.xfers
        PROVE  x.to # s.rounds[n].job
    <3>1. PICK y \in s.xfers : x.to = y.to
      BY <1>3
    <3>2. y.live => y.round \in Open(s) /\ s.rounds[y.round].job = y.to /\ y.round # n
      BY <1>1 DEF Pins
    <3> QED  BY <1>1, <3>1, <3>2 DEF Shares
  <2> QED  BY <1>3, <1>8, <1>9, <2>1, <2>2 DEF Tells
<1>13. Sound(u, ts, tc, cl, ls, late, alive)
  BY <1>9, <1>10, <1>11, <1>12, ShrunkSound
<1>14. Keeps(s, u)
  <2>1. u.sent = s.sent \o one /\ u.aborts = s.aborts /\ u.rounds = v.rounds
    BY <1>3, <1>9
  <2>2. one[1].type = "done" /\ one[1].round = n /\ 1 \in DOMAIN one
    BY <1>8 DEF m
  <2>3. /\ \A k : TellsOf(s, k) => TellsOf(u, k)
        /\ \A i \in DOMAIN one : one[i].type \in {"done", "ack"} => TellsOf(u, one[i].round)
    BY <1>7, <1>8, <2>1, SentStays
  <2>4. TellsOf(u, n)
    BY <2>2, <2>3
  <2>5. \A k \in Open(s) : k # n => k \in Open(u) /\ u.rounds[k].job = s.rounds[k].job
    BY <1>3, <2>1 DEF Open
  <2> QED  BY <2>1, <2>3, <2>4, <2>5 DEF Keeps
<1> QED  BY <1>13, <1>14

\* A handler that leaves rounds, jobs and transfers alone.
LEMMA SameRounds ==
    ASSUME NEW s, NEW ts, NEW tc \in Seq(Reply), NEW cl, NEW ls, NEW late, NEW alive,
           LoadsAreSound(ls, late), Sound(s, ts, tc, cl, ls, late, alive),
           NEW q \in Seq(Lookup), NEW p \in Seq(Lookup),
           NEW new \in Seq(Reply), \A i \in DOMAIN new : new[i].type = "answer",
           NEW u, u = [rounds |-> s.rounds, queue |-> q, parked |-> p, aborts |-> s.aborts,
                       stores |-> s.stores, xfers |-> s.xfers, sent |-> s.sent \o new]
    PROVE  Sound(u, ts, tc, cl, ls, late, alive) /\ Keeps(s, u)
<1>1. IsServer(s) /\ Pins(s) /\ s.sent \in Seq(Reply)
  BY DEF Sound, IsServer
<1>2. s.sent \o new \in Seq(Reply)
  BY <1>1
<1>3. S!UsedIds(u) = S!UsedIds(s)
  BY DEF S!UsedIds
<1>4. IsServer(u)
  BY <1>1, <1>2, <1>3 DEF IsServer
<1>5. Shrinks(s, u)
  <2>1. \A x \in u.xfers : KeptXfer(s, u, x)
    <3> SUFFICES ASSUME NEW x \in s.xfers
                 PROVE  KeptXfer(s, u, x)
      OBVIOUS
    <3>1. x.live \in BOOLEAN /\ (x.live => x.round \in DOMAIN u.rounds)
      BY <1>1 DEF Pins, Open, IsServer, IsXfer
    <3>2. CASE x.live
      BY <3>1, <3>2 DEF KeptXfer
    <3>3. CASE ~x.live
      BY <3>3 DEF KeptXfer
    <3> QED  BY <3>1, <3>2, <3>3
  <2>2. \A n \in DOMAIN u.rounds : SameRound(s.rounds[n], u.rounds[n])
    BY DEF SameRound
  <2> QED  BY <2>1, <2>2 DEF Shrinks
<1>6. Tells(s, u, new)
  BY DEF Tells
<1>7. Sound(u, ts, tc, cl, ls, late, alive)
  BY <1>4, <1>5, <1>6, ShrunkSound
<1>8. Keeps(s, u)
  BY <1>1, SentStays DEF Keeps, Open
<1> QED  BY <1>7, <1>8

-----------------------------------------------------------------------------
(***************************************************************************)
(* Supply and demand.                                                      *)
(***************************************************************************)

\* P2PServer counts as this module does.
LEMMA SameCount == ASSUME NEW T PROVE S!Cardinality(T) = Cardinality(T)
BY DEF S!Cardinality, Cardinality

\* A number that no job uses is found.
LEMMA FreshJob ==
    ASSUME NEW taken, IsFiniteSet(taken)
    PROVE  S!FreshId(taken) \in Nat /\ S!FreshId(taken) \notin taken
<1>1. PICK n \in Nat : n = Cardinality(taken)
  BY FS_CardinalityType
<1>2. \E j \in 1..(n + 1) : j \notin taken
  <2> SUFFICES ASSUME 1..(n + 1) \subseteq taken
               PROVE  FALSE
    OBVIOUS
  <2>1. Cardinality(1..(n + 1)) = n + 1
    <3>1. /\ 1 \in Int /\ n + 1 \in Int /\ n + 1 >= 1
      OBVIOUS
    <3>2. Cardinality(1..(n + 1)) = n + 1 - 1 + 1
      BY <3>1, FS_Interval
    <3> QED  BY <3>2
  <2>2. Cardinality(1..(n + 1)) <= n
    BY <1>1, FS_Subset
  <2> QED  BY <2>1, <2>2
<1>3. \E j \in 1..(Cardinality(taken) + 1) : j \notin taken
  BY <1>1, <1>2
<1>4. S!FreshId(taken) \in 1..(Cardinality(taken) + 1) /\ S!FreshId(taken) \notin taken
  <2>1. PICK dom : dom = 1..(Cardinality(taken) + 1)
    OBVIOUS
  <2>2. S!FreshId(taken) = CHOOSE j \in dom : j \notin taken
    BY <2>1, SameCount DEF S!FreshId
  <2> QED  BY <1>3, <2>1, <2>2
<1>5. \A j \in 1..(n + 1) : j \in Nat
  OBVIOUS
<1> QED  BY <1>1, <1>4, <1>5

\* The round that a handler finds or makes.
LEMMA FoundRound ==
    ASSUME NEW s, IsServer(s), NEW n
    PROVE  /\ IsRound(S!RoundOf(s, n))
           /\ n \in DOMAIN s.rounds => S!RoundOf(s, n) = s.rounds[n]
           /\ n \notin DOMAIN s.rounds =>
                /\ ~S!RoundOf(s, n).fetched /\ S!RoundOf(s, n).jobs = {}
                /\ S!RoundOf(s, n).demanded = {}
<1>1. IsRound(S!NewRound) /\ ~S!NewRound.fetched /\ S!NewRound.jobs = {} /\ S!NewRound.demanded = {}
  BY DEF S!NewRound, IsRound
<1> QED  BY <1>1 DEF S!RoundOf, IsServer

\* What add_stored_blocks makes of the server: the round n becomes w, and the
\* transfers of more are submitted.
Supplies(s, u, n, job, w, more) ==
    /\ u = [rounds |-> u.rounds, queue |-> s.queue, parked |-> s.parked, aborts |-> s.aborts,
            stores |-> s.stores \cup {job}, xfers |-> s.xfers \cup more, sent |-> s.sent]
    /\ DOMAIN u.rounds = DOMAIN s.rounds \cup {n}
    /\ u.rounds[n] = w /\ \A m \in DOMAIN s.rounds : m # n => u.rounds[m] = s.rounds[m]
    /\ IsRound(w)
    /\ LET r == S!RoundOf(s, n) IN
          /\ w.fetched = r.fetched /\ w.job = r.job /\ w.remaining = r.remaining
          /\ w.jobs = r.jobs \cup {job}
          /\ w.demanded \subseteq r.demanded
          /\ \A x \in more : /\ IsXfer(x) /\ x.live /\ x.round = n /\ x.jobs = {job} /\ x.to = r.job
                             /\ x.keys \subseteq r.demanded /\ x.keys \cap w.demanded = {}
                             /\ r.fetched
          /\ \A x, y \in more : x = y

\* add_stored_blocks, seen as supply for one round.
LEMMA StoredSupplies ==
    ASSUME NEW s, IsServer(s), NEW n \in Nat, NEW keys \in SUBSET Keys, NEW job \in Nat,
           NEW lookup \in BOOLEAN, NEW u, u = S!Stored(s, n, keys, job, lookup),
           n \in Open(s) => s.rounds[n].job \in Loads
    PROVE  \E w, more : Supplies(s, u, n, job, w, more)
<1>1. PICK r : r = S!RoundOf(s, n)
  OBVIOUS
<1>2. IsRound(r) /\ (r.fetched => r.job \in Loads)
  BY <1>1, FoundRound DEF Open
<1> DEFINE matched == keys \cap r.demanded
           w == [r EXCEPT !.supplied = @ \/ lookup,
                          !.jobs = @ \cup {job},
                          !.demanded = @ \ matched,
                          !.available = [k \in DOMAIN @ \cup (keys \ matched) |->
                                           IF k \in keys THEN job ELSE @[k]]]
           x == [round |-> n, live |-> TRUE, keys |-> matched, jobs |-> {job}, to |-> r.job]
           more == IF matched = {} THEN {} ELSE {x}
           s1 == S!WithRound([s EXCEPT !.stores = @ \cup {job}], n, w)
<1>3. u = IF matched = {} THEN s1 ELSE S!Submitted(s1, n, matched, {job})
  BY <1>1 DEF S!Stored
<1>4. /\ w.supplied = (r.supplied \/ lookup) /\ w.fetched = r.fetched /\ w.job = r.job
      /\ w.remaining = r.remaining /\ w.finishing = r.finishing
      /\ w.jobs = r.jobs \cup {job} /\ w.demanded = r.demanded \ matched
      /\ w.available = [k \in DOMAIN r.available \cup (keys \ matched) |->
                          IF k \in keys THEN job ELSE r.available[k]]
      /\ w = [supplied |-> w.supplied, fetched |-> w.fetched, job |-> w.job,
              remaining |-> w.remaining, available |-> w.available, demanded |-> w.demanded,
              finishing |-> w.finishing, jobs |-> w.jobs]
  <2>1. PICK a : a = [k \in DOMAIN r.available \cup (keys \ matched) |->
                        IF k \in keys THEN job ELSE r.available[k]]
    OBVIOUS
  <2>2. PICK f : f = (r.supplied \/ lookup)
    OBVIOUS
  <2>3. PICK d : d = r.demanded \ matched
    OBVIOUS
  <2>4. w = [r EXCEPT !.supplied = f, !.jobs = r.jobs \cup {job}, !.demanded = d, !.available = a]
    BY <2>1, <2>2, <2>3
  <2>5. w = [supplied |-> f, fetched |-> r.fetched, job |-> r.job, remaining |-> r.remaining,
             available |-> a, demanded |-> d, finishing |-> r.finishing, jobs |-> r.jobs \cup {job}]
    <3> HIDE DEF w, matched
    <3> QED  BY <1>2, <2>4 DEF IsRound
  <2> HIDE DEF w, matched
  <2> QED  BY <2>1, <2>2, <2>3, <2>5
<1>5. PICK v : v = w
  OBVIOUS
<1>6. IsRound(v)
  <2>1. DOMAIN v.available = DOMAIN r.available \cup (keys \ matched)
    BY <1>4, <1>5
  <2>2. ASSUME ~v.fetched
        PROVE  /\ v.demanded = {} /\ v.job = 0
               /\ \A k \in DOMAIN v.available : v.available[k] \in v.jobs
    BY <1>2, <1>4, <1>5, <2>1, <2>2 DEF IsRound
  <2> QED  BY <1>2, <1>4, <1>5, <2>1, <2>2 DEF IsRound
<1>7. PICK t : t = s1
  OBVIOUS
<1>8. t = [rounds |-> [m \in DOMAIN s.rounds \cup {n} |-> IF m = n THEN v ELSE s.rounds[m]],
           queue |-> s.queue, parked |-> s.parked, aborts |-> s.aborts,
           stores |-> s.stores \cup {job}, xfers |-> s.xfers, sent |-> s.sent]
  BY <1>5, <1>7 DEF S!WithRound, IsServer
<1>9. PICK fresh : fresh = more
  OBVIOUS
<1>10. u = [rounds |-> t.rounds, queue |-> s.queue, parked |-> s.parked, aborts |-> s.aborts,
            stores |-> s.stores \cup {job}, xfers |-> s.xfers \cup fresh, sent |-> s.sent]
  <2>1. t.rounds[n].job = r.job
    BY <1>4, <1>5, <1>8
  <2>2. CASE matched = {}
    <3>1. u = t /\ fresh = {}
      BY <1>3, <1>7, <1>9, <2>2
    <3>2. s.xfers \cup fresh = s.xfers
      BY <3>1
    <3> QED  BY <1>8, <3>1, <3>2
  <2>3. CASE matched # {}
    <3>1. u = S!Submitted(t, n, matched, {job})
      BY <1>3, <1>7, <2>3
    <3>2. fresh = {x}
      BY <1>9, <2>3
    <3> QED  BY <1>8, <2>1, <3>1, <3>2 DEF S!Submitted
  <2> QED  BY <2>2, <2>3
<1>11. ASSUME NEW y \in fresh
       PROVE  /\ IsXfer(y) /\ y.live /\ y.round = n /\ y.jobs = {job} /\ y.to = r.job
              /\ y.keys \subseteq r.demanded /\ y.keys \cap v.demanded = {} /\ r.fetched
  <2>1. y = x /\ matched # {}
    BY <1>9
  <2>2. r.fetched /\ r.job \in Loads
    BY <1>2, <2>1 DEF IsRound
  <2> QED  BY <1>4, <1>5, <2>1, <2>2 DEF IsXfer
<1>12. \A y, z \in fresh : y = z
  BY <1>9
<1> HIDE DEF w, x, more, s1, matched
<1>13. /\ v.fetched = r.fetched /\ v.job = r.job /\ v.remaining = r.remaining
       /\ v.jobs = r.jobs \cup {job} /\ v.demanded \subseteq r.demanded
  BY <1>4, <1>5
<1>14. Supplies(s, u, n, job, v, fresh)
  BY <1>1, <1>6, <1>8, <1>10, <1>11, <1>12, <1>13 DEF Supplies
<1> QED  BY <1>14

\* New supply gets a job of its own.
LEMMA SuppliedSound ==
    ASSUME NEW s, NEW ts, NEW tc \in Seq(Reply), NEW cl, NEW ls, NEW late, NEW alive,
           Sound(s, ts, tc, cl, ls, late, alive),
           NEW n \in Nat, NEW job \in Nat, job \notin S!UsedIds(s), NEW u, NEW w, NEW more,
           Supplies(s, u, n, job, w, more)
    PROVE  /\ Sound(u, ts, tc, cl, ls, late, alive) /\ Keeps(s, u)
           /\ S!UsedIds(u) \subseteq S!UsedIds(s) \cup {job}
<1>1. PICK r : r = S!RoundOf(s, n)
  OBVIOUS
<1>2. PICK out : out = tc \o s.sent
  OBVIOUS
<1>3. /\ IsServer(s) /\ Pins(s) /\ Shares(s, ls) /\ (late \/ Held(s, ls))
      /\ Asked(s, ts, out, cl, ls) /\ Served(s, out, cl) /\ Answers(s, out, cl, ls, late)
      /\ alive => Current(s, ts, out, cl)
  BY <1>2 DEF Sound
<1>4. /\ IsRound(r) /\ (n \in DOMAIN s.rounds => r = s.rounds[n])
      /\ n \notin DOMAIN s.rounds => ~r.fetched /\ r.jobs = {} /\ r.demanded = {}
  BY <1>1, <1>3, FoundRound
<1>5. /\ u = [rounds |-> u.rounds, queue |-> s.queue, parked |-> s.parked, aborts |-> s.aborts,
              stores |-> s.stores \cup {job}, xfers |-> s.xfers \cup more, sent |-> s.sent]
      /\ DOMAIN u.rounds = DOMAIN s.rounds \cup {n}
      /\ u.rounds[n] = w /\ \A m \in DOMAIN s.rounds : m # n => u.rounds[m] = s.rounds[m]
      /\ IsRound(w)
      /\ w.fetched = r.fetched /\ w.job = r.job /\ w.remaining = r.remaining
      /\ w.jobs = r.jobs \cup {job} /\ w.demanded \subseteq r.demanded
      /\ \A x \in more : /\ IsXfer(x) /\ x.live /\ x.round = n /\ x.jobs = {job} /\ x.to = r.job
                         /\ x.keys \subseteq r.demanded /\ x.keys \cap w.demanded = {} /\ r.fetched
      /\ \A x, y \in more : x = y
  BY <1>1 DEF Supplies
<1>6. /\ u.xfers = s.xfers \cup more /\ u.stores = s.stores \cup {job} /\ u.sent = s.sent
      /\ u.aborts = s.aborts /\ u.queue = s.queue /\ u.parked = s.parked
  BY <1>5
<1>7. /\ job \notin s.stores /\ \A x \in s.xfers : job \notin x.jobs
      /\ \A m \in DOMAIN s.rounds : job \notin s.rounds[m].jobs
  BY DEF S!UsedIds
<1>8. S!UsedIds(u) \subseteq S!UsedIds(s) \cup {job}
  <2> SUFFICES ASSUME NEW j \in S!UsedIds(u), j # job
               PROVE  j \in S!UsedIds(s)
    OBVIOUS
  <2>1. CASE j \in u.stores
    BY <1>6, <2>1 DEF S!UsedIds
  <2>2. ASSUME NEW x \in u.xfers, j \in x.jobs
        PROVE  j \in S!UsedIds(s)
    BY <1>5, <1>6, <2>2 DEF S!UsedIds
  <2>3. ASSUME NEW m \in DOMAIN u.rounds, j \in u.rounds[m].jobs
        PROVE  j \in S!UsedIds(s)
    <3>1. m \in DOMAIN s.rounds /\ j \in s.rounds[m].jobs
      BY <1>4, <1>5, <2>3
    <3> QED  BY <3>1 DEF S!UsedIds
  <2> QED  BY <2>1, <2>2, <2>3 DEF S!UsedIds
<1>9. IsServer(u)
  <2>1. IsFiniteSet(S!UsedIds(s) \cup {job})
    BY <1>3, FS_AddElement DEF IsServer
  <2>2. IsFiniteSet(S!UsedIds(u))
    BY <1>8, <2>1, FS_Subset
  <2>3. \A m \in DOMAIN u.rounds : IsRound(u.rounds[m])
    BY <1>3, <1>5 DEF IsServer
  <2>4. \A x \in u.xfers : IsXfer(x)
    BY <1>3, <1>5, <1>6 DEF IsServer
  <2>5. u = [rounds |-> u.rounds, queue |-> u.queue, parked |-> u.parked, aborts |-> u.aborts,
             stores |-> u.stores, xfers |-> u.xfers, sent |-> u.sent]
    BY <1>5, <1>6
  <2> QED  BY <1>3, <1>5, <1>6, <2>2, <2>3, <2>4, <2>5 DEF IsServer
<1>10. /\ Open(u) = Open(s)
       /\ \A m \in Open(s) : u.rounds[m].job = s.rounds[m].job
  BY <1>4, <1>5 DEF Open
<1>11. \A m \in DOMAIN u.rounds :
          /\ m # n => m \in DOMAIN s.rounds /\ u.rounds[m].jobs = s.rounds[m].jobs
          /\ m = n => u.rounds[m].jobs = r.jobs \cup {job}
  BY <1>5
<1>12. \A x \in more : n \in Open(s) /\ r = s.rounds[n]
  BY <1>4, <1>5 DEF Open
<1>13. Pins(u)
  <2>1. ASSUME NEW m \in DOMAIN s.rounds, m # n
        PROVE  r.jobs \cap s.rounds[m].jobs = {} /\ job \notin s.rounds[m].jobs
    BY <1>3, <1>4, <1>7, <2>1 DEF Pins
  <2>2. \A k, m \in DOMAIN u.rounds : k # m => u.rounds[k].jobs \cap u.rounds[m].jobs = {}
    BY <1>3, <1>11, <2>1 DEF Pins
  <2>3. ASSUME NEW x \in u.xfers, NEW m \in DOMAIN u.rounds
        PROVE  IF x.live /\ x.round = m THEN x.jobs \subseteq u.rounds[m].jobs
               ELSE x.jobs \cap u.rounds[m].jobs = {}
    <3>1. CASE x \in s.xfers /\ m # n
      BY <1>3, <1>11, <3>1 DEF Pins
    <3>2. CASE x \in s.xfers /\ m = n
      <4>1. job \notin x.jobs /\ u.rounds[m].jobs = r.jobs \cup {job}
        BY <1>7, <1>11, <3>2
      <4>2. CASE n \in DOMAIN s.rounds
        BY <1>3, <1>4, <3>2, <4>1, <4>2 DEF Pins
      <4>3. CASE n \notin DOMAIN s.rounds
        <5>1. ~(x.live /\ x.round = n)
          BY <1>3, <3>2, <4>3 DEF Pins, Open
        <5> QED  BY <1>4, <3>2, <4>1, <4>3, <5>1
      <4> QED  BY <4>2, <4>3
    <3>3. CASE x \in more
      BY <1>5, <1>11, <2>1, <3>3
    <3> QED  BY <1>6, <3>1, <3>2, <3>3
  <2>4. ASSUME NEW x \in u.xfers, NEW y \in u.xfers, x.live, y.live, x.round = y.round, x # y
        PROVE  x.jobs \cap y.jobs = {} /\ x.keys \cap y.keys = {}
    <3>1. ASSUME NEW a \in s.xfers, NEW b \in more, a.live, a.round = b.round
          PROVE  a.jobs \cap b.jobs = {} /\ a.keys \cap b.keys = {}
      <4>1. n \in Open(s) /\ r = s.rounds[n] /\ a.round = n
        BY <1>5, <1>12, <3>1
      <4>2. a.keys \cap r.demanded = {}
        BY <1>3, <3>1, <4>1 DEF Pins
      <4> QED  BY <1>5, <1>7, <4>2
    <3>2. CASE x \in s.xfers /\ y \in s.xfers
      BY <1>3, <2>4, <3>2 DEF Pins
    <3>3. CASE x \in s.xfers /\ y \in more
      BY <2>4, <3>1, <3>3
    <3>4. CASE x \in more /\ y \in s.xfers
      BY <2>4, <3>1, <3>4
    <3>5. CASE x \in more /\ y \in more
      BY <1>5, <2>4, <3>5
    <3> QED  BY <1>6, <3>2, <3>3, <3>4, <3>5
  <2>5. ASSUME NEW x \in u.xfers, x.live
        PROVE  /\ x.round \in Open(u) /\ u.rounds[x.round].job = x.to
               /\ x.keys \cap u.rounds[x.round].demanded = {}
    <3>1. CASE x \in s.xfers
      <4>1. /\ x.round \in Open(s) /\ s.rounds[x.round].job = x.to
            /\ x.keys \cap s.rounds[x.round].demanded = {}
        BY <1>3, <2>5, <3>1 DEF Pins
      <4>2. u.rounds[x.round].demanded \subseteq s.rounds[x.round].demanded
        BY <1>4, <1>5, <4>1 DEF Open
      <4> QED  BY <1>10, <4>1, <4>2
    <3>2. CASE x \in more
      BY <1>5, <1>10, <1>12, <3>2
    <3> QED  BY <1>6, <3>1, <3>2
  <2> QED  BY <2>2, <2>3, <2>4, <2>5 DEF Pins
<1>14. Shares(u, ls)
  <2>1. ASSUME NEW m \in Open(u)
        PROVE  /\ m \in Open(s) /\ u.rounds[m].job = s.rounds[m].job
               /\ u.rounds[m].remaining = s.rounds[m].remaining
               /\ u.rounds[m].demanded \subseteq s.rounds[m].demanded
    BY <1>4, <1>5, <1>10 DEF Open
  <2>2. ASSUME NEW m \in Open(u)
        PROVE  /\ u.rounds[m].job \in Loads /\ Begun(ls[u.rounds[m].job])
               /\ u.rounds[m].remaining = Cardinality(Lacks(ls[u.rounds[m].job]))
               /\ u.rounds[m].demanded \subseteq Lacks(ls[u.rounds[m].job])
    BY <1>3, <2>1 DEF Shares
  <2>3. \A k, m \in Open(u) : k # m => u.rounds[k].job # u.rounds[m].job
    BY <1>3, <2>1 DEF Shares
  <2>4. ASSUME NEW x \in u.xfers
        PROVE  /\ Begun(ls[x.to]) /\ x.keys \subseteq ls[x.to].keys
               /\ x.live => x.keys \subseteq Lacks(ls[x.to])
               /\ ~x.live => \A m \in Open(u) : u.rounds[m].job # x.to
    <3>1. CASE x \in s.xfers
      BY <1>3, <1>10, <3>1 DEF Shares
    <3>2. CASE x \in more
      <4>1. n \in Open(s) /\ x.to = s.rounds[n].job /\ x.keys \subseteq s.rounds[n].demanded /\ x.live
        BY <1>5, <1>12, <3>2
      <4> QED  BY <1>3, <4>1 DEF Shares, Lacks
    <3> QED  BY <1>6, <3>1, <3>2
  <2> QED  BY <2>2, <2>3, <2>4 DEF Shares
<1>15. late \/ Held(u, ls)
  <2> SUFFICES ASSUME Held(s, ls)
               PROVE  Held(u, ls)
    BY <1>3
  <2>1. \A m \in DOMAIN u.rounds : u.rounds[m].jobs \subseteq u.stores
    BY <1>4, <1>6, <1>11 DEF Held
  <2> QED  BY <1>10, <2>1 DEF Held
<1>16. \A x \in more : \E m \in Open(s) : x.to = s.rounds[m].job
  BY <1>5, <1>12
<1>17. Asked(u, ts, out, cl, ls)
  <2> SUFFICES ASSUME NEW i \in DOMAIN ts, Fetching(ts[i])
               PROVE  /\ ts[i].round \notin Open(u) /\ \A m \in Open(u) : u.rounds[m].job # ts[i].job
                      /\ \A x \in u.xfers : x.to # ts[i].job
    BY <1>3 DEF Asked
  <2>1. /\ ts[i].round \notin Open(s) /\ \A m \in Open(s) : s.rounds[m].job # ts[i].job
        /\ \A x \in s.xfers : x.to # ts[i].job
    BY <1>3 DEF Asked
  <2> QED  BY <1>6, <1>10, <1>16, <2>1
<1>18. Served(u, out, cl)
  BY <1>3, <1>10 DEF Served
<1>19. Answers(u, out, cl, ls, late)
  <2> SUFFICES ASSUME NEW i \in DOMAIN out, out[i].type = "done", out[i].round \in DOMAIN cl,
                      NEW x \in more
               PROVE  x.to # cl[out[i].round].job
    BY <1>3, <1>6 DEF Answers
  <2>1. PICK m \in Open(s) : x.to = s.rounds[m].job
    BY <1>16
  <2>2. out[i].round # m
    BY <1>3 DEF Served, Done
  <2> QED  BY <1>3, <2>1, <2>2 DEF Served
<1>20. alive => Current(u, ts, out, cl)
  BY <1>3, <1>10 DEF Current
<1>21. Sound(u, ts, tc, cl, ls, late, alive)
  BY <1>2, <1>6, <1>9, <1>13, <1>14, <1>15, <1>17, <1>18, <1>19, <1>20 DEF Sound
<1>22. Keeps(s, u)
  BY <1>6, <1>10 DEF Keeps, TellsOf
<1> QED  BY <1>8, <1>21, <1>22

\* A fetch's promise is kept by its round, by its abort or by an answer.
Takes(u, n, job) == (n \in Open(u) /\ u.rounds[n].job = job) \/ n \in u.aborts \/ TellsOf(u, n)

\* No job and no lookup is new.
Settles(s, u) ==
    /\ S!UsedIds(u) \subseteq S!UsedIds(s)
    /\ s.queue = <<>> => u.queue = <<>>
    /\ s.parked = <<>> => u.parked = <<>>

StoresFor(s, u, n, keys, job) ==
    /\ n \in Nat /\ keys \in SUBSET Keys /\ job \in Nat /\ job \notin S!UsedIds(s)
    /\ \E lookup \in BOOLEAN : u = S!Stored(s, n, keys, job, lookup)

\* The job is the only new one, and lookups stay where they are.
AddsJob(s, u, job) ==
    /\ Keeps(s, u) /\ S!UsedIds(u) \subseteq S!UsedIds(s) \cup {job}
    /\ u.queue = s.queue /\ u.parked = s.parked

\* add_stored_blocks keeps the server sound.
LEMMA StoredSound ==
    ASSUME NEW s, NEW ts, NEW tc, tc \in Seq(Reply), NEW cl, NEW ls, NEW late, NEW alive,
           Sound(s, ts, tc, cl, ls, late, alive),
           NEW u, NEW n, NEW keys, NEW job, StoresFor(s, u, n, keys, job)
    PROVE  Sound(u, ts, tc, cl, ls, late, alive) /\ AddsJob(s, u, job)
<1>0. /\ n \in Nat /\ keys \in SUBSET Keys /\ job \in Nat /\ job \notin S!UsedIds(s)
      /\ \E lookup \in BOOLEAN : u = S!Stored(s, n, keys, job, lookup)
  BY DEF StoresFor
<1>1. IsServer(s) /\ (n \in Open(s) => s.rounds[n].job \in Loads)
  BY DEF Sound, Shares
<1>2. PICK w, more : Supplies(s, u, n, job, w, more)
  BY <1>0, <1>1, StoredSupplies
<1>3. u.queue = s.queue /\ u.parked = s.parked
  BY <1>2 DEF Supplies
<1>4. /\ Sound(u, ts, tc, cl, ls, late, alive) /\ Keeps(s, u)
      /\ S!UsedIds(u) \subseteq S!UsedIds(s) \cup {job}
  BY <1>0, <1>2, SuppliedSound
<1> QED  BY <1>3, <1>4 DEF AddsJob

\* _replay_unbound_stores and its loop.
Batches == [job : Nat, keys : SUBSET Keys]
ReplaysBy(f, s, batches) ==
    f = [i \in 0..Len(batches) |->
           IF i = 0 THEN s ELSE S!Stored(f[i - 1], 0, batches[i].keys, batches[i].job, FALSE)]

\* The server after each of the batches that waited.
LEMMA ReplayedLoop ==
    ASSUME NEW s, NEW batches, batches \in Seq(Batches)
    PROVE  \E f : ReplaysBy(f, s, batches) /\ S!Replayed(s, batches) = f[Len(batches)]
<1> DEFINE Upto(m, f) ==
             f = [i \in 0..m |-> IF i = 0 THEN s
                                 ELSE S!Stored(f[i - 1], 0, batches[i].keys, batches[i].job, FALSE)]
           T == {m \in Nat : \E f : Upto(m, f)}
           loop == CHOOSE f : ReplaysBy(f, s, batches)
<1>1. 0 \in T
  <2>1. Upto(0, [i \in 0..0 |-> s])
    OBVIOUS
  <2> QED  BY <2>1
<1>2. ASSUME NEW m \in Nat, m \in T PROVE m + 1 \in T
  <2>1. PICK f : Upto(m, f)
    BY <1>2
  <2> DEFINE v == S!Stored(f[m], 0, batches[m + 1].keys, batches[m + 1].job, FALSE)
             g == [i \in 0..(m + 1) |-> IF i = m + 1 THEN v ELSE f[i]]
  <2> HIDE DEF T, v
  <2>2. /\ \A i \in 0..(m + 1) : i \in 0..m \/ i = m + 1
        /\ \A i \in 0..m : i # m + 1 /\ i \in 0..(m + 1) /\ (i # 0 => i - 1 \in 0..m)
        /\ m + 1 \in 0..(m + 1) /\ m \in 0..m /\ m + 1 # 0 /\ (m + 1) - 1 = m
    OBVIOUS
  <2>3. g[m + 1] = v /\ \A i \in 0..m : g[i] = f[i]
    BY <2>2
  <2>4. \A i \in 0..m : f[i] = IF i = 0 THEN s
                               ELSE S!Stored(f[i - 1], 0, batches[i].keys, batches[i].job, FALSE)
    BY Zenon, <2>1
  <2>5. g = [i \in 0..(m + 1) |-> g[i]]
    OBVIOUS
  <2> HIDE DEF g
  <2>6. ASSUME NEW i \in 0..(m + 1)
        PROVE  g[i] = IF i = 0 THEN s
                      ELSE S!Stored(g[i - 1], 0, batches[i].keys, batches[i].job, FALSE)
    <3>1. CASE i \in 0..m
      <4>1. g[i] = f[i] /\ (i # 0 => g[i - 1] = f[i - 1])
        BY <2>2, <2>3, <3>1
      <4> QED  BY Zenon, <2>4, <3>1, <4>1
    <3>2. CASE i = m + 1
      <4>1. i # 0 /\ g[i] = v /\ g[i - 1] = f[m] /\ i = m + 1
        BY <2>2, <2>3, <3>2
      <4> QED  BY Zenon, <4>1 DEF v
    <3> QED  BY <2>2, <3>1, <3>2
  <2>7. Upto(m + 1, g)
    BY Zenon, <2>5, <2>6
  <2>8. m + 1 \in Nat
    OBVIOUS
  <2> HIDE DEF Upto
  <2> QED  BY <2>7, <2>8 DEF T
<1>3. Len(batches) \in T
  <2> HIDE DEF T
  <2>1. Nat \subseteq T
    BY Zenon, <1>1, <1>2, Induction
  <2>2. Len(batches) \in Nat
    BY LenProperties
  <2> QED  BY <2>1, <2>2
<1>4. \E f : ReplaysBy(f, s, batches)
  BY <1>3 DEF ReplaysBy
<1>5. ReplaysBy(loop, s, batches)
  <2> HIDE DEF T, Upto
  <2> QED  BY Zenon, <1>4
<1>6. S!Replayed(s, batches) = loop[Len(batches)]
  BY Zenon DEF S!Replayed, ReplaysBy
<1> QED  BY <1>5, <1>6

\* Batches that wait have jobs of their own.
Fresh(s, batches) ==
    /\ batches \in Seq(Batches)
    /\ \A i \in DOMAIN batches : batches[i].job \notin S!UsedIds(s)
    /\ \A i, k \in DOMAIN batches : batches[i].job = batches[k].job => i = k

\* The batches that waited keep the server sound.
LEMMA ReplayedSound ==
    ASSUME NEW s, NEW ts, NEW tc \in Seq(Reply), NEW cl, NEW ls, NEW late, NEW alive,
           Sound(s, ts, tc, cl, ls, late, alive), NEW batches, Fresh(s, batches),
           NEW u, u = S!Replayed(s, batches)
    PROVE  /\ Sound(u, ts, tc, cl, ls, late, alive) /\ Keeps(s, u)
           /\ u.queue = s.queue /\ u.parked = s.parked
<1> DEFINE JobsTo(m) == {batches[k].job : k \in 1..m}
           Good(m, v) == /\ Sound(v, ts, tc, cl, ls, late, alive) /\ Keeps(s, v)
                         /\ S!UsedIds(v) \subseteq S!UsedIds(s) \cup JobsTo(m)
                         /\ v.queue = s.queue /\ v.parked = s.parked
<1>1. /\ batches \in Seq(Batches) /\ Len(batches) \in Nat /\ DOMAIN batches = 1..Len(batches)
      /\ \A i \in 1..Len(batches) : batches[i].job \in Nat /\ batches[i].keys \in SUBSET Keys
  <2>1. batches \in Seq(Batches)
    BY DEF Fresh
  <2>2. \A i \in 1..Len(batches) : batches[i] \in Batches
    BY <2>1
  <2> QED  BY <2>1, <2>2 DEF Batches
<1>2. PICK f : ReplaysBy(f, s, batches) /\ S!Replayed(s, batches) = f[Len(batches)]
  BY <1>1, ReplayedLoop
<1>3. \A i \in 0..Len(batches) :
         f[i] = IF i = 0 THEN s ELSE S!Stored(f[i - 1], 0, batches[i].keys, batches[i].job, FALSE)
  BY Zenon, <1>2 DEF ReplaysBy
<1> DEFINE T == {m \in Nat : m <= Len(batches) => Good(m, f[m])}
<1>4. 0 \in T
  <2>1. f[0] = s
    <3>1. 0 \in 0..Len(batches)
      BY <1>1
    <3> QED  BY Zenon, <1>3, <3>1
  <2>2. Keeps(s, s)
    BY DEF Keeps
  <2> QED  BY <2>1, <2>2
<1>5. ASSUME NEW m \in Nat, m \in T PROVE m + 1 \in T
  <2> SUFFICES ASSUME m + 1 <= Len(batches)
               PROVE  Good(m + 1, f[m + 1])
    OBVIOUS
  <2>1. Good(m, f[m]) /\ m + 1 \in 1..Len(batches)
    BY <1>1, <1>5
  <2>2. f[m + 1] = S!Stored(f[m], 0, batches[m + 1].keys, batches[m + 1].job, FALSE)
    <3>1. m + 1 \in 0..Len(batches) /\ m + 1 # 0 /\ (m + 1) - 1 = m
      BY <1>1
    <3> QED  BY <1>3, <3>1
  <2>3. batches[m + 1].job \notin S!UsedIds(f[m])
    <3>1. batches[m + 1].job \notin S!UsedIds(s)
      BY <1>1, <2>1 DEF Fresh
    <3>2. \A k \in 1..m : batches[k].job # batches[m + 1].job
      BY <1>1, <2>1 DEF Fresh
    <3> QED  BY <2>1, <3>1, <3>2
  <2>4. batches[m + 1].job \in Nat /\ batches[m + 1].keys \in SUBSET Keys
    BY <1>1, <2>1
  <2>5. /\ Sound(f[m + 1], ts, tc, cl, ls, late, alive) /\ Keeps(f[m], f[m + 1])
        /\ S!UsedIds(f[m + 1]) \subseteq S!UsedIds(f[m]) \cup {batches[m + 1].job}
        /\ f[m + 1].queue = f[m].queue /\ f[m + 1].parked = f[m].parked
    <3>1. PICK v, w, ks, j : v = f[m] /\ w = f[m + 1] /\ ks = batches[m + 1].keys /\ j = batches[m + 1].job
      OBVIOUS
    <3>2. /\ Sound(v, ts, tc, cl, ls, late, alive) /\ w = S!Stored(v, 0, ks, j, FALSE)
          /\ j \in Nat /\ ks \in SUBSET Keys /\ j \notin S!UsedIds(v)
      BY <2>1, <2>2, <2>3, <2>4, <3>1
    <3>3. StoresFor(v, w, 0, ks, j)
      BY <3>2 DEF StoresFor
    <3>4. Sound(w, ts, tc, cl, ls, late, alive) /\ AddsJob(v, w, j)
      BY <3>2, <3>3, StoredSound
    <3> QED  BY <3>1, <3>4 DEF AddsJob
  <2>6. Keeps(s, f[m + 1])
    BY <2>1, <2>5, KeepsOn
  <2>7. JobsTo(m) \cup {batches[m + 1].job} \subseteq JobsTo(m + 1)
    OBVIOUS
  <2> HIDE DEF JobsTo
  <2> QED  BY <2>1, <2>5, <2>6, <2>7
<1>6. Len(batches) \in T
  <2> HIDE DEF T
  <2>1. Nat \subseteq T
    BY Zenon, <1>4, <1>5, Induction
  <2> QED  BY <1>1, <2>1
<1> HIDE DEF JobsTo
<1> QED  BY <1>1, <1>2, <1>6

\* serve_external_requests for one lookup.
Goes(s, u, ts, tc, cl, ls, late, alive) == Sound(u, ts, tc, cl, ls, late, alive) /\ Keeps(s, u)

\* Only lookups move, or are answered.
Shuffles(s, u) ==
    \E q \in Seq(Lookup), p \in Seq(Lookup), new \in Seq(Reply) :
       /\ \A i \in DOMAIN new : new[i].type = "answer"
       /\ u = [rounds |-> s.rounds, queue |-> q, parked |-> p, aborts |-> s.aborts,
               stores |-> s.stores, xfers |-> s.xfers, sent |-> s.sent \o new]

\* Queues and answers to lookups are no part of what is sound.
LEMMA ShuffledSound ==
    ASSUME NEW s, NEW ts, NEW tc, tc \in Seq(Reply), NEW cl, NEW ls, NEW late, NEW alive,
           LoadsAreSound(ls, late), Sound(s, ts, tc, cl, ls, late, alive), NEW u, Shuffles(s, u)
    PROVE  Goes(s, u, ts, tc, cl, ls, late, alive)
<1>1. \E q \in Seq(Lookup), p \in Seq(Lookup), new \in Seq(Reply) :
         /\ \A i \in DOMAIN new : new[i].type = "answer"
         /\ u = [rounds |-> s.rounds, queue |-> q, parked |-> p, aborts |-> s.aborts,
                 stores |-> s.stores, xfers |-> s.xfers, sent |-> s.sent \o new]
  BY DEF Shuffles
<1>2. Sound(u, ts, tc, cl, ls, late, alive) /\ Keeps(s, u)
  BY <1>1, SameRounds
<1> QED  BY <1>2 DEF Goes

\* One lookup is served: its hits supply the round, and the server stays sound.
LEMMA ServedSound ==
    ASSUME NEW s, NEW ts, NEW tc, tc \in Seq(Reply), NEW cl, NEW ls, NEW late, NEW alive,
           LoadsAreSound(ls, late), Sound(s, ts, tc, cl, ls, late, alive),
           NEW l, l \in Lookup, NEW result, NEW tooLate,
           NEW u, u = S!Served(s, l, result, tooLate)
    PROVE  Goes(s, u, ts, tc, cl, ls, late, alive)
<1> DEFINE hits == {k \in l.pending : result[k] = "HIT"}
           misses == {k \in l.pending : result[k] = "MISS" \/ (tooLate /\ result[k] # "HIT")}
           pending == l.pending \ (hits \cup misses)
           answers == [k \in DOMAIN l.answers |-> IF k \in hits THEN "hit"
                                                  ELSE IF k \in misses THEN "miss" ELSE l.answers[k]]
           s1 == IF hits = {} THEN s ELSE S!Stored(s, l.round, hits, S!NextId(s), TRUE)
           l2 == [l EXCEPT !.answers = answers, !.pending = pending]
           m == [type |-> "answer", round |-> l.round, ok |-> TRUE, answers |-> answers]
<1>1. u = IF pending = {} THEN [s1 EXCEPT !.sent = Append(@, m)] ELSE [s1 EXCEPT !.parked = Append(@, l2)]
  BY DEF S!Served, S!Sent
<1>2. /\ l = [round |-> l.round, pending |-> l.pending, answers |-> l.answers]
      /\ l.round \in Nat /\ l.pending \in SUBSET Keys /\ l.answers \in Verdicts
  BY DEF Lookup
<1>3. answers \in Verdicts
  <2>1. PICK K \in SUBSET Keys : l.answers \in [K -> Words]
    BY <1>2 DEF Verdicts
  <2>2. answers \in [K -> Words]
    BY <2>1 DEF Words
  <2> QED  BY <2>1, <2>2 DEF Verdicts
<1>4. l2 \in Lookup /\ m \in Reply
  <2>1. PICK a : a = answers
    OBVIOUS
  <2>2. PICK p : p = pending
    OBVIOUS
  <2>3. l2 = [round |-> l.round, pending |-> p, answers |-> a]
    <3>1. l2 = [l EXCEPT !.answers = a, !.pending = p]
      BY <2>1, <2>2
    <3> HIDE DEF l2
    <3> QED  BY <1>2, <3>1
  <2>4. p \in SUBSET Keys /\ a \in Verdicts
    BY <1>2, <1>3, <2>1, <2>2
  <2>5. m = [type |-> "answer", round |-> l.round, ok |-> TRUE, answers |-> a]
    BY <2>1
  <2> HIDE DEF l2, m
  <2> QED  BY <1>2, <2>3, <2>4, <2>5 DEF Lookup, Reply
<1>5. PICK v : v = s1
  OBVIOUS
<1>6. Sound(v, ts, tc, cl, ls, late, alive) /\ Keeps(s, v)
  <2>1. CASE hits = {}
    <3>1. v = s
      BY <1>5, <2>1
    <3>2. Keeps(s, s)
      BY DEF Keeps
    <3> QED  BY <3>1, <3>2
  <2>2. CASE hits # {}
    <3>1. PICK id : id = S!NextId(s)
      OBVIOUS
    <3>2. PICK h : h = hits
      OBVIOUS
    <3>3. v = S!Stored(s, l.round, h, id, TRUE)
      BY <1>5, <2>2, <3>1, <3>2
    <3>4. IsFiniteSet(S!UsedIds(s))
      BY DEF Sound, IsServer
    <3>5. id \in Nat /\ id \notin S!UsedIds(s)
      BY <3>1, <3>4, FreshJob DEF S!NextId
    <3>6. h \in SUBSET Keys
      BY <1>2, <3>2
    <3>7. StoresFor(s, v, l.round, h, id)
      <4> HIDE DEF hits, s1
      <4> QED  BY <1>2, <3>3, <3>5, <3>6 DEF StoresFor
    <3>8. Sound(v, ts, tc, cl, ls, late, alive) /\ AddsJob(s, v, id)
      BY <3>7, StoredSound
    <3> QED  BY <3>8 DEF AddsJob
  <2> QED  BY <2>1, <2>2
<1>7. /\ v = [rounds |-> v.rounds, queue |-> v.queue, parked |-> v.parked, aborts |-> v.aborts,
              stores |-> v.stores, xfers |-> v.xfers, sent |-> v.sent]
      /\ v.queue \in Seq(Lookup) /\ v.parked \in Seq(Lookup) /\ v.sent \in Seq(Reply)
  BY <1>6 DEF Sound, IsServer
<1>8. u = IF pending = {} THEN [v EXCEPT !.sent = Append(@, m)] ELSE [v EXCEPT !.parked = Append(@, l2)]
  BY <1>1, <1>5
<1> HIDE DEF hits, misses, pending, answers, s1, l2, m
<1>9. Shuffles(v, u)
  <2>1. CASE pending = {}
    <3>1. PICK one : one = <<m>>
      OBVIOUS
    <3>2. Append(v.sent, m) = v.sent \o one /\ one \in Seq(Reply) /\ DOMAIN one = {1} /\ one[1] = m
      BY <1>4, <1>7, <3>1, OneMessage
    <3>3. m.type = "answer"
      BY DEF m
    <3>4. u = [rounds |-> v.rounds, queue |-> v.queue, parked |-> v.parked, aborts |-> v.aborts,
               stores |-> v.stores, xfers |-> v.xfers, sent |-> v.sent \o one]
      BY <1>7, <1>8, <2>1, <3>2
    <3> QED  BY <1>7, <3>2, <3>3, <3>4 DEF Shuffles
  <2>2. CASE pending # {}
    <3>1. PICK p : p = Append(v.parked, l2)
      OBVIOUS
    <3>2. p \in Seq(Lookup)
      BY <1>4, <1>7, <3>1
    <3>3. PICK none : none = <<>>
      OBVIOUS
    <3>4. none \in Seq(Reply) /\ DOMAIN none = {} /\ v.sent \o none = v.sent
      BY <1>7, <3>3
    <3>5. u = [rounds |-> v.rounds, queue |-> v.queue, parked |-> p, aborts |-> v.aborts,
               stores |-> v.stores, xfers |-> v.xfers, sent |-> v.sent \o none]
      BY <1>7, <1>8, <2>2, <3>1, <3>4
    <3> QED  BY <1>7, <3>2, <3>4, <3>5 DEF Shuffles
  <2> QED  BY <2>1, <2>2
<1>10. Sound(u, ts, tc, cl, ls, late, alive) /\ Keeps(v, u)
  BY <1>6, <1>9, ShuffledSound DEF Goes
<1> QED  BY <1>6, <1>10, KeepsOn DEF Goes

\* The loop over lookups.
ServesBy(f, s, lookups, result, n) ==
    f = [i \in 0..Len(lookups) |-> IF i = 0 THEN s ELSE S!Served(f[i - 1], lookups[i], result, i <= n)]

\* The server after each of the lookups.
LEMMA ServedLoop ==
    ASSUME NEW s, NEW result, NEW n, NEW lookups, lookups \in Seq(Lookup)
    PROVE  \E f : ServesBy(f, s, lookups, result, n) /\ S!ServedEach(s, lookups, result, n) = f[Len(lookups)]
<1> DEFINE Upto(m, f) ==
             f = [i \in 0..m |-> IF i = 0 THEN s
                                 ELSE S!Served(f[i - 1], lookups[i], result, i <= n)]
           T == {m \in Nat : \E f : Upto(m, f)}
           loop == CHOOSE f : ServesBy(f, s, lookups, result, n)
<1>1. 0 \in T
  <2>1. Upto(0, [i \in 0..0 |-> s])
    OBVIOUS
  <2> QED  BY <2>1
<1>2. ASSUME NEW m \in Nat, m \in T PROVE m + 1 \in T
  <2>1. PICK f : Upto(m, f)
    BY <1>2
  <2> DEFINE v == S!Served(f[m], lookups[m + 1], result, m + 1 <= n)
             g == [i \in 0..(m + 1) |-> IF i = m + 1 THEN v ELSE f[i]]
  <2> HIDE DEF T, v
  <2>2. /\ \A i \in 0..(m + 1) : i \in 0..m \/ i = m + 1
        /\ \A i \in 0..m : i # m + 1 /\ i \in 0..(m + 1) /\ (i # 0 => i - 1 \in 0..m)
        /\ m + 1 \in 0..(m + 1) /\ m \in 0..m /\ m + 1 # 0 /\ (m + 1) - 1 = m
    OBVIOUS
  <2>3. g[m + 1] = v /\ \A i \in 0..m : g[i] = f[i]
    BY <2>2
  <2>4. \A i \in 0..m : f[i] = IF i = 0 THEN s
                               ELSE S!Served(f[i - 1], lookups[i], result, i <= n)
    BY Zenon, <2>1
  <2>5. g = [i \in 0..(m + 1) |-> g[i]]
    OBVIOUS
  <2> HIDE DEF g
  <2>6. ASSUME NEW i \in 0..(m + 1)
        PROVE  g[i] = IF i = 0 THEN s
                      ELSE S!Served(g[i - 1], lookups[i], result, i <= n)
    <3>1. CASE i \in 0..m
      <4>1. g[i] = f[i] /\ (i # 0 => g[i - 1] = f[i - 1])
        BY <2>2, <2>3, <3>1
      <4> QED  BY Zenon, <2>4, <3>1, <4>1
    <3>2. CASE i = m + 1
      <4>1. i # 0 /\ g[i] = v /\ g[i - 1] = f[m] /\ i = m + 1
        BY <2>2, <2>3, <3>2
      <4> QED  BY Zenon, <4>1 DEF v
    <3> QED  BY <2>2, <3>1, <3>2
  <2>7. Upto(m + 1, g)
    BY Zenon, <2>5, <2>6
  <2>8. m + 1 \in Nat
    OBVIOUS
  <2> HIDE DEF Upto
  <2> QED  BY <2>7, <2>8 DEF T
<1>3. Len(lookups) \in T
  <2> HIDE DEF T
  <2>1. Nat \subseteq T
    BY Zenon, <1>1, <1>2, Induction
  <2>2. Len(lookups) \in Nat
    BY LenProperties
  <2> QED  BY <2>1, <2>2
<1>4. \E f : ServesBy(f, s, lookups, result, n)
  BY <1>3 DEF ServesBy
<1>5. ServesBy(loop, s, lookups, result, n)
  <2> HIDE DEF T, Upto
  <2> QED  BY Zenon, <1>4
<1>6. S!ServedEach(s, lookups, result, n) = loop[Len(lookups)]
  BY Zenon DEF S!ServedEach, ServesBy
<1> QED  BY <1>5, <1>6

\* The lookups, one after the other, keep the server sound.
LEMMA ServedEachSound ==
    ASSUME NEW s, NEW ts, NEW tc, tc \in Seq(Reply), NEW cl, NEW ls, NEW late, NEW alive,
           LoadsAreSound(ls, late), Sound(s, ts, tc, cl, ls, late, alive),
           NEW result, NEW n, NEW lookups, lookups \in Seq(Lookup),
           NEW u, u = S!ServedEach(s, lookups, result, n)
    PROVE  Goes(s, u, ts, tc, cl, ls, late, alive)
<1>1. /\ Len(lookups) \in Nat /\ DOMAIN lookups = 1..Len(lookups)
      /\ \A i \in 1..Len(lookups) : lookups[i] \in Lookup
  OBVIOUS
<1>2. PICK f : ServesBy(f, s, lookups, result, n) /\ S!ServedEach(s, lookups, result, n) = f[Len(lookups)]
  BY ServedLoop
<1>3. \A i \in 0..Len(lookups) :
         f[i] = IF i = 0 THEN s ELSE S!Served(f[i - 1], lookups[i], result, i <= n)
  BY Zenon, <1>2 DEF ServesBy
<1> DEFINE T == {m \in Nat : m <= Len(lookups) => Goes(s, f[m], ts, tc, cl, ls, late, alive)}
<1>4. 0 \in T
  <2>1. f[0] = s
    <3>1. 0 \in 0..Len(lookups)
      BY <1>1
    <3> QED  BY Zenon, <1>3, <3>1
  <2>2. Goes(s, s, ts, tc, cl, ls, late, alive)
    BY DEF Keeps, Goes
  <2> QED  BY <2>1, <2>2
<1>5. ASSUME NEW m \in Nat, m \in T PROVE m + 1 \in T
  <2> SUFFICES ASSUME m + 1 <= Len(lookups)
               PROVE  Goes(s, f[m + 1], ts, tc, cl, ls, late, alive)
    OBVIOUS
  <2>1. Goes(s, f[m], ts, tc, cl, ls, late, alive) /\ m + 1 \in 1..Len(lookups)
    BY <1>1, <1>5
  <2>2. \E b : f[m + 1] = S!Served(f[m], lookups[m + 1], result, b)
    <3>1. m + 1 \in 0..Len(lookups) /\ m + 1 # 0 /\ (m + 1) - 1 = m
      BY <1>1
    <3>2. f[m + 1] = S!Served(f[m], lookups[m + 1], result, m + 1 <= n)
      BY <1>3, <3>1
    <3> QED  BY <3>2
  <2>3. PICK v, w, l, b : /\ v = f[m] /\ w = f[m + 1] /\ l = lookups[m + 1]
                          /\ w = S!Served(v, l, result, b)
    BY <2>2
  <2>4. Sound(v, ts, tc, cl, ls, late, alive) /\ Keeps(s, v) /\ l \in Lookup
    BY <1>1, <2>1, <2>3 DEF Goes
  <2>5. Goes(v, w, ts, tc, cl, ls, late, alive)
    BY <2>3, <2>4, ServedSound
  <2>6. Keeps(v, w) /\ Sound(w, ts, tc, cl, ls, late, alive)
    BY <2>5 DEF Goes
  <2> QED  BY <2>3, <2>4, <2>6, KeepsOn DEF Goes
<1>6. Len(lookups) \in T
  <2> HIDE DEF T
  <2>1. Nat \subseteq T
    BY Zenon, <1>4, <1>5, Induction
  <2> QED  BY <1>1, <2>1
<1> QED  BY <1>1, <1>2, <1>6

\* serve_external_requests.
LEMMA ServedAllSound ==
    ASSUME NEW s, NEW ts, NEW tc, tc \in Seq(Reply), NEW cl, NEW ls, NEW late, NEW alive,
           LoadsAreSound(ls, late), Sound(s, ts, tc, cl, ls, late, alive),
           NEW result, NEW n, NEW u, u = S!ServedAll(s, result, n)
    PROVE  Goes(s, u, ts, tc, cl, ls, late, alive)
<1>1. PICK q, v, w, x : /\ q = [s EXCEPT !.queue = <<>>] /\ v = S!ServedEach(q, s.queue, result, 0)
                        /\ w = [v EXCEPT !.parked = <<>>] /\ x = S!ServedEach(w, v.parked, result, n)
  OBVIOUS
<1>2. u = x
  BY <1>1 DEF S!ServedAll
<1>3. PICK none : none = <<>>
  OBVIOUS
<1>4. /\ none \in Seq(Reply) /\ none \in Seq(Lookup) /\ DOMAIN none = {}
      /\ \A r \in Seq(Reply) : r \o none = r
  BY <1>3
<1>5. ASSUME NEW z, Sound(z, ts, tc, cl, ls, late, alive)
      PROVE  /\ z.sent \o none = z.sent /\ z.queue \in Seq(Lookup) /\ z.parked \in Seq(Lookup)
             /\ z = [rounds |-> z.rounds, queue |-> z.queue, parked |-> z.parked, aborts |-> z.aborts,
                     stores |-> z.stores, xfers |-> z.xfers, sent |-> z.sent]
  BY <1>4, <1>5 DEF Sound, IsServer
<1>6. Sound(q, ts, tc, cl, ls, late, alive) /\ Keeps(s, q)
  <2>1. q = [rounds |-> s.rounds, queue |-> none, parked |-> s.parked, aborts |-> s.aborts,
             stores |-> s.stores, xfers |-> s.xfers, sent |-> s.sent \o none]
    BY <1>1, <1>3, <1>5
  <2>2. s.parked \in Seq(Lookup)
    BY <1>5
  <2>3. Shuffles(s, q)
    BY <1>4, <2>1, <2>2 DEF Shuffles
  <2> QED  BY <2>3, ShuffledSound DEF Goes
<1>7. Goes(q, v, ts, tc, cl, ls, late, alive)
  <2>1. s.queue \in Seq(Lookup)
    BY <1>5
  <2> QED  BY <1>1, <1>6, <2>1, ServedEachSound
<1>8. Sound(v, ts, tc, cl, ls, late, alive) /\ Keeps(q, v)
  BY <1>7 DEF Goes
<1>9. Sound(w, ts, tc, cl, ls, late, alive) /\ Keeps(v, w)
  <2>1. w = [rounds |-> v.rounds, queue |-> v.queue, parked |-> none, aborts |-> v.aborts,
             stores |-> v.stores, xfers |-> v.xfers, sent |-> v.sent \o none]
    <3>1. /\ v.sent \o none = v.sent
          /\ v = [rounds |-> v.rounds, queue |-> v.queue, parked |-> v.parked, aborts |-> v.aborts,
                  stores |-> v.stores, xfers |-> v.xfers, sent |-> v.sent]
      BY <1>5, <1>8
    <3>2. w = [v EXCEPT !.parked = none]
      BY <1>1, <1>3
    <3> QED  BY <3>1, <3>2
  <2>2. v.queue \in Seq(Lookup)
    BY <1>5, <1>8
  <2>3. Shuffles(v, w)
    BY <1>4, <2>1, <2>2 DEF Shuffles
  <2> QED  BY <1>8, <2>3, ShuffledSound DEF Goes
<1>10. Goes(w, x, ts, tc, cl, ls, late, alive)
  <2>1. v.parked \in Seq(Lookup)
    BY <1>5, <1>8
  <2> QED  BY <1>1, <1>9, <2>1, ServedEachSound
<1>11. Sound(x, ts, tc, cl, ls, late, alive) /\ Keeps(w, x)
  BY <1>10 DEF Goes
<1>12. Keeps(s, v) /\ Keeps(v, x)
  BY <1>6, <1>8, <1>9, <1>11, KeepsOn
<1> QED  BY <1>2, <1>11, <1>12, KeepsOn DEF Goes

-----------------------------------------------------------------------------
(***************************************************************************)
(* Messages that the server reads.                                          *)
(***************************************************************************)

\* The other messages of a list are those after its head.
LEMMA AfterHead ==
    ASSUME NEW ts, ts \in Seq(Request), ts # <<>>
    PROVE  /\ Tail(ts) \in Seq(Request) /\ 1 \in DOMAIN ts /\ Head(ts) = ts[1] /\ ts[1] \in Request
           /\ \A i \in DOMAIN Tail(ts) : /\ i + 1 \in DOMAIN ts /\ Tail(ts)[i] = ts[i + 1]
                                         /\ i + 1 # 1
           /\ \A i, k \in DOMAIN Tail(ts) : i # k => i + 1 # k + 1
<1>1. Len(ts) \in Nat /\ Len(ts) # 0 /\ DOMAIN ts = 1..Len(ts) /\ Tail(ts) \in Seq(Request)
  BY EmptySeq
<1>2. DOMAIN Tail(ts) = 1..(Len(ts) - 1) /\ \A i \in 1..(Len(ts) - 1) : Tail(ts)[i] = ts[i + 1]
  BY <1>1
<1> QED  BY <1>1, <1>2

\* A message read is one less to answer.
LEMMA ReadSound ==
    ASSUME NEW s, NEW ts, ts \in Seq(Request), ts # <<>>, NEW tc, NEW cl, NEW ls, NEW late,
           NEW alive, Sound(s, ts, tc, cl, ls, late, alive)
    PROVE  Sound(s, Tail(ts), tc, cl, ls, late, alive)
<1>1. /\ \A i \in DOMAIN Tail(ts) : i + 1 \in DOMAIN ts /\ Tail(ts)[i] = ts[i + 1]
      /\ \A i, k \in DOMAIN Tail(ts) : i # k => i + 1 # k + 1
  BY AfterHead
<1>2. PICK q : q = Tail(ts)
  OBVIOUS
<1>3. PICK out : out = tc \o s.sent
  OBVIOUS
<1>4. Asked(s, ts, out, cl, ls) /\ (alive => Current(s, ts, out, cl))
  BY <1>3 DEF Sound
<1>5. Asked(s, q, out, cl, ls)
  <2> SUFFICES ASSUME NEW i \in DOMAIN q, Fetching(q[i])
               PROVE  /\ q[i].job \in Loads /\ Begun(ls[q[i].job]) /\ ls[q[i].job].keys = q[i].keys
                      /\ ls[q[i].job].got = {} /\ ls[q[i].job].clean
                      /\ q[i].round \notin Open(s) /\ \A n \in Open(s) : s.rounds[n].job # q[i].job
                      /\ \A x \in s.xfers : x.to # q[i].job
                      /\ \A k \in DOMAIN out : ~Done(out[k], q[i].round)
                      /\ \A k \in DOMAIN q : (Fetching(q[k]) /\ k # i) =>
                                                q[k].job # q[i].job /\ q[k].round # q[i].round
                      /\ \A n \in DOMAIN cl : (cl[n].job = q[i].job) <=> (n = q[i].round)
    BY DEF Asked
  <2>1. PICK j \in DOMAIN ts : j = i + 1 /\ q[i] = ts[j]
    BY <1>1, <1>2
  <2>2. ASSUME NEW k \in DOMAIN q, Fetching(q[k]), k # i
        PROVE  q[k].job # q[i].job /\ q[k].round # q[i].round
    <3>1. PICK h \in DOMAIN ts : h = k + 1 /\ q[k] = ts[h]
      BY <1>1, <1>2
    <3>2. h # j
      BY <1>1, <1>2, <2>1, <2>2, <3>1
    <3> QED  BY <1>4, <2>1, <2>2, <3>1, <3>2 DEF Asked
  <2>3. Fetching(ts[j])
    BY <2>1
  <2> QED  BY <1>4, <2>1, <2>2, <2>3 DEF Asked
<1>6. alive => Current(s, q, out, cl)
  BY <1>1, <1>2, <1>4 DEF Current
<1> QED  BY <1>2, <1>3, <1>5, <1>6 DEF Sound

\* on_lookup.
LEMMA EnqueuedSound ==
    ASSUME NEW s, NEW ts, NEW tc, tc \in Seq(Reply), NEW cl, NEW ls, NEW late, NEW alive,
           LoadsAreSound(ls, late), Sound(s, ts, tc, cl, ls, late, alive),
           NEW n \in Nat, NEW keys \in SUBSET Keys, NEW u, u = S!Enqueued(s, n, keys)
    PROVE  Goes(s, u, ts, tc, cl, ls, late, alive)
<1> DEFINE l == [round |-> n, pending |-> keys, answers |-> [k \in keys |-> "none"]]
<1>1. u = [s EXCEPT !.queue = Append(@, l)]
  BY DEF S!Enqueued
<1>2. l \in Lookup
  <2>1. [k \in keys |-> "none"] \in [keys -> Words]
    BY DEF Words
  <2>2. [k \in keys |-> "none"] \in Verdicts
    BY <2>1 DEF Verdicts
  <2> QED  BY <2>2 DEF Lookup
<1> HIDE DEF l
<1>3. /\ s = [rounds |-> s.rounds, queue |-> s.queue, parked |-> s.parked, aborts |-> s.aborts,
              stores |-> s.stores, xfers |-> s.xfers, sent |-> s.sent]
      /\ s.queue \in Seq(Lookup) /\ s.parked \in Seq(Lookup) /\ s.sent \in Seq(Reply)
  BY DEF Sound, IsServer
<1>4. PICK q : q = Append(s.queue, l)
  OBVIOUS
<1>5. q \in Seq(Lookup)
  BY <1>2, <1>3, <1>4
<1>6. PICK none : none = <<>>
  OBVIOUS
<1>7. none \in Seq(Reply) /\ DOMAIN none = {} /\ s.sent \o none = s.sent
  BY <1>3, <1>6
<1>8. u = [rounds |-> s.rounds, queue |-> q, parked |-> s.parked, aborts |-> s.aborts,
           stores |-> s.stores, xfers |-> s.xfers, sent |-> s.sent \o none]
  BY <1>1, <1>3, <1>4, <1>7
<1>9. Shuffles(s, u)
  BY <1>3, <1>5, <1>7, <1>8 DEF Shuffles
<1> QED  BY <1>9, ShuffledSound

\* What is known of a load whose fetch is read.
Awaited(s, q, out, cl, ls, n, keys, job, alive) ==
    /\ n \in Nat /\ job \in Loads /\ keys \in SUBSET Keys /\ keys # {}
    /\ Begun(ls[job]) /\ ls[job].keys = keys /\ ls[job].got = {} /\ ls[job].clean
    /\ n \notin Open(s) /\ \A m \in Open(s) : s.rounds[m].job # job
    /\ \A x \in s.xfers : x.to # job
    /\ \A k \in DOMAIN out : ~Done(out[k], n)
    /\ \A k \in DOMAIN q : Fetching(q[k]) => q[k].job # job /\ q[k].round # n
    /\ \A m \in DOMAIN cl : (cl[m].job = job) <=> (m = n)
    /\ alive => n \in DOMAIN cl

\* A fetch that is read was the only trace of its load.
LEMMA HeadIsAwaited ==
    ASSUME NEW s, NEW ts, ts \in Seq(Request), ts # <<>>, NEW tc, NEW cl, NEW ls, NEW late,
           NEW alive, Sound(s, ts, tc, cl, ls, late, alive),
           NEW m, m = Head(ts), Fetching(m)
    PROVE  Awaited(s, Tail(ts), tc \o s.sent, cl, ls, m.round, m.keys, m.job, alive)
<1>1. /\ 1 \in DOMAIN ts /\ m = ts[1] /\ m \in Request
      /\ \A i \in DOMAIN Tail(ts) : i + 1 \in DOMAIN ts /\ Tail(ts)[i] = ts[i + 1] /\ i + 1 # 1
  BY AfterHead
<1>2. m.round \in Nat /\ m.keys \in SUBSET Keys /\ m.keys # {}
  BY <1>1 DEF Request, Fetching
<1>3. PICK out : out = tc \o s.sent
  OBVIOUS
<1>4. PICK q : q = Tail(ts)
  OBVIOUS
<1>5. Asked(s, ts, out, cl, ls) /\ (alive => Current(s, ts, out, cl))
  BY <1>3 DEF Sound
<1>6. ASSUME NEW k \in DOMAIN q, Fetching(q[k])
      PROVE  q[k].job # m.job /\ q[k].round # m.round
  <2>1. PICK j \in DOMAIN ts : j # 1 /\ q[k] = ts[j]
    BY <1>1, <1>4
  <2> QED  BY <1>1, <1>5, <1>6, <2>1 DEF Asked
<1>7. alive => m.round \in DOMAIN cl
  BY <1>1, <1>5 DEF Current
<1>8. Awaited(s, q, out, cl, ls, m.round, m.keys, m.job, alive)
  BY <1>1, <1>2, <1>5, <1>6, <1>7 DEF Asked, Awaited
<1> QED  BY <1>3, <1>4, <1>8

\* From s to u the round n is fetched for job: it becomes w, and the transfers
\* of more are submitted.
Starts(s, u, n, keys, job, w, more) ==
    /\ u = [rounds |-> u.rounds, queue |-> s.queue, parked |-> s.parked, aborts |-> s.aborts,
            stores |-> s.stores, xfers |-> s.xfers \cup more, sent |-> s.sent]
    /\ DOMAIN u.rounds = DOMAIN s.rounds \cup {n}
    /\ u.rounds[n] = w /\ \A m \in DOMAIN s.rounds : m # n => u.rounds[m] = s.rounds[m]
    /\ IsRound(w) /\ w.fetched /\ w.job = job /\ w.remaining = Cardinality(keys)
    /\ w.jobs = S!RoundOf(s, n).jobs /\ w.demanded \subseteq keys
    /\ \A x \in more : /\ IsXfer(x) /\ x.live /\ x.round = n /\ x.to = job
                       /\ x.jobs \subseteq w.jobs
                       /\ x.keys \subseteq keys /\ x.keys \cap w.demanded = {}
    /\ \A x, y \in more : x = y

\* on_fetch opens a round, with what it already has in one transfer.
LEMMA StartedSound ==
    ASSUME NEW s, NEW q, NEW tc, NEW cl, NEW ls, NEW late, NEW alive,
           Sound(s, q, tc, cl, ls, late, alive),
           NEW n, NEW keys, NEW job, Awaited(s, q, tc \o s.sent, cl, ls, n, keys, job, alive),
           NEW u, NEW w, NEW more, Starts(s, u, n, keys, job, w, more)
    PROVE  Goes(s, u, q, tc, cl, ls, late, alive) /\ Settles(s, u)
<1>1. PICK r : r = S!RoundOf(s, n)
  OBVIOUS
<1>2. PICK out : out = tc \o s.sent
  OBVIOUS
<1>3. /\ IsServer(s) /\ Pins(s) /\ Shares(s, ls) /\ (late \/ Held(s, ls))
      /\ Asked(s, q, out, cl, ls) /\ Served(s, out, cl) /\ Answers(s, out, cl, ls, late)
      /\ alive => Current(s, q, out, cl)
  BY <1>2 DEF Sound
<1>4. /\ IsRound(r) /\ (n \in DOMAIN s.rounds => r = s.rounds[n])
      /\ n \notin DOMAIN s.rounds => r.jobs = {}
  BY <1>1, <1>3, FoundRound
<1>5. /\ n \in Nat /\ job \in Loads
      /\ Begun(ls[job]) /\ ls[job].keys = keys /\ ls[job].got = {} /\ ls[job].clean
      /\ n \notin Open(s) /\ \A m \in Open(s) : s.rounds[m].job # job
      /\ \A x \in s.xfers : x.to # job
      /\ \A k \in DOMAIN out : ~Done(out[k], n)
      /\ \A k \in DOMAIN q : Fetching(q[k]) => q[k].job # job /\ q[k].round # n
      /\ \A m \in DOMAIN cl : (cl[m].job = job) <=> (m = n)
      /\ alive => n \in DOMAIN cl
  BY <1>2 DEF Awaited
<1>6. /\ u = [rounds |-> u.rounds, queue |-> s.queue, parked |-> s.parked, aborts |-> s.aborts,
              stores |-> s.stores, xfers |-> s.xfers \cup more, sent |-> s.sent]
      /\ DOMAIN u.rounds = DOMAIN s.rounds \cup {n}
      /\ u.rounds[n] = w /\ \A m \in DOMAIN s.rounds : m # n => u.rounds[m] = s.rounds[m]
      /\ IsRound(w) /\ w.fetched /\ w.job = job /\ w.remaining = Cardinality(keys)
      /\ w.jobs = r.jobs /\ w.demanded \subseteq keys
      /\ \A x \in more : /\ IsXfer(x) /\ x.live /\ x.round = n /\ x.to = job
                         /\ x.jobs \subseteq w.jobs
                         /\ x.keys \subseteq keys /\ x.keys \cap w.demanded = {}
      /\ \A x, y \in more : x = y
  BY <1>1 DEF Starts
<1>7. /\ u.xfers = s.xfers \cup more /\ u.stores = s.stores /\ u.sent = s.sent
      /\ u.aborts = s.aborts /\ u.queue = s.queue /\ u.parked = s.parked
  BY <1>6
<1>8. \A m \in DOMAIN u.rounds :
         /\ m # n => m \in DOMAIN s.rounds /\ u.rounds[m] = s.rounds[m]
         /\ m = n => u.rounds[m] = w
         /\ u.rounds[m].jobs \subseteq r.jobs \/ (m # n /\ u.rounds[m].jobs = s.rounds[m].jobs)
  BY <1>6
<1>9. S!UsedIds(u) \subseteq S!UsedIds(s)
  <2> SUFFICES ASSUME NEW j \in S!UsedIds(u)
               PROVE  j \in S!UsedIds(s)
    OBVIOUS
  <2>0. ASSUME j \in r.jobs PROVE j \in S!UsedIds(s)
    BY <1>4, <2>0 DEF S!UsedIds
  <2>1. CASE j \in u.stores
    BY <1>7, <2>1 DEF S!UsedIds
  <2>2. ASSUME NEW x \in u.xfers, j \in x.jobs
        PROVE  j \in S!UsedIds(s)
    BY <1>6, <1>7, <2>0, <2>2 DEF S!UsedIds
  <2>3. ASSUME NEW m \in DOMAIN u.rounds, j \in u.rounds[m].jobs
        PROVE  j \in S!UsedIds(s)
    BY <1>8, <2>0, <2>3 DEF S!UsedIds
  <2> QED  BY <2>1, <2>2, <2>3 DEF S!UsedIds
<1>10. IsServer(u)
  <2>1. IsFiniteSet(S!UsedIds(u))
    BY <1>3, <1>9, FewerIds
  <2>2. \A m \in DOMAIN u.rounds : IsRound(u.rounds[m])
    BY <1>3, <1>6, <1>8 DEF IsServer
  <2>3. \A x \in u.xfers : IsXfer(x)
    BY <1>3, <1>6, <1>7 DEF IsServer
  <2>4. u = [rounds |-> u.rounds, queue |-> u.queue, parked |-> u.parked, aborts |-> u.aborts,
             stores |-> u.stores, xfers |-> u.xfers, sent |-> u.sent]
    BY <1>6, <1>7
  <2>5. DOMAIN u.rounds \in SUBSET Nat
    BY <1>3, <1>5, <1>6 DEF IsServer
  <2> QED  BY <1>3, <1>7, <2>1, <2>2, <2>3, <2>4, <2>5 DEF IsServer
<1>11. /\ Open(u) = Open(s) \cup {n} /\ u.rounds[n] = w
       /\ \A m \in Open(s) : m # n /\ u.rounds[m] = s.rounds[m]
  <2>1. \A m \in Open(s) : m # n /\ m \in DOMAIN s.rounds
    BY <1>5 DEF Open
  <2>2. \A m : m \in Open(u) <=> m \in Open(s) \cup {n}
    BY <1>5, <1>6, <1>8, <2>1 DEF Open
  <2> QED  BY <1>6, <2>1, <2>2
<1>12. Pins(u)
  <2>1. ASSUME NEW m \in DOMAIN s.rounds, m # n
        PROVE  r.jobs \cap s.rounds[m].jobs = {}
    BY <1>3, <1>4, <2>1 DEF Pins
  <2>2. \A k, m \in DOMAIN u.rounds : k # m => u.rounds[k].jobs \cap u.rounds[m].jobs = {}
    BY <1>3, <1>6, <1>8, <2>1 DEF Pins
  <2>3. \A x \in s.xfers : ~(x.live /\ x.round = n)
    BY <1>3, <1>5 DEF Pins
  <2>4. ASSUME NEW x \in u.xfers, NEW m \in DOMAIN u.rounds
        PROVE  IF x.live /\ x.round = m THEN x.jobs \subseteq u.rounds[m].jobs
               ELSE x.jobs \cap u.rounds[m].jobs = {}
    <3>1. CASE x \in s.xfers /\ m # n
      BY <1>3, <1>8, <3>1 DEF Pins
    <3>2. CASE x \in s.xfers /\ m = n
      <4>1. u.rounds[m].jobs = r.jobs /\ ~(x.live /\ x.round = m)
        BY <1>6, <2>3, <3>2
      <4>2. CASE n \in DOMAIN s.rounds
        BY <1>3, <1>4, <2>3, <3>2, <4>1, <4>2 DEF Pins
      <4>3. CASE n \notin DOMAIN s.rounds
        BY <1>4, <4>1, <4>3
      <4> QED  BY <4>2, <4>3
    <3>3. CASE x \in more /\ m = n
      BY <1>6, <3>3
    <3>4. CASE x \in more /\ m # n
      <4>1. x.jobs \subseteq r.jobs /\ x.round # m /\ m \in DOMAIN s.rounds /\ u.rounds[m] = s.rounds[m]
        BY <1>6, <1>8, <3>4
      <4> QED  BY <2>1, <3>4, <4>1
    <3> QED  BY <1>7, <3>1, <3>2, <3>3, <3>4
  <2>5. ASSUME NEW x \in u.xfers, NEW y \in u.xfers, x.live, y.live, x.round = y.round, x # y
        PROVE  x.jobs \cap y.jobs = {} /\ x.keys \cap y.keys = {}
    <3>1. \A z \in more : z.round = n
      BY <1>6
    <3>2. CASE x \in s.xfers /\ y \in s.xfers
      BY <1>3, <2>5, <3>2 DEF Pins
    <3> QED  BY <1>6, <1>7, <2>3, <2>5, <3>1, <3>2
  <2>6. ASSUME NEW x \in u.xfers, x.live
        PROVE  /\ x.round \in Open(u) /\ u.rounds[x.round].job = x.to
               /\ x.keys \cap u.rounds[x.round].demanded = {}
    <3>1. CASE x \in s.xfers
      <4>1. /\ x.round \in Open(s) /\ s.rounds[x.round].job = x.to
            /\ x.keys \cap s.rounds[x.round].demanded = {}
        BY <1>3, <2>6, <3>1 DEF Pins
      <4> QED  BY <1>11, <4>1
    <3>2. CASE x \in more
      BY <1>6, <1>11, <3>2
    <3> QED  BY <1>7, <3>1, <3>2
  <2> QED  BY <2>2, <2>4, <2>5, <2>6 DEF Pins
<1>13. Lacks(ls[job]) = keys
  BY <1>5 DEF Lacks
<1>14. Shares(u, ls)
  <2>1. ASSUME NEW m \in Open(u)
        PROVE  /\ u.rounds[m].job \in Loads /\ Begun(ls[u.rounds[m].job])
               /\ u.rounds[m].remaining = Cardinality(Lacks(ls[u.rounds[m].job]))
               /\ u.rounds[m].demanded \subseteq Lacks(ls[u.rounds[m].job])
    <3>1. CASE m = n
      BY <1>5, <1>6, <1>13, <3>1
    <3>2. CASE m \in Open(s)
      BY <1>3, <1>11, <3>2 DEF Shares
    <3> QED  BY <1>11, <3>1, <3>2
  <2>2. \A k, m \in Open(u) : k # m => u.rounds[k].job # u.rounds[m].job
    BY <1>3, <1>5, <1>6, <1>11 DEF Shares
  <2>3. ASSUME NEW x \in u.xfers
        PROVE  /\ Begun(ls[x.to]) /\ x.keys \subseteq ls[x.to].keys
               /\ x.live => x.keys \subseteq Lacks(ls[x.to])
               /\ ~x.live => \A m \in Open(u) : u.rounds[m].job # x.to
    <3>1. CASE x \in s.xfers
      <4>1. x.to # job
        BY <1>5, <3>1
      <4> QED  BY <1>3, <1>6, <1>11, <3>1, <4>1 DEF Shares
    <3>2. CASE x \in more
      BY <1>5, <1>6, <1>13, <3>2
    <3> QED  BY <1>7, <3>1, <3>2
  <2> QED  BY <2>1, <2>2, <2>3 DEF Shares
<1>15. late \/ Held(u, ls)
  <2> SUFFICES ASSUME Held(s, ls)
               PROVE  Held(u, ls)
    BY <1>3
  <2>1. r.jobs \subseteq s.stores
    BY <1>4 DEF Held
  <2>2. \A m \in DOMAIN u.rounds : u.rounds[m].jobs \subseteq u.stores
    BY <1>7, <1>8, <2>1 DEF Held
  <2> QED  BY <1>5, <1>6, <1>11, <2>2 DEF Held
<1>16. Asked(u, q, out, cl, ls)
  <2> SUFFICES ASSUME NEW i \in DOMAIN q, Fetching(q[i])
               PROVE  /\ q[i].round \notin Open(u) /\ \A m \in Open(u) : u.rounds[m].job # q[i].job
                      /\ \A x \in u.xfers : x.to # q[i].job
    BY <1>3 DEF Asked
  <2>1. /\ q[i].round \notin Open(s) /\ \A m \in Open(s) : s.rounds[m].job # q[i].job
        /\ \A x \in s.xfers : x.to # q[i].job
    BY <1>3 DEF Asked
  <2>2. q[i].job # job /\ q[i].round # n
    BY <1>5
  <2> QED  BY <1>6, <1>7, <1>11, <2>1, <2>2
<1>17. Served(u, out, cl)
  BY <1>3, <1>5, <1>6, <1>11 DEF Served
<1>18. Answers(u, out, cl, ls, late)
  <2> SUFFICES ASSUME NEW i \in DOMAIN out, out[i].type = "done", out[i].round \in DOMAIN cl,
                      NEW x \in more
               PROVE  x.to # cl[out[i].round].job
    BY <1>3, <1>7 DEF Answers
  <2>1. out[i].round # n
    BY <1>5 DEF Done
  <2> QED  BY <1>5, <1>6, <2>1
<1>19. alive => Current(u, q, out, cl)
  BY <1>3, <1>5, <1>11 DEF Current
<1>20. Sound(u, q, tc, cl, ls, late, alive)
  BY <1>2, <1>7, <1>10, <1>12, <1>14, <1>15, <1>16, <1>17, <1>18, <1>19 DEF Sound
<1>21. Keeps(s, u)
  BY <1>7, <1>11 DEF Keeps, TellsOf
<1> QED  BY <1>7, <1>9, <1>20, <1>21 DEF Goes, Settles


\* _finalize_outbound adds neither jobs nor lookups.
LEMMA FinalizedLookups ==
    ASSUME NEW s, IsServer(s), Pins(s), NEW n \in DOMAIN s.rounds, NEW ok,
           NEW u, u = S!Finalized(s, n, ok)
    PROVE  Settles(s, u)
<1>1. PICK d : d = S!Dropped(s, {n})
  OBVIOUS
<1>2. /\ d = [rounds |-> d.rounds, queue |-> s.queue, parked |-> s.parked, aborts |-> s.aborts,
              stores |-> d.stores, xfers |-> d.xfers, sent |-> s.sent]
  BY <1>1 DEF S!Dropped, S!AllPopped, IsServer
<1>3. u = d \/ \E m : u = [d EXCEPT !.sent = Append(@, m)]
  BY <1>1 DEF S!Finalized, S!Sent
<1>4. S!UsedIds(d) \subseteq S!UsedIds(s)
  <2>1. {n} \in SUBSET DOMAIN s.rounds
    OBVIOUS
  <2>2. Shrinks(s, d)
    BY <1>1, <2>1, DroppedRounds
  <2> QED  BY <2>2, ShrunkIds
<1>5. u = [rounds |-> d.rounds, queue |-> s.queue, parked |-> s.parked, aborts |-> s.aborts,
           stores |-> d.stores, xfers |-> d.xfers, sent |-> u.sent]
  BY <1>2, <1>3
<1>6. S!UsedIds(u) = S!UsedIds(d)
  BY <1>5 DEF S!UsedIds
<1> QED  BY <1>4, <1>5, <1>6 DEF Settles

\* on_fetch of blocks.
LEMMA FetchedSound ==
    ASSUME NEW s, NEW q, NEW tc, tc \in Seq(Reply), NEW cl, NEW ls, NEW late, NEW alive,
           LoadsAreSound(ls, late), Sound(s, q, tc, cl, ls, late, alive),
           NEW n, NEW keys, NEW job, Awaited(s, q, tc \o s.sent, cl, ls, n, keys, job, alive),
           NEW u, u = S!Fetched(s, n, keys, job)
    PROVE  Goes(s, u, q, tc, cl, ls, late, alive) /\ Takes(u, n, job) /\ Settles(s, u)
<1>1. PICK r : r = S!RoundOf(s, n)
  OBVIOUS
<1>2. IsServer(s) /\ Pins(s)
  BY DEF Sound
<1>3. /\ n \in Nat /\ job \in Loads /\ keys \in SUBSET Keys /\ keys # {} /\ n \notin Open(s)
  BY DEF Awaited
<1>4. IsRound(r) /\ ~r.fetched
  BY <1>1, <1>2, <1>3, FoundRound DEF Open
<1> DEFINE matched == keys \cap DOMAIN r.available
           w == [r EXCEPT !.fetched = TRUE, !.job = job, !.remaining = Cardinality(keys),
                          !.available = [k \in DOMAIN @ \ matched |-> @[k]],
                          !.demanded = keys \ matched]
           x == [round |-> n, live |-> TRUE, keys |-> matched,
                 jobs |-> {r.available[k] : k \in matched}, to |-> job]
           s1 == S!WithRound(s, n, w)
           s2 == IF matched = {} THEN s1
                 ELSE S!Submitted(s1, n, matched, {r.available[k] : k \in matched})
<1>5. u = IF r.supplied /\ keys # matched THEN S!Finalized(s1, n, FALSE)
          ELSE IF r.finishing /\ S!InFlight(s2, n) = {} THEN S!Finalized(s2, n, FALSE)
          ELSE s2
  BY <1>1, <1>3, SameCount DEF S!Fetched
<1>6. PICK v : v = w
  OBVIOUS
<1>7. v = [supplied |-> r.supplied, fetched |-> TRUE, job |-> job, remaining |-> Cardinality(keys),
           available |-> [k \in DOMAIN r.available \ matched |-> r.available[k]],
           demanded |-> keys \ matched, finishing |-> r.finishing, jobs |-> r.jobs]
  <2>1. PICK a : a = [k \in DOMAIN r.available \ matched |-> r.available[k]]
    OBVIOUS
  <2>2. PICK d : d = keys \ matched
    OBVIOUS
  <2>3. PICK c : c = Cardinality(keys)
    OBVIOUS
  <2>4. v = [r EXCEPT !.fetched = TRUE, !.job = job, !.remaining = c, !.available = a, !.demanded = d]
    BY <1>6, <2>1, <2>2, <2>3
  <2>5. v = [supplied |-> r.supplied, fetched |-> TRUE, job |-> job, remaining |-> c,
             available |-> a, demanded |-> d, finishing |-> r.finishing, jobs |-> r.jobs]
    BY <1>4, <2>4 DEF IsRound
  <2> QED  BY <2>1, <2>2, <2>3, <2>5
<1>8. IsRound(v)
  <2>1. DOMAIN v.available \in SUBSET Keys
    BY <1>4, <1>7 DEF IsRound
  <2>2. v.demanded \in SUBSET Keys
    BY <1>3, <1>7
  <2>3. /\ v.fetched = TRUE /\ v.supplied = r.supplied /\ v.finishing = r.finishing /\ v.jobs = r.jobs
        /\ v = [supplied |-> v.supplied, fetched |-> v.fetched, job |-> v.job,
                remaining |-> v.remaining, available |-> v.available, demanded |-> v.demanded,
                finishing |-> v.finishing, jobs |-> v.jobs]
    BY <1>7
  <2> QED  BY <1>4, <2>1, <2>2, <2>3 DEF IsRound
<1>9. PICK a : a = s1
  OBVIOUS
<1>10. a = [rounds |-> [m \in DOMAIN s.rounds \cup {n} |-> IF m = n THEN v ELSE s.rounds[m]],
            queue |-> s.queue, parked |-> s.parked, aborts |-> s.aborts,
            stores |-> s.stores, xfers |-> s.xfers, sent |-> s.sent]
  BY <1>2, <1>6, <1>9 DEF S!WithRound, IsServer
<1>11. PICK none : none = {}
  OBVIOUS
<1>12. /\ v.fetched /\ v.job = job /\ v.remaining = Cardinality(keys) /\ v.jobs = r.jobs
       /\ v.demanded \subseteq keys
  BY <1>7
<1>13. Starts(s, a, n, keys, job, v, none)
  <2>1. s.xfers = s.xfers \cup none /\ \A y \in none : FALSE
    BY <1>11
  <2>2. a = [rounds |-> a.rounds, queue |-> s.queue, parked |-> s.parked, aborts |-> s.aborts,
             stores |-> s.stores, xfers |-> s.xfers \cup none, sent |-> s.sent]
    BY <1>10, <2>1
  <2>3. /\ DOMAIN a.rounds = DOMAIN s.rounds \cup {n}
        /\ a.rounds[n] = v /\ \A m \in DOMAIN s.rounds : m # n => a.rounds[m] = s.rounds[m]
    BY <1>10
  <2> HIDE DEF w, x, s1, s2, matched
  <2> QED  BY <1>1, <1>8, <1>12, <2>1, <2>2, <2>3 DEF Starts
<1>14. Goes(s, a, q, tc, cl, ls, late, alive) /\ Settles(s, a)
  BY <1>13, StartedSound
<1>15. PICK b : b = s2
  OBVIOUS
<1>16. Goes(s, b, q, tc, cl, ls, late, alive) /\ n \in Open(b) /\ b.rounds[n].job = job
       /\ Settles(s, b)
  <2>1. CASE matched = {}
    <3>1. b = a
      BY <1>9, <1>15, <2>1
    <3>2. n \in Open(a) /\ a.rounds[n].job = job
      BY <1>10, <1>12 DEF Open
    <3> QED  BY <1>14, <3>1, <3>2
  <2>2. CASE matched # {}
    <3>1. PICK one : one = {x}
      OBVIOUS
    <3>2. b = [rounds |-> a.rounds, queue |-> s.queue, parked |-> s.parked, aborts |-> s.aborts,
               stores |-> s.stores, xfers |-> s.xfers \cup one, sent |-> s.sent]
      <4>1. b = S!Submitted(a, n, matched, {r.available[k] : k \in matched})
        BY <1>9, <1>15, <2>2
      <4>2. a.rounds[n].job = job
        BY <1>10, <1>12
      <4> QED  BY <1>10, <3>1, <4>1, <4>2 DEF S!Submitted
    <3>3. ASSUME NEW y \in one
          PROVE  /\ IsXfer(y) /\ y.live /\ y.round = n /\ y.to = job /\ y.jobs \subseteq v.jobs
                 /\ y.keys \subseteq keys /\ y.keys \cap v.demanded = {}
      <4>1. y = x
        BY <3>1
      <4>2. {r.available[k] : k \in matched} \subseteq r.jobs /\ r.jobs \in SUBSET Nat
        BY <1>4 DEF IsRound
      <4>3. matched \in SUBSET Keys /\ matched # {} /\ matched \subseteq keys /\ matched \cap v.demanded = {}
        BY <1>3, <1>7, <2>2
      <4>4. PICK js : js = {r.available[k] : k \in matched}
        OBVIOUS
      <4>5. y = [round |-> n, live |-> TRUE, keys |-> matched, jobs |-> js, to |-> job]
        BY <4>1, <4>4
      <4>6. js \subseteq v.jobs /\ js \in SUBSET Nat
        BY <1>12, <4>2, <4>4
      <4> HIDE DEF matched, w, x, s1, s2
      <4> QED  BY <1>3, <4>3, <4>5, <4>6 DEF IsXfer
    <3>4. \A y, z \in one : y = z
      BY <3>1
    <3>5. Starts(s, b, n, keys, job, v, one)
      <4>1. /\ b = [rounds |-> b.rounds, queue |-> s.queue, parked |-> s.parked, aborts |-> s.aborts,
                    stores |-> s.stores, xfers |-> s.xfers \cup one, sent |-> s.sent]
            /\ b.rounds = a.rounds
        BY <3>2
      <4>2. /\ DOMAIN b.rounds = DOMAIN s.rounds \cup {n}
            /\ b.rounds[n] = v /\ \A m \in DOMAIN s.rounds : m # n => b.rounds[m] = s.rounds[m]
        BY <1>10, <4>1
      <4> HIDE DEF w, x, s1, s2, matched
      <4> QED  BY <1>1, <1>8, <1>12, <3>3, <3>4, <4>1, <4>2 DEF Starts
    <3>6. Goes(s, b, q, tc, cl, ls, late, alive) /\ Settles(s, b)
      BY <3>5, StartedSound
    <3>7. n \in Open(b) /\ b.rounds[n].job = job
      BY <1>10, <1>12, <3>2 DEF Open
    <3> QED  BY <3>6, <3>7
  <2> QED  BY <2>1, <2>2
<1>17. PICK no : no = FALSE
  OBVIOUS
<1>18. ASSUME NEW c, Goes(s, c, q, tc, cl, ls, late, alive), n \in Open(c), c.rounds[n].job = job,
              Settles(s, c), \A y \in c.xfers : y.live => y.round # n,
              NEW z, z = S!Finalized(c, n, no)
       PROVE  Goes(s, z, q, tc, cl, ls, late, alive) /\ Takes(z, n, job) /\ Settles(s, z)
  <2>1. /\ Sound(c, q, tc, cl, ls, late, alive) /\ Keeps(s, c) /\ IsServer(c) /\ Pins(c)
        /\ n \in DOMAIN c.rounds
    BY <1>18 DEF Goes, Sound, Open
  <2>2. no \in BOOLEAN /\ (no => c.rounds[n].remaining = 0)
    BY <1>17
  <2>3. Sound(z, q, tc, cl, ls, late, alive) /\ Keeps(c, z)
    BY <1>18, <2>1, <2>2, FinalizedRound
  <2>4. Settles(c, z)
    BY <1>18, <2>1, FinalizedLookups
  <2>5. Keeps(s, z)
    BY <2>1, <2>3, KeepsOn
  <2>6. Takes(z, n, job)
    BY <1>18, <2>3 DEF Takes, Keeps
  <2> QED  BY <1>18, <2>3, <2>4, <2>5, <2>6 DEF Goes, Settles
<1>19. u = IF r.supplied /\ keys # matched THEN S!Finalized(a, n, no)
           ELSE IF r.finishing /\ S!InFlight(b, n) = {} THEN S!Finalized(b, n, no)
           ELSE b
  BY <1>5, <1>9, <1>15, <1>17
<1> HIDE DEF w, x, s1, s2, matched
<1>20. CASE u = S!Finalized(a, n, no)
  <2>1. \A y \in a.xfers : y.live => y.round # n
    BY <1>2, <1>3, <1>10 DEF Pins
  <2>2. n \in Open(a) /\ a.rounds[n].job = job
    BY <1>10, <1>12 DEF Open
  <2> QED  BY <1>14, <1>18, <1>20, <2>1, <2>2
<1>21. CASE u = S!Finalized(b, n, no) /\ S!InFlight(b, n) = {}
  <2>1. \A y \in b.xfers : y.live => y.round # n
    BY <1>21 DEF S!InFlight
  <2> QED  BY <1>16, <1>18, <1>21, <2>1
<1>22. CASE u = b
  BY <1>16, <1>22 DEF Takes
<1> QED  BY <1>19, <1>20, <1>21, <1>22

\* on_abort_fetch and drain_pending_aborts.
LEMMA DrainedSound ==
    ASSUME NEW s, NEW q, NEW tc, tc \in Seq(Reply), NEW cl, NEW ls, NEW late, NEW alive,
           LoadsAreSound(ls, late), Sound(s, q, tc, cl, ls, late, alive),
           NEW n, n \in s.aborts, NEW stuck, stuck \in SUBSET s.xfers,
           NEW u, u = S!Drained(s, n, stuck)
    PROVE  /\ Goes(s, u, q, tc, cl, ls, late, alive) /\ Settles(s, u)
           /\ n \in u.aborts \/ TellsOf(u, n)
<1>1. PICK left : left = {[x EXCEPT !.live = FALSE] : x \in {y \in stuck : y.round = n}}
  OBVIOUS
<1>2. PICK t : t = [s EXCEPT !.stores = @ \ S!RoundOf(s, n).jobs]
  OBVIOUS
<1>3. PICK v : v = S!AllPopped(t, {n})
  OBVIOUS
<1>4. PICK w : w = [v EXCEPT !.xfers = {x \in @ : x.round # n} \cup left]
  OBVIOUS
<1>5. u = IF left # {} THEN w ELSE S!Sent([w EXCEPT !.aborts = @ \ {n}], "ack", n, FALSE, S!NoAnswers)
  BY <1>1, <1>2, <1>3, <1>4 DEF S!Drained, S!Popped
<1>6. IsServer(s) /\ Pins(s) /\ s.sent \in Seq(Reply) /\ n \in Nat
  BY DEF Sound, IsServer
<1>7. PICK kept : kept = {x \in v.xfers : x.round # n}
  OBVIOUS
<1>8. /\ w = [rounds |-> w.rounds, queue |-> s.queue, parked |-> s.parked, aborts |-> s.aborts,
              stores |-> w.stores, xfers |-> kept \cup left, sent |-> s.sent]
      /\ w.rounds = [m \in DOMAIN s.rounds \ {n} |-> s.rounds[m]]
      /\ w.stores = s.stores \ S!RoundOf(s, n).jobs
      /\ v.xfers = {IF x.round \in {n} THEN [x EXCEPT !.live = FALSE] ELSE x : x \in s.xfers}
  <2>1. PICK j : j = s.stores \ S!RoundOf(s, n).jobs
    OBVIOUS
  <2>2. t = [rounds |-> s.rounds, queue |-> s.queue, parked |-> s.parked, aborts |-> s.aborts,
             stores |-> j, xfers |-> s.xfers, sent |-> s.sent]
    BY <1>2, <1>6, <2>1 DEF IsServer
  <2>3. PICK rs : rs = [m \in DOMAIN s.rounds \ {n} |-> s.rounds[m]]
    OBVIOUS
  <2>4. PICK xs : xs = {IF x.round \in {n} THEN [x EXCEPT !.live = FALSE] ELSE x : x \in s.xfers}
    OBVIOUS
  <2>5. v = [rounds |-> rs, queue |-> s.queue, parked |-> s.parked, aborts |-> s.aborts,
             stores |-> j, xfers |-> xs, sent |-> s.sent]
    BY <1>3, <2>2, <2>3, <2>4 DEF S!AllPopped
  <2>6. w = [rounds |-> rs, queue |-> s.queue, parked |-> s.parked, aborts |-> s.aborts,
             stores |-> j, xfers |-> kept \cup left, sent |-> s.sent]
    BY <1>4, <1>7, <2>5
  <2> QED  BY <2>1, <2>3, <2>4, <2>5, <2>6
<1>9. DOMAIN w.rounds = DOMAIN s.rounds \ {n} /\ \A m \in DOMAIN w.rounds : w.rounds[m] = s.rounds[m]
  BY <1>8
<1>10. ASSUME NEW x \in w.xfers
       PROVE  /\ IsXfer(x) /\ KeptXfer(s, w, x) /\ (x.live => x \in s.xfers)
              /\ x.round = n => x \in left
  <2>1. CASE x \in kept
    <3>0. PICK y \in s.xfers : x = (IF y.round \in {n} THEN [y EXCEPT !.live = FALSE] ELSE y) /\ x.round # n
      BY <1>7, <1>8, <2>1
    <3>1. x \in s.xfers /\ x.round # n
      <4>1. y = [round |-> y.round, live |-> y.live, keys |-> y.keys, jobs |-> y.jobs, to |-> y.to]
        BY <1>6 DEF IsServer, IsXfer
      <4>2. y.round # n
        BY <3>0, <4>1
      <4> QED  BY <3>0, <4>2
    <3>2. /\ IsXfer(x) /\ (x.live => x.round \in DOMAIN s.rounds) /\ x.live \in BOOLEAN
      BY <1>6, <3>1 DEF Pins, Open, IsServer, IsXfer
    <3> QED  BY <1>9, <3>1, <3>2 DEF KeptXfer
  <2>2. CASE x \in left
    <3>1. PICK y \in s.xfers : x = [y EXCEPT !.live = FALSE] /\ y.round = n
      BY <1>1, <2>2
    <3>2. IsXfer(y)
      BY <1>6 DEF IsServer
    <3>3. x = [round |-> y.round, live |-> FALSE, keys |-> y.keys, jobs |-> y.jobs, to |-> y.to]
      BY <3>1, <3>2 DEF IsXfer
    <3>4. IsXfer(x)
      BY <3>2, <3>3 DEF IsXfer
    <3> QED  BY <1>9, <2>2, <3>1, <3>3, <3>4 DEF KeptXfer
  <2> QED  BY <1>8, <2>1, <2>2
<1>11. Shrinks(s, w)
  <2>1. ASSUME NEW m \in DOMAIN w.rounds
        PROVE  s.rounds[m].jobs \cap s.stores \subseteq w.stores
    <3>1. m \in DOMAIN s.rounds /\ m # n
      BY <1>9
    <3>2. S!RoundOf(s, n).jobs \cap s.rounds[m].jobs = {}
      BY <1>6, <3>1, FoundRound DEF Pins
    <3> QED  BY <1>8, <3>2
  <2>2. \A m \in DOMAIN w.rounds : SameRound(s.rounds[m], w.rounds[m])
    BY <1>9 DEF SameRound
  <2> QED  BY <1>8, <1>9, <1>10, <2>1, <2>2 DEF Shrinks
<1>12. PICK new : new = IF left # {} THEN <<>> ELSE <<[type |-> "ack", round |-> n, ok |-> FALSE, answers |-> S!NoAnswers]>>
  OBVIOUS
<1>13. /\ new \in Seq(Reply) /\ \A i \in DOMAIN new : new[i].type = "ack" /\ ~new[i].ok
       /\ left = {} => 1 \in DOMAIN new /\ new[1].round = n /\ new[1].type = "ack"
  <2>1. CASE left # {}
    BY <1>12, <2>1
  <2>2. CASE left = {}
    <3>1. PICK m : m = [type |-> "ack", round |-> n, ok |-> FALSE, answers |-> S!NoAnswers]
      OBVIOUS
    <3>2. m \in Reply /\ m.type = "ack" /\ ~m.ok /\ m.round = n
      BY <1>6, <3>1, NoVerdicts DEF Reply
    <3>3. new = <<m>>
      BY <1>12, <2>2, <3>1
    <3>4. new \in Seq(Reply) /\ DOMAIN new = {1} /\ new[1] = m
      BY <3>2, <3>3, OneMessage
    <3> QED  BY <3>2, <3>4
  <2> QED  BY <2>1, <2>2
<1>14. PICK as : as = IF left # {} THEN s.aborts ELSE s.aborts \ {n}
  OBVIOUS
<1>15. u = [rounds |-> w.rounds, queue |-> s.queue, parked |-> s.parked, aborts |-> as,
            stores |-> w.stores, xfers |-> w.xfers, sent |-> s.sent \o new]
  <2>1. CASE left # {}
    <3>1. u = w /\ new = <<>> /\ as = s.aborts
      BY <1>5, <1>12, <1>14, <2>1
    <3>2. s.sent \o new = s.sent
      BY <1>6, <3>1
    <3> QED  BY <1>8, <3>1, <3>2
  <2>2. CASE left = {}
    <3>1. PICK m : m = [type |-> "ack", round |-> n, ok |-> FALSE, answers |-> S!NoAnswers]
      OBVIOUS
    <3>2. m \in Reply
      BY <1>6, <3>1, NoVerdicts DEF Reply
    <3>3. new = <<m>>
      BY <1>12, <2>2, <3>1
    <3>4. Append(s.sent, m) = s.sent \o new
      BY <1>6, <3>2, <3>3, OneMessage
    <3>5. u = S!Sent([w EXCEPT !.aborts = @ \ {n}], "ack", n, FALSE, S!NoAnswers)
      BY <1>5, <2>2
    <3>6. PICK z : z = [w EXCEPT !.aborts = @ \ {n}]
      OBVIOUS
    <3>7. z = [rounds |-> w.rounds, queue |-> s.queue, parked |-> s.parked, aborts |-> as,
               stores |-> w.stores, xfers |-> w.xfers, sent |-> s.sent]
      <4>1. /\ w = [rounds |-> w.rounds, queue |-> s.queue, parked |-> s.parked, aborts |-> s.aborts,
                    stores |-> w.stores, xfers |-> w.xfers, sent |-> s.sent]
            /\ w.aborts = s.aborts
        BY <1>8
      <4>2. as = s.aborts \ {n}
        BY <1>14, <2>2
      <4>3. z = [w EXCEPT !.aborts = as]
        BY <3>6, <4>1, <4>2
      <4>4. PICK rs, js, xs : rs = w.rounds /\ js = w.stores /\ xs = w.xfers
        OBVIOUS
      <4>5. w = [rounds |-> rs, queue |-> s.queue, parked |-> s.parked, aborts |-> s.aborts,
                 stores |-> js, xfers |-> xs, sent |-> s.sent]
        BY <4>1, <4>4
      <4>6. z = [rounds |-> rs, queue |-> s.queue, parked |-> s.parked, aborts |-> as,
                 stores |-> js, xfers |-> xs, sent |-> s.sent]
        BY <4>3, <4>5
      <4> QED  BY <4>4, <4>6
    <3>8. u = [z EXCEPT !.sent = Append(@, m)]
      BY <3>1, <3>5, <3>6 DEF S!Sent
    <3> QED  BY <3>4, <3>7, <3>8
  <2> QED  BY <2>1, <2>2
<1>24. /\ u.rounds = w.rounds /\ u.queue = s.queue /\ u.parked = s.parked /\ u.aborts = as
       /\ u.stores = w.stores /\ u.xfers = w.xfers /\ u.sent = s.sent \o new
  BY <1>15
<1>16. Shrinks(s, u)
  BY <1>11, <1>24 DEF Shrinks, KeptXfer
<1>17. S!UsedIds(u) \subseteq S!UsedIds(s)
  BY <1>16, ShrunkIds
<1>18. IsServer(u)
  <2>1. IsFiniteSet(S!UsedIds(u))
    BY <1>6, <1>17, FewerIds
  <2>2. s.sent \o new \in Seq(Reply)
    BY <1>6, <1>13
  <2>3. \A m \in DOMAIN u.rounds : IsRound(u.rounds[m])
    BY <1>6, <1>9, <1>15 DEF IsServer
  <2>4. as \in SUBSET Nat /\ DOMAIN u.rounds \in SUBSET Nat /\ u.stores \in SUBSET Nat
    BY <1>6, <1>8, <1>9, <1>14, <1>15 DEF IsServer
  <2>5. s.queue \in Seq(Lookup) /\ s.parked \in Seq(Lookup)
    BY <1>6 DEF IsServer
  <2>6. u = [rounds |-> u.rounds, queue |-> u.queue, parked |-> u.parked, aborts |-> u.aborts,
             stores |-> u.stores, xfers |-> u.xfers, sent |-> u.sent]
    BY <1>15, <1>24
  <2> QED  BY <1>10, <1>24, <2>1, <2>2, <2>3, <2>4, <2>5, <2>6 DEF IsServer
<1>19. Tells(s, u, new)
  BY <1>13 DEF Tells
<1>20. Sound(u, q, tc, cl, ls, late, alive)
  BY <1>15, <1>16, <1>18, <1>19, ShrunkSound
<1>21. /\ \A m : TellsOf(s, m) => TellsOf(u, m)
       /\ \A i \in DOMAIN new : new[i].type \in {"done", "ack"} => TellsOf(u, new[i].round)
  BY <1>6, <1>13, <1>24, SentStays
<1>22. n \in u.aborts \/ TellsOf(u, n)
  <2>1. CASE left # {}
    BY <1>14, <1>15, <2>1
  <2>2. CASE left = {}
    BY <1>13, <1>21, <2>2
  <2> QED  BY <2>1, <2>2
<1>23. Keeps(s, u)
  <2>1. \A m \in Open(s) : m # n => m \in Open(u) /\ u.rounds[m].job = s.rounds[m].job
    BY <1>9, <1>15 DEF Open
  <2>2. \A m \in s.aborts : m # n => m \in u.aborts
    BY <1>14, <1>15
  <2> QED  BY <1>21, <1>22, <2>1, <2>2 DEF Keeps
<1> QED  BY <1>17, <1>20, <1>22, <1>23, <1>24 DEF Goes, Settles

\* A handler that ends rounds and tells nobody.
LEMMA QuietSound ==
    ASSUME NEW s, NEW q, NEW tc, tc \in Seq(Reply), NEW cl, NEW ls, NEW late, NEW alive,
           LoadsAreSound(ls, late), Sound(s, q, tc, cl, ls, late, alive),
           NEW u, Shrinks(s, u), u.sent = s.sent,
           u = [rounds |-> u.rounds, queue |-> u.queue, parked |-> u.parked, aborts |-> u.aborts,
                stores |-> u.stores, xfers |-> u.xfers, sent |-> u.sent],
           \A n \in DOMAIN u.rounds : IsRound(u.rounds[n]), \A x \in u.xfers : IsXfer(x),
           u.aborts \in SUBSET Nat, u.queue \in Seq(Lookup), u.parked \in Seq(Lookup)
    PROVE  Sound(u, q, tc, cl, ls, late, alive) /\ S!UsedIds(u) \subseteq S!UsedIds(s)
<1>1. IsServer(s) /\ s.sent \in Seq(Reply)
  BY DEF Sound, IsServer
<1>2. S!UsedIds(u) \subseteq S!UsedIds(s)
  BY ShrunkIds
<1>3. IsServer(u)
  <2>1. IsFiniteSet(S!UsedIds(u))
    BY <1>1, <1>2, FewerIds
  <2>2. DOMAIN u.rounds \in SUBSET Nat /\ u.stores \in SUBSET Nat
    BY <1>1 DEF Shrinks, IsServer
  <2> QED  BY <1>1, <2>1, <2>2 DEF IsServer
<1>4. PICK new : new = <<>>
  OBVIOUS
<1>5. new \in Seq(Reply) /\ DOMAIN new = {} /\ u.sent = s.sent \o new
  BY <1>1, <1>4
<1>6. Tells(s, u, new)
  BY <1>5 DEF Tells
<1>7. Sound(u, q, tc, cl, ls, late, alive)
  BY <1>3, <1>5, <1>6, ShrunkSound
<1> QED  BY <1>2, <1>7

\* on_abort_fetch.
LEMMA AbortedSound ==
    ASSUME NEW s, NEW q, NEW tc, tc \in Seq(Reply), NEW cl, NEW ls, NEW late, NEW alive,
           LoadsAreSound(ls, late), Sound(s, q, tc, cl, ls, late, alive),
           NEW n, n \in Nat, NEW stuck, stuck \in SUBSET s.xfers,
           NEW u, u = S!Aborted(s, n, stuck)
    PROVE  /\ Goes(s, u, q, tc, cl, ls, late, alive) /\ Settles(s, u)
           /\ n \in u.aborts \/ TellsOf(u, n)
<1>1. PICK t : t = [s EXCEPT !.aborts = @ \cup {n}]
  OBVIOUS
<1>2. u = S!Drained(t, n, stuck)
  BY <1>1 DEF S!Aborted
<1>3. IsServer(s) /\ Pins(s) /\ s.sent \in Seq(Reply)
  BY DEF Sound, IsServer
<1>4. PICK as : as = s.aborts \cup {n}
  OBVIOUS
<1>5. /\ t = [rounds |-> s.rounds, queue |-> s.queue, parked |-> s.parked, aborts |-> as,
              stores |-> s.stores, xfers |-> s.xfers, sent |-> s.sent]
  BY <1>1, <1>3, <1>4 DEF IsServer
<1>6. /\ t.rounds = s.rounds /\ t.queue = s.queue /\ t.parked = s.parked /\ t.aborts = as
      /\ t.stores = s.stores /\ t.xfers = s.xfers /\ t.sent = s.sent
  BY <1>5
<1>7. Shrinks(s, t)
  <2>1. \A x \in t.xfers : KeptXfer(s, t, x)
    <3> SUFFICES ASSUME NEW x \in s.xfers
                 PROVE  KeptXfer(s, t, x)
      BY <1>6
    <3>1. x.live \in BOOLEAN /\ (x.live => x.round \in DOMAIN t.rounds)
      BY <1>3, <1>6 DEF Pins, Open, IsServer, IsXfer
    <3>2. CASE x.live
      BY <3>1, <3>2 DEF KeptXfer
    <3>3. CASE ~x.live
      BY <3>3 DEF KeptXfer
    <3> QED  BY <3>1, <3>2, <3>3
  <2>2. \A m \in DOMAIN t.rounds : SameRound(s.rounds[m], t.rounds[m])
    BY <1>6 DEF SameRound
  <2> QED  BY <1>6, <2>1, <2>2 DEF Shrinks
<1>8. Sound(t, q, tc, cl, ls, late, alive) /\ S!UsedIds(t) \subseteq S!UsedIds(s)
  <2>1. /\ \A m \in DOMAIN t.rounds : IsRound(t.rounds[m])
        /\ \A x \in t.xfers : IsXfer(x)
        /\ t.aborts \in SUBSET Nat /\ t.queue \in Seq(Lookup) /\ t.parked \in Seq(Lookup)
        /\ t = [rounds |-> t.rounds, queue |-> t.queue, parked |-> t.parked, aborts |-> t.aborts,
                stores |-> t.stores, xfers |-> t.xfers, sent |-> t.sent]
    BY <1>3, <1>4, <1>5, <1>6 DEF IsServer
  <2> QED  BY <1>6, <1>7, <2>1, QuietSound
<1>9. n \in t.aborts /\ stuck \in SUBSET t.xfers
  BY <1>4, <1>6
<1>10. /\ Goes(t, u, q, tc, cl, ls, late, alive) /\ Settles(t, u)
       /\ n \in u.aborts \/ TellsOf(u, n)
  BY <1>2, <1>8, <1>9, DrainedSound
<1>11. Keeps(s, t)
  BY <1>4, <1>6 DEF Keeps, Open, TellsOf
<1>12. Keeps(t, u) /\ Sound(u, q, tc, cl, ls, late, alive)
  BY <1>10 DEF Goes
<1>13. Keeps(s, u)
  BY <1>11, <1>12, KeepsOn
<1>14. Settles(s, u)
  BY <1>6, <1>8, <1>10 DEF Settles
<1> QED  BY <1>10, <1>12, <1>13, <1>14 DEF Goes

\* The fetch of nothing: the server forgets the id.
LEMMA ClosedSound ==
    ASSUME NEW s, NEW q, NEW tc, tc \in Seq(Reply), NEW cl, NEW ls, NEW late, NEW alive,
           LoadsAreSound(ls, late), Sound(s, q, tc, cl, ls, late, alive),
           NEW n, NEW job, NEW u, u = S!Fetched(s, n, {}, job)
    PROVE  Sound(u, q, tc, cl, ls, late, alive) /\ Settles(s, u)
<1>1. IsServer(s) /\ Pins(s)
  BY DEF Sound
<1>2. PICK r : r = S!RoundOf(s, n)
  OBVIOUS
<1>3. PICK w : w = [r EXCEPT !.fetched = TRUE, !.job = job, !.remaining = S!Cardinality({}),
                             !.available = [k \in DOMAIN @ \ ({} \cap DOMAIN r.available) |-> @[k]],
                             !.demanded = {} \ ({} \cap DOMAIN r.available)]
  OBVIOUS
<1>4. PICK t : t = S!WithRound(s, n, w)
  OBVIOUS
<1>5. u = S!Dropped(S!LookupsClosed(t), DOMAIN t.rounds)
  BY <1>2, <1>3, <1>4 DEF S!Fetched
<1>6. PICK rs, none : rs = t.rounds /\ none = <<>>
  OBVIOUS
<1>7. t = [rounds |-> rs, queue |-> s.queue, parked |-> s.parked, aborts |-> s.aborts,
           stores |-> s.stores, xfers |-> s.xfers, sent |-> s.sent]
  BY <1>1, <1>4, <1>6 DEF S!WithRound, IsServer
<1>8. PICK v : v = S!LookupsClosed(t)
  OBVIOUS
<1>9. v = [rounds |-> rs, queue |-> none, parked |-> none, aborts |-> s.aborts,
           stores |-> s.stores, xfers |-> s.xfers, sent |-> s.sent]
  <2>1. v = [t EXCEPT !.queue = none, !.parked = none]
    BY <1>6, <1>8 DEF S!LookupsClosed
  <2> QED  BY <1>7, <2>1
<1>10. DOMAIN rs = DOMAIN s.rounds \cup {n}
  BY <1>4, <1>6 DEF S!WithRound
<1>11. PICK js : js = s.stores \ UNION {rs[m].jobs : m \in DOMAIN rs}
  OBVIOUS
<1>12. PICK xs : xs = {IF x.round \in DOMAIN rs THEN [x EXCEPT !.live = FALSE] ELSE x : x \in s.xfers}
  OBVIOUS
<1>13. PICK no : no = [x \in DOMAIN rs \ DOMAIN rs |-> rs[x]]
  OBVIOUS
<1>14. u = [rounds |-> no, queue |-> none, parked |-> none, aborts |-> s.aborts,
            stores |-> js, xfers |-> xs, sent |-> s.sent]
  <2>1. u = S!Dropped(v, DOMAIN rs)
    BY <1>5, <1>6, <1>8
  <2>2. PICK a : a = S!AllPopped(v, DOMAIN rs)
    OBVIOUS
  <2>3. a = [rounds |-> no, queue |-> none, parked |-> none, aborts |-> s.aborts,
             stores |-> s.stores, xfers |-> xs, sent |-> s.sent]
    BY <1>9, <1>12, <1>13, <2>2 DEF S!AllPopped
  <2>4. u = [a EXCEPT !.stores = js]
    BY <1>9, <1>11, <2>1, <2>2, <2>3 DEF S!Dropped
  <2> QED  BY <2>3, <2>4
<1>15. /\ u.rounds = no /\ u.queue = none /\ u.parked = none /\ u.aborts = s.aborts
       /\ u.stores = js /\ u.xfers = xs /\ u.sent = s.sent
  BY <1>14
<1>16. DOMAIN no = {}
  BY <1>13
<1>17. ASSUME NEW x \in xs
       PROVE  IsXfer(x) /\ ~x.live /\ KeptXfer(s, u, x)
  <2>1. PICK y \in s.xfers : x = IF y.round \in DOMAIN rs THEN [y EXCEPT !.live = FALSE] ELSE y
    BY <1>12
  <2>2. IsXfer(y) /\ (y.live => y.round \in DOMAIN s.rounds)
    BY <1>1 DEF IsServer, Pins, Open
  <2>3. x = [round |-> y.round, live |-> FALSE, keys |-> y.keys, jobs |-> y.jobs, to |-> y.to]
    <3>1. CASE y.round \in DOMAIN rs
      BY <2>1, <2>2, <3>1 DEF IsXfer
    <3>2. CASE y.round \notin DOMAIN rs
      <4>1. x = y /\ y.live = FALSE
        BY <1>10, <2>1, <2>2, <3>2 DEF IsXfer
      <4> QED  BY <2>2, <4>1 DEF IsXfer
    <3> QED  BY <3>1, <3>2
  <2>4. IsXfer(x) /\ ~x.live
    BY <2>2, <2>3 DEF IsXfer
  <2> QED  BY <1>15, <1>16, <2>3, <2>4 DEF KeptXfer
<1>18. Shrinks(s, u)
  BY <1>11, <1>15, <1>16, <1>17 DEF Shrinks
<1>19. none \in Seq(Lookup)
  BY <1>6
<1>20. Sound(u, q, tc, cl, ls, late, alive) /\ S!UsedIds(u) \subseteq S!UsedIds(s)
  <2>1. /\ \A m \in DOMAIN u.rounds : IsRound(u.rounds[m])
        /\ \A x \in u.xfers : IsXfer(x)
        /\ u.aborts \in SUBSET Nat /\ u.queue \in Seq(Lookup) /\ u.parked \in Seq(Lookup)
        /\ u = [rounds |-> u.rounds, queue |-> u.queue, parked |-> u.parked, aborts |-> u.aborts,
                stores |-> u.stores, xfers |-> u.xfers, sent |-> u.sent]
    BY <1>1, <1>14, <1>15, <1>16, <1>17, <1>19 DEF IsServer
  <2> QED  BY <1>15, <1>18, <2>1, QuietSound
<1> QED  BY <1>6, <1>15, <1>20 DEF Settles

\* A transfer of no round ends.
LEMMA GoneSound ==
    ASSUME NEW s, NEW q, NEW tc, tc \in Seq(Reply), NEW cl, NEW ls, NEW late, NEW alive,
           LoadsAreSound(ls, late), Sound(s, q, tc, cl, ls, late, alive),
           NEW x, x \in s.xfers, ~x.live,
           NEW u, u = [s EXCEPT !.xfers = @ \ {x}, !.stores = @ \ x.jobs]
    PROVE  Goes(s, u, q, tc, cl, ls, late, alive) /\ Settles(s, u)
<1>1. IsServer(s) /\ Pins(s)
  BY DEF Sound
<1>2. PICK xs, js : xs = s.xfers \ {x} /\ js = s.stores \ x.jobs
  OBVIOUS
<1>3. u = [rounds |-> s.rounds, queue |-> s.queue, parked |-> s.parked, aborts |-> s.aborts,
           stores |-> js, xfers |-> xs, sent |-> s.sent]
  BY <1>1, <1>2 DEF IsServer
<1>4. /\ u.rounds = s.rounds /\ u.queue = s.queue /\ u.parked = s.parked /\ u.aborts = s.aborts
      /\ u.stores = js /\ u.xfers = xs /\ u.sent = s.sent
  BY ONLY <1>3
<1>5. Shrinks(s, u)
  <2>1. ASSUME NEW y \in u.xfers
        PROVE  KeptXfer(s, u, y) /\ y \in s.xfers
    <3>1. y \in s.xfers /\ y.live \in BOOLEAN /\ (y.live => y.round \in DOMAIN u.rounds)
      BY <1>1, <1>2, <1>4 DEF Pins, Open, IsServer, IsXfer
    <3>2. CASE y.live
      BY <3>1, <3>2 DEF KeptXfer
    <3>3. CASE ~y.live
      BY <3>1, <3>3 DEF KeptXfer
    <3> QED  BY <3>1, <3>2, <3>3
  <2>2. \A m \in DOMAIN u.rounds : SameRound(s.rounds[m], u.rounds[m])
    BY <1>4 DEF SameRound
  <2>3. ASSUME NEW m \in DOMAIN s.rounds
        PROVE  s.rounds[m].jobs \cap s.stores \subseteq js
    BY <1>1, <1>2 DEF Pins
  <2> QED  BY <1>2, <1>4, <2>1, <2>2, <2>3 DEF Shrinks
<1>6. Sound(u, q, tc, cl, ls, late, alive) /\ S!UsedIds(u) \subseteq S!UsedIds(s)
  <2>1. /\ \A m \in DOMAIN u.rounds : IsRound(u.rounds[m])
        /\ \A y \in u.xfers : IsXfer(y)
        /\ u.aborts \in SUBSET Nat /\ u.queue \in Seq(Lookup) /\ u.parked \in Seq(Lookup)
        /\ u = [rounds |-> u.rounds, queue |-> u.queue, parked |-> u.parked, aborts |-> u.aborts,
                stores |-> u.stores, xfers |-> u.xfers, sent |-> u.sent]
    BY <1>1, <1>2, <1>3, <1>4 DEF IsServer
  <2>2. u.sent = s.sent
    BY <1>4
  <2>3. tc \in Seq(Reply) /\ LoadsAreSound(ls, late) /\ Sound(s, q, tc, cl, ls, late, alive)
    OBVIOUS
  <2> QED  BY ONLY <1>5, <2>1, <2>2, <2>3, QuietSound
<1>7. Keeps(s, u)
  BY <1>4 DEF Keeps, Open, TellsOf
<1> QED  BY <1>4, <1>6, <1>7 DEF Goes, Settles

\* collect_results, for a transfer that failed.
LEMMA FailedSound ==
    ASSUME NEW s, NEW q, NEW tc, tc \in Seq(Reply), NEW cl, NEW ls, NEW late, NEW alive,
           LoadsAreSound(ls, late), Sound(s, q, tc, cl, ls, late, alive),
           NEW x, x \in s.xfers, NEW u, u = S!XferFailed(s, x)
    PROVE  Goes(s, u, q, tc, cl, ls, late, alive) /\ Settles(s, u)
<1>1. IsServer(s) /\ Pins(s) /\ IsXfer(x)
  BY DEF Sound, IsServer
<1>2. PICK s1 : s1 = [s EXCEPT !.xfers = @ \ {x}, !.stores = @ \ x.jobs]
  OBVIOUS
<1>3. CASE ~x.live
  <2>1. u = s1
    BY <1>2, <1>3 DEF S!XferFailed
  <2> QED  BY <1>2, <1>3, <2>1, GoneSound
<1>4. CASE x.live
  <2>1. PICK n : n = x.round
    OBVIOUS
  <2>2. n \in Open(s) /\ n \in DOMAIN s.rounds /\ s.rounds[n].fetched /\ x.jobs \subseteq s.rounds[n].jobs
    BY <1>1, <1>4, <2>1 DEF Pins, Open
  <2>3. PICK xs, js : xs = s.xfers \ S!InFlight(s, n) /\ js = s.stores \ x.jobs
    OBVIOUS
  <2>4. PICK z : z = [s1 EXCEPT !.xfers = @ \ S!InFlight(s1, n)]
    OBVIOUS
  <2>5. PICK no : no = FALSE
    OBVIOUS
  <2>6. u = S!Finalized(z, n, no)
    BY <1>2, <1>4, <2>1, <2>4, <2>5 DEF S!XferFailed
  <2>7. z = [rounds |-> s.rounds, queue |-> s.queue, parked |-> s.parked, aborts |-> s.aborts,
             stores |-> js, xfers |-> xs, sent |-> s.sent]
    <3>1. PICK ys : ys = s.xfers \ {x}
      OBVIOUS
    <3>2. s1 = [rounds |-> s.rounds, queue |-> s.queue, parked |-> s.parked, aborts |-> s.aborts,
                stores |-> js, xfers |-> ys, sent |-> s.sent]
      BY <1>1, <1>2, <2>3, <3>1 DEF IsServer
    <3>3. ys \ S!InFlight(s1, n) = xs
      BY <1>4, <2>1, <2>3, <3>1, <3>2 DEF S!InFlight
    <3>4. z = [s1 EXCEPT !.xfers = xs]
      BY <2>4, <3>2, <3>3
    <3> QED  BY <3>2, <3>4
  <2>8. PICK b : b = [rounds |-> s.rounds, queue |-> s.queue, parked |-> s.parked,
                      aborts |-> s.aborts, stores |-> s.stores, xfers |-> xs, sent |-> s.sent]
    OBVIOUS
  <2>9. /\ b.rounds = s.rounds /\ b.queue = s.queue /\ b.parked = s.parked /\ b.aborts = s.aborts
        /\ b.stores = s.stores /\ b.xfers = xs /\ b.sent = s.sent
    BY <2>8
  <2>10. S!Dropped(z, {n}) = S!Dropped(b, {n})
    <3>1. PICK za, ba : za = S!AllPopped(z, {n}) /\ ba = S!AllPopped(b, {n})
      OBVIOUS
    <3>2. PICK rs : rs = [m \in DOMAIN s.rounds \ {n} |-> s.rounds[m]]
      OBVIOUS
    <3>3. PICK ps : ps = {IF y.round \in {n} THEN [y EXCEPT !.live = FALSE] ELSE y : y \in xs}
      OBVIOUS
    <3>4. za = [rounds |-> rs, queue |-> s.queue, parked |-> s.parked, aborts |-> s.aborts,
                stores |-> js, xfers |-> ps, sent |-> s.sent]
      BY <2>7, <3>1, <3>2, <3>3 DEF S!AllPopped
    <3>5. ba = [rounds |-> rs, queue |-> s.queue, parked |-> s.parked, aborts |-> s.aborts,
                stores |-> s.stores, xfers |-> ps, sent |-> s.sent]
      BY <2>8, <3>1, <3>2, <3>3 DEF S!AllPopped
    <3>6. PICK gone : gone = UNION {s.rounds[m].jobs : m \in {n}}
      OBVIOUS
    <3>7. js \ gone = s.stores \ gone
      BY <2>2, <2>3, <3>6
    <3>8. S!Dropped(z, {n}) = [za EXCEPT !.stores = @ \ gone]
      BY <2>7, <3>1, <3>6 DEF S!Dropped
    <3>9. S!Dropped(b, {n}) = [ba EXCEPT !.stores = @ \ gone]
      BY <2>8, <3>1, <3>6 DEF S!Dropped
    <3>10. PICK left : left = s.stores \ gone
      OBVIOUS
    <3>11. /\ [za EXCEPT !.stores = @ \ gone] = [za EXCEPT !.stores = left]
           /\ [ba EXCEPT !.stores = @ \ gone] = [ba EXCEPT !.stores = left]
      BY <3>4, <3>5, <3>7, <3>10
    <3>12. [za EXCEPT !.stores = left] = [ba EXCEPT !.stores = left]
      BY <3>4, <3>5
    <3> QED  BY <3>8, <3>9, <3>11, <3>12
  <2>11. u = S!Finalized(b, n, no)
    <3>1. z.rounds = b.rounds
      BY <2>7, <2>8
    <3> QED  BY <2>6, <2>10, <3>1 DEF S!Finalized
  <2>12. Shrinks(s, b)
    <3>1. ASSUME NEW y \in b.xfers
          PROVE  KeptXfer(s, b, y) /\ y \in s.xfers
      <4>1. y \in s.xfers /\ y.live \in BOOLEAN /\ (y.live => y.round \in DOMAIN b.rounds)
        BY <1>1, <2>3, <2>9 DEF Pins, Open, IsServer, IsXfer
      <4>2. CASE y.live
        BY <4>1, <4>2 DEF KeptXfer
      <4>3. CASE ~y.live
        BY <4>1, <4>3 DEF KeptXfer
      <4> QED  BY <4>1, <4>2, <4>3
    <3>2. \A m \in DOMAIN b.rounds : SameRound(s.rounds[m], b.rounds[m])
      BY <2>9 DEF SameRound
    <3> QED  BY <2>9, <3>1, <3>2 DEF Shrinks
  <2>13. Sound(b, q, tc, cl, ls, late, alive) /\ S!UsedIds(b) \subseteq S!UsedIds(s)
    <3>1. /\ \A m \in DOMAIN b.rounds : IsRound(b.rounds[m])
          /\ \A y \in b.xfers : IsXfer(y)
          /\ b.aborts \in SUBSET Nat /\ b.queue \in Seq(Lookup) /\ b.parked \in Seq(Lookup)
          /\ b = [rounds |-> b.rounds, queue |-> b.queue, parked |-> b.parked, aborts |-> b.aborts,
                  stores |-> b.stores, xfers |-> b.xfers, sent |-> b.sent]
      BY <1>1, <2>3, <2>8, <2>9 DEF IsServer
    <3> QED  BY <2>9, <2>12, <3>1, QuietSound
  <2>14. n \in Open(b) /\ \A y \in b.xfers : y.live => y.round # n
    BY <2>2, <2>3, <2>9 DEF Open, S!InFlight
  <2>15. no \in BOOLEAN /\ (no => b.rounds[n].remaining = 0)
    BY <2>5
  <2>16. Sound(u, q, tc, cl, ls, late, alive) /\ Keeps(b, u)
    BY <2>11, <2>13, <2>14, <2>15, FinalizedRound
  <2>17. Keeps(s, b)
    BY <2>9 DEF Keeps, Open, TellsOf
  <2>18. IsServer(b) /\ Pins(b) /\ n \in DOMAIN b.rounds
    BY <2>13, <2>14 DEF Sound, Open
  <2>19. Settles(b, u)
    BY <2>11, <2>18, FinalizedLookups
  <2>20. Keeps(s, u)
    BY <2>16, <2>17, KeepsOn
  <2> QED  BY <2>9, <2>13, <2>16, <2>19, <2>20 DEF Goes, Settles
<1> QED  BY <1>1, <1>3, <1>4 DEF IsXfer

\* A transfer x writes its blocks; they are right if they are pinned.
Writes(s, x, ls, ls2) ==
    /\ \A j \in Loads : j # x.to => ls2[j] = ls[j]
    /\ ls2[x.to].state = ls[x.to].state /\ ls2[x.to].keys = ls[x.to].keys
    /\ ls2[x.to].got = ls[x.to].got \cup x.keys
    /\ ls2[x.to].clean = (ls[x.to].clean /\ x.jobs \subseteq s.stores)

\* What is written is of the load that it is written to.
LEMMA WrittenLoads ==
    ASSUME NEW s, NEW q, NEW tc, NEW cl, NEW ls, NEW late, NEW alive,
           LoadsAreSound(ls, late), Sound(s, q, tc, cl, ls, late, alive),
           NEW x, x \in s.xfers, NEW ls2, Writes(s, x, ls, ls2)
    PROVE  LoadsAreSound(ls2, late)
<1>1. x.to \in Loads /\ Begun(ls[x.to]) /\ x.keys \subseteq ls[x.to].keys
  BY DEF Sound, IsServer, IsXfer, Shares
<1>2. ASSUME NEW j \in Loads
      PROVE  /\ ls2[j].keys \in SUBSET Keys /\ ls2[j].got \subseteq ls2[j].keys
             /\ ls2[j].clean \in BOOLEAN /\ ls2[j].state \in LoadStates
             /\ ls2[j].state = "ok" => Complete(ls2[j], late)
  <2>1. /\ ls[j].keys \in SUBSET Keys /\ ls[j].got \subseteq ls[j].keys
        /\ ls[j].clean \in BOOLEAN /\ ls[j].state \in LoadStates
        /\ ls[j].state = "ok" => Complete(ls[j], late)
    BY DEF LoadsAreSound
  <2>2. CASE j = x.to
    BY <1>1, <2>1, <2>2 DEF Writes, Begun
  <2>3. CASE j # x.to
    BY <2>1, <2>3 DEF Writes
  <2> QED  BY <2>2, <2>3
<1> QED  BY <1>2 DEF LoadsAreSound

\* What a transfer of no round writes is nobody's.
LEMMA LostWrite ==
    ASSUME NEW s, NEW q, NEW tc, NEW cl, NEW ls, NEW late, NEW alive,
           Sound(s, q, tc, cl, ls, late, alive), \A n \in DOMAIN cl : cl[n].job \in Loads,
           NEW x, x \in s.xfers, ~x.live, NEW ls2, Writes(s, x, ls, ls2)
    PROVE  Sound(s, q, tc, cl, ls2, late, alive)
<1>1. PICK out : out = tc \o s.sent
  OBVIOUS
<1>2. /\ IsServer(s) /\ Pins(s) /\ Shares(s, ls) /\ (late \/ Held(s, ls))
      /\ Asked(s, q, out, cl, ls) /\ Served(s, out, cl) /\ Answers(s, out, cl, ls, late)
      /\ alive => Current(s, q, out, cl)
  BY <1>1 DEF Sound
<1>3. /\ x.to \in Loads /\ Begun(ls[x.to]) /\ ls2[x.to].state = ls[x.to].state
      /\ ls2[x.to].keys = ls[x.to].keys
      /\ \A j \in Loads : j # x.to => ls2[j] = ls[j]
  BY <1>2 DEF Writes, IsServer, IsXfer, Shares
<1>4. \A n \in Open(s) : s.rounds[n].job # x.to /\ s.rounds[n].job \in Loads
  BY <1>2 DEF Shares
<1>5. \A n \in Open(s) : ls2[s.rounds[n].job] = ls[s.rounds[n].job]
  BY <1>3, <1>4
<1>6. Shares(s, ls2)
  <2>1. ASSUME NEW y \in s.xfers
        PROVE  /\ Begun(ls2[y.to]) /\ y.keys \subseteq ls2[y.to].keys
               /\ y.live => y.keys \subseteq Lacks(ls2[y.to])
               /\ ~y.live => \A n \in Open(s) : s.rounds[n].job # y.to
    <3>1. /\ Begun(ls[y.to]) /\ y.keys \subseteq ls[y.to].keys
          /\ y.live => y.keys \subseteq Lacks(ls[y.to])
          /\ ~y.live => \A n \in Open(s) : s.rounds[n].job # y.to
          /\ y.to \in Loads
      BY <1>2 DEF Shares, IsServer, IsXfer
    <3>2. CASE y.to = x.to
      <4>1. ~y.live
        BY <1>2, <1>4, <3>2 DEF Pins
      <4> QED  BY <1>3, <3>1, <3>2, <4>1 DEF Begun
    <3>3. CASE y.to # x.to
      BY <1>3, <3>1, <3>3
    <3> QED  BY <3>2, <3>3
  <2> QED  BY <1>2, <1>5, <2>1 DEF Shares
<1>7. late \/ Held(s, ls2)
  BY <1>2, <1>5 DEF Held
<1>8. Asked(s, q, out, cl, ls2)
  <2> SUFFICES ASSUME NEW i \in DOMAIN q, Fetching(q[i])
               PROVE  /\ Begun(ls2[q[i].job]) /\ ls2[q[i].job].keys = q[i].keys
                      /\ ls2[q[i].job].got = {} /\ ls2[q[i].job].clean
    BY <1>2 DEF Asked
  <2>1. /\ q[i].job \in Loads /\ Begun(ls[q[i].job]) /\ ls[q[i].job].keys = q[i].keys
        /\ ls[q[i].job].got = {} /\ ls[q[i].job].clean /\ x.to # q[i].job
    BY <1>2 DEF Asked
  <2>2. ls2[q[i].job] = ls[q[i].job]
    BY <1>3, <2>1
  <2> QED  BY <2>1, <2>2
<1>9. Answers(s, out, cl, ls2, late)
  <2> SUFFICES ASSUME NEW i \in DOMAIN out, out[i].type = "done", out[i].round \in DOMAIN cl, out[i].ok
               PROVE  Complete(ls2[cl[out[i].round].job], late)
    BY <1>2 DEF Answers
  <2>1. Complete(ls[cl[out[i].round].job], late) /\ x.to # cl[out[i].round].job
    BY <1>2 DEF Answers
  <2>2. ls2[cl[out[i].round].job] = ls[cl[out[i].round].job]
    BY <1>3, <2>1
  <2> QED  BY <2>1, <2>2
<1> QED  BY <1>1, <1>2, <1>6, <1>7, <1>8, <1>9 DEF Sound

\* What is left to bring when x is written.
LEMMA LessToBring ==
    ASSUME NEW l, NEW l2, NEW keys, l.keys \in SUBSET Keys, keys \subseteq Lacks(l),
           l2.keys = l.keys, l2.got = l.got \cup keys
    PROVE  /\ Lacks(l2) = Lacks(l) \ keys /\ IsFiniteSet(keys) /\ IsFiniteSet(Lacks(l2))
           /\ Cardinality(Lacks(l2)) = Cardinality(Lacks(l)) - Cardinality(keys)
<1>1. Lacks(l2) = Lacks(l) \ keys
  BY DEF Lacks
<1>2. IsFiniteSet(Lacks(l)) /\ IsFiniteSet(keys) /\ IsFiniteSet(Lacks(l2))
  <2>1. Lacks(l) \subseteq Keys /\ keys \subseteq Keys /\ Lacks(l2) \subseteq Keys
    BY <1>1 DEF Lacks
  <2> QED  BY <2>1, KeysAssumption, FS_Subset
<1>3. Lacks(l) \cap keys = keys
  OBVIOUS
<1>4. Cardinality(Lacks(l) \ keys) = Cardinality(Lacks(l)) - Cardinality(Lacks(l) \cap keys)
  BY <1>2, FS_Difference
<1> QED  BY <1>1, <1>2, <1>3, <1>4

\* From s to u the transfer x of a round ends: its keys are brought.
Brings(s, u, x) ==
    /\ u = [rounds |-> u.rounds, queue |-> s.queue, parked |-> s.parked, aborts |-> s.aborts,
            stores |-> s.stores \ x.jobs, xfers |-> s.xfers \ {x}, sent |-> s.sent]
    /\ DOMAIN u.rounds = DOMAIN s.rounds
    /\ \A m \in DOMAIN s.rounds : m # x.round => u.rounds[m] = s.rounds[m]
    /\ IsRound(u.rounds[x.round])
    /\ u.rounds[x.round].fetched = s.rounds[x.round].fetched
    /\ u.rounds[x.round].job = s.rounds[x.round].job
    /\ u.rounds[x.round].demanded = s.rounds[x.round].demanded
    /\ u.rounds[x.round].remaining = s.rounds[x.round].remaining - Cardinality(x.keys)
    /\ u.rounds[x.round].jobs = s.rounds[x.round].jobs \ x.jobs

\* A transfer that is done brings what its load lacked.
LEMMA BroughtSound ==
    ASSUME NEW s, NEW q, NEW tc, NEW cl, NEW ls, NEW late, NEW alive,
           LoadsAreSound(ls, late), Sound(s, q, tc, cl, ls, late, alive),
           \A m \in DOMAIN cl : cl[m].job \in Loads,
           NEW x, x \in s.xfers, x.live, NEW ls2, Writes(s, x, ls, ls2), NEW u, Brings(s, u, x)
    PROVE  Goes(s, u, q, tc, cl, ls2, late, alive) /\ Settles(s, u)
<1>1. PICK out : out = tc \o s.sent
  OBVIOUS
<1>2. /\ IsServer(s) /\ Pins(s) /\ Shares(s, ls) /\ (late \/ Held(s, ls))
      /\ Asked(s, q, out, cl, ls) /\ Served(s, out, cl) /\ Answers(s, out, cl, ls, late)
      /\ alive => Current(s, q, out, cl)
  BY <1>1 DEF Sound
<1>3. PICK n : n = x.round
  OBVIOUS
<1>4. /\ n \in Open(s) /\ n \in DOMAIN s.rounds /\ s.rounds[n].fetched /\ s.rounds[n].job = x.to
      /\ x.to \in Loads /\ x.jobs \subseteq s.rounds[n].jobs
      /\ x.keys \subseteq Lacks(ls[x.to]) /\ x.keys \cap s.rounds[n].demanded = {}
  BY <1>2, <1>3 DEF Pins, Shares, Open, IsServer, IsXfer
<1>5. /\ u = [rounds |-> u.rounds, queue |-> s.queue, parked |-> s.parked, aborts |-> s.aborts,
              stores |-> s.stores \ x.jobs, xfers |-> s.xfers \ {x}, sent |-> s.sent]
      /\ DOMAIN u.rounds = DOMAIN s.rounds
      /\ \A m \in DOMAIN s.rounds : m # n => u.rounds[m] = s.rounds[m]
      /\ IsRound(u.rounds[n])
      /\ u.rounds[n].fetched = s.rounds[n].fetched /\ u.rounds[n].job = s.rounds[n].job
      /\ u.rounds[n].demanded = s.rounds[n].demanded
      /\ u.rounds[n].remaining = s.rounds[n].remaining - Cardinality(x.keys)
      /\ u.rounds[n].jobs = s.rounds[n].jobs \ x.jobs
  BY <1>3 DEF Brings
<1>6. /\ u.queue = s.queue /\ u.parked = s.parked /\ u.aborts = s.aborts
      /\ u.stores = s.stores \ x.jobs /\ u.xfers = s.xfers \ {x} /\ u.sent = s.sent
  BY <1>5
<1>7. /\ Open(u) = Open(s)
      /\ \A m \in Open(s) : u.rounds[m].job = s.rounds[m].job
      /\ \A m \in DOMAIN s.rounds : u.rounds[m].demanded = s.rounds[m].demanded
      /\ \A m \in DOMAIN s.rounds : u.rounds[m].jobs \subseteq s.rounds[m].jobs
  BY <1>5 DEF Open
<1>8. S!UsedIds(u) \subseteq S!UsedIds(s)
  <2> SUFFICES ASSUME NEW j \in S!UsedIds(u)
               PROVE  j \in S!UsedIds(s)
    OBVIOUS
  <2>1. CASE j \in u.stores
    BY <1>6, <2>1 DEF S!UsedIds
  <2>2. ASSUME NEW y \in u.xfers, j \in y.jobs
        PROVE  j \in S!UsedIds(s)
    BY <1>6, <2>2 DEF S!UsedIds
  <2>3. ASSUME NEW m \in DOMAIN u.rounds, j \in u.rounds[m].jobs
        PROVE  j \in S!UsedIds(s)
    <3>1. m \in DOMAIN s.rounds /\ j \in s.rounds[m].jobs
      BY <1>5, <1>7, <2>3
    <3> QED  BY <3>1 DEF S!UsedIds
  <2> QED  BY <2>1, <2>2, <2>3 DEF S!UsedIds
<1>9. IsServer(u)
  <2>1. IsFiniteSet(S!UsedIds(u))
    BY <1>2, <1>8, FewerIds
  <2>2. \A m \in DOMAIN u.rounds : IsRound(u.rounds[m])
    BY <1>2, <1>5 DEF IsServer
  <2>3. u.stores \in SUBSET Nat /\ \A y \in u.xfers : IsXfer(y)
    BY <1>2, <1>6 DEF IsServer
  <2>4. u = [rounds |-> u.rounds, queue |-> u.queue, parked |-> u.parked, aborts |-> u.aborts,
             stores |-> u.stores, xfers |-> u.xfers, sent |-> u.sent]
    BY <1>5, <1>6
  <2> QED  BY <1>2, <1>5, <1>6, <2>1, <2>2, <2>3, <2>4 DEF IsServer
<1>10. \A y \in u.xfers : y \in s.xfers /\ y # x
  BY <1>6
<1>11. ASSUME NEW y \in u.xfers, y.live, y.round = n
       PROVE  x.jobs \cap y.jobs = {} /\ x.keys \cap y.keys = {}
  BY <1>2, <1>3, <1>10, <1>11 DEF Pins
<1>12. Pins(u)
  <2>1. \A k, m \in DOMAIN u.rounds : k # m => u.rounds[k].jobs \cap u.rounds[m].jobs = {}
    BY <1>2, <1>5, <1>7 DEF Pins
  <2>2. ASSUME NEW y \in u.xfers, NEW m \in DOMAIN u.rounds
        PROVE  IF y.live /\ y.round = m THEN y.jobs \subseteq u.rounds[m].jobs
               ELSE y.jobs \cap u.rounds[m].jobs = {}
    <3>1. m \in DOMAIN s.rounds /\ y \in s.xfers
      BY <1>5, <1>10
    <3>2. CASE y.live /\ y.round = m /\ m = n
      <4>1. y.jobs \subseteq s.rounds[n].jobs
        BY <1>2, <3>1, <3>2 DEF Pins
      <4> QED  BY <1>5, <1>11, <3>2, <4>1
    <3>3. CASE y.live /\ y.round = m /\ m # n
      BY <1>2, <1>5, <3>1, <3>3 DEF Pins
    <3>4. CASE ~(y.live /\ y.round = m)
      BY <1>2, <1>7, <3>1, <3>4 DEF Pins
    <3> QED  BY <3>2, <3>3, <3>4
  <2>3. ASSUME NEW y \in u.xfers, NEW z \in u.xfers, y.live, z.live, y.round = z.round, y # z
        PROVE  y.jobs \cap z.jobs = {} /\ y.keys \cap z.keys = {}
    BY <1>2, <1>10, <2>3 DEF Pins
  <2>4. ASSUME NEW y \in u.xfers, y.live
        PROVE  /\ y.round \in Open(u) /\ u.rounds[y.round].job = y.to
               /\ y.keys \cap u.rounds[y.round].demanded = {}
    <3>1. /\ y.round \in Open(s) /\ s.rounds[y.round].job = y.to
          /\ y.keys \cap s.rounds[y.round].demanded = {}
      BY <1>2, <1>10, <2>4 DEF Pins
    <3> QED  BY <1>7, <3>1 DEF Open
  <2> QED  BY <2>1, <2>2, <2>3, <2>4 DEF Pins
<1>13. /\ \A j \in Loads : j # x.to => ls2[j] = ls[j]
       /\ ls2[x.to].state = ls[x.to].state /\ ls2[x.to].keys = ls[x.to].keys
       /\ ls2[x.to].got = ls[x.to].got \cup x.keys
       /\ ls2[x.to].clean = (ls[x.to].clean /\ x.jobs \subseteq s.stores)
  BY DEF Writes
<1>14. /\ Lacks(ls2[x.to]) = Lacks(ls[x.to]) \ x.keys
       /\ Cardinality(Lacks(ls2[x.to])) = Cardinality(Lacks(ls[x.to])) - Cardinality(x.keys)
  <2>1. PICK l, l2, ks : l = ls[x.to] /\ l2 = ls2[x.to] /\ ks = x.keys
    OBVIOUS
  <2>2. l.keys \in SUBSET Keys
    BY <1>4, <2>1 DEF LoadsAreSound
  <2>3. ks \subseteq Lacks(l) /\ l2.keys = l.keys /\ l2.got = l.got \cup ks
    BY <1>4, <1>13, <2>1
  <2>4. Lacks(l2) = Lacks(l) \ ks /\ Cardinality(Lacks(l2)) = Cardinality(Lacks(l)) - Cardinality(ks)
    BY <2>2, <2>3, LessToBring
  <2> QED  BY <2>1, <2>4
<1>15. \A m \in Open(s) : m # n => s.rounds[m].job # x.to /\ ls2[s.rounds[m].job] = ls[s.rounds[m].job]
  BY <1>2, <1>4, <1>13 DEF Shares
<1>16. Shares(u, ls2)
  <2>1. ASSUME NEW m \in Open(u)
        PROVE  /\ u.rounds[m].job \in Loads /\ Begun(ls2[u.rounds[m].job])
               /\ u.rounds[m].remaining = Cardinality(Lacks(ls2[u.rounds[m].job]))
               /\ u.rounds[m].demanded \subseteq Lacks(ls2[u.rounds[m].job])
    <3>1. /\ m \in Open(s) /\ s.rounds[m].job \in Loads /\ Begun(ls[s.rounds[m].job])
          /\ s.rounds[m].remaining = Cardinality(Lacks(ls[s.rounds[m].job]))
          /\ s.rounds[m].demanded \subseteq Lacks(ls[s.rounds[m].job])
      BY <1>2, <1>7 DEF Shares
    <3>2. CASE m = n
      <4>1. PICK v, l, l2, ks : v = u.rounds[m] /\ l = ls[x.to] /\ l2 = ls2[x.to] /\ ks = x.keys
        OBVIOUS
      <4>2. /\ v.job = x.to /\ v.remaining = s.rounds[n].remaining - Cardinality(ks)
            /\ v.demanded = s.rounds[n].demanded
        <5>1. /\ u.rounds[n].job = x.to /\ u.rounds[n].demanded = s.rounds[n].demanded
              /\ u.rounds[n].remaining = s.rounds[n].remaining - Cardinality(x.keys)
          BY ONLY <1>4, <1>5
        <5> QED  BY ONLY <5>1, <3>2, <4>1
      <4>3. /\ l2.state = l.state /\ Lacks(l2) = Lacks(l) \ ks
            /\ Cardinality(Lacks(l2)) = Cardinality(Lacks(l)) - Cardinality(ks)
            /\ ks \cap s.rounds[n].demanded = {} /\ x.to \in Loads /\ s.rounds[n].job = x.to
        BY <1>4, <1>13, <1>14, <4>1
      <4>4. /\ Begun(l) /\ s.rounds[n].remaining = Cardinality(Lacks(l))
            /\ s.rounds[n].demanded \subseteq Lacks(l)
        BY <3>1, <3>2, <4>1, <4>3
      <4>5. Begun(l2) /\ v.remaining = Cardinality(Lacks(l2)) /\ v.demanded \subseteq Lacks(l2)
        BY ONLY <4>2, <4>3, <4>4 DEF Begun
      <4> QED  BY <4>1, <4>2, <4>3, <4>5
    <3>3. CASE m # n
      BY <1>5, <1>15, <3>1, <3>3 DEF Open
    <3> QED  BY <3>2, <3>3
  <2>2. \A k, m \in Open(u) : k # m => u.rounds[k].job # u.rounds[m].job
    BY <1>2, <1>7 DEF Shares
  <2>3. ASSUME NEW y \in u.xfers
        PROVE  /\ Begun(ls2[y.to]) /\ y.keys \subseteq ls2[y.to].keys
               /\ y.live => y.keys \subseteq Lacks(ls2[y.to])
               /\ ~y.live => \A m \in Open(u) : u.rounds[m].job # y.to
    <3>1. /\ Begun(ls[y.to]) /\ y.keys \subseteq ls[y.to].keys
          /\ y.live => y.keys \subseteq Lacks(ls[y.to])
          /\ ~y.live => \A m \in Open(s) : s.rounds[m].job # y.to
          /\ y.to \in Loads
      BY <1>2, <1>10 DEF Shares, IsServer, IsXfer
    <3>2. CASE y.to = x.to
      <4>1. y.live => y.round = n
        BY <1>2, <1>4, <1>10, <3>2 DEF Pins, Shares
      <4>2. y.live => y.keys \subseteq Lacks(ls2[y.to])
        BY <1>11, <1>14, <3>1, <3>2, <4>1
      <4> QED  BY <1>7, <1>13, <3>1, <3>2, <4>2 DEF Begun
    <3>3. CASE y.to # x.to
      BY <1>7, <1>13, <3>1, <3>3
    <3> QED  BY <3>2, <3>3
  <2> QED  BY <2>1, <2>2, <2>3 DEF Shares
<1>17. late \/ Held(u, ls2)
  <2> SUFFICES ASSUME Held(s, ls)
               PROVE  Held(u, ls2)
    BY <1>2
  <2>1. ASSUME NEW m \in DOMAIN u.rounds
        PROVE  u.rounds[m].jobs \subseteq u.stores
    <3>1. m \in DOMAIN s.rounds /\ s.rounds[m].jobs \subseteq s.stores
      BY <1>5 DEF Held
    <3>2. CASE m = n
      BY <1>5, <1>6, <3>1, <3>2
    <3>3. CASE m # n
      <4>1. x.jobs \cap s.rounds[m].jobs = {}
        BY <1>2, <1>3, <3>1, <3>3 DEF Pins
      <4> QED  BY <1>5, <1>6, <3>1, <3>3, <4>1
    <3> QED  BY <3>2, <3>3
  <2>2. ASSUME NEW m \in Open(u)
        PROVE  ls2[u.rounds[m].job].clean
    <3>1. m \in Open(s) /\ ls[s.rounds[m].job].clean /\ u.rounds[m].job = s.rounds[m].job
      BY <1>7 DEF Held
    <3>2. CASE m = n
      <4>1. x.jobs \subseteq s.stores
        BY <1>4 DEF Held
      <4> QED  BY <1>4, <1>13, <3>1, <3>2, <4>1
    <3>3. CASE m # n
      BY <1>15, <3>1, <3>3
    <3> QED  BY <3>2, <3>3
  <2> QED  BY <2>1, <2>2 DEF Held
<1>18. Asked(u, q, out, cl, ls2)
  <2> SUFFICES ASSUME NEW i \in DOMAIN q, Fetching(q[i])
               PROVE  /\ Begun(ls2[q[i].job]) /\ ls2[q[i].job].keys = q[i].keys
                      /\ ls2[q[i].job].got = {} /\ ls2[q[i].job].clean
                      /\ q[i].round \notin Open(u) /\ \A m \in Open(u) : u.rounds[m].job # q[i].job
                      /\ \A y \in u.xfers : y.to # q[i].job
    BY <1>2 DEF Asked
  <2>1. /\ q[i].job \in Loads /\ Begun(ls[q[i].job]) /\ ls[q[i].job].keys = q[i].keys
        /\ ls[q[i].job].got = {} /\ ls[q[i].job].clean /\ x.to # q[i].job
        /\ q[i].round \notin Open(s) /\ \A m \in Open(s) : s.rounds[m].job # q[i].job
        /\ \A y \in s.xfers : y.to # q[i].job
    BY <1>2 DEF Asked
  <2>2. ls2[q[i].job] = ls[q[i].job]
    BY <1>13, <2>1
  <2> QED  BY <1>7, <1>10, <2>1, <2>2
<1>19. Served(u, out, cl)
  BY <1>2, <1>7 DEF Served
<1>20. Answers(u, out, cl, ls2, late)
  <2> SUFFICES ASSUME NEW i \in DOMAIN out, out[i].type = "done", out[i].round \in DOMAIN cl
               PROVE  /\ \A y \in u.xfers : y.to # cl[out[i].round].job
                      /\ out[i].ok => Complete(ls2[cl[out[i].round].job], late)
    BY <1>2 DEF Answers
  <2>1. /\ \A y \in s.xfers : y.to # cl[out[i].round].job
        /\ out[i].ok => Complete(ls[cl[out[i].round].job], late)
    BY <1>2 DEF Answers
  <2>2. ls2[cl[out[i].round].job] = ls[cl[out[i].round].job]
    BY <1>13, <2>1
  <2> QED  BY <1>10, <2>1, <2>2
<1>21. alive => Current(u, q, out, cl)
  BY <1>2, <1>7 DEF Current
<1>22. Sound(u, q, tc, cl, ls2, late, alive)
  BY <1>1, <1>6, <1>9, <1>12, <1>16, <1>17, <1>18, <1>19, <1>20, <1>21 DEF Sound
<1>23. Keeps(s, u)
  BY <1>6, <1>7 DEF Keeps, TellsOf
<1> QED  BY <1>6, <1>8, <1>22, <1>23 DEF Goes, Settles

\* collect_results, for a transfer that is done.
LEMMA DoneSound ==
    ASSUME NEW s, NEW q, NEW tc, tc \in Seq(Reply), NEW cl, NEW ls, NEW late, NEW alive,
           LoadsAreSound(ls, late), Sound(s, q, tc, cl, ls, late, alive),
           \A m \in DOMAIN cl : cl[m].job \in Loads,
           NEW x, x \in s.xfers, NEW ls2, Writes(s, x, ls, ls2), NEW u, u = S!XferDone(s, x)
    PROVE  Goes(s, u, q, tc, cl, ls2, late, alive) /\ Settles(s, u)
<1>1. IsServer(s) /\ Pins(s) /\ Shares(s, ls) /\ IsXfer(x)
  BY DEF Sound, IsServer
<1>2. PICK s1 : s1 = [s EXCEPT !.xfers = @ \ {x}, !.stores = @ \ x.jobs]
  OBVIOUS
<1>3. LoadsAreSound(ls2, late)
  BY WrittenLoads
<1>4. CASE ~x.live
  <2>1. u = s1
    BY <1>2, <1>4 DEF S!XferDone
  <2>2. Sound(s, q, tc, cl, ls2, late, alive)
    BY <1>4, LostWrite
  <2> QED  BY <1>2, <1>3, <1>4, <2>1, <2>2, GoneSound
<1>5. CASE x.live
  <2>1. PICK n : n = x.round
    OBVIOUS
  <2>2. /\ n \in Open(s) /\ n \in DOMAIN s.rounds /\ s.rounds[n].fetched /\ s.rounds[n].job = x.to
        /\ IsRound(s.rounds[n])
    BY <1>1, <1>5, <2>1 DEF Pins, Open, IsServer
  <2>3. PICK c : c = s.rounds[n].remaining - Cardinality(x.keys)
    OBVIOUS
  <2>4. PICK js : js = s.rounds[n].jobs \ x.jobs
    OBVIOUS
  <2>5. PICK w : w = [s.rounds[n] EXCEPT !.remaining = c, !.jobs = js]
    OBVIOUS
  <2>6. w = [supplied |-> s.rounds[n].supplied, fetched |-> s.rounds[n].fetched, job |-> s.rounds[n].job,
             remaining |-> c, available |-> s.rounds[n].available,
             demanded |-> s.rounds[n].demanded, finishing |-> s.rounds[n].finishing, jobs |-> js]
    BY <2>2, <2>5 DEF IsRound
  <2>7. IsRound(w)
    BY <2>2, <2>4, <2>6 DEF IsRound
  <2>8. PICK v : v = S!WithRound(s1, n, w)
    OBVIOUS
  <2>9. w = [s.rounds[n] EXCEPT !.remaining = @ - S!Cardinality(x.keys), !.jobs = @ \ x.jobs]
    <3>1. S!Cardinality(x.keys) = Cardinality(x.keys)
      BY SameCount
    <3> QED  BY <2>2, <2>3, <2>4, <2>5, <3>1 DEF IsRound
  <2>10. PICK yes, no : yes = TRUE /\ no = FALSE
    OBVIOUS
  <2>11. u = IF w.remaining = 0 THEN S!Finalized(v, n, yes)
             ELSE IF w.finishing /\ S!InFlight(v, n) = {} THEN S!Finalized(v, n, no)
             ELSE v
    BY <1>2, <1>5, <2>1, <2>8, <2>9, <2>10 DEF S!XferDone
  <2>12. PICK rs, st, xs : /\ rs = [m \in DOMAIN s.rounds \cup {n} |-> IF m = n THEN w ELSE s.rounds[m]]
                           /\ st = s.stores \ x.jobs /\ xs = s.xfers \ {x}
    OBVIOUS
  <2>13. s1 = [rounds |-> s.rounds, queue |-> s.queue, parked |-> s.parked, aborts |-> s.aborts,
               stores |-> st, xfers |-> xs, sent |-> s.sent]
    BY <1>1, <1>2, <2>12 DEF IsServer
  <2>14. v = [rounds |-> rs, queue |-> s.queue, parked |-> s.parked, aborts |-> s.aborts,
              stores |-> st, xfers |-> xs, sent |-> s.sent]
    BY <2>8, <2>12, <2>13 DEF S!WithRound
  <2>15. /\ DOMAIN rs = DOMAIN s.rounds /\ rs[n] = w
         /\ \A m \in DOMAIN s.rounds : m # n => rs[m] = s.rounds[m]
    BY <2>2, <2>12
  <2>16. v.rounds = rs /\ v.xfers = xs
    BY <2>14
  <2>17. Brings(s, v, x)
    <3>1. /\ w.fetched = s.rounds[n].fetched /\ w.job = s.rounds[n].job
          /\ w.demanded = s.rounds[n].demanded
          /\ w.remaining = s.rounds[n].remaining - Cardinality(x.keys)
          /\ w.jobs = s.rounds[n].jobs \ x.jobs
      BY <2>3, <2>4, <2>6
    <3>2. v = [rounds |-> v.rounds, queue |-> s.queue, parked |-> s.parked, aborts |-> s.aborts,
               stores |-> s.stores \ x.jobs, xfers |-> s.xfers \ {x}, sent |-> s.sent]
      BY <2>12, <2>14, <2>16
    <3> QED  BY <2>1, <2>7, <2>15, <2>16, <3>1, <3>2 DEF Brings
  <2>18. Goes(s, v, q, tc, cl, ls2, late, alive) /\ Settles(s, v)
    BY <1>5, <2>17, BroughtSound
  <2>19. Sound(v, q, tc, cl, ls2, late, alive) /\ Keeps(s, v)
    BY <2>18 DEF Goes
  <2>20. /\ n \in Open(v) /\ v.rounds[n].job = x.to /\ v.rounds[n].remaining = w.remaining
         /\ IsServer(v) /\ Pins(v) /\ Shares(v, ls2) /\ n \in DOMAIN v.rounds
    BY <2>2, <2>6, <2>15, <2>16, <2>19 DEF Open, Sound
  <2>21. ASSUME NEW ok, ok \in BOOLEAN, ok => v.rounds[n].remaining = 0,
                \A y \in v.xfers : y.live => y.round # n, u = S!Finalized(v, n, ok)
         PROVE  Goes(s, u, q, tc, cl, ls2, late, alive) /\ Settles(s, u)
    <3>1. Sound(u, q, tc, cl, ls2, late, alive) /\ Keeps(v, u)
      BY ONLY <1>3, <2>19, <2>20, <2>21, tc \in Seq(Reply), FinalizedRound
    <3>2. Settles(v, u)
      BY <2>20, <2>21, FinalizedLookups
    <3>3. Keeps(s, u)
      BY <2>19, <3>1, KeepsOn
    <3> QED  BY <2>18, <3>1, <3>2, <3>3 DEF Goes, Settles
  <2>22. CASE w.remaining = 0
    <3>1. ASSUME NEW y \in v.xfers, y.live, y.round = n
          PROVE  FALSE
      <4>1. y.to = x.to /\ y.keys \subseteq Lacks(ls2[y.to]) /\ y.keys # {} /\ IsXfer(y)
        BY <2>20, <3>1 DEF Pins, Shares, IsServer, IsXfer
      <4>2. v.rounds[n].remaining = Cardinality(Lacks(ls2[x.to])) /\ x.to \in Loads
        BY <1>1, <2>20 DEF Shares, IsXfer
      <4>3. Lacks(ls2[x.to]) \subseteq Keys
        BY <1>3, <4>2 DEF LoadsAreSound, Lacks
      <4>4. IsFiniteSet(Lacks(ls2[x.to]))
        BY <4>3, KeysAssumption, FS_Subset
      <4>5. Lacks(ls2[x.to]) = {}
        BY <2>20, <2>22, <4>2, <4>4, FS_EmptySet
      <4> QED  BY <4>1, <4>5
    <3>2. yes \in BOOLEAN /\ (yes => v.rounds[n].remaining = 0) /\ u = S!Finalized(v, n, yes)
      BY <2>10, <2>11, <2>20, <2>22
    <3> QED  BY <2>21, <3>1, <3>2
  <2>23. CASE w.remaining # 0 /\ w.finishing /\ S!InFlight(v, n) = {}
    <3>1. \A y \in v.xfers : y.live => y.round # n
      BY <2>23 DEF S!InFlight
    <3>2. no \in BOOLEAN /\ (no => v.rounds[n].remaining = 0) /\ u = S!Finalized(v, n, no)
      BY <2>10, <2>11, <2>23
    <3> QED  BY <2>21, <3>1, <3>2
  <2>24. CASE u = v
    BY <2>18, <2>24
  <2> QED  BY <2>11, <2>22, <2>23, <2>24
<1> QED  BY <1>1, <1>4, <1>5 DEF IsXfer

\* Both roles list the rounds of a set, each once.
LEMMA ListedRounds ==
    ASSUME NEW T, IsFiniteSet(T), NEW f, f = S!SetToSeq(T) \/ f = C!SetToSeq(T)
    PROVE  \E n \in Nat : /\ f \in [1..n -> T]
                          /\ \A i, k \in 1..n : f[i] = f[k] => i = k
                          /\ \A x \in T : \E i \in 1..n : f[i] = x
<1>1. PICK n : n = Cardinality(T)
  OBVIOUS
<1>2. n \in Nat /\ ExistsBijection(1..n, T)
  BY <1>1, FS_CardinalityType
<1>3. PICK fs : fs = [1..n -> T]
  OBVIOUS
<1>4. PICK g : g \in fs /\ \A i, k \in DOMAIN g : g[i] = g[k] => i = k
  <2>1. \E g \in [1..n -> T] : \A i, k \in DOMAIN g : g[i] = g[k] => i = k
    BY <1>2 DEF ExistsBijection, Bijection, Injection, IsInjective
  <2> QED  BY <1>3, <2>1
<1>5. f = CHOOSE h \in fs : \A i, k \in DOMAIN h : h[i] = h[k] => i = k
  <2>1. S!Cardinality(T) = n
    BY <1>1, SameCount
  <2>2. C!Cardinality(T) = n
    BY <1>1 DEF C!Cardinality, Cardinality
  <2>3. CASE f = S!SetToSeq(T)
    BY <1>3, <2>1, <2>3 DEF S!SetToSeq, S!IsInjective
  <2>4. CASE f = C!SetToSeq(T)
    BY <1>3, <2>2, <2>4 DEF C!SetToSeq, C!IsInjective
  <2> QED  BY <2>3, <2>4
<1>6. f \in fs /\ \A i, k \in DOMAIN f : f[i] = f[k] => i = k
  BY Zenon, <1>4, <1>5
<1>7. f \in [1..n -> T] /\ DOMAIN f = 1..n
  BY <1>3, <1>6
<1>8. \A x \in T : \E i \in 1..n : f[i] = x
  <2>1. f \in Injection(1..n, T)
    BY <1>6, <1>7 DEF Injection, IsInjective
  <2>2. Cardinality(1..n) = n
    <3>1. 1 \in Int /\ n \in Int
      BY <1>2
    <3>2. Cardinality(1..n) = IF 1 > n THEN 0 ELSE n - 1 + 1
      BY <3>1, FS_Interval
    <3> QED  BY <1>2, <3>2
  <2>3. f \in Surjection(1..n, T)
    BY <1>1, <2>1, <2>2, FS_Injection
  <2> QED  BY <2>3 DEF Surjection
<1> QED  BY <1>2, <1>6, <1>7, <1>8

\* No more rounds are fetched than there are loads.
LEMMA FewRounds ==
    ASSUME NEW s, NEW ls, Shares(s, ls)
    PROVE  IsFiniteSet(Open(s))
<1>1. PICK f : f = [n \in Open(s) |-> s.rounds[n].job]
  OBVIOUS
<1>2. \A n \in Open(s) : f[n] = s.rounds[n].job /\ s.rounds[n].job \in Loads
  BY <1>1 DEF Shares
<1>3. f \in [Open(s) -> Loads] /\ \A n, m \in Open(s) : f[n] = f[m] => n = m
  <2>1. \A n, m \in Open(s) : n # m => s.rounds[n].job # s.rounds[m].job
    BY DEF Shares
  <2> QED  BY <1>1, <1>2, <2>1
<1>4. f \in Injection(Open(s), Loads)
  BY <1>3 DEF Injection, IsInjective
<1>5. IsFiniteSet(Loads)
  BY MaxLoadsAssumption, FS_Interval DEF Loads
<1> QED  BY <1>4, <1>5, FS_Injection

\* finish.
LEMMA FinishedSound ==
    ASSUME NEW s, NEW q, NEW tc, tc \in Seq(Reply), NEW cl, NEW ls, NEW late, NEW alive,
           LoadsAreSound(ls, late), Sound(s, q, tc, cl, ls, late, alive),
           NEW u, u = S!Finished(s)
    PROVE  Goes(s, u, q, tc, cl, ls, late, alive) /\ Settles(s, u)
<1>1. IsServer(s) /\ Pins(s) /\ s.sent \in Seq(Reply)
  BY DEF Sound, IsServer
<1>2. PICK none : none = <<>>
  OBVIOUS
<1>3. PICK rs : rs = [n \in DOMAIN s.rounds |-> [s.rounds[n] EXCEPT !.finishing = TRUE]]
  OBVIOUS
<1>4. PICK v : v = [S!LookupsClosed(s) EXCEPT !.rounds = [n \in DOMAIN @ |-> [@[n] EXCEPT !.finishing = TRUE]]]
  OBVIOUS
<1>5. v = [rounds |-> rs, queue |-> none, parked |-> none, aborts |-> s.aborts,
           stores |-> s.stores, xfers |-> s.xfers, sent |-> s.sent]
  <2>1. PICK a : a = S!LookupsClosed(s)
    OBVIOUS
  <2>2. a = [s EXCEPT !.queue = none, !.parked = none]
    BY <1>2, <2>1 DEF S!LookupsClosed
  <2>3. PICK b : b = s.rounds
    OBVIOUS
  <2>4. a = [rounds |-> b, queue |-> none, parked |-> none, aborts |-> s.aborts,
             stores |-> s.stores, xfers |-> s.xfers, sent |-> s.sent]
    BY <1>1, <2>2, <2>3 DEF IsServer
  <2>5. rs = [n \in DOMAIN a.rounds |-> [a.rounds[n] EXCEPT !.finishing = TRUE]]
    BY <1>3, <2>3, <2>4
  <2>6. v = [a EXCEPT !.rounds = [n \in DOMAIN @ |-> [@[n] EXCEPT !.finishing = TRUE]]]
    BY <1>4, <2>1
  <2>7. v = [a EXCEPT !.rounds = rs]
    BY <2>4, <2>5, <2>6
  <2> QED  BY <2>4, <2>7
<1>6. /\ v.rounds = rs /\ v.queue = none /\ v.parked = none /\ v.aborts = s.aborts
      /\ v.stores = s.stores /\ v.xfers = s.xfers /\ v.sent = s.sent
  BY <1>5
<1>7. ASSUME NEW n \in DOMAIN s.rounds
      PROVE  IsRound(rs[n]) /\ SameRound(s.rounds[n], rs[n])
  <2>1. IsRound(s.rounds[n])
    BY <1>1 DEF IsServer
  <2>2. rs[n] = [s.rounds[n] EXCEPT !.finishing = TRUE]
    BY <1>3
  <2>3. PICK r, yes : r = s.rounds[n] /\ yes = TRUE
    OBVIOUS
  <2>4. rs[n] = [supplied |-> r.supplied, fetched |-> r.fetched, job |-> r.job,
                 remaining |-> r.remaining, available |-> r.available, demanded |-> r.demanded,
                 finishing |-> yes, jobs |-> r.jobs]
    BY <2>1, <2>2, <2>3 DEF IsRound
  <2>5. PICK w : w = rs[n]
    OBVIOUS
  <2>6. /\ w.supplied = r.supplied /\ w.fetched = r.fetched /\ w.job = r.job
        /\ w.remaining = r.remaining /\ w.available = r.available /\ w.demanded = r.demanded
        /\ w.finishing \in BOOLEAN /\ w.jobs = r.jobs
        /\ w = [supplied |-> w.supplied, fetched |-> w.fetched, job |-> w.job,
                remaining |-> w.remaining, available |-> w.available, demanded |-> w.demanded,
                finishing |-> w.finishing, jobs |-> w.jobs]
    BY <2>3, <2>4, <2>5
  <2>7. IsRound(w) /\ SameRound(r, w)
    BY <2>1, <2>3, <2>6 DEF IsRound, SameRound
  <2> QED  BY <2>3, <2>5, <2>7
<1>8. DOMAIN rs = DOMAIN s.rounds
  BY <1>3
<1>9. Shrinks(s, v)
  <2>1. ASSUME NEW y \in v.xfers
        PROVE  KeptXfer(s, v, y) /\ y \in s.xfers
    <3>1. y \in s.xfers /\ y.live \in BOOLEAN /\ (y.live => y.round \in DOMAIN v.rounds)
      BY <1>1, <1>6, <1>8 DEF Pins, Open, IsServer, IsXfer
    <3>2. CASE y.live
      BY <3>1, <3>2 DEF KeptXfer
    <3>3. CASE ~y.live
      BY <3>1, <3>3 DEF KeptXfer
    <3> QED  BY <3>1, <3>2, <3>3
  <2> QED  BY <1>6, <1>7, <1>8, <2>1 DEF Shrinks
<1>10. none \in Seq(Lookup)
  BY <1>2
<1>11. Sound(v, q, tc, cl, ls, late, alive) /\ S!UsedIds(v) \subseteq S!UsedIds(s)
  <2>1. /\ \A m \in DOMAIN v.rounds : IsRound(v.rounds[m])
        /\ \A y \in v.xfers : IsXfer(y)
        /\ v.aborts \in SUBSET Nat /\ v.queue \in Seq(Lookup) /\ v.parked \in Seq(Lookup)
        /\ v = [rounds |-> v.rounds, queue |-> v.queue, parked |-> v.parked, aborts |-> v.aborts,
                stores |-> v.stores, xfers |-> v.xfers, sent |-> v.sent]
    BY <1>1, <1>5, <1>6, <1>7, <1>8, <1>10 DEF IsServer
  <2> QED  BY <1>6, <1>9, <2>1, QuietSound
<1>12. PICK over : over = {n \in DOMAIN v.rounds : v.rounds[n].fetched /\ S!InFlight(v, n) = {}}
  OBVIOUS
<1>13. /\ over \subseteq Open(v) /\ over \in SUBSET DOMAIN v.rounds
       /\ \A n \in over, y \in v.xfers : y.live => y.round # n
  BY <1>12 DEF Open, S!InFlight
<1>14. IsServer(v) /\ Pins(v) /\ Shares(v, ls)
  BY <1>11 DEF Sound
<1>15. PICK order : order = S!SetToSeq(over)
  OBVIOUS
<1>16. PICK c \in Nat : /\ order \in [1..c -> over] /\ \A i, k \in 1..c : order[i] = order[k] => i = k
                        /\ \A n \in over : \E i \in 1..c : order[i] = n
  <2>1. IsFiniteSet(over)
    BY <1>13, <1>14, FewRounds, FS_Subset
  <2> QED  BY <1>15, <2>1, ListedRounds
<1>17. PICK new : new = [i \in DOMAIN order |->
                           [type |-> "done", round |-> order[i], answers |-> S!NoAnswers,
                            ok |-> v.rounds[order[i]].remaining = 0]]
  BY Zenon
<1>18. PICK w : w = S!Dropped(v, over)
  OBVIOUS
<1>19. u = [w EXCEPT !.sent = @ \o new]
  BY Zenon, <1>4, <1>12, <1>15, <1>17, <1>18 DEF S!Finished
<1>20. /\ IsServer(w) /\ Shrinks(v, w)
       /\ DOMAIN w.rounds = DOMAIN v.rounds \ over
       /\ \A n \in DOMAIN w.rounds : w.rounds[n] = v.rounds[n]
       /\ \A x \in w.xfers : \E y \in v.xfers : x.to = y.to /\ (x.live => x = y /\ y.round \notin over)
       /\ w.sent = v.sent /\ w.aborts = v.aborts /\ w.queue = v.queue /\ w.parked = v.parked
  BY <1>13, <1>14, <1>18, DroppedRounds
<1>21. /\ DOMAIN new = 1..c
       /\ \A i \in 1..c : /\ new[i].type = "done" /\ new[i].round = order[i]
                          /\ new[i].ok = (v.rounds[order[i]].remaining = 0)
                          /\ new[i] \in Reply /\ order[i] \in over
  <2>1. DOMAIN order = 1..c
    BY <1>16
  <2>2. ASSUME NEW i \in 1..c
        PROVE  /\ new[i].type = "done" /\ new[i].round = order[i]
               /\ new[i].ok = (v.rounds[order[i]].remaining = 0)
               /\ new[i] \in Reply /\ order[i] \in over
    <3>1. PICK ok \in BOOLEAN : ok = (v.rounds[order[i]].remaining = 0)
      OBVIOUS
    <3>2. new[i] = [type |-> "done", round |-> order[i], answers |-> S!NoAnswers, ok |-> ok]
      BY <1>17, <2>1, <3>1
    <3>3. order[i] \in over /\ order[i] \in Nat
      BY <1>13, <1>14, <1>16 DEF IsServer
    <3> QED  BY <3>1, <3>2, <3>3, NoVerdicts DEF Reply
  <2>3. DOMAIN new = 1..c
    BY <1>17, <2>1
  <2> QED  BY <2>2, <2>3
<1>22. new \in Seq(Reply)
  <2>1. new \in [1..c -> Reply]
    <3>1. new = [i \in 1..c |-> new[i]]
      BY <1>16, <1>17
    <3> QED  BY <1>21, <3>1
  <2> QED  BY <2>1, FunctionIsList
<1>23. PICK sent : sent = v.sent \o new
  OBVIOUS
<1>24. u = [rounds |-> w.rounds, queue |-> w.queue, parked |-> w.parked, aborts |-> w.aborts,
            stores |-> w.stores, xfers |-> w.xfers, sent |-> sent]
  <2>1. u = [w EXCEPT !.sent = sent]
    BY <1>19, <1>20, <1>23
  <2>2. w = [rounds |-> w.rounds, queue |-> w.queue, parked |-> w.parked, aborts |-> w.aborts,
             stores |-> w.stores, xfers |-> w.xfers, sent |-> w.sent]
    BY <1>20 DEF IsServer
  <2> QED  BY ONLY <2>1, <2>2
<1>25. /\ u.rounds = w.rounds /\ u.queue = w.queue /\ u.parked = w.parked /\ u.aborts = w.aborts
       /\ u.stores = w.stores /\ u.xfers = w.xfers /\ u.sent = v.sent \o new
  BY ONLY <1>23, <1>24
<1>26. IsServer(u)
  <2>1. u.sent \in Seq(Reply)
    BY <1>14, <1>22, <1>25 DEF IsServer
  <2>2. S!UsedIds(u) = S!UsedIds(w)
    BY <1>25 DEF S!UsedIds
  <2>3. u = [rounds |-> u.rounds, queue |-> u.queue, parked |-> u.parked, aborts |-> u.aborts,
             stores |-> u.stores, xfers |-> u.xfers, sent |-> u.sent]
    BY ONLY <1>24
  <2> QED  BY <1>20, <1>25, <2>1, <2>2, <2>3 DEF IsServer
<1>27. Shrinks(v, u)
  BY <1>20, <1>25 DEF Shrinks, KeptXfer
<1>28. Tells(v, u, new)
  <2>1. ASSUME NEW i \in 1..c
        PROVE  /\ new[i].round \in Open(v) /\ new[i].round \notin DOMAIN u.rounds
               /\ \A k \in DOMAIN new : Done(new[k], new[i].round) => k = i
               /\ new[i].ok => v.rounds[new[i].round].remaining = 0
               /\ \A x \in u.xfers : x.to # v.rounds[new[i].round].job
    <3>1. order[i] \in over /\ order[i] \in Open(v) /\ order[i] \notin DOMAIN w.rounds
      BY <1>13, <1>20, <1>21
    <3>2. ASSUME NEW x \in w.xfers
          PROVE  x.to # v.rounds[order[i]].job
      <4>1. PICK y \in v.xfers : x.to = y.to
        BY <1>20
      <4>2. y.live => y.round \in Open(v) /\ v.rounds[y.round].job = y.to /\ y.round # order[i]
        BY <1>13, <1>14, <3>1 DEF Pins
      <4> QED  BY <1>14, <3>1, <4>1, <4>2 DEF Shares
    <3>3. ASSUME NEW k \in DOMAIN new, Done(new[k], new[i].round)
          PROVE  k = i
      BY <1>16, <1>21, <3>3 DEF Done
    <3> QED  BY <1>21, <1>25, <3>1, <3>2, <3>3
  <2> QED  BY <1>21, <1>22, <2>1 DEF Tells
<1>29. Sound(u, q, tc, cl, ls, late, alive)
  BY <1>11, <1>25, <1>26, <1>27, <1>28, ShrunkSound
<1>30. Keeps(s, u)
  <2>1. u.sent = s.sent \o new /\ u.aborts = s.aborts
    BY <1>6, <1>20, <1>25
  <2>2. /\ \A m : TellsOf(s, m) => TellsOf(u, m)
        /\ \A i \in DOMAIN new : new[i].type \in {"done", "ack"} => TellsOf(u, new[i].round)
    BY ONLY <1>1, <1>22, <2>1, SentStays
  <2>3. ASSUME NEW n \in Open(s)
        PROVE  \/ n \in Open(u) /\ u.rounds[n].job = s.rounds[n].job
               \/ TellsOf(u, n)
    <3>1. n \in DOMAIN v.rounds /\ v.rounds[n].fetched /\ v.rounds[n].job = s.rounds[n].job
      BY <1>6, <1>7, <1>8 DEF Open, SameRound
    <3>2. CASE n \notin over
      BY <1>20, <1>25, <3>1, <3>2 DEF Open
    <3>3. CASE n \in over
      <4>1. \E i \in 1..c : order[i] = n
        BY <1>16, <3>3
      <4> QED  BY <1>21, <2>2, <4>1
    <3> QED  BY <3>2, <3>3
  <2> QED  BY <2>1, <2>2, <2>3 DEF Keeps
<1>31. S!UsedIds(u) \subseteq S!UsedIds(v)
  BY <1>27, ShrunkIds
<1>32. u.queue = none /\ u.parked = none
  BY <1>6, <1>20, <1>25
<1> QED  BY <1>2, <1>11, <1>29, <1>30, <1>31, <1>32 DEF Goes, Settles

-----------------------------------------------------------------------------
(***************************************************************************)
(* Messages that are sent, lost or read by the client.                      *)
(***************************************************************************)

\* Every message of out2 is one of out, each once.
Part(out2, out) ==
    \E g : /\ \A i \in DOMAIN out2 : g[i] \in DOMAIN out /\ out2[i] = out[g[i]]
           /\ \A i, k \in DOMAIN out2 : g[i] = g[k] => i = k

\* Fewer answers promise less.
LEMMA FewerReplies ==
    ASSUME NEW s, NEW q, NEW out, NEW out2, Part(out2, out), NEW cl, NEW ls, NEW late,
           Asked(s, q, out, cl, ls), Served(s, out, cl), Answers(s, out, cl, ls, late)
    PROVE  /\ Asked(s, q, out2, cl, ls) /\ Served(s, out2, cl) /\ Answers(s, out2, cl, ls, late)
           /\ Current(s, q, out, cl) => Current(s, q, out2, cl)
<1>1. PICK g : /\ \A i \in DOMAIN out2 : g[i] \in DOMAIN out /\ out2[i] = out[g[i]]
               /\ \A i, k \in DOMAIN out2 : g[i] = g[k] => i = k
  BY DEF Part
<1>2. \A i \in DOMAIN out2 : \E k \in DOMAIN out : out2[i] = out[k]
  BY <1>1
<1>3. Asked(s, q, out2, cl, ls)
  <2> SUFFICES ASSUME NEW i \in DOMAIN q, Fetching(q[i]), NEW k \in DOMAIN out2
               PROVE  ~Done(out2[k], q[i].round)
    BY DEF Asked
  <2> QED  BY <1>2 DEF Asked
<1>4. Served(s, out2, cl)
  <2> SUFFICES ASSUME NEW n \in Open(s), NEW k \in DOMAIN out2
               PROVE  ~Done(out2[k], n)
    BY DEF Served
  <2> QED  BY <1>2 DEF Served
<1>5. Answers(s, out2, cl, ls, late)
  <2> SUFFICES ASSUME NEW i \in DOMAIN out2
               PROVE  /\ out2[i].type = "ack" => ~out2[i].ok
                      /\ out2[i].type = "done" =>
                           /\ \A k \in DOMAIN out2 : Done(out2[k], out2[i].round) => k = i
                           /\ out2[i].round \in DOMAIN cl =>
                                /\ \A x \in s.xfers : x.to # cl[out2[i].round].job
                                /\ out2[i].ok => Complete(ls[cl[out2[i].round].job], late)
    BY DEF Answers
  <2>1. PICK h \in DOMAIN out : h = g[i] /\ out2[i] = out[h]
    BY <1>1
  <2>2. ASSUME out2[i].type = "done", NEW k \in DOMAIN out2, Done(out2[k], out2[i].round)
        PROVE  k = i
    <3>1. PICK j \in DOMAIN out : j = g[k] /\ out2[k] = out[j]
      BY <1>1
    <3>2. j = h
      BY <2>1, <2>2, <3>1 DEF Answers
    <3> QED  BY <1>1, <2>1, <3>1, <3>2
  <2> QED  BY <2>1, <2>2 DEF Answers
<1>6. ASSUME Current(s, q, out, cl)
      PROVE  Current(s, q, out2, cl)
  BY <1>2, <1>6 DEF Current
<1> QED  BY <1>3, <1>4, <1>5, <1>6

\* A list of answers without its head is a part of it.
LEMMA ReadPart ==
    ASSUME NEW tc, tc \in Seq(Reply), tc # <<>>
    PROVE  /\ Part(Tail(tc), tc) /\ Tail(tc) \in Seq(Reply)
           /\ 1 \in DOMAIN tc /\ Head(tc) = tc[1] /\ tc[1] \in Reply
           /\ \A i \in DOMAIN tc : i = 1 \/ \E k \in DOMAIN Tail(tc) : Tail(tc)[k] = tc[i]
           /\ \A k \in DOMAIN Tail(tc) : \E i \in DOMAIN tc : i # 1 /\ Tail(tc)[k] = tc[i]
<1>1. Len(tc) \in Nat /\ Len(tc) # 0 /\ DOMAIN tc = 1..Len(tc) /\ Tail(tc) \in Seq(Reply)
  BY EmptySeq
<1>2. DOMAIN Tail(tc) = 1..(Len(tc) - 1) /\ \A i \in 1..(Len(tc) - 1) : Tail(tc)[i] = tc[i + 1]
  BY <1>1
<1>3. PICK n \in Nat : n = Len(tc)
  BY <1>1
<1>4. PICK g : g = [i \in 1..(n - 1) |-> i + 1]
  OBVIOUS
<1>5. \A i \in 1..(n - 1) : g[i] = i + 1 /\ i + 1 \in 1..n /\ i + 1 # 1
  BY <1>4
<1>6. Part(Tail(tc), tc)
  <2>1. PICK q : q = Tail(tc)
    OBVIOUS
  <2>2. DOMAIN q = 1..(n - 1) /\ \A i \in 1..(n - 1) : q[i] = tc[i + 1]
    BY <1>2, <1>3, <2>1
  <2>3. \A i \in DOMAIN q : g[i] \in DOMAIN tc /\ q[i] = tc[g[i]]
    BY <1>1, <1>3, <1>5, <2>2
  <2>4. \A i, k \in DOMAIN q : g[i] = g[k] => i = k
    BY <1>5, <2>2
  <2>5. Part(q, tc)
    BY <2>3, <2>4 DEF Part
  <2> QED  BY <2>1, <2>5
<1>7. ASSUME NEW i \in DOMAIN tc, i # 1
      PROVE  \E k \in DOMAIN Tail(tc) : Tail(tc)[k] = tc[i]
  <2>1. i - 1 \in 1..(n - 1) /\ (i - 1) + 1 = i
    BY <1>1, <1>3, <1>7
  <2>2. Tail(tc)[i - 1] = tc[i]
    BY <1>2, <1>3, <2>1
  <2> QED  BY <1>2, <1>3, <2>1, <2>2
<1>8. \A k \in DOMAIN Tail(tc) : \E i \in DOMAIN tc : i # 1 /\ Tail(tc)[k] = tc[i]
  BY <1>1, <1>2, <1>3, <1>5
<1>9. 1 \in DOMAIN tc /\ Head(tc) = tc[1] /\ tc[1] \in Reply
  BY <1>1
<1> QED  BY <1>1, <1>6, <1>7, <1>8, <1>9

\* The first messages of a list are a part of it.
LEMMA FirstPart ==
    ASSUME NEW tc, tc \in Seq(Reply), NEW new, new \in Seq(Reply)
    PROVE  Part(tc, tc \o new)
<1>1. \A i \in DOMAIN tc : i \in DOMAIN (tc \o new) /\ (tc \o new)[i] = tc[i]
  BY JoinedMessages
<1>2. PICK g : g = [i \in DOMAIN tc |-> i]
  OBVIOUS
<1> QED  BY <1>1, <1>2 DEF Part

\* What a handler sent is on its way, or is lost with the connection.
Posts(s, u) ==
    /\ u = [rounds |-> s.rounds, queue |-> s.queue, parked |-> s.parked, aborts |-> s.aborts,
            stores |-> s.stores, xfers |-> s.xfers, sent |-> u.sent]
    /\ u.sent = <<>>

\* The messages leave the server, or are lost with the connection.
LEMMA PostedSound ==
    ASSUME NEW s, NEW q, NEW tc, tc \in Seq(Reply), NEW cl, NEW ls, NEW late, NEW alive,
           Sound(s, q, tc, cl, ls, late, alive), NEW u, Posts(s, u),
           NEW tc2, tc2 = tc \/ tc2 = tc \o s.sent
    PROVE  Sound(u, q, tc2, cl, ls, late, alive) /\ tc2 \in Seq(Reply)
<1>1. /\ u.rounds = s.rounds /\ u.queue = s.queue /\ u.parked = s.parked /\ u.aborts = s.aborts
      /\ u.stores = s.stores /\ u.xfers = s.xfers /\ u.sent = <<>>
  BY DEF Posts
<1>2. IsServer(s) /\ s.sent \in Seq(Reply)
  BY DEF Sound, IsServer
<1>3. tc2 \in Seq(Reply)
  <2>1. tc \o s.sent \in Seq(Reply)
    BY <1>2, JoinedMessages
  <2> QED  BY <2>1
<1>4. tc2 \o u.sent = tc2
  BY <1>1, <1>3
<1>5. IsServer(u)
  <2>1. S!UsedIds(u) = S!UsedIds(s)
    BY <1>1 DEF S!UsedIds
  <2>2. u.sent \in Seq(Reply)
    BY <1>1
  <2>3. u = [rounds |-> u.rounds, queue |-> u.queue, parked |-> u.parked, aborts |-> u.aborts,
             stores |-> u.stores, xfers |-> u.xfers, sent |-> u.sent]
    BY <1>1 DEF Posts
  <2> QED  BY <1>1, <1>2, <2>1, <2>2, <2>3 DEF IsServer
<1>6. PICK out : out = tc \o s.sent
  OBVIOUS
<1>7. /\ Pins(s) /\ Shares(s, ls) /\ (late \/ Held(s, ls))
      /\ Asked(s, q, out, cl, ls) /\ Served(s, out, cl) /\ Answers(s, out, cl, ls, late)
      /\ alive => Current(s, q, out, cl)
  BY <1>6 DEF Sound
<1>8. /\ Asked(s, q, tc2, cl, ls) /\ Served(s, tc2, cl) /\ Answers(s, tc2, cl, ls, late)
      /\ alive => Current(s, q, tc2, cl)
  <2>1. CASE tc2 = out
    BY <1>7, <2>1
  <2>2. CASE tc2 = tc
    <3>1. Part(tc2, out)
      BY <1>2, <1>6, <2>2, FirstPart
    <3> QED  BY <1>7, <3>1, FewerReplies
  <2> QED  BY <1>6, <2>1, <2>2
<1>9. Open(u) = Open(s)
  BY <1>1 DEF Open
<1>10. Pins(u) /\ Shares(u, ls) /\ (late \/ Held(u, ls))
  BY <1>1, <1>7, <1>9 DEF Pins, Shares, Held
<1>11. /\ Asked(u, q, tc2, cl, ls) /\ Served(u, tc2, cl) /\ Answers(u, tc2, cl, ls, late)
       /\ alive => Current(u, q, tc2, cl)
  BY <1>1, <1>8, <1>9 DEF Asked, Served, Answers, Current
<1> QED  BY <1>3, <1>4, <1>5, <1>10, <1>11 DEF Sound

\* What the client can still expect of the server for its round n.
Owed(s, tc, n, job) ==
    \/ n \in Open(s) /\ s.rounds[n].job = job
    \/ n \in s.aborts
    \/ \E i \in DOMAIN tc : tc[i].round = n /\ tc[i].type \in {"done", "ack"}
Asking(ts, n) == \E i \in DOMAIN ts : ts[i].round = n /\ ts[i].type \in {"fetch", "abort"}

\* What the client is owed survives the handler and the sending.
LEMMA OwedOn ==
    ASSUME NEW s, NEW u, NEW v, NEW tc, tc \in Seq(Reply), NEW tc2, NEW n, NEW job,
           s.sent = <<>>, Keeps(s, u), u.sent \in Seq(Reply), Posts(u, v), tc2 = tc \o u.sent,
           Owed(s, tc, n, job) \/ Takes(u, n, job)
    PROVE  Owed(v, tc2, n, job)
<1>1. /\ \A i \in DOMAIN tc : i \in DOMAIN tc2 /\ tc2[i] = tc[i]
      /\ \A i \in DOMAIN u.sent : Len(tc) + i \in DOMAIN tc2 /\ tc2[Len(tc) + i] = u.sent[i]
  BY JoinedMessages
<1>2. v.rounds = u.rounds /\ v.aborts = u.aborts /\ Open(v) = Open(u)
  BY DEF Posts, Open
<1>3. ASSUME TellsOf(u, n)
      PROVE  Owed(v, tc2, n, job)
  BY <1>1, <1>3 DEF TellsOf, Owed
<1>4. CASE Takes(u, n, job)
  BY <1>2, <1>3, <1>4 DEF Takes, Owed
<1>5. CASE Owed(s, tc, n, job)
  <2>1. CASE \E i \in DOMAIN tc : tc[i].round = n /\ tc[i].type \in {"done", "ack"}
    BY <1>1, <2>1 DEF Owed
  <2>2. CASE n \in Open(s) /\ s.rounds[n].job = job
    BY <1>2, <1>3, <2>2 DEF Keeps, Owed
  <2>3. CASE n \in s.aborts
    BY <1>2, <1>3, <2>3 DEF Keeps, Owed
  <2> QED  BY <1>5, <2>1, <2>2, <2>3 DEF Owed
<1> QED  BY <1>4, <1>5

\* Messages that fetch nothing ask for nothing.
LEMMA MoreRequests ==
    ASSUME NEW s, NEW ts, ts \in Seq(Request), NEW msgs, msgs \in Seq(Request),
           NEW tc, NEW cl, NEW ls, NEW late, NEW alive, Sound(s, ts, tc, cl, ls, late, alive),
           \A i \in DOMAIN msgs : ~Fetching(msgs[i]), NEW q, q = ts \o msgs
    PROVE  Sound(s, q, tc, cl, ls, late, alive)
<1>1. PICK out : out = tc \o s.sent
  OBVIOUS
<1>2. Asked(s, ts, out, cl, ls) /\ (alive => Current(s, ts, out, cl))
  BY <1>1 DEF Sound
<1>3. \A i \in DOMAIN q : Fetching(q[i]) => i \in DOMAIN ts /\ q[i] = ts[i]
  BY JoinedMessages
<1>4. Asked(s, q, out, cl, ls)
  <2> SUFFICES ASSUME NEW i \in DOMAIN q, Fetching(q[i])
               PROVE  /\ q[i].job \in Loads /\ Begun(ls[q[i].job]) /\ ls[q[i].job].keys = q[i].keys
                      /\ ls[q[i].job].got = {} /\ ls[q[i].job].clean
                      /\ q[i].round \notin Open(s) /\ \A n \in Open(s) : s.rounds[n].job # q[i].job
                      /\ \A x \in s.xfers : x.to # q[i].job
                      /\ \A k \in DOMAIN out : ~Done(out[k], q[i].round)
                      /\ \A k \in DOMAIN q : (Fetching(q[k]) /\ k # i) =>
                                                q[k].job # q[i].job /\ q[k].round # q[i].round
                      /\ \A n \in DOMAIN cl : (cl[n].job = q[i].job) <=> (n = q[i].round)
    BY DEF Asked
  <2>1. i \in DOMAIN ts /\ q[i] = ts[i] /\ Fetching(ts[i])
    BY <1>3
  <2>2. ASSUME NEW k \in DOMAIN q, Fetching(q[k]), k # i
        PROVE  q[k].job # q[i].job /\ q[k].round # q[i].round
    <3>1. k \in DOMAIN ts /\ q[k] = ts[k] /\ Fetching(ts[k])
      BY <1>3, <2>2
    <3> QED  BY <1>2, <2>1, <2>2, <3>1 DEF Asked
  <2>3. PICK m : m = ts[i]
    OBVIOUS
  <2>4. /\ m.job \in Loads /\ Begun(ls[m.job]) /\ ls[m.job].keys = m.keys
        /\ ls[m.job].got = {} /\ ls[m.job].clean
        /\ m.round \notin Open(s) /\ \A n \in Open(s) : s.rounds[n].job # m.job
        /\ \A x \in s.xfers : x.to # m.job
        /\ \A k \in DOMAIN out : ~Done(out[k], m.round)
        /\ \A n \in DOMAIN cl : (cl[n].job = m.job) <=> (n = m.round)
    <3>1. /\ ts[i].job \in Loads /\ Begun(ls[ts[i].job]) /\ ls[ts[i].job].keys = ts[i].keys
          /\ ls[ts[i].job].got = {} /\ ls[ts[i].job].clean
          /\ ts[i].round \notin Open(s) /\ \A n \in Open(s) : s.rounds[n].job # ts[i].job
          /\ \A x \in s.xfers : x.to # ts[i].job
          /\ \A k \in DOMAIN out : ~Done(out[k], ts[i].round)
          /\ \A n \in DOMAIN cl : (cl[n].job = ts[i].job) <=> (n = ts[i].round)
      BY <1>2, <2>1 DEF Asked
    <3> QED  BY ONLY <2>3, <3>1
  <2>5. q[i] = m
    BY <2>1, <2>3
  <2> QED  BY <2>2, <2>4, <2>5
<1>5. alive => Current(s, q, out, cl)
  BY <1>2, <1>3 DEF Current
<1> QED  BY <1>1, <1>4, <1>5 DEF Sound

\* Loads that are under way may fail, and new ones that never start.
Follows(ls, ls2) ==
    \A j \in Loads : Begun(ls[j]) => /\ Begun(ls2[j]) /\ ls2[j].keys = ls[j].keys
                                     /\ ls2[j].got = ls[j].got /\ ls2[j].clean = ls[j].clean

\* The client waits for fewer loads, if it can start no more.
Forgets(cl, cl2, alive, alive2) ==
    /\ DOMAIN cl2 \subseteq DOMAIN cl /\ \A n \in DOMAIN cl2 : cl2[n].job = cl[n].job
    /\ alive2 => alive /\ DOMAIN cl2 = DOMAIN cl

Waits(cl, ls) ==
    /\ \A n \in DOMAIN cl : cl[n].job \in Loads /\ ls[cl[n].job].state = "wait"
    /\ \A n, m \in DOMAIN cl : n # m => cl[n].job # cl[m].job

\* Loads that the client gives up.
LEMMA GivenUp ==
    ASSUME NEW s, NEW q, NEW tc, NEW cl, NEW ls, NEW late, NEW alive,
           Sound(s, q, tc, cl, ls, late, alive), Waits(cl, ls),
           NEW cl2, NEW ls2, NEW alive2, Follows(ls, ls2), Forgets(cl, cl2, alive, alive2)
    PROVE  Sound(s, q, tc, cl2, ls2, late, alive2)
<1>1. PICK out : out = tc \o s.sent
  OBVIOUS
<1>2. /\ IsServer(s) /\ Pins(s) /\ Shares(s, ls) /\ (late \/ Held(s, ls))
      /\ Asked(s, q, out, cl, ls) /\ Served(s, out, cl) /\ Answers(s, out, cl, ls, late)
      /\ alive => Current(s, q, out, cl)
  BY <1>1 DEF Sound
<1>3. \A n \in Open(s) : s.rounds[n].job \in Loads /\ Begun(ls[s.rounds[n].job])
  BY <1>2 DEF Shares
<1>4. ASSUME NEW j \in Loads, Begun(ls[j])
      PROVE  /\ Begun(ls2[j]) /\ ls2[j].keys = ls[j].keys /\ ls2[j].got = ls[j].got
             /\ ls2[j].clean = ls[j].clean /\ Lacks(ls2[j]) = Lacks(ls[j])
             /\ Complete(ls[j], late) => Complete(ls2[j], late)
  BY <1>4 DEF Follows, Lacks, Complete
<1>5. Shares(s, ls2)
  <2>1. \A x \in s.xfers : x.to \in Loads /\ Begun(ls[x.to])
    BY <1>2 DEF IsServer, IsXfer, Shares
  <2>2. ASSUME NEW x \in s.xfers
        PROVE  /\ Begun(ls2[x.to]) /\ x.keys \subseteq ls2[x.to].keys
               /\ x.live => x.keys \subseteq Lacks(ls2[x.to])
               /\ ~x.live => \A n \in Open(s) : s.rounds[n].job # x.to
    BY <1>2, <1>4, <2>1 DEF Shares
  <2>3. ASSUME NEW n \in Open(s)
        PROVE  /\ s.rounds[n].job \in Loads /\ Begun(ls2[s.rounds[n].job])
               /\ s.rounds[n].remaining = Cardinality(Lacks(ls2[s.rounds[n].job]))
               /\ s.rounds[n].demanded \subseteq Lacks(ls2[s.rounds[n].job])
    BY <1>2, <1>3, <1>4 DEF Shares
  <2>4. \A n, m \in Open(s) : n # m => s.rounds[n].job # s.rounds[m].job
    BY <1>2 DEF Shares
  <2> QED  BY <2>2, <2>3, <2>4 DEF Shares
<1>6. late \/ Held(s, ls2)
  BY <1>2, <1>3, <1>4 DEF Held
<1>7. Asked(s, q, out, cl2, ls2)
  <2> SUFFICES ASSUME NEW i \in DOMAIN q, Fetching(q[i])
               PROVE  /\ q[i].job \in Loads /\ Begun(ls2[q[i].job]) /\ ls2[q[i].job].keys = q[i].keys
                      /\ ls2[q[i].job].got = {} /\ ls2[q[i].job].clean
                      /\ \A n \in DOMAIN cl2 : (cl2[n].job = q[i].job) <=> (n = q[i].round)
    BY <1>2 DEF Asked
  <2>1. /\ q[i].job \in Loads /\ Begun(ls[q[i].job]) /\ ls[q[i].job].keys = q[i].keys
        /\ ls[q[i].job].got = {} /\ ls[q[i].job].clean
        /\ \A n \in DOMAIN cl : (cl[n].job = q[i].job) <=> (n = q[i].round)
    BY <1>2 DEF Asked
  <2> QED  BY <1>4, <2>1 DEF Forgets
<1>8. Served(s, out, cl2)
  BY <1>2 DEF Served, Forgets
<1>9. Answers(s, out, cl2, ls2, late)
  <2> SUFFICES ASSUME NEW i \in DOMAIN out, out[i].type = "done", out[i].round \in DOMAIN cl2
               PROVE  /\ \A x \in s.xfers : x.to # cl2[out[i].round].job
                      /\ out[i].ok => Complete(ls2[cl2[out[i].round].job], late)
    BY <1>2 DEF Answers
  <2>1. out[i].round \in DOMAIN cl /\ cl2[out[i].round].job = cl[out[i].round].job
    BY DEF Forgets
  <2>2. cl[out[i].round].job \in Loads /\ Begun(ls[cl[out[i].round].job])
    BY <2>1 DEF Waits, Begun
  <2> QED  BY <1>2, <1>4, <2>1, <2>2 DEF Answers
<1>10. alive2 => Current(s, q, out, cl2)
  BY <1>2 DEF Forgets, Current
<1> QED  BY <1>1, <1>2, <1>5, <1>6, <1>7, <1>8, <1>9, <1>10 DEF Sound

\* The client waits no longer for its round n; its load has the state new.
Ended(cl, cl2, n, ls, ls2, new) ==
    /\ DOMAIN cl2 = DOMAIN cl \ {n} /\ \A m \in DOMAIN cl2 : cl2[m].job = cl[m].job
    /\ \A j \in Loads : j # cl[n].job => ls2[j] = ls[j]
    /\ ls2[cl[n].job].state = new /\ ls2[cl[n].job].keys = ls[cl[n].job].keys
    /\ ls2[cl[n].job].got = ls[cl[n].job].got /\ ls2[cl[n].job].clean = ls[cl[n].job].clean

\* on_transfer_done with success: nothing is left of the round.
LEMMA SucceededSound ==
    ASSUME NEW s, NEW q, NEW tc, tc \in Seq(Reply), tc # <<>>, NEW cl, NEW ls, NEW late, NEW alive,
           Sound(s, q, tc, cl, ls, late, alive), s.sent = <<>>, Waits(cl, ls),
           NEW n, Done(tc[1], n), n \in DOMAIN cl, tc[1].ok,
           NEW cl2, NEW ls2, Ended(cl, cl2, n, ls, ls2, "ok")
    PROVE  Sound(s, q, Tail(tc), cl2, ls2, late, alive) /\ Complete(ls[cl[n].job], late)
<1>1. tc \o s.sent = tc /\ Tail(tc) \in Seq(Reply) /\ Tail(tc) \o s.sent = Tail(tc) /\ 1 \in DOMAIN tc
  BY ReadPart
<1>2. /\ IsServer(s) /\ Pins(s) /\ Shares(s, ls) /\ (late \/ Held(s, ls))
      /\ Asked(s, q, tc, cl, ls) /\ Served(s, tc, cl) /\ Answers(s, tc, cl, ls, late)
      /\ alive => Current(s, q, tc, cl)
  BY <1>1 DEF Sound
<1>3. PICK out : out = Tail(tc)
  OBVIOUS
<1>4. Part(out, tc) /\ \A k \in DOMAIN out : \E i \in DOMAIN tc : i # 1 /\ out[k] = tc[i]
  BY <1>3, ReadPart
<1>5. /\ Asked(s, q, out, cl, ls) /\ Served(s, out, cl) /\ Answers(s, out, cl, ls, late)
      /\ alive => Current(s, q, out, cl)
  BY <1>2, <1>4, FewerReplies
<1>6. PICK j : j = cl[n].job
  OBVIOUS
<1>7. /\ j \in Loads /\ ls[j].state = "wait" /\ \A m \in DOMAIN cl : m # n => cl[m].job # j
  BY <1>6 DEF Waits
<1>8. /\ tc[1].type = "done" /\ tc[1].round = n
  BY DEF Done
<1>9. /\ \A k \in DOMAIN tc : Done(tc[k], n) => k = 1
      /\ \A x \in s.xfers : x.to # j
      /\ Complete(ls[j], late)
  BY <1>1, <1>2, <1>6, <1>8 DEF Answers
<1>10. \A k \in DOMAIN out : ~Done(out[k], n)
  BY <1>4, <1>9
<1>11. n \notin Open(s) /\ \A m \in Open(s) : s.rounds[m].job # j
  BY <1>1, <1>2, <1>6 DEF Served
<1>12. \A i \in DOMAIN q : Fetching(q[i]) => q[i].round # n /\ q[i].job # j
  BY <1>1, <1>2, <1>6 DEF Asked
<1>13. \A i \in Loads : i # j => ls2[i] = ls[i]
  BY <1>6 DEF Ended
<1>14. DOMAIN cl2 = DOMAIN cl \ {n} /\ \A m \in DOMAIN cl2 : cl2[m].job = cl[m].job
  BY DEF Ended
<1>15. Shares(s, ls2)
  <2>1. \A m \in Open(s) : ls2[s.rounds[m].job] = ls[s.rounds[m].job]
    BY <1>2, <1>11, <1>13 DEF Shares
  <2>2. \A x \in s.xfers : ls2[x.to] = ls[x.to]
    BY <1>2, <1>9, <1>13 DEF IsServer, IsXfer
  <2> QED  BY <1>2, <2>1, <2>2 DEF Shares
<1>16. late \/ Held(s, ls2)
  BY <1>2, <1>11, <1>13 DEF Held, Shares
<1>17. Asked(s, q, out, cl2, ls2)
  <2> SUFFICES ASSUME NEW i \in DOMAIN q, Fetching(q[i])
               PROVE  /\ Begun(ls2[q[i].job]) /\ ls2[q[i].job].keys = q[i].keys
                      /\ ls2[q[i].job].got = {} /\ ls2[q[i].job].clean
                      /\ \A m \in DOMAIN cl2 : (cl2[m].job = q[i].job) <=> (m = q[i].round)
    BY <1>5 DEF Asked
  <2>1. /\ q[i].job \in Loads /\ Begun(ls[q[i].job]) /\ ls[q[i].job].keys = q[i].keys
        /\ ls[q[i].job].got = {} /\ ls[q[i].job].clean
        /\ \A m \in DOMAIN cl : (cl[m].job = q[i].job) <=> (m = q[i].round)
    BY <1>5 DEF Asked
  <2>2. ls2[q[i].job] = ls[q[i].job]
    BY <1>12, <1>13, <2>1
  <2> QED  BY <1>14, <2>1, <2>2
<1>18. Served(s, out, cl2)
  BY <1>5, <1>14 DEF Served
<1>19. Answers(s, out, cl2, ls2, late)
  <2> SUFFICES ASSUME NEW i \in DOMAIN out, out[i].type = "done", out[i].round \in DOMAIN cl2
               PROVE  /\ \A x \in s.xfers : x.to # cl2[out[i].round].job
                      /\ out[i].ok => Complete(ls2[cl2[out[i].round].job], late)
    BY <1>5 DEF Answers
  <2>1. out[i].round \in DOMAIN cl /\ out[i].round # n /\ cl2[out[i].round].job = cl[out[i].round].job
    BY <1>14
  <2>2. cl[out[i].round].job \in Loads /\ cl[out[i].round].job # j
    BY <1>7, <2>1 DEF Waits
  <2>3. ls2[cl[out[i].round].job] = ls[cl[out[i].round].job]
    BY <1>13, <2>2
  <2> QED  BY <1>5, <2>1, <2>3 DEF Answers
<1>20. alive => Current(s, q, out, cl2)
  <2> SUFFICES ASSUME alive PROVE Current(s, q, out, cl2)
    OBVIOUS
  <2>1. Current(s, q, out, cl)
    BY <1>5
  <2>2. \A i \in DOMAIN q : Fetching(q[i]) => q[i].round \in DOMAIN cl2
    BY <1>12, <1>14, <2>1 DEF Current
  <2>3. Open(s) \subseteq DOMAIN cl2
    BY <1>11, <1>14, <2>1 DEF Current
  <2>4. \A i \in DOMAIN out : out[i].type = "done" => out[i].round \in DOMAIN cl2
    BY <1>10, <1>14, <2>1 DEF Current, Done
  <2> QED  BY <2>2, <2>3, <2>4 DEF Current
<1>21. out \o s.sent = out
  BY <1>1, <1>3
<1>22. Sound(s, q, out, cl2, ls2, late, alive)
  BY <1>2, <1>15, <1>16, <1>17, <1>18, <1>19, <1>20, <1>21 DEF Sound
<1> QED  BY <1>3, <1>6, <1>9, <1>22

\* The client starts the load j as its round n.
Starting(cl, cl2, n, j, keys, ls, ls2) ==
    /\ n \in Nat \ DOMAIN cl /\ DOMAIN cl2 = DOMAIN cl \cup {n}
    /\ cl2[n].job = j /\ \A m \in DOMAIN cl : cl2[m].job = cl[m].job
    /\ j \in Loads /\ ls[j].state = "unused" /\ keys \in SUBSET Keys /\ keys # {}
    /\ ls2[j] = [state |-> "wait", keys |-> keys, got |-> {}, clean |-> TRUE]
    /\ \A i \in Loads : i # j => ls2[i] = ls[i]

\* A load that is not used yet is nobody's, so the new round is only its.
LEMMA StartingSound ==
    ASSUME NEW s, NEW q, NEW tc, NEW cl, NEW ls, NEW late,
           Sound(s, q, tc, cl, ls, late, TRUE), Waits(cl, ls),
           NEW cl2, NEW ls2, NEW n, NEW j, NEW keys, Starting(cl, cl2, n, j, keys, ls, ls2)
    PROVE  /\ Sound(s, q, tc, cl2, ls2, late, TRUE)
           /\ n \notin Open(s) /\ \A m \in Open(s) : s.rounds[m].job # j
           /\ \A x \in s.xfers : x.to # j
           /\ \A i \in DOMAIN q : Fetching(q[i]) => q[i].round # n /\ q[i].job # j
           /\ \A k \in DOMAIN (tc \o s.sent) : ~Done((tc \o s.sent)[k], n)
<1>1. PICK out : out = tc \o s.sent
  OBVIOUS
<1>2. /\ IsServer(s) /\ Pins(s) /\ Shares(s, ls) /\ (late \/ Held(s, ls))
      /\ Asked(s, q, out, cl, ls) /\ Served(s, out, cl) /\ Answers(s, out, cl, ls, late)
      /\ Current(s, q, out, cl)
  BY <1>1 DEF Sound
<1>3. /\ j \in Loads /\ ~Begun(ls[j]) /\ n \notin DOMAIN cl /\ DOMAIN cl2 = DOMAIN cl \cup {n}
      /\ cl2[n].job = j /\ \A m \in DOMAIN cl : cl2[m].job = cl[m].job
      /\ \A i \in Loads : i # j => ls2[i] = ls[i]
  BY DEF Starting, Begun
<1>4. n \notin Open(s) /\ \A m \in Open(s) : s.rounds[m].job # j /\ s.rounds[m].job \in Loads
  BY <1>2, <1>3 DEF Shares, Current
<1>5. \A x \in s.xfers : x.to # j /\ x.to \in Loads
  BY <1>2, <1>3 DEF Shares, IsServer, IsXfer
<1>6. \A i \in DOMAIN q : Fetching(q[i]) => q[i].round # n /\ q[i].job # j /\ q[i].job \in Loads
  BY <1>2, <1>3 DEF Asked, Current
<1>7. \A k \in DOMAIN out : ~Done(out[k], n)
  BY <1>2, <1>3 DEF Current, Done
<1>8. \A m \in DOMAIN cl : cl[m].job \in Loads /\ cl[m].job # j
  BY <1>3 DEF Waits, Begun, Starting
<1>9. Shares(s, ls2)
  <2>1. \A m \in Open(s) : ls2[s.rounds[m].job] = ls[s.rounds[m].job]
    BY <1>3, <1>4
  <2>2. \A x \in s.xfers : ls2[x.to] = ls[x.to]
    BY <1>3, <1>5
  <2> QED  BY <1>2, <2>1, <2>2 DEF Shares
<1>10. late \/ Held(s, ls2)
  BY <1>2, <1>3, <1>4 DEF Held
<1>11. Asked(s, q, out, cl2, ls2)
  <2> SUFFICES ASSUME NEW i \in DOMAIN q, Fetching(q[i])
               PROVE  /\ Begun(ls2[q[i].job]) /\ ls2[q[i].job].keys = q[i].keys
                      /\ ls2[q[i].job].got = {} /\ ls2[q[i].job].clean
                      /\ \A m \in DOMAIN cl2 : (cl2[m].job = q[i].job) <=> (m = q[i].round)
    BY <1>2 DEF Asked
  <2>1. /\ q[i].job \in Loads /\ Begun(ls[q[i].job]) /\ ls[q[i].job].keys = q[i].keys
        /\ ls[q[i].job].got = {} /\ ls[q[i].job].clean
        /\ \A m \in DOMAIN cl : (cl[m].job = q[i].job) <=> (m = q[i].round)
    BY <1>2 DEF Asked
  <2>2. ls2[q[i].job] = ls[q[i].job]
    BY <1>3, <1>6, <2>1
  <2> QED  BY <1>3, <1>6, <2>1, <2>2
<1>12. Served(s, out, cl2)
  BY <1>2, <1>3, <1>4 DEF Served
<1>13. Answers(s, out, cl2, ls2, late)
  <2> SUFFICES ASSUME NEW i \in DOMAIN out, out[i].type = "done", out[i].round \in DOMAIN cl2
               PROVE  /\ \A x \in s.xfers : x.to # cl2[out[i].round].job
                      /\ out[i].ok => Complete(ls2[cl2[out[i].round].job], late)
    BY <1>2 DEF Answers
  <2>1. out[i].round \in DOMAIN cl /\ cl2[out[i].round].job = cl[out[i].round].job
    BY <1>2, <1>3 DEF Current
  <2>2. ls2[cl[out[i].round].job] = ls[cl[out[i].round].job]
    BY <1>3, <1>8, <2>1
  <2> QED  BY <1>2, <2>1, <2>2 DEF Answers
<1>14. Current(s, q, out, cl2)
  BY <1>2, <1>3 DEF Current
<1> QED  BY <1>1, <1>2, <1>4, <1>5, <1>6, <1>7, <1>9, <1>10, <1>11, <1>12, <1>13, <1>14 DEF Sound

\* request_blocks: the fetch of the new load is sent.
LEMMA FetchSentSound ==
    ASSUME NEW s, NEW q, q \in Seq(Request), NEW tc, NEW cl, NEW ls, NEW late,
           Sound(s, q, tc, cl, ls, late, TRUE), Waits(cl, ls),
           NEW cl2, NEW ls2, NEW n, NEW j, NEW keys, Starting(cl, cl2, n, j, keys, ls, ls2),
           NEW q2, q2 = q \o <<[type |-> "fetch", keys |-> keys, job |-> j, round |-> n]>>
    PROVE  Sound(s, q2, tc, cl2, ls2, late, TRUE) /\ q2 \in Seq(Request)
<1>1. PICK out : out = tc \o s.sent
  OBVIOUS
<1>2. /\ Sound(s, q, tc, cl2, ls2, late, TRUE)
      /\ n \notin Open(s) /\ \A m \in Open(s) : s.rounds[m].job # j
      /\ \A x \in s.xfers : x.to # j
      /\ \A i \in DOMAIN q : Fetching(q[i]) => q[i].round # n /\ q[i].job # j
      /\ \A k \in DOMAIN out : ~Done(out[k], n)
  <2>1. /\ Sound(s, q, tc, cl2, ls2, late, TRUE)
        /\ n \notin Open(s) /\ \A m \in Open(s) : s.rounds[m].job # j
        /\ \A x \in s.xfers : x.to # j
        /\ \A i \in DOMAIN q : Fetching(q[i]) => q[i].round # n /\ q[i].job # j
        /\ \A k \in DOMAIN (tc \o s.sent) : ~Done((tc \o s.sent)[k], n)
    BY StartingSound
  <2> QED  BY <1>1, <2>1
<1>3. Asked(s, q, out, cl2, ls2) /\ Current(s, q, out, cl2)
  BY <1>1, <1>2 DEF Sound
<1>4. PICK m : m = [type |-> "fetch", keys |-> keys, job |-> j, round |-> n]
  OBVIOUS
<1>5. m \in Request /\ m.round = n /\ m.job = j /\ m.keys = keys /\ Fetching(m)
  BY <1>4 DEF Request, Starting, Loads, Fetching
<1>6. /\ q2 \in Seq(Request)
      /\ \A i \in DOMAIN q2 : (i \in DOMAIN q /\ q2[i] = q[i]) \/ (i = Len(q) + 1 /\ q2[i] = m)
  <2>1. PICK ms : ms = <<m>>
    OBVIOUS
  <2>2. q2 = q \o ms
    BY <1>4, <2>1
  <2>3. ms \in Seq(Request) /\ DOMAIN ms = {1} /\ ms[1] = m
    BY <1>5, <2>1, OneMessage
  <2>4. /\ q2 \in Seq(Request)
        /\ \A i \in DOMAIN q2 : i \in DOMAIN q \/ \E k \in DOMAIN ms : i = Len(q) + k
        /\ \A i \in DOMAIN q : q2[i] = q[i]
        /\ \A i \in DOMAIN ms : q2[Len(q) + i] = ms[i]
    BY <2>2, <2>3, JoinedMessages
  <2>5. ASSUME NEW i \in DOMAIN q2, i \notin DOMAIN q
        PROVE  i = Len(q) + 1 /\ q2[i] = m
    <3>1. PICK k \in DOMAIN ms : i = Len(q) + k
      BY <2>4, <2>5
    <3>2. k = 1
      BY <2>3
    <3> QED  BY <2>3, <2>4, <3>1, <3>2
  <2> QED  BY <2>4, <2>5
<1>7. Len(q) + 1 \notin DOMAIN q
  OBVIOUS
<1>8. /\ j \in Loads /\ Begun(ls2[j]) /\ ls2[j].keys = keys /\ ls2[j].got = {} /\ ls2[j].clean
      /\ \A i \in DOMAIN cl2 : (cl2[i].job = j) <=> (i = n)
  <2>1. \A i \in DOMAIN cl : cl[i].job # j
    BY Zenon DEF Waits, Starting
  <2> QED  BY <2>1 DEF Starting, Begun
<1>9. Asked(s, q2, out, cl2, ls2)
  <2> SUFFICES ASSUME NEW i \in DOMAIN q2, Fetching(q2[i])
               PROVE  /\ q2[i].job \in Loads /\ Begun(ls2[q2[i].job]) /\ ls2[q2[i].job].keys = q2[i].keys
                      /\ ls2[q2[i].job].got = {} /\ ls2[q2[i].job].clean
                      /\ q2[i].round \notin Open(s) /\ \A h \in Open(s) : s.rounds[h].job # q2[i].job
                      /\ \A x \in s.xfers : x.to # q2[i].job
                      /\ \A k \in DOMAIN out : ~Done(out[k], q2[i].round)
                      /\ \A k \in DOMAIN q2 : (Fetching(q2[k]) /\ k # i) =>
                                                q2[k].job # q2[i].job /\ q2[k].round # q2[i].round
                      /\ \A h \in DOMAIN cl2 : (cl2[h].job = q2[i].job) <=> (h = q2[i].round)
    BY DEF Asked
  <2>1. CASE i \in DOMAIN q /\ q2[i] = q[i]
    <3>1. PICK r : r = q[i]
      OBVIOUS
    <3>2. /\ r.job \in Loads /\ Begun(ls2[r.job]) /\ ls2[r.job].keys = r.keys
          /\ ls2[r.job].got = {} /\ ls2[r.job].clean
          /\ r.round \notin Open(s) /\ \A h \in Open(s) : s.rounds[h].job # r.job
          /\ \A x \in s.xfers : x.to # r.job
          /\ \A k \in DOMAIN out : ~Done(out[k], r.round)
          /\ \A h \in DOMAIN cl2 : (cl2[h].job = r.job) <=> (h = r.round)
          /\ r.round # n /\ r.job # j
      <4>1. i \in DOMAIN q /\ Fetching(q[i])
        BY <2>1
      <4>2. q[i].round # n /\ q[i].job # j
        BY <1>2, <4>1
      <4>3. /\ q[i].job \in Loads /\ Begun(ls2[q[i].job]) /\ ls2[q[i].job].keys = q[i].keys
            /\ ls2[q[i].job].got = {} /\ ls2[q[i].job].clean
            /\ q[i].round \notin Open(s) /\ \A h \in Open(s) : s.rounds[h].job # q[i].job
            /\ \A x \in s.xfers : x.to # q[i].job
            /\ \A k \in DOMAIN out : ~Done(out[k], q[i].round)
            /\ \A h \in DOMAIN cl2 : (cl2[h].job = q[i].job) <=> (h = q[i].round)
        BY <1>3, <4>1 DEF Asked
      <4> QED  BY ONLY <3>1, <4>2, <4>3
    <3>3. ASSUME NEW k \in DOMAIN q2, Fetching(q2[k]), k # i
          PROVE  q2[k].job # r.job /\ q2[k].round # r.round
      <4>1. CASE k \in DOMAIN q /\ q2[k] = q[k]
        BY <1>3, <2>1, <3>1, <3>3, <4>1 DEF Asked
      <4>2. CASE q2[k] = m
        BY <1>5, <3>2, <4>2
      <4> QED  BY <1>6, <4>1, <4>2
    <3>4. q2[i] = r
      BY <2>1, <3>1
    <3> QED  BY <3>2, <3>3, <3>4
  <2>2. CASE i = Len(q) + 1 /\ q2[i] = m
    <3>1. ASSUME NEW k \in DOMAIN q2, Fetching(q2[k]), k # i
          PROVE  q2[k].job # j /\ q2[k].round # n
      BY <1>2, <1>6, <2>2, <3>1
    <3> QED  BY <1>2, <1>5, <1>8, <2>2, <3>1
  <2> QED  BY <1>6, <2>1, <2>2
<1>10. Current(s, q2, out, cl2)
  <2>1. n \in DOMAIN cl2
    BY DEF Starting
  <2> QED  BY <1>3, <1>5, <1>6, <2>1 DEF Current
<1>11. Sound(s, q2, tc, cl2, ls2, late, TRUE)
  BY <1>1, <1>2, <1>9, <1>10 DEF Sound
<1> QED  BY <1>6, <1>11

\* From s to u only pins go.
Unpins(s, u) ==
    /\ u = [rounds |-> s.rounds, queue |-> s.queue, parked |-> s.parked, aborts |-> s.aborts,
            stores |-> u.stores, xfers |-> s.xfers, sent |-> s.sent]
    /\ u.stores \subseteq s.stores

\* Once a store timed out, nothing depends on the pins.
LEMMA LateSound ==
    ASSUME NEW s, NEW q, NEW tc, NEW cl, NEW ls, NEW late, NEW alive,
           Sound(s, q, tc, cl, ls, late, alive), NEW u, Unpins(s, u)
    PROVE  Sound(u, q, tc, cl, ls, TRUE, alive) /\ S!UsedIds(u) \subseteq S!UsedIds(s)
<1>1. PICK out : out = tc \o s.sent
  OBVIOUS
<1>2. /\ IsServer(s) /\ Pins(s) /\ Shares(s, ls)
      /\ Asked(s, q, out, cl, ls) /\ Served(s, out, cl) /\ Answers(s, out, cl, ls, late)
      /\ alive => Current(s, q, out, cl)
  BY <1>1 DEF Sound
<1>3. /\ u.rounds = s.rounds /\ u.queue = s.queue /\ u.parked = s.parked /\ u.aborts = s.aborts
      /\ u.xfers = s.xfers /\ u.sent = s.sent /\ u.stores \subseteq s.stores
  BY DEF Unpins
<1>4. S!UsedIds(u) \subseteq S!UsedIds(s)
  BY <1>3 DEF S!UsedIds
<1>5. IsServer(u)
  <2>1. IsFiniteSet(S!UsedIds(u))
    BY <1>2, <1>4, FewerIds
  <2>2. u = [rounds |-> u.rounds, queue |-> u.queue, parked |-> u.parked, aborts |-> u.aborts,
             stores |-> u.stores, xfers |-> u.xfers, sent |-> u.sent]
    BY <1>3 DEF Unpins
  <2>3. u.stores \in SUBSET Nat
    BY <1>2, <1>3 DEF IsServer
  <2> QED  BY <1>2, <1>3, <2>1, <2>2, <2>3 DEF IsServer
<1>6. Open(u) = Open(s)
  BY <1>3 DEF Open
<1>7. Pins(u) /\ Shares(u, ls)
  BY <1>2, <1>3, <1>6 DEF Pins, Shares
<1>8. Answers(s, out, cl, ls, TRUE)
  BY <1>2 DEF Answers, Complete
<1>9. Asked(u, q, out, cl, ls)
  BY <1>2, <1>3, <1>6 DEF Asked
<1>10. Served(u, out, cl)
  BY <1>2, <1>3, <1>6 DEF Served
<1>11. Answers(u, out, cl, ls, TRUE)
  BY <1>3, <1>8 DEF Answers
<1>12. alive => Current(u, q, out, cl)
  BY <1>2, <1>6 DEF Current
<1> QED  BY <1>1, <1>3, <1>4, <1>5, <1>7, <1>9, <1>10, <1>11, <1>12 DEF Sound

\* close() of the server's session: nothing is left.
LEMMA FreshSound ==
    ASSUME NEW s, NEW q, NEW tc, tc \in Seq(Reply), NEW cl, NEW ls, NEW late, NEW alive,
           LoadsAreSound(ls, late), Sound(s, q, tc, cl, ls, late, alive), s.sent = <<>>
    PROVE  Sound(S!FreshServer, q, tc, cl, ls, late, alive) /\ S!UsedIds(S!FreshServer) = {}
<1>1. PICK u : u = S!FreshServer
  OBVIOUS
<1>2. /\ u = [rounds |-> u.rounds, queue |-> u.queue, parked |-> u.parked, aborts |-> u.aborts,
              stores |-> u.stores, xfers |-> u.xfers, sent |-> u.sent]
      /\ DOMAIN u.rounds = {} /\ u.queue = <<>> /\ u.parked = <<>> /\ u.aborts = {}
      /\ u.stores = {} /\ u.xfers = {} /\ u.sent = <<>>
  BY <1>1 DEF S!FreshServer
<1>3. Shrinks(s, u)
  BY <1>2 DEF Shrinks
<1>4. /\ u.queue \in Seq(Lookup) /\ u.parked \in Seq(Lookup) /\ u.aborts \in SUBSET Nat
      /\ \A n \in DOMAIN u.rounds : IsRound(u.rounds[n])
      /\ \A x \in u.xfers : IsXfer(x)
  BY <1>2
<1>5. u.sent = s.sent
  BY <1>2
<1>6. Sound(u, q, tc, cl, ls, late, alive)
  BY <1>2, <1>3, <1>4, <1>5, QuietSound
<1>7. S!UsedIds(u) = {}
  BY <1>2 DEF S!UsedIds
<1> QED  BY <1>1, <1>6, <1>7

-----------------------------------------------------------------------------
(***************************************************************************)
(* The inductive invariant.                                                 *)
(***************************************************************************)

Late == used["storeTimeouts"] > 0
Alive == phase # "finished" /\ ~failedReq /\ session["client"]

LoadRecords == [state : LoadStates, keys : SUBSET Keys, got : SUBSET Keys, clean : BOOLEAN]

Shape ==
    /\ workload \in Workloads /\ used \in [Faults -> Nat]
    /\ session \in [{"client", "server"} -> BOOLEAN]
    /\ connected \in BOOLEAN /\ failedReq \in BOOLEAN /\ bound \in BOOLEAN
    /\ loads \in [Loads -> LoadRecords]
    /\ toServer \in Seq(Request) /\ toClient \in Seq(Reply)
    /\ server.sent = <<>>

\* The client's entry; rounds in flight are older than its current one.
ClientIs(c, ls) ==
    /\ c = [probes |-> c.probes, unsent |-> c.unsent, round |-> c.round, open |-> c.open,
            loads |-> c.loads]
    /\ c.unsent \in SUBSET Keys /\ c.round \in Nat /\ c.open \in BOOLEAN
    /\ c.loads = [n \in DOMAIN c.loads |-> c.loads[n]]
    /\ \A n \in DOMAIN c.loads : /\ n \in 0..(c.round - 1)
                                 /\ c.loads[n] \in [job : Loads, aborting : BOOLEAN]
    /\ Waits(c.loads, ls)

\* The empty fetch is the last of the request.
Ends ==
    /\ phase = "finished" => DOMAIN client.loads = {}
    /\ \A i \in DOMAIN toServer : (toServer[i].type = "fetch" /\ toServer[i].keys = {}) => phase = "finished"

\* Only a request that probes looks up, and only a prefilled one has stores of its own.
Modes ==
    /\ workload.mode = "prefill" => /\ client.unsent = {} /\ server.queue = <<>> /\ server.parked = <<>>
                                    /\ \A i \in DOMAIN toServer : toServer[i].type # "lookup"
    /\ workload.mode # "prefill" => unbound = <<>>

\* What the client can still expect of the server for its round n.
Promises(s, ts, tc, cl) ==
    \A n \in DOMAIN cl : Asking(ts, n) \/ Owed(s, tc, n, cl[n].job)

Inv ==
    /\ Shape /\ Ends /\ Modes /\ Fresh(server, unbound) /\ ClientIs(client, loads)
    /\ LoadsAreSound(loads, Late)
    /\ Sound(server, toServer, toClient, client.loads, loads, Late, Alive)
    /\ connected => Promises(server, toServer, toClient, client.loads)

\* The invariant's last part is what NoLoadIsForgotten says.
LEMMA InvPromises == Inv => NoLoadIsForgotten
<1> SUFFICES ASSUME Inv, connected, NEW n \in DOMAIN client.loads
             PROVE  Promised(n)
  BY DEF NoLoadIsForgotten
<1>1. Asking(toServer, n) \/ Owed(server, toClient, n, client.loads[n].job)
  BY DEF Inv, Promises
<1> QED  BY <1>1 DEF Promised, Asking, Owed, Open

\* The loads that ended well are complete.
LEMMA InvComplete == Inv => SuccessMeansWritten
BY DEF Inv, LoadsAreSound, Complete, Late, SuccessMeansWritten

\* The invariant holds at first.
LEMMA InitInv == Init => Inv
<1> SUFFICES ASSUME Init PROVE Inv
  OBVIOUS
<1>1. client = C!FreshClient /\ server = S!FreshServer /\ toServer = <<>> /\ toClient = <<>>
  BY DEF Init
<1>2. /\ client.probes = [k \in {} |-> "none"] /\ client.unsent = {} /\ client.round = 0
      /\ client.open = FALSE /\ client.loads = [n \in {} |-> [job |-> 0, aborting |-> FALSE]]
      /\ DOMAIN client.loads = {}
      /\ client = [probes |-> client.probes, unsent |-> client.unsent, round |-> client.round,
                   open |-> client.open, loads |-> client.loads]
  BY <1>1 DEF C!FreshClient
<1>3. /\ server = [rounds |-> server.rounds, queue |-> server.queue, parked |-> server.parked,
                   aborts |-> server.aborts, stores |-> server.stores, xfers |-> server.xfers,
                   sent |-> server.sent]
      /\ DOMAIN server.rounds = {} /\ server.queue = <<>> /\ server.parked = <<>>
      /\ server.aborts = {} /\ server.stores = {} /\ server.xfers = {} /\ server.sent = <<>>
  BY <1>1 DEF S!FreshServer
<1>4. \A j \in Loads : loads[j] = [state |-> "unused", keys |-> {}, got |-> {}, clean |-> TRUE]
  BY DEF Init, Unused
<1>5. Shape
  <2>1. loads \in [Loads -> LoadRecords]
    BY DEF Init, Unused, LoadRecords, LoadStates
  <2>2. used \in [Faults -> Nat]
    BY DEF Init
  <2>3. session \in [{"client", "server"} -> BOOLEAN]
    BY DEF Init
  <2>4. toServer \in Seq(Request) /\ toClient \in Seq(Reply)
    BY <1>1
  <2>5. /\ workload \in Workloads /\ connected \in BOOLEAN /\ failedReq \in BOOLEAN
        /\ bound \in BOOLEAN
    BY DEF Init
  <2> QED  BY <1>3, <2>1, <2>2, <2>3, <2>4, <2>5 DEF Shape
<1>6. Ends /\ Modes
  BY <1>1, <1>2, <1>3 DEF Ends, Modes, Init
<1>7. Fresh(server, unbound)
  BY DEF Fresh, Init
<1>8. ClientIs(client, loads)
  <2>1. client.loads = [n \in DOMAIN client.loads |-> client.loads[n]]
    BY <1>2
  <2>2. Waits(client.loads, loads)
    BY <1>2 DEF Waits
  <2>3. client.unsent \in SUBSET Keys /\ client.round \in Nat /\ client.open \in BOOLEAN
    <3>1. client.open \in BOOLEAN
      <4>1. client.open = FALSE
        BY <1>2
      <4>2. FALSE \in BOOLEAN
        OBVIOUS
      <4> QED  BY Zenon, <4>1, <4>2
    <3>2. client.unsent = {} /\ client.round = 0
      BY <1>2
    <3> QED  BY <3>1, <3>2
  <2>4. \A n \in DOMAIN client.loads : /\ n \in 0..(client.round - 1)
                                       /\ client.loads[n] \in [job : Loads, aborting : BOOLEAN]
    BY <1>2
  <2>5. client = [probes |-> client.probes, unsent |-> client.unsent, round |-> client.round,
                  open |-> client.open, loads |-> client.loads]
    BY <1>2
  <2> QED  BY <2>1, <2>2, <2>3, <2>4, <2>5 DEF ClientIs
<1>9. LoadsAreSound(loads, Late)
  <2> SUFFICES ASSUME NEW j \in Loads
               PROVE  /\ loads[j].keys \in SUBSET Keys /\ loads[j].got \subseteq loads[j].keys
                      /\ loads[j].clean \in BOOLEAN /\ loads[j].state \in LoadStates
                      /\ loads[j].state = "ok" => Complete(loads[j], Late)
    BY DEF LoadsAreSound
  <2>1. /\ loads[j].state = "unused" /\ loads[j].keys = {} /\ loads[j].got = {}
        /\ loads[j].clean = TRUE
    BY <1>4
  <2> QED  BY <2>1 DEF LoadStates
<1>10. DOMAIN (toClient \o server.sent) = {}
  BY <1>1, <1>3
<1>11. PICK out : out = toClient \o server.sent
  OBVIOUS
<1>12. IsServer(server)
  <2>1. S!UsedIds(server) = {}
    BY <1>3 DEF S!UsedIds
  <2> QED  BY <1>3, <2>1, FS_EmptySet DEF IsServer
<1>13. Pins(server) /\ Shares(server, loads) /\ Held(server, loads)
  BY <1>3 DEF Pins, Shares, Held, Open
<1>14. /\ Asked(server, toServer, out, client.loads, loads) /\ Served(server, out, client.loads)
       /\ Answers(server, out, client.loads, loads, Late)
       /\ Current(server, toServer, out, client.loads)
  BY <1>1, <1>3, <1>10, <1>11 DEF Asked, Served, Answers, Current, Open
<1>15. Sound(server, toServer, toClient, client.loads, loads, Late, Alive)
  BY <1>11, <1>12, <1>13, <1>14 DEF Sound
<1>16. Promises(server, toServer, toClient, client.loads)
  BY <1>2 DEF Promises
<1> QED  BY <1>5, <1>6, <1>7, <1>8, <1>9, <1>15, <1>16 DEF Inv

-----------------------------------------------------------------------------
(***************************************************************************)
(* The steps of the server's engine.                                        *)
(***************************************************************************)

\* Every request of q2 is one of q.
Remains(q2, q) == q2 \in Seq(Request) /\ \A i \in DOMAIN q2 : \E k \in DOMAIN q : q2[i] = q[k]

\* What the server's engine leaves alone.
ServerEngine ==
    /\ client' = client /\ phase' = phase /\ failedReq' = failedReq
    /\ workload' = workload /\ session' = session
    /\ connected' \in BOOLEAN /\ bound' \in BOOLEAN
    /\ used' \in [Faults -> Nat] /\ used'["storeTimeouts"] = used["storeTimeouts"]
    /\ loads' \in [Loads -> LoadRecords] /\ \A j \in Loads : loads'[j].state = loads[j].state
    /\ Remains(toServer', toServer)

\* Lookups are only there when the request probes, stores only when it does not.
Kinds(s, batches) ==
    /\ workload.mode = "prefill" => s.queue = <<>> /\ s.parked = <<>>
    /\ workload.mode # "prefill" => batches = <<>>

\* What a handler that ends in s sends is on its way or lost.
LEMMA SentPosts ==
    ASSUME NEW s, IsServer(s), Becomes(s), toClient \in Seq(Reply)
    PROVE  /\ Posts(s, server') /\ (toClient' = toClient \/ toClient' = toClient \o s.sent)
           /\ connected => toClient' = toClient \o s.sent
           /\ S!UsedIds(server') = S!UsedIds(s)
           /\ server'.sent = <<>> /\ server'.queue = s.queue /\ server'.parked = s.parked
<1>1. server' = [s EXCEPT !.sent = <<>>] /\ toClient' = IF connected THEN toClient \o s.sent ELSE toClient
  BY DEF Becomes, Sends
<1>2. PICK u : u = server'
  OBVIOUS
<1>3. s = [rounds |-> s.rounds, queue |-> s.queue, parked |-> s.parked, aborts |-> s.aborts,
           stores |-> s.stores, xfers |-> s.xfers, sent |-> s.sent]
  BY DEF IsServer
<1>4. PICK none : none = <<>>
  OBVIOUS
<1>5. u = [s EXCEPT !.sent = none]
  BY <1>1, <1>2, <1>4
<1>6. u = [rounds |-> s.rounds, queue |-> s.queue, parked |-> s.parked, aborts |-> s.aborts,
           stores |-> s.stores, xfers |-> s.xfers, sent |-> none]
  BY ONLY <1>3, <1>5
<1>7. /\ u.rounds = s.rounds /\ u.queue = s.queue /\ u.parked = s.parked /\ u.aborts = s.aborts
      /\ u.stores = s.stores /\ u.xfers = s.xfers /\ u.sent = none
  BY ONLY <1>6
<1>8. Posts(s, u)
  BY <1>4, <1>6, <1>7 DEF Posts
<1>9. S!UsedIds(u) = S!UsedIds(s)
  BY <1>7 DEF S!UsedIds
<1> QED  BY <1>1, <1>2, <1>4, <1>7, <1>8, <1>9

\* What a step of the server's engine has to keep.
LEMMA ServerActs ==
    ASSUME Inv, NEW s, Becomes(s), ServerEngine, LoadsAreSound(loads', Late),
           Sound(s, toServer', toClient, client.loads, loads', Late, Alive),
           Fresh(s, unbound'), Kinds(s, unbound'),
           connected' => Promises(server', toServer', toClient', client.loads)
    PROVE  Inv'
<1>1. /\ Shape /\ Ends /\ Modes /\ ClientIs(client, loads)
  BY DEF Inv
<1>2. Late' = Late /\ Alive' = Alive
  BY DEF ServerEngine, Late, Alive
<1>3. IsServer(s) /\ toClient \in Seq(Reply)
  BY <1>1 DEF Sound, Shape
<1>4. /\ Posts(s, server') /\ (toClient' = toClient \/ toClient' = toClient \o s.sent)
      /\ S!UsedIds(server') = S!UsedIds(s)
      /\ server'.sent = <<>> /\ server'.queue = s.queue /\ server'.parked = s.parked
  BY <1>3, SentPosts
<1>5. PICK q, tc2, cl, ls, late, alive, u :
         /\ q = toServer' /\ tc2 = toClient' /\ cl = client.loads /\ ls = loads' /\ late = Late
         /\ alive = Alive /\ u = server'
  OBVIOUS
<1>6. Sound(u, q, tc2, cl, ls, late, alive) /\ tc2 \in Seq(Reply)
  <2>1. Sound(s, q, toClient, cl, ls, late, alive) /\ Posts(s, u)
    BY <1>4, <1>5
  <2>2. tc2 = toClient \/ tc2 = toClient \o s.sent
    BY <1>4, <1>5
  <2>3. PICK tc : tc = toClient
    OBVIOUS
  <2>4. tc \in Seq(Reply) /\ Sound(s, q, tc, cl, ls, late, alive) /\ (tc2 = tc \/ tc2 = tc \o s.sent)
    BY <1>3, <2>1, <2>2, <2>3
  <2> QED  BY <2>1, <2>4, PostedSound
<1>7. Sound(server', toServer', toClient', client'.loads, loads', Late', Alive')
  BY <1>2, <1>5, <1>6 DEF ServerEngine
<1>8. Shape'
  BY <1>1, <1>4, <1>5, <1>6 DEF Shape, ServerEngine, Remains
<1>9. Ends'
  BY <1>1 DEF Ends, ServerEngine, Remains
<1>10. Modes'
  <2>1. workload'.mode = "prefill" =>
           /\ client'.unsent = {} /\ server'.queue = <<>> /\ server'.parked = <<>>
           /\ \A i \in DOMAIN toServer' : toServer'[i].type # "lookup"
    BY <1>1, <1>4 DEF Modes, ServerEngine, Remains, Kinds
  <2>2. workload'.mode # "prefill" => unbound' = <<>>
    BY DEF ServerEngine, Kinds
  <2> QED  BY <2>1, <2>2 DEF Modes
<1>11. Fresh(server', unbound')
  BY <1>4 DEF Fresh
<1>12. ClientIs(client', loads')
  BY <1>1 DEF ClientIs, Waits, ServerEngine
<1>13. LoadsAreSound(loads', Late')
  BY <1>2
<1>14. connected' => Promises(server', toServer', toClient', client'.loads)
  BY DEF ServerEngine
<1> QED  BY <1>7, <1>8, <1>9, <1>10, <1>11, <1>12, <1>13, <1>14 DEF Inv

\* What is promised stays promised by a handler that keeps promises.
LEMMA KeptPromises ==
    ASSUME Inv, connected, NEW s, Becomes(s), IsServer(s), Keeps(server, s), NEW n, NEW job,
           Owed(server, toClient, n, job) \/ Takes(s, n, job)
    PROVE  Owed(server', toClient', n, job)
<1>1. toClient \in Seq(Reply) /\ server.sent = <<>> /\ s.sent \in Seq(Reply)
  BY DEF Inv, Shape, IsServer
<1>2. Posts(s, server') /\ toClient' = toClient \o s.sent
  BY <1>1, SentPosts
<1>3. PICK u, tc, tc2, v : u = server /\ tc = toClient /\ tc2 = toClient' /\ v = server'
  OBVIOUS
<1>4. /\ tc \in Seq(Reply) /\ u.sent = <<>> /\ Keeps(u, s) /\ Posts(s, v) /\ tc2 = tc \o s.sent
      /\ Owed(u, tc, n, job) \/ Takes(s, n, job)
  BY <1>1, <1>2, <1>3
<1>5. Owed(v, tc2, n, job)
  BY <1>1, <1>4, OwedOn
<1> QED  BY <1>3, <1>5

\* The server does nothing.
LEMMA Idle ==
    ASSUME Inv, server' = server, toClient' = toClient
    PROVE  Becomes(server)
<1>1. toClient \in Seq(Reply) /\ server.sent = <<>> /\ IsServer(server)
  BY DEF Inv, Shape, Sound
<1>2. Sends(toClient, server.sent) = toClient
  BY <1>1 DEF Sends
<1>3. [server EXCEPT !.sent = <<>>] = server
  <2>1. PICK none : none = <<>>
    OBVIOUS
  <2>2. PICK u : u = [server EXCEPT !.sent = none]
    OBVIOUS
  <2>3. server = [rounds |-> server.rounds, queue |-> server.queue, parked |-> server.parked,
                  aborts |-> server.aborts, stores |-> server.stores, xfers |-> server.xfers,
                  sent |-> server.sent]
    BY <1>1 DEF IsServer
  <2>4. server.sent = none
    BY <1>1, <2>1
  <2>5. u = [rounds |-> server.rounds, queue |-> server.queue, parked |-> server.parked,
             aborts |-> server.aborts, stores |-> server.stores, xfers |-> server.xfers,
             sent |-> none]
    BY ONLY <2>2, <2>3
  <2>6. u = server
    BY ONLY <2>3, <2>4, <2>5
  <2> QED  BY <2>1, <2>2, <2>6
<1> QED  BY <1>2, <1>3 DEF Becomes

\* A server keeps what it has.
LEMMA KeepsAll == ASSUME NEW s PROVE Keeps(s, s)
BY DEF Keeps

\* A handler that settles adds neither jobs nor lookups.
LEMMA SettledKinds ==
    ASSUME Inv, NEW s, Settles(server, s)
    PROVE  Fresh(s, unbound) /\ Kinds(s, unbound)
BY DEF Inv, Fresh, Modes, Kinds, Settles

\* A handler that reads no message and keeps what it promised.
LEMMA ServerStays ==
    ASSUME Inv, NEW s, Becomes(s), ServerEngine, toServer' = toServer, connected' = connected,
           LoadsAreSound(loads', Late),
           Goes(server, s, toServer, toClient, client.loads, loads', Late, Alive),
           Fresh(s, unbound'), Kinds(s, unbound')
    PROVE  Inv'
<1>1. /\ Sound(s, toServer', toClient, client.loads, loads', Late, Alive)
      /\ Keeps(server, s) /\ IsServer(s)
  BY DEF Goes, Sound
<1>2. connected' => Promises(server', toServer', toClient', client.loads)
  <2> SUFFICES ASSUME connected, NEW n \in DOMAIN client.loads
               PROVE  Asking(toServer, n) \/ Owed(server', toClient', n, client.loads[n].job)
    BY DEF Promises
  <2>1. Asking(toServer, n) \/ Owed(server, toClient, n, client.loads[n].job)
    BY DEF Inv, Promises
  <2> QED  BY <1>1, <2>1, KeptPromises
<1> QED  BY <1>1, <1>2, ServerActs

\* What else the client asks for when a message is read.
LEMMA AskedOn ==
    ASSUME NEW ts, ts \in Seq(Request), ts # <<>>, NEW n, Asking(ts, n)
    PROVE  \/ Asking(Tail(ts), n)
           \/ Head(ts).round = n /\ Head(ts).type \in {"fetch", "abort"}
<1>1. Len(ts) \in Nat /\ Len(ts) # 0 /\ DOMAIN ts = 1..Len(ts) /\ Tail(ts) \in Seq(Request)
      /\ Head(ts) = ts[1]
  BY EmptySeq
<1>2. DOMAIN Tail(ts) = 1..(Len(ts) - 1) /\ \A i \in 1..(Len(ts) - 1) : Tail(ts)[i] = ts[i + 1]
  BY <1>1
<1>3. PICK i \in DOMAIN ts : ts[i].round = n /\ ts[i].type \in {"fetch", "abort"}
  BY DEF Asking
<1>4. CASE i = 1
  BY <1>1, <1>3, <1>4
<1>5. CASE i # 1
  <2>1. i - 1 \in 1..(Len(ts) - 1) /\ (i - 1) + 1 = i
    BY <1>1, <1>5
  <2>2. Tail(ts)[i - 1] = ts[i] /\ i - 1 \in DOMAIN Tail(ts)
    BY <1>2, <2>1
  <2> QED  BY <1>3, <2>2 DEF Asking
<1> QED  BY <1>4, <1>5

\* What is left when a message is read.
LEMMA ReadRequest ==
    ASSUME Inv, toServer # <<>>, toServer' = Tail(toServer)
    PROVE  /\ Remains(toServer', toServer) /\ Head(toServer) \in Request
           /\ \E i \in DOMAIN toServer : toServer[i] = Head(toServer)
           /\ Sound(server, toServer', toClient, client.loads, loads, Late, Alive)
<1>1. PICK ts, cl, late, alive : ts = toServer /\ cl = client.loads /\ late = Late /\ alive = Alive
  OBVIOUS
<1>2. ts \in Seq(Request) /\ ts # <<>> /\ Sound(server, ts, toClient, cl, loads, late, alive)
  BY <1>1 DEF Inv, Shape
<1>3. Sound(server, Tail(ts), toClient, cl, loads, late, alive)
  BY <1>2, ReadSound
<1>4. /\ Tail(ts) \in Seq(Request) /\ 1 \in DOMAIN ts /\ Head(ts) = ts[1] /\ ts[1] \in Request
      /\ \A i \in DOMAIN Tail(ts) : i + 1 \in DOMAIN ts /\ Tail(ts)[i] = ts[i + 1]
  BY <1>2, AfterHead
<1>5. Remains(Tail(ts), ts)
  BY <1>4 DEF Remains
<1> QED  BY <1>1, <1>3, <1>4, <1>5

\* TransferDone: what was written is of its load.
LEMMA TransferDoneInv ==
    ASSUME Inv, NEW x, TransferDone(x)
    PROVE  Inv'
<1>1. /\ x \in server.xfers /\ Becomes(S!XferDone(server, x)) /\ Wrote(x)
      /\ client' = client /\ phase' = phase /\ failedReq' = failedReq /\ bound' = bound
      /\ unbound' = unbound /\ toServer' = toServer /\ session' = session
      /\ connected' = connected /\ workload' = workload /\ used' = used
  BY Zenon DEF TransferDone, linkVars
<1>2. PICK s, q, tc, cl, ls, late, alive, ls2 :
         /\ s = server /\ q = toServer /\ tc = toClient /\ cl = client.loads /\ ls = loads
         /\ late = Late /\ alive = Alive /\ ls2 = loads'
  OBVIOUS
<1>3. /\ Sound(s, q, tc, cl, ls, late, alive) /\ tc \in Seq(Reply) /\ LoadsAreSound(ls, late)
      /\ \A m \in DOMAIN cl : cl[m].job \in Loads
      /\ ls \in [Loads -> LoadRecords] /\ x \in s.xfers
  BY <1>1, <1>2 DEF Inv, Shape, ClientIs, Waits
<1>4. x.to \in Loads /\ IsXfer(x)
  BY <1>3 DEF Sound, IsServer, IsXfer
<1>5. PICK l, clean : l = ls[x.to] /\ clean = (l.clean /\ x.jobs \subseteq s.stores)
  OBVIOUS
<1>6. clean \in BOOLEAN /\ l \in LoadRecords
  BY <1>3, <1>4, <1>5
<1>7. ls2 = [ls EXCEPT ![x.to] = [l EXCEPT !.got = @ \cup x.keys, !.clean = clean]]
  <2>1. ls2 = [ls EXCEPT ![x.to].got = @ \cup x.keys,
                         ![x.to].clean = @ /\ x.jobs \subseteq s.stores]
    BY <1>1, <1>2 DEF Wrote
  <2> QED  BY <1>3, <1>4, <1>5, <1>6, <2>1 DEF LoadRecords
<1>8. PICK l2 : l2 = [l EXCEPT !.got = @ \cup x.keys, !.clean = clean]
  OBVIOUS
<1>9. /\ l2 \in LoadRecords /\ l2.state = l.state /\ l2.keys = l.keys /\ l2.got = l.got \cup x.keys
      /\ l2.clean = clean
  <2>1. x.keys \in SUBSET Keys
    BY <1>4 DEF IsXfer
  <2> QED  BY <1>6, <1>8, <2>1 DEF LoadRecords
<1>10. /\ ls2 \in [Loads -> LoadRecords] /\ ls2[x.to] = l2
       /\ \A j \in Loads : j # x.to => ls2[j] = ls[j]
  BY <1>3, <1>4, <1>7, <1>8, <1>9
<1>11. Writes(s, x, ls, ls2)
  BY <1>5, <1>9, <1>10 DEF Writes
<1>12. PICK u : u = S!XferDone(s, x)
  OBVIOUS
<1>13. Goes(s, u, q, tc, cl, ls2, late, alive) /\ Settles(s, u)
  BY <1>3, <1>11, <1>12, DoneSound
<1>14. LoadsAreSound(ls2, late)
  BY <1>3, <1>11, WrittenLoads
<1>15. ServerEngine
  <2>1. \A j \in Loads : loads'[j].state = loads[j].state
    BY <1>2, <1>5, <1>9, <1>10
  <2>2. Remains(toServer', toServer)
    BY <1>1 DEF Remains, Inv, Shape
  <2> QED  BY <1>1, <1>2, <1>10, <2>1, <2>2 DEF ServerEngine, Inv, Shape
<1>16. Fresh(u, unbound') /\ Kinds(u, unbound')
  BY <1>1, <1>2, <1>13, SettledKinds
<1> QED  BY <1>1, <1>2, <1>12, <1>13, <1>14, <1>15, <1>16, ServerStays

\* Steps of the server's engine that leave messages, loads and stores to come alone.
LEMMA Settled ==
    ASSUME Inv, NEW s, Becomes(s), Goes(server, s, toServer, toClient, client.loads, loads, Late, Alive),
           client' = client, phase' = phase, failedReq' = failedReq, workload' = workload,
           session' = session, connected' = connected, loads' = loads, toServer' = toServer,
           bound' \in BOOLEAN, used' \in [Faults -> Nat],
           used'["storeTimeouts"] = used["storeTimeouts"],
           Fresh(s, unbound'), Kinds(s, unbound')
    PROVE  Inv'
<1>1. ServerEngine
  BY DEF ServerEngine, Inv, Shape, Remains
<1>2. LoadsAreSound(loads', Late)
  BY DEF Inv
<1>3. Goes(server, s, toServer, toClient, client.loads, loads', Late, Alive)
  OBVIOUS
<1> QED  BY <1>1, <1>2, <1>3, ServerStays

\* A fault is counted; only a store's timeout makes the stores late.
LEMMA Counted ==
    ASSUME Inv, NEW f \in Faults, Uses(f)
    PROVE  /\ used' \in [Faults -> Nat]
           /\ f # "storeTimeouts" => used'["storeTimeouts"] = used["storeTimeouts"]
           /\ f = "storeTimeouts" => used'["storeTimeouts"] > 0
<1>1. used \in [Faults -> Nat] /\ used' = [used EXCEPT ![f] = used[f] + 1]
  BY DEF Inv, Shape, Uses
<1>2. "storeTimeouts" \in Faults
  BY DEF Faults
<1> QED  BY <1>1, <1>2

\* TransferFails.
LEMMA TransferFailsInv ==
    ASSUME Inv, NEW x, TransferFails(x)
    PROVE  Inv'
<1>1. /\ x \in server.xfers /\ Becomes(S!XferFailed(server, x)) /\ Uses("failures")
      /\ client' = client /\ phase' = phase /\ failedReq' = failedReq /\ bound' = bound
      /\ unbound' = unbound /\ toServer' = toServer /\ session' = session
      /\ connected' = connected /\ workload' = workload /\ loads' = loads
  BY Zenon DEF TransferFails, linkVars, clientVars
<1>2. PICK s, q, tc, cl, late, alive :
         /\ s = server /\ q = toServer /\ tc = toClient /\ cl = client.loads
         /\ late = Late /\ alive = Alive
  OBVIOUS
<1>3. /\ Sound(s, q, tc, cl, loads, late, alive) /\ tc \in Seq(Reply) /\ LoadsAreSound(loads, late)
      /\ x \in s.xfers
  BY <1>1, <1>2 DEF Inv, Shape
<1>4. PICK u : u = S!XferFailed(s, x)
  OBVIOUS
<1>5. Goes(s, u, q, tc, cl, loads, late, alive) /\ Settles(s, u)
  BY <1>3, <1>4, FailedSound
<1>6. Fresh(u, unbound') /\ Kinds(u, unbound')
  BY <1>1, <1>2, <1>5, SettledKinds
<1>7. used' \in [Faults -> Nat] /\ used'["storeTimeouts"] = used["storeTimeouts"]
  BY <1>1, Counted DEF Faults
<1>8. bound' \in BOOLEAN
  BY <1>1 DEF Inv, Shape
<1> QED  BY <1>1, <1>2, <1>4, <1>5, <1>6, <1>7, <1>8, Settled

\* DrainAbort.
LEMMA DrainAbortInv ==
    ASSUME Inv, NEW n, NEW stuck \in SUBSET server.xfers, DrainAbort(n, stuck)
    PROVE  Inv'
<1>1. /\ n \in server.aborts /\ Becomes(S!Drained(server, n, stuck)) /\ used' = used
      /\ client' = client /\ phase' = phase /\ failedReq' = failedReq /\ bound' = bound
      /\ unbound' = unbound /\ toServer' = toServer /\ session' = session
      /\ connected' = connected /\ workload' = workload /\ loads' = loads
  BY Zenon DEF DrainAbort, linkVars, clientVars
<1>2. PICK s, q, tc, cl, late, alive :
         /\ s = server /\ q = toServer /\ tc = toClient /\ cl = client.loads
         /\ late = Late /\ alive = Alive
  OBVIOUS
<1>3. /\ Sound(s, q, tc, cl, loads, late, alive) /\ tc \in Seq(Reply) /\ LoadsAreSound(loads, late)
      /\ n \in s.aborts /\ stuck \in SUBSET s.xfers
  BY <1>1, <1>2 DEF Inv, Shape
<1>4. PICK u : u = S!Drained(s, n, stuck)
  OBVIOUS
<1>5. Goes(s, u, q, tc, cl, loads, late, alive) /\ Settles(s, u)
  BY <1>3, <1>4, DrainedSound
<1>6. Fresh(u, unbound') /\ Kinds(u, unbound')
  BY <1>1, <1>2, <1>5, SettledKinds
<1>7. used' \in [Faults -> Nat] /\ used'["storeTimeouts"] = used["storeTimeouts"] /\ bound' \in BOOLEAN
  BY <1>1 DEF Inv, Shape
<1> QED  BY <1>1, <1>2, <1>4, <1>5, <1>6, <1>7, Settled

\* Serve: only a request that probes has lookups.
LEMMA ServeInv ==
    ASSUME Inv, NEW result, NEW n, Serve(result, n)
    PROVE  Inv'
<1>1. /\ server.queue \o server.parked # <<>> /\ Becomes(S!ServedAll(server, result, n)) /\ used' = used
      /\ client' = client /\ phase' = phase /\ failedReq' = failedReq /\ bound' = bound
      /\ unbound' = unbound /\ toServer' = toServer /\ session' = session
      /\ connected' = connected /\ workload' = workload /\ loads' = loads
  BY Zenon DEF Serve, linkVars, clientVars
<1>2. PICK s, q, tc, cl, late, alive :
         /\ s = server /\ q = toServer /\ tc = toClient /\ cl = client.loads
         /\ late = Late /\ alive = Alive
  OBVIOUS
<1>3. /\ Sound(s, q, tc, cl, loads, late, alive) /\ tc \in Seq(Reply) /\ LoadsAreSound(loads, late)
  BY <1>2 DEF Inv, Shape
<1>4. PICK u : u = S!ServedAll(s, result, n)
  OBVIOUS
<1>5. Goes(s, u, q, tc, cl, loads, late, alive)
  BY <1>3, <1>4, ServedAllSound
<1>6. workload.mode # "prefill" /\ unbound = <<>>
  <2>1. PICK a : a = server.queue
    OBVIOUS
  <2>2. a = <<>> /\ server.parked = <<>> => a \o server.parked = <<>>
    OBVIOUS
  <2> QED  BY <1>1, <2>1, <2>2 DEF Inv, Modes
<1>7. Fresh(u, unbound') /\ Kinds(u, unbound')
  BY <1>1, <1>6 DEF Fresh, Kinds
<1>8. used' \in [Faults -> Nat] /\ used'["storeTimeouts"] = used["storeTimeouts"] /\ bound' \in BOOLEAN
  BY <1>1 DEF Inv, Shape
<1> QED  BY <1>1, <1>2, <1>4, <1>5, <1>7, <1>8, Settled

\* OnLookup: only a request that probes looks up.
LEMMA OnLookupInv == (Inv /\ OnLookup) => Inv'
<1> SUFFICES ASSUME Inv, OnLookup PROVE Inv'
  OBVIOUS
<1>1. /\ toServer # <<>> /\ Head(toServer).type = "lookup" /\ toServer' = Tail(toServer)
      /\ Becomes(S!Enqueued(server, Head(toServer).round, Head(toServer).keys)) /\ used' = used
      /\ client' = client /\ phase' = phase /\ failedReq' = failedReq /\ bound' = bound
      /\ unbound' = unbound /\ session' = session
      /\ connected' = connected /\ workload' = workload /\ loads' = loads
  BY Zenon DEF OnLookup, linkVars, clientVars
<1>2. PICK s, q, tc, cl, late, alive, m :
         /\ s = server /\ q = toServer' /\ tc = toClient /\ cl = client.loads
         /\ late = Late /\ alive = Alive /\ m = Head(toServer)
  OBVIOUS
<1>3. /\ Remains(toServer', toServer) /\ m \in Request
      /\ \E i \in DOMAIN toServer : toServer[i] = m
      /\ Sound(s, q, tc, cl, loads, late, alive)
  BY <1>1, <1>2, ReadRequest
<1>4. tc \in Seq(Reply) /\ LoadsAreSound(loads, late) /\ m.round \in Nat /\ m.keys \in SUBSET Keys
  BY <1>2, <1>3 DEF Inv, Shape, Request
<1>5. PICK u, n, keys : n = m.round /\ keys = m.keys /\ u = S!Enqueued(s, n, keys)
  OBVIOUS
<1>6. Goes(s, u, q, tc, cl, loads, late, alive)
  BY <1>3, <1>4, <1>5, EnqueuedSound
<1>7. workload.mode # "prefill" /\ unbound = <<>>
  BY <1>1, <1>2, <1>3 DEF Inv, Modes
<1>8. Fresh(u, unbound') /\ Kinds(u, unbound')
  BY <1>1, <1>7 DEF Fresh, Kinds
<1>9. ServerEngine
  BY <1>1, <1>3 DEF ServerEngine, Inv, Shape
<1>10. Becomes(u) /\ LoadsAreSound(loads', Late)
  BY <1>1, <1>2, <1>4, <1>5
<1>11. Sound(u, toServer', toClient, client.loads, loads', Late, Alive) /\ Keeps(server, u) /\ IsServer(u)
  BY <1>1, <1>2, <1>6 DEF Goes, Sound
<1>12. connected' => Promises(server', toServer', toClient', client.loads)
  <2> SUFFICES ASSUME connected, NEW i \in DOMAIN client.loads
               PROVE  Asking(toServer', i) \/ Owed(server', toClient', i, client.loads[i].job)
    BY <1>1 DEF Promises
  <2>1. Asking(toServer, i) \/ Owed(server, toClient, i, client.loads[i].job)
    BY DEF Inv, Promises
  <2>2. Asking(toServer, i) => Asking(Tail(toServer), i)
    <3>1. toServer \in Seq(Request)
      BY DEF Inv, Shape
    <3> QED  BY <1>1, <3>1, AskedOn
  <2> QED  BY <1>1, <1>10, <1>11, <2>1, <2>2, KeptPromises
<1> QED  BY <1>8, <1>9, <1>10, <1>11, <1>12, ServerActs

\* OnAbort: the round is told, or will be once its transfers are gone.
LEMMA OnAbortInv ==
    ASSUME Inv, NEW stuck \in SUBSET server.xfers, OnAbort(stuck)
    PROVE  Inv'
<1>1. /\ toServer # <<>> /\ Head(toServer).type = "abort" /\ toServer' = Tail(toServer)
      /\ Becomes(S!Aborted(server, Head(toServer).round, stuck)) /\ used' = used
      /\ client' = client /\ phase' = phase /\ failedReq' = failedReq /\ bound' = bound
      /\ unbound' = unbound /\ session' = session
      /\ connected' = connected /\ workload' = workload /\ loads' = loads
  BY Zenon DEF OnAbort, linkVars, clientVars
<1>2. PICK s, q, tc, cl, late, alive, m :
         /\ s = server /\ q = toServer' /\ tc = toClient /\ cl = client.loads
         /\ late = Late /\ alive = Alive /\ m = Head(toServer)
  OBVIOUS
<1>3. /\ Remains(toServer', toServer) /\ m \in Request /\ Sound(s, q, tc, cl, loads, late, alive)
  BY <1>1, <1>2, ReadRequest
<1>4. /\ tc \in Seq(Reply) /\ LoadsAreSound(loads, late) /\ m.round \in Nat
      /\ stuck \in SUBSET s.xfers
  BY <1>2, <1>3 DEF Inv, Shape, Request
<1>5. PICK u, n : n = m.round /\ u = S!Aborted(s, n, stuck)
  OBVIOUS
<1>6. Goes(s, u, q, tc, cl, loads, late, alive) /\ Settles(s, u) /\ (n \in u.aborts \/ TellsOf(u, n))
  BY <1>3, <1>4, <1>5, AbortedSound
<1>7. Fresh(u, unbound') /\ Kinds(u, unbound')
  BY <1>1, <1>2, <1>6, SettledKinds
<1>8. ServerEngine
  BY <1>1, <1>3 DEF ServerEngine, Inv, Shape
<1>9. Becomes(u) /\ LoadsAreSound(loads', Late)
  BY <1>1, <1>2, <1>4, <1>5
<1>10. Sound(u, toServer', toClient, client.loads, loads', Late, Alive) /\ Keeps(server, u) /\ IsServer(u)
  BY <1>1, <1>2, <1>6 DEF Goes, Sound
<1>11. connected' => Promises(server', toServer', toClient', client.loads)
  <2> SUFFICES ASSUME connected, NEW i \in DOMAIN client.loads
               PROVE  Asking(toServer', i) \/ Owed(server', toClient', i, client.loads[i].job)
    BY <1>1 DEF Promises
  <2>1. Asking(toServer, i) \/ Owed(server, toClient, i, client.loads[i].job)
    BY DEF Inv, Promises
  <2>2. Asking(toServer, i) => Asking(Tail(toServer), i) \/ i = n
    <3>1. toServer \in Seq(Request)
      BY DEF Inv, Shape
    <3> QED  BY <1>1, <1>2, <1>5, <3>1, AskedOn
  <2>3. i = n => Takes(u, i, client.loads[i].job)
    BY <1>6 DEF Takes
  <2> QED  BY <1>1, <1>9, <1>10, <2>1, <2>2, <2>3, KeptPromises
<1> QED  BY <1>7, <1>8, <1>9, <1>10, <1>11, ServerActs

\* FinishPrefill.
LEMMA FinishPrefillInv == (Inv /\ FinishPrefill) => Inv'
<1> SUFFICES ASSUME Inv, FinishPrefill PROVE Inv'
  OBVIOUS
<1>1. /\ bound' = FALSE /\ used' = used /\ toServer' = toServer
      /\ IF bound THEN Becomes(S!Finished(server)) ELSE server' = server /\ toClient' = toClient
      /\ client' = client /\ phase' = phase /\ failedReq' = failedReq
      /\ unbound' = unbound /\ session' = session
      /\ connected' = connected /\ workload' = workload /\ loads' = loads
  BY Zenon DEF FinishPrefill, linkVars, clientVars
<1>2. PICK s, q, tc, cl, late, alive :
         /\ s = server /\ q = toServer /\ tc = toClient /\ cl = client.loads
         /\ late = Late /\ alive = Alive
  OBVIOUS
<1>3. /\ Sound(s, q, tc, cl, loads, late, alive) /\ tc \in Seq(Reply) /\ LoadsAreSound(loads, late)
  BY <1>2 DEF Inv, Shape
<1>4. PICK u : u = IF bound THEN S!Finished(s) ELSE s
  OBVIOUS
<1>5. Goes(s, u, q, tc, cl, loads, late, alive) /\ Settles(s, u) /\ Becomes(u)
  <2>1. CASE bound
    <3>1. u = S!Finished(s) /\ Becomes(u)
      BY <1>1, <1>2, <1>4, <2>1
    <3> QED  BY <1>3, <3>1, FinishedSound
  <2>2. CASE ~bound
    <3>1. u = s /\ Becomes(server)
      BY <1>1, <1>4, <2>2, Idle
    <3> QED  BY <1>2, <1>3, <3>1, KeepsAll DEF Goes, Settles
  <2> QED  BY <2>1, <2>2
<1>6. Fresh(u, unbound') /\ Kinds(u, unbound')
  BY <1>1, <1>2, <1>5, SettledKinds
<1>7. used' \in [Faults -> Nat] /\ used'["storeTimeouts"] = used["storeTimeouts"] /\ bound' \in BOOLEAN
  BY <1>1 DEF Inv, Shape
<1> QED  BY <1>1, <1>2, <1>5, <1>6, <1>7, Settled

\* The jobs of the batches that wait for the id to be bound.
LEMMA UnboundJobs ==
    ASSUME NEW batches, batches \in Seq(Batches), NEW T, T = {b.job : b \in Range(batches)}
    PROVE  IsFiniteSet(T) /\ \A i \in DOMAIN batches : batches[i].job \in T
<1>1. Len(batches) \in Nat /\ DOMAIN batches = 1..Len(batches)
  OBVIOUS
<1>2. Range(batches) = {batches[i] : i \in DOMAIN batches}
  BY DEF Range
<1>3. PICK f : f = [i \in DOMAIN batches |-> batches[i].job]
  OBVIOUS
<1>4. \A i \in DOMAIN batches : batches[i].job \in T
  BY <1>2
<1>5. \A j \in T : \E i \in DOMAIN batches : f[i] = j
  BY <1>2, <1>3
<1>6. f \in Surjection(DOMAIN batches, T)
  <2>1. f \in [DOMAIN batches -> T]
    BY <1>3, <1>4
  <2> QED  BY <1>5, <2>1 DEF Surjection
<1>7. IsFiniteSet(DOMAIN batches)
  BY <1>1, FS_Interval
<1> QED  BY <1>4, <1>6, <1>7, FS_Surjection

\* SubmitStore: its job is new, whether the id is bound or not.
LEMMA SubmitStoreInv ==
    ASSUME Inv, NEW keys \in SUBSET Keys, SubmitStore(keys)
    PROVE  Inv'
<1>1. PICK T, job : /\ T = {b.job : b \in Range(unbound)}
                    /\ job = S!FreshId(S!UsedIds(server) \cup T)
  OBVIOUS
<1>2. /\ workload.mode = "prefill"
      /\ IF bound THEN Becomes(S!Stored(server, 0, keys, job, FALSE)) /\ unbound' = unbound
         ELSE unbound' = Append(unbound, [job |-> job, keys |-> keys]) /\ server' = server /\ toClient' = toClient
      /\ client' = client /\ phase' = phase /\ failedReq' = failedReq /\ bound' = bound
      /\ toServer' = toServer /\ session' = session /\ used' = used
      /\ connected' = connected /\ workload' = workload /\ loads' = loads
  BY Zenon, <1>1 DEF SubmitStore, linkVars, clientVars
<1>3. PICK s, q, tc, cl, late, alive :
         /\ s = server /\ q = toServer /\ tc = toClient /\ cl = client.loads
         /\ late = Late /\ alive = Alive
  OBVIOUS
<1>4. /\ Sound(s, q, tc, cl, loads, late, alive) /\ tc \in Seq(Reply) /\ LoadsAreSound(loads, late)
      /\ Fresh(s, unbound)
  BY <1>3 DEF Inv, Shape
<1>5. job \in Nat /\ job \notin S!UsedIds(s) /\ \A i \in DOMAIN unbound : unbound[i].job # job
  <2>1. IsFiniteSet(T) /\ \A i \in DOMAIN unbound : unbound[i].job \in T
    <3>1. unbound \in Seq(Batches)
      BY <1>4 DEF Fresh
    <3> QED  BY <1>1, <3>1, UnboundJobs
  <2>2. IsFiniteSet(S!UsedIds(s))
    BY <1>4 DEF Sound, IsServer
  <2>3. PICK taken : taken = S!UsedIds(s) \cup T
    OBVIOUS
  <2>4. IsFiniteSet(taken)
    BY <2>1, <2>2, <2>3, FS_Union
  <2>5. job = S!FreshId(taken)
    BY <1>1, <1>3, <2>3
  <2>6. job \in Nat /\ job \notin taken
    BY <2>4, <2>5, FreshJob
  <2> QED  BY <2>1, <2>3, <2>6
<1>6. used' \in [Faults -> Nat] /\ used'["storeTimeouts"] = used["storeTimeouts"] /\ bound' \in BOOLEAN
  BY <1>2 DEF Inv, Shape
<1>7. CASE bound
  <2>1. PICK u : u = S!Stored(s, 0, keys, job, FALSE)
    OBVIOUS
  <2>2. StoresFor(s, u, 0, keys, job)
    <3>1. \E lookup \in BOOLEAN : u = S!Stored(s, 0, keys, job, lookup)
      BY <2>1
    <3> QED  BY <1>5, <3>1 DEF StoresFor
  <2>3. Sound(u, q, tc, cl, loads, late, alive) /\ AddsJob(s, u, job)
    BY <1>4, <2>2, StoredSound
  <2>4. Goes(s, u, q, tc, cl, loads, late, alive)
    BY <2>3 DEF Goes, AddsJob
  <2>5. Fresh(u, unbound)
    BY <1>4, <1>5, <2>3 DEF Fresh, AddsJob
  <2>6. Kinds(u, unbound)
    BY <1>3, <2>3 DEF Inv, Modes, Kinds, AddsJob
  <2>7. Becomes(u) /\ unbound' = unbound
    BY <1>2, <1>3, <1>7, <2>1
  <2>8. Fresh(u, unbound') /\ Kinds(u, unbound')
    BY <2>5, <2>6, <2>7
  <2> QED  BY <1>2, <1>3, <1>6, <2>4, <2>7, <2>8, Settled
<1>8. CASE ~bound
  <2>1. PICK b, batches : b = [job |-> job, keys |-> keys] /\ batches = Append(unbound, b)
    OBVIOUS
  <2>2. unbound' = batches /\ server' = server /\ toClient' = toClient
    BY <1>2, <1>8, <2>1
  <2>3. Becomes(server)
    BY <2>2, Idle
  <2>4. Fresh(s, batches)
    <3>1. unbound \in Seq(Batches) /\ b \in Batches /\ b.job = job
      BY <1>4, <1>5, <2>1 DEF Fresh, Batches
    <3>2. /\ batches \in Seq(Batches)
          /\ \A i \in DOMAIN batches : \/ i \in DOMAIN unbound /\ batches[i] = unbound[i]
                                       \/ i = Len(unbound) + 1 /\ batches[i] = b
      BY <2>1, <3>1
    <3>3. \A i \in DOMAIN batches : batches[i].job \notin S!UsedIds(s)
      BY <1>4, <1>5, <3>1, <3>2 DEF Fresh
    <3>4. \A i, k \in DOMAIN batches : batches[i].job = batches[k].job => i = k
      BY <1>4, <1>5, <3>1, <3>2 DEF Fresh
    <3> QED  BY <3>2, <3>3, <3>4 DEF Fresh
  <2>5. Kinds(server, unbound')
    BY <1>2 DEF Inv, Modes, Kinds
  <2>6. Fresh(server, unbound') /\ Goes(server, server, toServer, toClient, client.loads, loads, Late, Alive)
    BY <1>3, <1>4, <2>2, <2>4, KeepsAll DEF Goes
  <2> QED  BY <1>2, <1>6, <2>3, <2>5, <2>6, Settled
<1> QED  BY <1>7, <1>8

\* What was promised or settled at v is at u too.
GoesOn(s, v, u) ==
    /\ Keeps(v, u)
    /\ s.queue = <<>> => u.queue = <<>>
    /\ s.parked = <<>> => u.parked = <<>>
    /\ \A n, job : Takes(v, n, job) => Takes(u, n, job)

\* The fetch of blocks, then the stores that waited for it.
LEMMA FetchReplayed ==
    ASSUME NEW s, NEW q, NEW tc, tc \in Seq(Reply), NEW cl, NEW ls, NEW late, NEW alive,
           NEW v, Sound(v, q, tc, cl, ls, late, alive), Settles(s, v), NEW batches, Fresh(s, batches),
           NEW u, u = S!Replayed(v, batches)
    PROVE  Sound(u, q, tc, cl, ls, late, alive) /\ GoesOn(s, v, u)
<1>1. Fresh(v, batches)
  BY DEF Fresh, Settles
<1>2. /\ Sound(u, q, tc, cl, ls, late, alive) /\ Keeps(v, u)
      /\ u.queue = v.queue /\ u.parked = v.parked
  BY <1>1, ReplayedSound
<1>3. ASSUME NEW n, NEW job, Takes(v, n, job)
      PROVE  Takes(u, n, job)
  BY <1>2, <1>3 DEF Keeps, Takes
<1> QED  BY <1>2, <1>3 DEF Settles, GoesOn

\* OnFetch: the round starts, the id is closed, or the session is.
LEMMA OnFetchInv == (Inv /\ OnFetch) => Inv'
<1> SUFFICES ASSUME Inv, OnFetch PROVE Inv'
  OBVIOUS
<1>1. PICK m, n, job, keys : m = Head(toServer) /\ n = m.round /\ job = m.job /\ keys = m.keys
  OBVIOUS
<1>2. PICK v, u : v = S!Fetched(server, n, keys, job) /\ u = S!Replayed(v, unbound)
  OBVIOUS
<1>3. /\ toServer # <<>> /\ m.type = "fetch" /\ toServer' = Tail(toServer) /\ connected
      /\ IF S!DuplicateFetch(server, n)
         THEN connected' = FALSE /\ Becomes(server) /\ bound' = bound /\ unbound' = unbound
         ELSE bound' = TRUE /\ unbound' = <<>> /\ Becomes(u) /\ connected' = connected
      /\ used' = used
      /\ client' = client /\ phase' = phase /\ failedReq' = failedReq
      /\ session' = session /\ workload' = workload /\ loads' = loads
  BY Zenon, <1>1, <1>2 DEF OnFetch, Serving, clientVars
<1>4. PICK s, q, ts, tc, cl, late, alive :
         /\ s = server /\ q = toServer' /\ ts = toServer /\ tc = toClient /\ cl = client.loads
         /\ late = Late /\ alive = Alive
  OBVIOUS
<1>5. /\ Remains(toServer', toServer) /\ m \in Request /\ Sound(s, q, tc, cl, loads, late, alive)
      /\ \E i \in DOMAIN toServer : toServer[i] = m
  BY <1>1, <1>3, <1>4, ReadRequest
<1>6. /\ tc \in Seq(Reply) /\ LoadsAreSound(loads, late) /\ n \in Nat /\ Fresh(s, unbound)
      /\ ts \in Seq(Request) /\ Sound(s, ts, tc, cl, loads, late, alive)
  BY <1>1, <1>4, <1>5 DEF Inv, Shape, Request
<1>7. ServerEngine
  BY <1>3, <1>5 DEF ServerEngine, Inv, Shape
<1>8. LoadsAreSound(loads', Late)
  BY <1>3, <1>4, <1>6
<1>9. ~S!DuplicateFetch(server, n) => \A w : Fresh(w, unbound')
  BY <1>3 DEF Fresh
<1>10. CASE S!DuplicateFetch(server, n)
  <2>1. Kinds(server, unbound') /\ Fresh(server, unbound')
    BY <1>3, <1>4, <1>6, <1>10 DEF Kinds, Inv, Modes
  <2>2. Becomes(server) /\ ~connected'
    BY <1>3, <1>10
  <2>3. Sound(server, toServer', toClient, client.loads, loads', Late, Alive)
    BY <1>3, <1>4, <1>5
  <2> QED  BY <1>7, <1>8, <2>1, <2>2, <2>3, ServerActs
<1>11. CASE ~S!DuplicateFetch(server, n) /\ keys = {}
  <2>1. v = S!Fetched(s, n, {}, job)
    BY <1>2, <1>4, <1>11
  <2>2. Sound(v, q, tc, cl, loads, late, alive) /\ Settles(s, v)
    BY <1>5, <1>6, <2>1, ClosedSound
  <2>3. Sound(u, q, tc, cl, loads, late, alive) /\ GoesOn(s, v, u)
    BY <1>2, <1>6, <2>2, FetchReplayed
  <2>4. DOMAIN client.loads = {}
    BY <1>1, <1>3, <1>5, <1>11 DEF Inv, Ends
  <2>5. Promises(server', toServer', toClient', client.loads)
    BY <2>4 DEF Promises
  <2>6. Kinds(u, unbound')
    BY <1>3, <1>4, <2>3 DEF Kinds, Inv, Modes, GoesOn
  <2>7. Becomes(u) /\ Sound(u, toServer', toClient, client.loads, loads', Late, Alive)
    BY <1>3, <1>4, <1>11, <2>3
  <2> QED  BY <1>7, <1>8, <1>9, <1>11, <2>5, <2>6, <2>7, ServerActs
<1>12. CASE ~S!DuplicateFetch(server, n) /\ keys # {}
  <2>1. Fetching(m)
    BY <1>1, <1>3, <1>12 DEF Fetching
  <2>2. Awaited(s, Tail(ts), tc \o s.sent, cl, loads, m.round, m.keys, m.job, alive)
    BY <1>1, <1>3, <1>4, <1>6, <2>1, HeadIsAwaited
  <2>3. Awaited(s, q, tc \o s.sent, cl, loads, n, keys, job, alive)
    BY <1>1, <1>3, <1>4, <2>2
  <2>4. v = S!Fetched(s, n, keys, job)
    BY <1>2, <1>4
  <2>5. Goes(s, v, q, tc, cl, loads, late, alive) /\ Takes(v, n, job) /\ Settles(s, v)
    BY <1>5, <1>6, <2>3, <2>4, FetchedSound
  <2>6. Sound(v, q, tc, cl, loads, late, alive) /\ Keeps(s, v)
    BY <2>5 DEF Goes
  <2>7. Sound(u, q, tc, cl, loads, late, alive) /\ GoesOn(s, v, u)
    BY <1>2, <1>6, <2>5, <2>6, FetchReplayed
  <2>8. Keeps(server, u) /\ Takes(u, n, job) /\ IsServer(u)
    BY <1>4, <2>5, <2>6, <2>7, KeepsOn DEF Sound, GoesOn
  <2>9. Becomes(u) /\ Sound(u, toServer', toClient, client.loads, loads', Late, Alive)
    BY <1>3, <1>4, <1>12, <2>7
  <2>10. Kinds(u, unbound')
    BY <1>3, <1>4, <2>7 DEF Kinds, Inv, Modes, GoesOn
  <2>11. Promises(server', toServer', toClient', client.loads)
    <3> SUFFICES ASSUME NEW i \in DOMAIN client.loads
                 PROVE  Asking(toServer', i) \/ Owed(server', toClient', i, client.loads[i].job)
      BY DEF Promises
    <3>1. Asking(toServer, i) \/ Owed(server, toClient, i, client.loads[i].job)
      BY <1>3 DEF Inv, Promises
    <3>2. Asking(ts, i) => Asking(Tail(ts), i) \/ i = n
      BY <1>1, <1>3, <1>4, <1>6, AskedOn
    <3>3. i = n => client.loads[i].job = job
      BY <1>4, <2>3 DEF Awaited
    <3>4. i = n => Takes(u, i, client.loads[i].job)
      BY <2>8, <3>3
    <3> QED  BY <1>3, <1>4, <2>8, <2>9, <3>1, <3>2, <3>4, KeptPromises
  <2> QED  BY <1>7, <1>8, <1>9, <1>12, <2>9, <2>10, <2>11, ServerActs
<1> QED  BY <1>10, <1>11, <1>12

\* A store times out: pins or stores to come go, and nothing depends on them.
LEMMA LateActs ==
    ASSUME Inv, Uses("storeTimeouts"), Unpins(server, server'), unbound' = unbound \/ unbound' = <<>>,
           client' = client, phase' = phase, failedReq' = failedReq, loads' = loads, bound' = bound,
           toServer' = toServer, toClient' = toClient, session' = session, connected' = connected,
           workload' = workload
    PROVE  Inv'
<1>1. used' \in [Faults -> Nat] /\ used'["storeTimeouts"] > 0
  BY Counted DEF Faults
<1>2. PICK s, q, tc, cl, late, alive, u :
         /\ s = server /\ q = toServer /\ tc = toClient /\ cl = client.loads
         /\ late = Late /\ alive = Alive /\ u = server'
  OBVIOUS
<1>3. Late' = TRUE /\ Alive' = Alive
  BY <1>1 DEF Late, Alive
<1>4. Sound(u, q, tc, cl, loads, TRUE, alive) /\ S!UsedIds(u) \subseteq S!UsedIds(s)
  <2>1. Sound(s, q, tc, cl, loads, late, alive) /\ Unpins(s, u)
    BY <1>2 DEF Inv
  <2> QED  BY <2>1, LateSound
<1>5. /\ u.rounds = s.rounds /\ u.queue = s.queue /\ u.parked = s.parked /\ u.aborts = s.aborts
      /\ u.sent = s.sent /\ Open(u) = Open(s)
  BY <1>2 DEF Unpins, Open
<1>6. Shape' /\ Ends'
  BY <1>1, <1>2, <1>5 DEF Inv, Shape, Ends
<1>7. Modes'
  <2>1. server'.queue = server.queue /\ server'.parked = server.parked
    BY <1>2, <1>5
  <2> QED  BY <2>1 DEF Inv, Modes
<1>8. Fresh(server', unbound')
  <2>1. CASE unbound' = unbound
    BY <1>2, <1>4, <2>1 DEF Inv, Fresh
  <2>2. CASE unbound' = <<>>
    BY <2>2 DEF Fresh
  <2> QED  BY <2>1, <2>2
<1>9. ClientIs(client', loads')
  BY DEF Inv
<1>10. LoadsAreSound(loads', Late')
  BY <1>3 DEF Inv, LoadsAreSound, Complete
<1>11. Sound(server', toServer', toClient', client'.loads, loads', Late', Alive')
  BY <1>2, <1>3, <1>4
<1>12. connected' => Promises(server', toServer', toClient', client'.loads)
  <2>1. connected => Promises(server, toServer, toClient, client.loads)
    BY DEF Inv
  <2> QED  BY <1>2, <1>5, <2>1 DEF Promises, Owed
<1> QED  BY <1>6, <1>7, <1>8, <1>9, <1>10, <1>11, <1>12 DEF Inv

\* The server's record is one.
LEMMA ServerIs ==
    Inv => server = [rounds |-> server.rounds, queue |-> server.queue, parked |-> server.parked,
                     aborts |-> server.aborts, stores |-> server.stores, xfers |-> server.xfers,
                     sent |-> server.sent]
BY DEF Inv, Sound, IsServer

\* StoreTimeout.
LEMMA StoreTimeoutInv ==
    ASSUME Inv, NEW j, StoreTimeout(j)
    PROVE  Inv'
<1>1. /\ server' = [server EXCEPT !.stores = @ \ {j}] /\ Uses("storeTimeouts")
      /\ client' = client /\ phase' = phase /\ failedReq' = failedReq /\ bound' = bound
      /\ unbound' = unbound /\ toServer' = toServer /\ toClient' = toClient /\ session' = session
      /\ connected' = connected /\ workload' = workload /\ loads' = loads
  BY Zenon DEF StoreTimeout, linkVars, clientVars, channelVars
<1>2. PICK u, s : u = server' /\ s = server
  OBVIOUS
<1>3. Unpins(s, u)
  <2>1. /\ s = [rounds |-> s.rounds, queue |-> s.queue, parked |-> s.parked, aborts |-> s.aborts,
                stores |-> s.stores, xfers |-> s.xfers, sent |-> s.sent]
        /\ u = [s EXCEPT !.stores = @ \ {j}]
    BY <1>1, <1>2, ServerIs
  <2>2. PICK st : st = s.stores \ {j}
    OBVIOUS
  <2>3. u = [s EXCEPT !.stores = st]
    BY <2>1, <2>2
  <2>4. u = [rounds |-> s.rounds, queue |-> s.queue, parked |-> s.parked, aborts |-> s.aborts,
             stores |-> st, xfers |-> s.xfers, sent |-> s.sent]
    BY ONLY <2>1, <2>3
  <2>5. u.stores = st
    BY ONLY <2>4
  <2> QED  BY <2>2, <2>4, <2>5 DEF Unpins
<1> QED  BY <1>1, <1>2, <1>3, LateActs

\* ReapUnbound.
LEMMA ReapUnboundInv == (Inv /\ ReapUnbound) => Inv'
<1> SUFFICES ASSUME Inv, ReapUnbound PROVE Inv'
  OBVIOUS
<1>1. /\ server' = server /\ Uses("storeTimeouts")
      /\ client' = client /\ phase' = phase /\ failedReq' = failedReq /\ bound' = bound
      /\ unbound' = <<>> /\ toServer' = toServer /\ toClient' = toClient /\ session' = session
      /\ connected' = connected /\ workload' = workload /\ loads' = loads
  BY Zenon DEF ReapUnbound, linkVars, clientVars, channelVars
<1>2. Unpins(server, server')
  BY <1>1, ServerIs DEF Unpins
<1> QED  BY <1>1, <1>2, LateActs

\* LoseConnection.
LEMMA LoseConnectionInv == (Inv /\ LoseConnection) => Inv'
<1> SUFFICES ASSUME Inv, LoseConnection PROVE Inv'
  OBVIOUS
<1>1. /\ server' = server /\ Uses("losses") /\ connected' = FALSE
      /\ client' = client /\ phase' = phase /\ failedReq' = failedReq /\ bound' = bound
      /\ unbound' = unbound /\ toServer' = toServer /\ toClient' = toClient /\ session' = session
      /\ workload' = workload /\ loads' = loads
  BY Zenon DEF LoseConnection, serverVars, clientVars, channelVars
<1>2. used' \in [Faults -> Nat] /\ used'["storeTimeouts"] = used["storeTimeouts"]
  BY <1>1, Counted DEF Faults
<1>3. ServerEngine
  BY <1>1, <1>2 DEF ServerEngine, Inv, Shape, Remains
<1>4. Becomes(server)
  BY <1>1, Idle
<1>5. Fresh(server, unbound') /\ Kinds(server, unbound')
  BY <1>1 DEF Inv, Modes, Kinds
<1>6. LoadsAreSound(loads', Late) /\ Sound(server, toServer', toClient, client.loads, loads', Late, Alive)
  BY <1>1 DEF Inv
<1> QED  BY <1>1, <1>3, <1>4, <1>5, <1>6, ServerActs

\* ServerReaps: the connection is gone, so nothing is promised.
LEMMA ServerReapsInv == (Inv /\ ServerReaps) => Inv'
<1> SUFFICES ASSUME Inv, ServerReaps PROVE Inv'
  OBVIOUS
<1>1. /\ server' = S!FreshServer /\ ~connected /\ session' = [session EXCEPT !["server"] = FALSE]
      /\ bound' = FALSE /\ used' = used
      /\ client' = client /\ phase' = phase /\ failedReq' = failedReq
      /\ unbound' = unbound /\ toServer' = toServer /\ toClient' = toClient /\ connected' = connected
      /\ workload' = workload /\ loads' = loads
  BY Zenon DEF ServerReaps, clientVars, channelVars
<1>2. session' \in [{"client", "server"} -> BOOLEAN] /\ session'["client"] = session["client"]
  BY <1>1 DEF Inv, Shape
<1>3. Late' = Late /\ Alive' = Alive
  BY <1>1, <1>2 DEF Late, Alive
<1>4. /\ Sound(S!FreshServer, toServer, toClient, client.loads, loads, Late, Alive)
      /\ S!UsedIds(S!FreshServer) = {}
  <2>1. PICK s, q, tc, cl, late, alive :
         /\ s = server /\ q = toServer /\ tc = toClient /\ cl = client.loads
         /\ late = Late /\ alive = Alive
    OBVIOUS
  <2>2. /\ Sound(s, q, tc, cl, loads, late, alive) /\ tc \in Seq(Reply) /\ LoadsAreSound(loads, late)
        /\ s.sent = <<>>
    BY <2>1 DEF Inv, Shape
  <2>3. Sound(S!FreshServer, q, tc, cl, loads, late, alive) /\ S!UsedIds(S!FreshServer) = {}
    BY <2>2, FreshSound
  <2> QED  BY <2>1, <2>3
<1>5. server'.queue = <<>> /\ server'.parked = <<>> /\ server'.sent = <<>>
  BY <1>1 DEF S!FreshServer
<1>6. Shape' /\ Ends'
  BY <1>1, <1>2, <1>5 DEF Inv, Shape, Ends
<1>7. Modes'
  BY <1>1, <1>5 DEF Inv, Modes
<1>8. Fresh(server', unbound')
  BY <1>1, <1>4 DEF Inv, Fresh
<1>9. ClientIs(client', loads') /\ LoadsAreSound(loads', Late')
  BY <1>1, <1>3 DEF Inv
<1>10. Sound(server', toServer', toClient', client'.loads, loads', Late', Alive')
  BY <1>1, <1>3, <1>4
<1> QED  BY <1>1, <1>6, <1>7, <1>8, <1>9, <1>10 DEF Inv

-----------------------------------------------------------------------------
(***************************************************************************)
(* The steps of the client's engine.                                        *)
(***************************************************************************)

\* What the client's engine leaves alone.
ClientEngine ==
    /\ server' = server /\ unbound' = unbound /\ bound' = bound /\ connected' = connected
    /\ workload' = workload
    /\ used' \in [Faults -> Nat] /\ used'["storeTimeouts"] = used["storeTimeouts"]
    /\ session' \in [{"client", "server"} -> BOOLEAN] /\ failedReq' \in BOOLEAN
    /\ loads' \in [Loads -> LoadRecords]
    /\ toServer' \in Seq(Request) /\ toClient' \in Seq(Reply)

\* What a step of the client's engine has to keep.
LEMMA ClientActs ==
    ASSUME Inv, ClientEngine, ClientIs(client', loads'), LoadsAreSound(loads', Late), Ends',
           Sound(server, toServer', toClient', client'.loads, loads', Late, Alive'),
           workload.mode = "prefill" => /\ client'.unsent = {}
                                        /\ \A i \in DOMAIN toServer' : toServer'[i].type # "lookup",
           connected => Promises(server, toServer', toClient', client'.loads)
    PROVE  Inv'
<1>1. Late' = Late
  BY DEF ClientEngine, Late
<1>2. Shape'
  BY DEF ClientEngine, Inv, Shape
<1>3. Modes'
  BY DEF ClientEngine, Inv, Modes
<1>4. Fresh(server', unbound')
  BY DEF ClientEngine, Inv
<1>5. LoadsAreSound(loads', Late')
  BY <1>1
<1>6. Sound(server', toServer', toClient', client'.loads, loads', Late', Alive')
  BY <1>1 DEF ClientEngine
<1>7. connected' => Promises(server', toServer', toClient', client'.loads)
  BY DEF ClientEngine
<1> QED  BY <1>2, <1>3, <1>4, <1>5, <1>6, <1>7 DEF Inv

\* q2 is q with msgs, if they are not lost.
Grows(q, msgs, q2) ==
    /\ q2 \in Seq(Request)
    /\ \A i \in DOMAIN q2 : \/ \E k \in DOMAIN q : q2[i] = q[k]
                            \/ \E k \in DOMAIN msgs : q2[i] = msgs[k]
    /\ \A k \in DOMAIN q : \E i \in DOMAIN q2 : q2[i] = q[k]
    /\ connected => \A k \in DOMAIN msgs : \E i \in DOMAIN q2 : q2[i] = msgs[k]

\* Sends appends, or nothing is sent.
LEMMA SendsGrow ==
    ASSUME NEW q, q \in Seq(Request), NEW msgs, msgs \in Seq(Request), NEW q2, q2 = Sends(q, msgs)
    PROVE  Grows(q, msgs, q2) /\ (q2 = q \/ q2 = q \o msgs)
<1>1. q2 = IF connected THEN q \o msgs ELSE q
  BY DEF Sends
<1>2. CASE connected
  <2>1. /\ q2 \in Seq(Request)
        /\ \A i \in DOMAIN q2 : i \in DOMAIN q \/ \E k \in DOMAIN msgs : i = Len(q) + k
        /\ \A i \in DOMAIN q : i \in DOMAIN q2 /\ q2[i] = q[i]
        /\ \A i \in DOMAIN msgs : Len(q) + i \in DOMAIN q2 /\ q2[Len(q) + i] = msgs[i]
    BY <1>1, <1>2, JoinedMessages
  <2> QED  BY <1>1, <1>2, <2>1 DEF Grows
<1>3. CASE ~connected
  BY <1>1, <1>3 DEF Grows
<1> QED  BY <1>1, <1>2, <1>3

\* What is asked for stays so when more is sent.
LEMMA AskedMore ==
    ASSUME NEW q, NEW msgs, NEW q2, Grows(q, msgs, q2), NEW n, Asking(q, n)
    PROVE  Asking(q2, n)
BY DEF Grows, Asking

\* Messages that fetch nothing are sent.
LEMMA SentQuietly ==
    ASSUME NEW s, NEW q, q \in Seq(Request), NEW msgs, msgs \in Seq(Request),
           NEW tc, NEW cl, NEW ls, NEW late, NEW alive, Sound(s, q, tc, cl, ls, late, alive),
           \A i \in DOMAIN msgs : ~Fetching(msgs[i]), NEW q2, q2 = Sends(q, msgs)
    PROVE  Sound(s, q2, tc, cl, ls, late, alive)
<1>1. q2 = q \/ q2 = q \o msgs
  BY DEF Sends
<1>2. CASE q2 = q
  BY <1>2
<1>3. CASE q2 = q \o msgs
  BY <1>3, MoreRequests
<1> QED  BY <1>1, <1>2, <1>3

\* Loads js are reported.
Marks(ls, ls2, js, state) ==
    /\ ls2 \in [Loads -> LoadRecords]
    /\ \A j \in Loads : j \notin js => ls2[j] = ls[j]
    /\ \A j \in Loads : j \in js => /\ ls2[j].state = state /\ ls2[j].keys = ls[j].keys
                                    /\ ls2[j].got = ls[j].got /\ ls2[j].clean = ls[j].clean

\* Loads take a state, and keep what they brought.
LEMMA MarkedLoads ==
    ASSUME NEW ls, ls \in [Loads -> LoadRecords], NEW js, NEW state, state \in LoadStates,
           NEW ls2, ls2 = [j \in Loads |-> IF j \in js THEN [ls[j] EXCEPT !.state = state] ELSE ls[j]]
    PROVE  Marks(ls, ls2, js, state)
<1>1. ASSUME NEW j \in Loads, j \in js
      PROVE  /\ ls2[j] \in LoadRecords /\ ls2[j].state = state /\ ls2[j].keys = ls[j].keys
             /\ ls2[j].got = ls[j].got /\ ls2[j].clean = ls[j].clean
  <2>1. PICK l : l = ls[j]
    OBVIOUS
  <2>2. l \in LoadRecords
    BY <2>1
  <2>3. ls2[j] = [l EXCEPT !.state = state]
    BY <1>1, <2>1
  <2>4. [l EXCEPT !.state = state] \in LoadRecords
    BY <2>2 DEF LoadRecords
  <2> QED  BY <2>1, <2>2, <2>3, <2>4 DEF LoadRecords
<1>2. \A j \in Loads : j \notin js => ls2[j] = ls[j] /\ ls2[j] \in LoadRecords
  OBVIOUS
<1>3. ls2 \in [Loads -> LoadRecords]
  BY <1>1, <1>2
<1> QED  BY <1>1, <1>2, <1>3 DEF Marks

\* Loads that fail stay what they are.
LEMMA FailedLoads ==
    ASSUME NEW ls, NEW ls2, NEW js, NEW late, LoadsAreSound(ls, late), Marks(ls, ls2, js, "failed")
    PROVE  LoadsAreSound(ls2, late) /\ Follows(ls, ls2)
<1>1. ASSUME NEW j \in Loads
      PROVE  /\ ls2[j].keys \in SUBSET Keys /\ ls2[j].got \subseteq ls2[j].keys
             /\ ls2[j].clean \in BOOLEAN /\ ls2[j].state \in LoadStates
             /\ ls2[j].state = "ok" => Complete(ls2[j], late)
  <2>1. /\ ls[j].keys \in SUBSET Keys /\ ls[j].got \subseteq ls[j].keys
        /\ ls[j].clean \in BOOLEAN /\ ls[j].state \in LoadStates
        /\ ls[j].state = "ok" => Complete(ls[j], late)
    BY DEF LoadsAreSound
  <2>2. CASE j \in js
    BY <2>1, <2>2 DEF Marks, LoadStates
  <2>3. CASE j \notin js
    BY <2>1, <2>3 DEF Marks
  <2> QED  BY <2>2, <2>3
<1>2. ASSUME NEW j \in Loads, Begun(ls[j])
      PROVE  /\ Begun(ls2[j]) /\ ls2[j].keys = ls[j].keys
             /\ ls2[j].got = ls[j].got /\ ls2[j].clean = ls[j].clean
  BY <1>2 DEF Marks, Begun
<1> QED  BY <1>1, <1>2 DEF LoadsAreSound, Follows

\* The client does not wait for its round n any more.
Over(c, v, n) ==
    /\ v = [probes |-> v.probes, unsent |-> v.unsent, round |-> v.round, open |-> v.open,
            loads |-> v.loads]
    /\ v.unsent \subseteq c.unsent /\ v.round \in Nat /\ v.open \in BOOLEAN
    /\ v.loads = [x \in DOMAIN c.loads \ {n} |-> c.loads[x]]
    /\ \A x \in DOMAIN v.loads : x \in 0..(v.round - 1)

\* LoadOver forgets one load of the client's entry.
LEMMA OverClient ==
    ASSUME NEW c, NEW ls, ClientIs(c, ls), NEW n, NEW v, v = C!LoadOver(c, n)
    PROVE  Over(c, v, n)
<1>1. PICK rest : rest = [x \in DOMAIN c.loads \ {n} |-> c.loads[x]]
  OBVIOUS
<1>2. PICK c1 : c1 = [c EXCEPT !.loads = rest]
  OBVIOUS
<1>3. v = c1 \/ (rest = C!FreshClient.loads /\ v = C!FreshClient)
  BY <1>1, <1>2 DEF C!LoadOver, C!Prune
<1>4. c = [probes |-> c.probes, unsent |-> c.unsent, round |-> c.round, open |-> c.open, loads |-> c.loads]
  BY DEF ClientIs
<1>5. c1 = [probes |-> c.probes, unsent |-> c.unsent, round |-> c.round, open |-> c.open, loads |-> rest]
  BY ONLY <1>2, <1>4
<1>6. /\ c.unsent \in SUBSET Keys /\ c.round \in Nat /\ c.open \in BOOLEAN
      /\ \A x \in DOMAIN c.loads : x \in 0..(c.round - 1)
  BY DEF ClientIs
<1>7. DOMAIN rest \subseteq DOMAIN c.loads
  BY <1>1
<1>8. CASE v = c1
  BY <1>1, <1>5, <1>6, <1>7, <1>8 DEF Over
<1>9. CASE rest = C!FreshClient.loads /\ v = C!FreshClient
  <2>1. /\ v.unsent = {} /\ v.round = 0 /\ v.open = FALSE /\ v.loads = rest /\ DOMAIN v.loads = {}
        /\ v = [probes |-> v.probes, unsent |-> v.unsent, round |-> v.round, open |-> v.open,
                loads |-> v.loads]
    BY <1>9 DEF C!FreshClient
  <2>2. v.open \in BOOLEAN
    <3>1. FALSE \in BOOLEAN
      OBVIOUS
    <3> QED  BY Zenon, <2>1, <3>1
  <2> QED  BY <1>1, <2>1, <2>2 DEF Over
<1> QED  BY <1>3, <1>8, <1>9

\* The loads that the client goes on waiting for.
LEMMA OverIs ==
    ASSUME NEW c, NEW ls, ClientIs(c, ls), NEW n, n \in DOMAIN c.loads, NEW v, Over(c, v, n),
           NEW ls2, NEW js, js = {c.loads[n].job}, NEW state, Marks(ls, ls2, js, state)
    PROVE  /\ ClientIs(v, ls2) /\ Ended(c.loads, v.loads, n, ls, ls2, state)
           /\ c.unsent = {} => v.unsent = {}
<1>1. /\ DOMAIN v.loads = DOMAIN c.loads \ {n} /\ \A x \in DOMAIN v.loads : v.loads[x] = c.loads[x]
  BY DEF Over
<1>2. /\ \A x \in DOMAIN c.loads : /\ c.loads[x] \in [job : Loads, aborting : BOOLEAN]
                                   /\ c.loads[x].job \in Loads /\ ls[c.loads[x].job].state = "wait"
      /\ \A x, y \in DOMAIN c.loads : x # y => c.loads[x].job # c.loads[y].job
      /\ c.unsent \in SUBSET Keys
  BY DEF ClientIs, Waits
<1>3. PICK job : job = c.loads[n].job
  OBVIOUS
<1>4. \A x \in DOMAIN v.loads : v.loads[x].job # job
  BY <1>1, <1>2, <1>3
<1>5. Waits(v.loads, ls2)
  <2>1. \A x \in DOMAIN v.loads : v.loads[x].job \in Loads /\ ls2[v.loads[x].job].state = "wait"
    BY <1>1, <1>2, <1>3, <1>4 DEF Marks
  <2>2. \A x, y \in DOMAIN v.loads : x # y => v.loads[x].job # v.loads[y].job
    BY <1>1, <1>2
  <2> QED  BY <2>1, <2>2 DEF Waits
<1>6. v.loads = [x \in DOMAIN v.loads |-> v.loads[x]]
  BY DEF Over
<1>7. ClientIs(v, ls2)
  BY <1>1, <1>2, <1>5, <1>6 DEF ClientIs, Over
<1>8. Ended(c.loads, v.loads, n, ls, ls2, state)
  BY <1>1, <1>2, <1>3 DEF Ended, Marks
<1> QED  BY <1>7, <1>8 DEF Over

\* The client's entry is gone: it waits for nothing.
LEMMA FreshClientIs ==
    ASSUME NEW ls, NEW c, c = C!FreshClient
    PROVE  ClientIs(c, ls) /\ c.unsent = {} /\ DOMAIN c.loads = {}
<1>1. /\ c = [probes |-> c.probes, unsent |-> c.unsent, round |-> c.round, open |-> c.open,
              loads |-> c.loads]
      /\ c.unsent = {} /\ c.round = 0 /\ c.open = FALSE /\ DOMAIN c.loads = {}
      /\ c.loads = [n \in DOMAIN c.loads |-> c.loads[n]]
  BY DEF C!FreshClient
<1>2. c.open \in BOOLEAN
  <2>1. FALSE \in BOOLEAN
    OBVIOUS
  <2> QED  BY Zenon, <1>1, <2>1
<1>3. Waits(c.loads, ls)
  BY <1>1 DEF Waits
<1> QED  BY <1>1, <1>2, <1>3 DEF ClientIs

\* Preempt.
LEMMA PreemptInv ==
    ASSUME Inv, NEW lost, Preempt(lost)
    PROVE  Inv'
<1>1. /\ phase = "running" /\ phase' = "waiting" /\ Uses("preempts")
      /\ client' = client /\ loads' = loads /\ failedReq' = failedReq /\ server' = server
      /\ bound' = bound /\ unbound' = unbound /\ toServer' = toServer /\ toClient' = toClient
      /\ session' = session /\ connected' = connected /\ workload' = workload
  BY Zenon DEF Preempt, serverVars, channelVars, linkVars
<1>2. used' \in [Faults -> Nat] /\ used'["storeTimeouts"] = used["storeTimeouts"]
  BY <1>1, Counted DEF Faults
<1>3. ClientEngine
  BY <1>1, <1>2 DEF ClientEngine, Inv, Shape
<1>4. Alive' = Alive
  BY <1>1 DEF Alive
<1>5. ClientIs(client', loads') /\ LoadsAreSound(loads', Late)
  BY <1>1 DEF Inv
<1>6. Ends'
  BY <1>1 DEF Inv, Ends
<1>7. Sound(server, toServer', toClient', client'.loads, loads', Late, Alive')
  BY <1>1, <1>4 DEF Inv
<1>8. workload.mode = "prefill" => /\ client'.unsent = {}
                                   /\ \A i \in DOMAIN toServer' : toServer'[i].type # "lookup"
  BY <1>1 DEF Inv, Modes
<1>9. connected => Promises(server, toServer', toClient', client'.loads)
  BY <1>1 DEF Inv
<1> QED  BY <1>3, <1>5, <1>6, <1>7, <1>8, <1>9, ClientActs

\* Evict.
LEMMA EvictInv ==
    ASSUME Inv, NEW k, Evict(k)
    PROVE  Inv'
<1>1. /\ phase' = phase /\ Uses("evictions")
      /\ client' = client /\ loads' = loads /\ failedReq' = failedReq /\ server' = server
      /\ bound' = bound /\ unbound' = unbound /\ toServer' = toServer /\ toClient' = toClient
      /\ session' = session /\ connected' = connected /\ workload' = workload
  BY Zenon DEF Evict, serverVars, channelVars, linkVars
<1>2. used' \in [Faults -> Nat] /\ used'["storeTimeouts"] = used["storeTimeouts"]
  BY <1>1, Counted DEF Faults
<1>3. ClientEngine
  BY <1>1, <1>2 DEF ClientEngine, Inv, Shape
<1>4. Alive' = Alive
  BY <1>1 DEF Alive
<1>5. ClientIs(client', loads') /\ LoadsAreSound(loads', Late)
  BY <1>1 DEF Inv
<1>6. Ends'
  BY <1>1 DEF Inv, Ends
<1>7. Sound(server, toServer', toClient', client'.loads, loads', Late, Alive')
  BY <1>1, <1>4 DEF Inv
<1>8. workload.mode = "prefill" => /\ client'.unsent = {}
                                   /\ \A i \in DOMAIN toServer' : toServer'[i].type # "lookup"
  BY <1>1 DEF Inv, Modes
<1>9. connected => Promises(server, toServer', toClient', client'.loads)
  BY <1>1 DEF Inv
<1> QED  BY <1>3, <1>5, <1>6, <1>7, <1>8, <1>9, ClientActs

\* LoadTimeout: the load is still waited for.
LEMMA LoadTimeoutInv ==
    ASSUME Inv, NEW n, LoadTimeout(n)
    PROVE  Inv'
<1>1. PICK msgs : msgs = <<C!AbortMsg(n)>>
  OBVIOUS
<1>2. /\ n \in DOMAIN client.loads /\ Uses("loadTimeouts") /\ client' = C!Aborting(client, n)
      /\ toServer' = Sends(toServer, msgs)
      /\ phase' = phase /\ loads' = loads /\ failedReq' = failedReq /\ server' = server
      /\ bound' = bound /\ unbound' = unbound /\ toClient' = toClient
      /\ session' = session /\ connected' = connected /\ workload' = workload
  BY Zenon, <1>1 DEF LoadTimeout, serverVars, linkVars
<1>3. used' \in [Faults -> Nat] /\ used'["storeTimeouts"] = used["storeTimeouts"]
  BY <1>2, Counted DEF Faults
<1>4. PICK c, c2 : c = client /\ c2 = client'
  OBVIOUS
<1>5. /\ c = [probes |-> c.probes, unsent |-> c.unsent, round |-> c.round, open |-> c.open, loads |-> c.loads]
      /\ c.unsent \in SUBSET Keys /\ c.round \in Nat /\ c.open \in BOOLEAN
      /\ c.loads = [m \in DOMAIN c.loads |-> c.loads[m]]
      /\ \A m \in DOMAIN c.loads : /\ m \in 0..(c.round - 1)
                                   /\ c.loads[m] \in [job : Loads, aborting : BOOLEAN]
      /\ Waits(c.loads, loads) /\ n \in DOMAIN c.loads
  BY <1>2, <1>4 DEF Inv, ClientIs
<1>6. PICK cl, cl2, l, l2 : /\ cl = c.loads /\ cl2 = [cl EXCEPT ![n] = l2] /\ l = cl[n]
                            /\ l2 = [l EXCEPT !.aborting = TRUE]
  OBVIOUS
<1>7. l2 \in [job : Loads, aborting : BOOLEAN] /\ l2.job = l.job
  BY <1>5, <1>6
<1>8. /\ DOMAIN cl2 = DOMAIN cl /\ cl2 = [m \in DOMAIN cl2 |-> cl2[m]] /\ cl2[n] = l2
      /\ \A m \in DOMAIN cl : m # n => cl2[m] = cl[m]
  BY <1>5, <1>6
<1>9. c2 = [c EXCEPT !.loads = cl2]
  BY <1>2, <1>4, <1>5, <1>6 DEF C!Aborting
<1>10. c2 = [probes |-> c.probes, unsent |-> c.unsent, round |-> c.round, open |-> c.open, loads |-> cl2]
  BY ONLY <1>5, <1>9
<1>11. /\ c2.probes = c.probes /\ c2.unsent = c.unsent /\ c2.round = c.round /\ c2.open = c.open
       /\ c2.loads = cl2
  BY ONLY <1>10
<1>12. /\ \A m \in DOMAIN cl2 : cl2[m].job = cl[m].job
       /\ Waits(cl2, loads)
  BY <1>5, <1>6, <1>7, <1>8 DEF Waits
<1>13. ClientIs(c2, loads)
  <2>1. \A m \in DOMAIN cl2 : /\ m \in 0..(c2.round - 1)
                              /\ cl2[m] \in [job : Loads, aborting : BOOLEAN]
    BY <1>5, <1>6, <1>7, <1>8, <1>11
  <2>2. c2 = [probes |-> c2.probes, unsent |-> c2.unsent, round |-> c2.round, open |-> c2.open,
              loads |-> c2.loads]
    BY <1>10, <1>11
  <2> QED  BY <1>5, <1>8, <1>11, <1>12, <2>1, <2>2 DEF ClientIs
<1>14. PICK m : m = C!AbortMsg(n)
  OBVIOUS
<1>15. m \in Request /\ m.type = "abort" /\ m.round = n /\ ~Fetching(m)
  BY <1>5, <1>14 DEF C!AbortMsg, Request, Fetching
<1>16. msgs \in Seq(Request) /\ \A i \in DOMAIN msgs : msgs[i] = m
  <2>1. msgs = <<m>>
    BY <1>1, <1>14
  <2>2. <<m>> \in Seq(Request) /\ DOMAIN <<m>> = {1} /\ <<m>>[1] = m
    BY <1>15, OneMessage
  <2> QED  BY <2>1, <2>2
<1>17. PICK q, q2, tc, late, alive : q = toServer /\ q2 = toServer' /\ tc = toClient /\ late = Late /\ alive = Alive
  OBVIOUS
<1>18. /\ q \in Seq(Request) /\ q2 = Sends(q, msgs) /\ LoadsAreSound(loads, late)
       /\ Sound(server, q, tc, cl, loads, late, alive)
  BY <1>2, <1>4, <1>6, <1>17 DEF Inv, Shape
<1>19. Grows(q, msgs, q2)
  BY <1>16, <1>18, SendsGrow
<1>20. Sound(server, q2, tc, cl, loads, late, alive)
  BY <1>15, <1>16, <1>18, SentQuietly
<1>21. Sound(server, q2, tc, cl2, loads, late, alive)
  <2>1. Follows(loads, loads)
    BY DEF Follows
  <2>2. Forgets(cl, cl2, alive, alive)
    BY <1>8, <1>12 DEF Forgets
  <2>3. Waits(cl, loads)
    BY <1>5, <1>6
  <2> QED  BY <1>20, <2>1, <2>2, <2>3, GivenUp
<1>22. Alive' = Alive
  BY <1>2 DEF Alive
<1>23. ClientEngine
  BY <1>2, <1>3, <1>17, <1>19 DEF ClientEngine, Inv, Shape, Grows
<1>24. Ends'
  <2>1. phase = "finished" => DOMAIN cl2 = {}
    BY <1>4, <1>6, <1>8 DEF Inv, Ends
  <2>2. \A i \in DOMAIN q : (q[i].type = "fetch" /\ q[i].keys = {}) => phase = "finished"
    BY <1>17 DEF Inv, Ends
  <2>3. \A i \in DOMAIN q2 : (q2[i].type = "fetch" /\ q2[i].keys = {}) => phase = "finished"
    BY <1>15, <1>16, <1>19, <2>2 DEF Grows
  <2> QED  BY <1>2, <1>4, <1>11, <1>17, <2>1, <2>3 DEF Ends
<1>25. workload.mode = "prefill" => /\ client'.unsent = {}
                                    /\ \A i \in DOMAIN toServer' : toServer'[i].type # "lookup"
  BY <1>4, <1>11, <1>15, <1>16, <1>17, <1>19 DEF Inv, Modes, Grows
<1>26. connected => Promises(server, toServer', toClient', client'.loads)
  <2> SUFFICES ASSUME connected, NEW i \in DOMAIN cl2
               PROVE  Asking(q2, i) \/ Owed(server, tc, i, cl2[i].job)
    BY <1>2, <1>4, <1>11, <1>17 DEF Promises
  <2>1. Asking(q, i) \/ Owed(server, tc, i, cl[i].job)
    BY <1>4, <1>6, <1>8, <1>17 DEF Inv, Promises
  <2> QED  BY <1>12, <1>19, <2>1, AskedMore
<1>27. Sound(server, toServer', toClient', client'.loads, loads', Late, Alive')
  BY <1>2, <1>4, <1>11, <1>17, <1>21, <1>22
<1>28. ClientIs(client', loads') /\ LoadsAreSound(loads', Late)
  BY <1>2, <1>4, <1>13, <1>17, <1>18
<1> QED  BY <1>23, <1>24, <1>25, <1>26, <1>27, <1>28, ClientActs

\* The keys that the request looks up.
LEMMA ScannedKeys ==
    ASSUME Inv
    PROVE  /\ Hits \in SUBSET Keys /\ NewProbes \in SUBSET Keys
           /\ failedReq => Hits = {}
           /\ workload.mode = "prefill" => NewProbes = {}
<1>1. workload.prompt \in Seq(Keys)
  BY WorkloadsAssumption DEF Inv, Shape
<1>2. \A i \in DOMAIN workload.prompt : workload.prompt[i] \in Keys
  BY <1>1
<1>3. Scanned \subseteq Keys
  BY <1>2 DEF Scanned
<1>4. \A k : failedReq => TierResult(k) = "MISS"
  BY DEF TierResult
<1>5. \A k : workload.mode = "prefill" => TierResult(k) \in {"MISS", "HIT"}
  BY DEF TierResult
<1>6. failedReq => Hits = {}
  BY <1>4 DEF Hits
<1>7. workload.mode = "prefill" => NewProbes = {}
  BY <1>5 DEF NewProbes
<1>8. Hits \subseteq Scanned /\ NewProbes \subseteq Scanned
  BY DEF Hits, NewProbes
<1> QED  BY <1>3, <1>6, <1>7, <1>8

\* A load begins in state; it was not used.
LEMMA BeganLoads ==
    ASSUME Inv, NEW j, j \in Loads, NEW state, state \in LoadStates, state # "ok", Began(j, state)
    PROVE  /\ loads' \in [Loads -> LoadRecords]
           /\ loads'[j] = [state |-> state, keys |-> Hits, got |-> {}, clean |-> TRUE]
           /\ \A i \in Loads : i # j => loads'[i] = loads[i]
           /\ LoadsAreSound(loads', Late)
<1>1. PICK ls, ls2, keys, l : /\ ls = loads /\ ls2 = loads' /\ keys = Hits
                              /\ l = [state |-> state, keys |-> keys, got |-> {}, clean |-> TRUE]
  OBVIOUS
<1>2. ls \in [Loads -> LoadRecords] /\ LoadsAreSound(ls, Late) /\ keys \in SUBSET Keys
  BY <1>1, ScannedKeys DEF Inv, Shape
<1>3. [Unused EXCEPT !.state = state, !.keys = keys] = l
  <2>1. PICK u, none, yes, st : u = Unused /\ none = {} /\ yes = TRUE /\ st = "unused"
    OBVIOUS
  <2>2. u = [state |-> st, keys |-> none, got |-> none, clean |-> yes]
    BY <2>1 DEF Unused
  <2>3. PICK v : v = [u EXCEPT !.state = state, !.keys = keys]
    OBVIOUS
  <2>4. v = [state |-> state, keys |-> keys, got |-> none, clean |-> yes]
    BY ONLY <2>2, <2>3
  <2> QED  BY <1>1, <2>1, <2>3, <2>4
<1>4. ls2 = [ls EXCEPT ![j] = l]
  BY <1>1, <1>3 DEF Began
<1>5. ls2[j] = l /\ \A i \in Loads : i # j => ls2[i] = ls[i]
  BY <1>2, <1>4
<1>6. l.state = state /\ l.keys = keys /\ l.got = {} /\ l.clean = TRUE
  BY <1>1
<1>7. l \in LoadRecords
  <2>1. {} \in SUBSET Keys /\ TRUE \in BOOLEAN
    OBVIOUS
  <2> QED  BY <1>1, <1>2, <2>1 DEF LoadRecords
<1>8. ls2 \in [Loads -> LoadRecords]
  BY <1>2, <1>4, <1>7
<1>9. LoadsAreSound(ls2, Late)
  <2> SUFFICES ASSUME NEW i \in Loads
               PROVE  /\ ls2[i].keys \in SUBSET Keys /\ ls2[i].got \subseteq ls2[i].keys
                      /\ ls2[i].clean \in BOOLEAN /\ ls2[i].state \in LoadStates
                      /\ ls2[i].state = "ok" => Complete(ls2[i], Late)
    BY DEF LoadsAreSound
  <2>1. CASE i = j
    BY <1>2, <1>5, <1>6, <2>1
  <2>2. CASE i # j
    BY <1>2, <1>5, <2>2 DEF LoadsAreSound
  <2> QED  BY <2>1, <2>2
<1> QED  BY <1>1, <1>5, <1>8, <1>9

\* ScheduleNoSession: a load that fails at once.
LEMMA ScheduleNoSessionInv ==
    ASSUME Inv, NEW j \in Loads, ScheduleNoSession(j)
    PROVE  Inv'
<1>1. /\ j \in NextLoad /\ Began(j, "failed") /\ failedReq' = TRUE
      /\ client' = client /\ phase' = phase /\ server' = server
      /\ bound' = bound /\ unbound' = unbound /\ toServer' = toServer /\ toClient' = toClient
      /\ session' = session /\ connected' = connected /\ workload' = workload /\ used' = used
  BY Zenon DEF ScheduleNoSession, serverVars, channelVars, linkVars
<1>2. loads[j].state = "unused" /\ "failed" \in LoadStates
  BY <1>1 DEF NextLoad, LoadStates
<1>3. /\ loads' \in [Loads -> LoadRecords]
      /\ loads'[j] = [state |-> "failed", keys |-> Hits, got |-> {}, clean |-> TRUE]
      /\ \A i \in Loads : i # j => loads'[i] = loads[i]
      /\ LoadsAreSound(loads', Late)
  BY <1>1, <1>2, BeganLoads
<1>4. PICK ls2, cl, alive : ls2 = loads' /\ cl = client.loads /\ alive = Alive
  OBVIOUS
<1>5. Follows(loads, ls2)
  BY <1>2, <1>3, <1>4 DEF Follows, Begun
<1>6. Alive' = FALSE
  BY <1>1 DEF Alive
<1>7. Sound(server, toServer, toClient, cl, ls2, Late, FALSE)
  <2>1. Sound(server, toServer, toClient, cl, loads, Late, alive) /\ Waits(cl, loads)
    BY <1>4 DEF Inv, ClientIs
  <2>2. PICK no : no = FALSE
    OBVIOUS
  <2>3. Forgets(cl, cl, alive, no)
    BY <2>2 DEF Forgets
  <2>4. Sound(server, toServer, toClient, cl, ls2, Late, no)
    BY <1>5, <2>1, <2>3, GivenUp
  <2> QED  BY <2>2, <2>4
<1>8. Sound(server, toServer', toClient', client'.loads, loads', Late, Alive')
  BY <1>1, <1>4, <1>6, <1>7
<1>9. ClientIs(client', loads')
  <2>1. Waits(client.loads, loads')
    BY <1>2, <1>3 DEF Inv, ClientIs, Waits
  <2> QED  BY <1>1, <2>1 DEF Inv, ClientIs
<1>10. ClientEngine
  BY <1>1, <1>3 DEF ClientEngine, Inv, Shape
<1>11. Ends'
  BY <1>1 DEF Inv, Ends
<1>12. workload.mode = "prefill" => /\ client'.unsent = {}
                                    /\ \A i \in DOMAIN toServer' : toServer'[i].type # "lookup"
  BY <1>1 DEF Inv, Modes
<1>13. connected => Promises(server, toServer', toClient', client'.loads)
  BY <1>1 DEF Inv
<1> QED  BY <1>3, <1>8, <1>9, <1>10, <1>11, <1>12, <1>13, ClientActs

\* Reported, seen as a change of the loads.
LEMMA ReportedLoads ==
    ASSUME Inv, NEW js, NEW ok, Reported(js, ok)
    PROVE  /\ Marks(loads, loads', js, IF ok THEN "ok" ELSE "failed")
           /\ failedReq' \in BOOLEAN /\ (failedReq \/ (js # {} /\ ~ok) => failedReq')
           /\ ~(js # {} /\ ~ok) => failedReq' = failedReq
<1>1. PICK ls, ls2, st : ls = loads /\ ls2 = loads' /\ st = IF ok THEN "ok" ELSE "failed"
  OBVIOUS
<1>2. st \in LoadStates /\ ls \in [Loads -> LoadRecords]
  BY <1>1 DEF LoadStates, Inv, Shape
<1>3. ls2 = [j \in Loads |-> IF j \in js THEN [ls[j] EXCEPT !.state = st] ELSE ls[j]]
  BY <1>1 DEF Reported
<1>4. Marks(ls, ls2, js, st)
  BY <1>2, <1>3, MarkedLoads
<1>5. failedReq' = (failedReq \/ (js # {} /\ ~ok)) /\ failedReq \in BOOLEAN
  BY DEF Reported, Inv, Shape
<1> QED  BY <1>1, <1>4, <1>5

\* A load of the client fails, and with it the request.
LEMMA FailedEnd ==
    ASSUME Inv, NEW n, n \in DOMAIN client.loads, client' = C!LoadOver(client, n),
           Reported({client.loads[n].job}, FALSE), phase' = phase,
           NEW tc, Sound(server, toServer, tc, client.loads, loads, Late, Alive)
    PROVE  /\ ClientIs(client', loads') /\ LoadsAreSound(loads', Late) /\ loads' \in [Loads -> LoadRecords]
           /\ Sound(server, toServer, tc, client'.loads, loads', Late, Alive')
           /\ client.unsent = {} => client'.unsent = {}
           /\ DOMAIN client'.loads \subseteq DOMAIN client.loads \ {n} /\ failedReq' \in BOOLEAN
           /\ \A m \in DOMAIN client'.loads : client'.loads[m].job = client.loads[m].job
<1>1. PICK ls, ls2, js, c, c2, st : /\ ls = loads /\ ls2 = loads' /\ c = client /\ c2 = client'
                                    /\ js = {c.loads[n].job} /\ st = "failed"
  OBVIOUS
<1>2. Marks(ls, ls2, js, st) /\ failedReq' = TRUE
  <2>1. Reported(js, FALSE) /\ js # {}
    BY <1>1
  <2>2. PICK ok : ok = FALSE
    OBVIOUS
  <2>3. Marks(ls, ls2, js, IF ok THEN "ok" ELSE "failed") /\ failedReq'
    BY <1>1, <2>1, <2>2, ReportedLoads
  <2>4. failedReq' \in BOOLEAN
    BY <2>1, <2>2, ReportedLoads
  <2> QED  BY <1>1, <2>2, <2>3, <2>4
<1>3. ClientIs(c, ls) /\ LoadsAreSound(ls, Late) /\ Waits(c.loads, ls) /\ n \in DOMAIN c.loads
  BY <1>1 DEF Inv, ClientIs
<1>4. Over(c, c2, n)
  BY <1>1, <1>3, OverClient
<1>5. ClientIs(c2, ls2) /\ Ended(c.loads, c2.loads, n, ls, ls2, st) /\ (c.unsent = {} => c2.unsent = {})
  BY <1>1, <1>2, <1>3, <1>4, OverIs
<1>6. LoadsAreSound(ls2, Late) /\ Follows(ls, ls2)
  BY <1>1, <1>2, <1>3, FailedLoads
<1>7. Alive' = FALSE
  BY <1>2 DEF Alive
<1>8. PICK no, cl, cl2, alive : no = FALSE /\ cl = c.loads /\ cl2 = c2.loads /\ alive = Alive
  OBVIOUS
<1>9. Forgets(cl, cl2, alive, no)
  BY <1>5, <1>8 DEF Forgets, Ended
<1>10. Sound(server, toServer, tc, cl2, ls2, Late, no)
  <2>1. Sound(server, toServer, tc, cl, ls, Late, alive) /\ Waits(cl, ls)
    BY <1>1, <1>3, <1>8
  <2> QED  BY <1>6, <1>9, <2>1, GivenUp
<1>11. ls2 \in [Loads -> LoadRecords]
  BY <1>2 DEF Marks
<1>12. DOMAIN c2.loads = DOMAIN c.loads \ {n} /\ \A m \in DOMAIN c2.loads : c2.loads[m].job = c.loads[m].job
  BY <1>5 DEF Ended
<1> QED  BY <1>1, <1>2, <1>5, <1>6, <1>7, <1>8, <1>10, <1>11, <1>12

\* AckTimeout: the load fails without an answer.
LEMMA AckTimeoutInv ==
    ASSUME Inv, NEW n, AckTimeout(n)
    PROVE  Inv'
<1>1. /\ n \in DOMAIN client.loads /\ Uses("ackTimeouts") /\ client' = C!LoadOver(client, n)
      /\ Reported({client.loads[n].job}, FALSE) /\ toServer' = toServer
      /\ phase' = phase /\ server' = server
      /\ bound' = bound /\ unbound' = unbound /\ toClient' = toClient
      /\ session' = session /\ connected' = connected /\ workload' = workload
  BY Zenon DEF AckTimeout, serverVars, linkVars, channelVars
<1>2. used' \in [Faults -> Nat] /\ used'["storeTimeouts"] = used["storeTimeouts"]
  BY <1>1, Counted DEF Faults
<1>3. Sound(server, toServer, toClient, client.loads, loads, Late, Alive)
  BY DEF Inv
<1>4. /\ ClientIs(client', loads') /\ LoadsAreSound(loads', Late) /\ loads' \in [Loads -> LoadRecords]
      /\ Sound(server, toServer, toClient, client'.loads, loads', Late, Alive')
      /\ client.unsent = {} => client'.unsent = {}
      /\ DOMAIN client'.loads \subseteq DOMAIN client.loads \ {n} /\ failedReq' \in BOOLEAN
      /\ \A m \in DOMAIN client'.loads : client'.loads[m].job = client.loads[m].job
  BY <1>1, <1>3, FailedEnd
<1>5. ClientEngine
  BY <1>1, <1>2, <1>4 DEF ClientEngine, Inv, Shape
<1>6. Ends'
  BY <1>1, <1>4 DEF Inv, Ends
<1>7. workload.mode = "prefill" => /\ client'.unsent = {}
                                   /\ \A i \in DOMAIN toServer' : toServer'[i].type # "lookup"
  BY <1>1, <1>4 DEF Inv, Modes
<1>8. connected => Promises(server, toServer', toClient', client'.loads)
  BY <1>1, <1>4 DEF Inv, Promises
<1>9. Sound(server, toServer', toClient', client'.loads, loads', Late, Alive')
  BY <1>1, <1>4
<1> QED  BY <1>4, <1>5, <1>6, <1>7, <1>8, <1>9, ClientActs

\* A reply read leaves what is left sound.
LEMMA ReplyRead ==
    ASSUME NEW s, NEW q, NEW tc, tc \in Seq(Reply), tc # <<>>, NEW cl, NEW ls, NEW late, NEW alive,
           Sound(s, q, tc, cl, ls, late, alive), s.sent = <<>>, NEW tc2, tc2 = Tail(tc)
    PROVE  Sound(s, q, tc2, cl, ls, late, alive) /\ tc2 \in Seq(Reply) /\ Head(tc) \in Reply
<1>1. /\ Part(tc2, tc) /\ tc2 \in Seq(Reply) /\ Head(tc) \in Reply
  BY ReadPart
<1>2. tc \o s.sent = tc /\ tc2 \o s.sent = tc2
  BY <1>1
<1>3. /\ IsServer(s) /\ Pins(s) /\ Shares(s, ls) /\ (late \/ Held(s, ls))
      /\ Asked(s, q, tc, cl, ls) /\ Served(s, tc, cl) /\ Answers(s, tc, cl, ls, late)
      /\ alive => Current(s, q, tc, cl)
  BY <1>2 DEF Sound
<1>4. /\ Asked(s, q, tc2, cl, ls) /\ Served(s, tc2, cl) /\ Answers(s, tc2, cl, ls, late)
      /\ Current(s, q, tc, cl) => Current(s, q, tc2, cl)
  BY <1>1, <1>3, FewerReplies
<1> QED  BY <1>1, <1>2, <1>3, <1>4 DEF Sound

\* What was owed still is, unless the reply read is it.
LEMMA OwedAfter ==
    ASSUME NEW s, NEW tc, tc \in Seq(Reply), tc # <<>>, NEW n, NEW job, Owed(s, tc, n, job)
    PROVE  \/ Owed(s, Tail(tc), n, job)
           \/ Head(tc).round = n /\ Head(tc).type \in {"done", "ack"}
<1>1. /\ Head(tc) = tc[1]
      /\ \A i \in DOMAIN tc : i = 1 \/ \E k \in DOMAIN Tail(tc) : Tail(tc)[k] = tc[i]
  BY ReadPart
<1> QED  BY <1>1 DEF Owed

\* ClientPoll of a reply that ends a load well.
LEMMA SucceededEnd ==
    ASSUME Inv, toClient # <<>>, NEW n, n \in DOMAIN client.loads, Done(Head(toClient), n),
           Head(toClient).ok, client' = C!LoadOver(client, n), phase' = phase, session' = session,
           Reported({client.loads[n].job}, TRUE)
    PROVE  /\ ClientIs(client', loads') /\ LoadsAreSound(loads', Late) /\ loads' \in [Loads -> LoadRecords]
           /\ Sound(server, toServer, Tail(toClient), client'.loads, loads', Late, Alive')
           /\ client.unsent = {} => client'.unsent = {}
           /\ DOMAIN client'.loads \subseteq DOMAIN client.loads \ {n} /\ failedReq' \in BOOLEAN
           /\ \A m \in DOMAIN client'.loads : client'.loads[m].job = client.loads[m].job
<1>1. PICK ls, ls2, js, c, c2, st, tc, alive :
         /\ ls = loads /\ ls2 = loads' /\ c = client /\ c2 = client' /\ tc = toClient
         /\ js = {c.loads[n].job} /\ st = "ok" /\ alive = Alive
  OBVIOUS
<1>2. Marks(ls, ls2, js, st) /\ failedReq' = failedReq /\ failedReq' \in BOOLEAN
  <2>1. PICK ok : ok = TRUE
    OBVIOUS
  <2>2. Reported(js, ok)
    BY <1>1, <2>1
  <2>3. /\ Marks(ls, ls2, js, IF ok THEN "ok" ELSE "failed") /\ failedReq' \in BOOLEAN
        /\ ~(js # {} /\ ~ok) => failedReq' = failedReq
    BY <1>1, <2>2, ReportedLoads
  <2> QED  BY <1>1, <2>1, <2>3
<1>3. ClientIs(c, ls) /\ LoadsAreSound(ls, Late) /\ n \in DOMAIN c.loads
  BY <1>1 DEF Inv
<1>4. Over(c, c2, n)
  BY <1>1, <1>3, OverClient
<1>5. ClientIs(c2, ls2) /\ Ended(c.loads, c2.loads, n, ls, ls2, st) /\ (c.unsent = {} => c2.unsent = {})
  BY <1>1, <1>2, <1>3, <1>4, OverIs
<1>6. PICK cl, cl2 : cl = c.loads /\ cl2 = c2.loads
  OBVIOUS
<1>7. /\ tc \in Seq(Reply) /\ tc # <<>> /\ Sound(server, toServer, tc, cl, ls, Late, alive)
      /\ server.sent = <<>> /\ Waits(cl, ls) /\ n \in DOMAIN cl
  BY <1>1, <1>3, <1>6 DEF Inv, Shape, ClientIs
<1>8. Head(tc) = tc[1]
  BY <1>7
<1>9. Done(tc[1], n) /\ tc[1].ok /\ Ended(cl, cl2, n, ls, ls2, "ok")
  BY <1>1, <1>5, <1>6, <1>8
<1>10. Sound(server, toServer, Tail(tc), cl2, ls2, Late, alive) /\ Complete(ls[cl[n].job], Late)
  BY <1>7, <1>9, SucceededSound
<1>11. Alive' = alive
  BY <1>1, <1>2 DEF Alive
<1>12. LoadsAreSound(ls2, Late)
  <2> SUFFICES ASSUME NEW j \in Loads
               PROVE  /\ ls2[j].keys \in SUBSET Keys /\ ls2[j].got \subseteq ls2[j].keys
                      /\ ls2[j].clean \in BOOLEAN /\ ls2[j].state \in LoadStates
                      /\ ls2[j].state = "ok" => Complete(ls2[j], Late)
    BY DEF LoadsAreSound
  <2>1. /\ ls[j].keys \in SUBSET Keys /\ ls[j].got \subseteq ls[j].keys
        /\ ls[j].clean \in BOOLEAN /\ ls[j].state \in LoadStates
        /\ ls[j].state = "ok" => Complete(ls[j], Late)
    BY <1>3 DEF LoadsAreSound
  <2>2. CASE j \in js
    <3>1. j = cl[n].job /\ Complete(ls[j], Late)
      BY <1>1, <1>6, <1>10, <2>2
    <3>2. /\ ls2[j].state = "ok" /\ ls2[j].keys = ls[j].keys
          /\ ls2[j].got = ls[j].got /\ ls2[j].clean = ls[j].clean
      BY <1>1, <1>2, <2>2 DEF Marks
    <3> QED  BY <2>1, <3>1, <3>2 DEF Complete, LoadStates
  <2>3. CASE j \notin js
    BY <1>2, <2>1, <2>3 DEF Marks
  <2> QED  BY <2>2, <2>3
<1>13. ls2 \in [Loads -> LoadRecords]
  BY <1>2 DEF Marks
<1>14. DOMAIN c2.loads = DOMAIN c.loads \ {n} /\ \A m \in DOMAIN c2.loads : c2.loads[m].job = c.loads[m].job
  BY <1>5 DEF Ended
<1> QED  BY <1>1, <1>2, <1>5, <1>6, <1>10, <1>11, <1>12, <1>13, <1>14

\* A reply that ends a load, well or badly.
LEMMA RepliedEnd ==
    ASSUME Inv, toClient # <<>>, NEW m, m = Head(toClient), m.type # "answer", NEW n, n = m.round,
           n \in DOMAIN client.loads, client' = C!LoadOver(client, n), phase' = phase, session' = session,
           Reported({client.loads[n].job}, m.ok)
    PROVE  /\ ClientIs(client', loads') /\ LoadsAreSound(loads', Late) /\ loads' \in [Loads -> LoadRecords]
           /\ Sound(server, toServer, Tail(toClient), client'.loads, loads', Late, Alive')
           /\ client.unsent = {} => client'.unsent = {}
           /\ DOMAIN client'.loads \subseteq DOMAIN client.loads \ {n} /\ failedReq' \in BOOLEAN
           /\ \A i \in DOMAIN client'.loads : client'.loads[i].job = client.loads[i].job
<1>1. PICK tc, tc2, cl, late, alive :
         tc = toClient /\ tc2 = Tail(toClient) /\ cl = client.loads /\ late = Late /\ alive = Alive
  OBVIOUS
<1>2. /\ tc \in Seq(Reply) /\ tc # <<>> /\ server.sent = <<>>
      /\ Sound(server, toServer, tc, cl, loads, late, alive)
  BY <1>1 DEF Inv, Shape
<1>3. Sound(server, toServer, tc2, cl, loads, late, alive) /\ m \in Reply
  BY <1>1, <1>2, ReplyRead
<1>4. m.ok \in BOOLEAN /\ m.type \in {"done", "ack"}
  BY <1>3 DEF Reply
<1>5. CASE m.ok = FALSE
  <2>1. Reported({client.loads[n].job}, FALSE)
    BY <1>5
  <2>2. Sound(server, toServer, tc2, client.loads, loads, Late, Alive)
    BY <1>1, <1>3
  <2>3. /\ ClientIs(client', loads') /\ LoadsAreSound(loads', Late) /\ loads' \in [Loads -> LoadRecords]
        /\ Sound(server, toServer, tc2, client'.loads, loads', Late, Alive')
        /\ client.unsent = {} => client'.unsent = {}
        /\ DOMAIN client'.loads \subseteq DOMAIN client.loads \ {n} /\ failedReq' \in BOOLEAN
        /\ \A i \in DOMAIN client'.loads : client'.loads[i].job = client.loads[i].job
    BY <2>1, <2>2, FailedEnd
  <2> QED  BY <1>1, <2>3
<1>6. CASE m.ok = TRUE
  <2>1. m.type = "done"
    <3>1. Answers(server, tc \o server.sent, cl, loads, late) /\ tc \o server.sent = tc
      BY <1>2 DEF Sound
    <3>2. 1 \in DOMAIN tc /\ m = tc[1]
      BY <1>1, <1>2, ReadPart
    <3> QED  BY <1>4, <1>6, <3>1, <3>2 DEF Answers
  <2>2. Done(Head(toClient), n) /\ Head(toClient).ok
    BY <1>6, <2>1 DEF Done
  <2>3. Reported({client.loads[n].job}, TRUE)
    BY <1>6
  <2> QED  BY <2>2, <2>3, SucceededEnd
<1> QED  BY <1>4, <1>5, <1>6

\* ClientPoll: only a reply to a round that ended ends what was owed for it.
LEMMA ClientPollInv == (Inv /\ ClientPoll) => Inv'
<1> SUFFICES ASSUME Inv, ClientPoll PROVE Inv'
  OBVIOUS
<1>1. PICK m, n : m = Head(toClient) /\ n = m.round
  OBVIOUS
<1>2. /\ toClient # <<>> /\ toClient' = Tail(toClient) /\ toServer' = toServer
      /\ IF m.type = "answer"
         THEN client' = C!Answered(client, m.answers) /\ loads' = loads /\ failedReq' = failedReq
         ELSE IF n \in DOMAIN client.loads
         THEN client' = C!LoadOver(client, n) /\ Reported({client.loads[n].job}, m.ok)
         ELSE client' = client /\ loads' = loads /\ failedReq' = failedReq
      /\ phase' = phase /\ server' = server /\ used' = used
      /\ bound' = bound /\ unbound' = unbound
      /\ session' = session /\ connected' = connected /\ workload' = workload
  BY Zenon, <1>1 DEF ClientPoll, serverVars, linkVars
<1>3. PICK tc, tc2, cl, late, alive :
         tc = toClient /\ tc2 = toClient' /\ cl = client.loads /\ late = Late /\ alive = Alive
  OBVIOUS
<1>4. /\ tc \in Seq(Reply) /\ tc # <<>> /\ tc2 = Tail(tc) /\ server.sent = <<>>
      /\ Sound(server, toServer, tc, cl, loads, late, alive)
  BY <1>2, <1>3 DEF Inv, Shape
<1>5. Sound(server, toServer, tc2, cl, loads, late, alive) /\ tc2 \in Seq(Reply) /\ m \in Reply
  BY <1>1, <1>3, <1>4, ReplyRead
<1>6. \A i, job : Owed(server, tc, i, job) =>
         Owed(server, tc2, i, job) \/ (n = i /\ m.type # "answer")
  BY <1>1, <1>3, <1>4, OwedAfter
<1>7. /\ ClientIs(client', loads') /\ LoadsAreSound(loads', Late) /\ loads' \in [Loads -> LoadRecords]
      /\ Sound(server, toServer, tc2, client'.loads, loads', Late, Alive')
      /\ client.unsent = {} => client'.unsent = {}
      /\ DOMAIN client'.loads \subseteq DOMAIN client.loads /\ failedReq' \in BOOLEAN
      /\ m.type # "answer" => n \notin DOMAIN client'.loads
      /\ \A i \in DOMAIN client'.loads : client'.loads[i].job = client.loads[i].job
  <2>1. CASE m.type # "answer" /\ n \in DOMAIN client.loads
    <3>1. client' = C!LoadOver(client, n) /\ Reported({client.loads[n].job}, m.ok)
      BY <1>2, <2>1
    <3>2. /\ ClientIs(client', loads') /\ LoadsAreSound(loads', Late) /\ loads' \in [Loads -> LoadRecords]
          /\ Sound(server, toServer, Tail(toClient), client'.loads, loads', Late, Alive')
          /\ client.unsent = {} => client'.unsent = {}
          /\ DOMAIN client'.loads \subseteq DOMAIN client.loads \ {n} /\ failedReq' \in BOOLEAN
          /\ \A i \in DOMAIN client'.loads : client'.loads[i].job = client.loads[i].job
      BY <1>1, <1>2, <2>1, <3>1, RepliedEnd
    <3> QED  BY <1>3, <1>4, <3>2
  <2>2. CASE ~(m.type # "answer" /\ n \in DOMAIN client.loads)
    <3>1. loads' = loads /\ failedReq' = failedReq /\ Alive' = Alive
      BY <1>2, <2>2 DEF Alive
    <3>2. client' = client \/ client' = C!Answered(client, m.answers)
      BY <1>2, <2>2
    <3>3. PICK c, c2 : c = client /\ c2 = client'
      OBVIOUS
    <3>4. ClientIs(c, loads)
      BY <3>3 DEF Inv
    <3>5. /\ c2 = [probes |-> c2.probes, unsent |-> c2.unsent, round |-> c2.round, open |-> c2.open,
                   loads |-> c2.loads]
          /\ c2.unsent = c.unsent /\ c2.round = c.round /\ c2.open = c.open /\ c2.loads = c.loads
      <4>1. c = [probes |-> c.probes, unsent |-> c.unsent, round |-> c.round, open |-> c.open,
                 loads |-> c.loads]
        BY <3>4 DEF ClientIs
      <4>2. PICK ps : c2 = c \/ c2 = [c EXCEPT !.probes = ps]
        BY <3>2, <3>3 DEF C!Answered
      <4>3. CASE c2 = c
        BY <4>1, <4>3
      <4>4. CASE c2 = [c EXCEPT !.probes = ps]
        <5>1. c2 = [probes |-> ps, unsent |-> c.unsent, round |-> c.round, open |-> c.open,
                    loads |-> c.loads]
          BY ONLY <4>1, <4>4
        <5>2. /\ c2.probes = ps /\ c2.unsent = c.unsent /\ c2.round = c.round /\ c2.open = c.open
              /\ c2.loads = c.loads
          BY ONLY <5>1
        <5> QED  BY <5>1, <5>2
      <4> QED  BY <4>2, <4>3, <4>4
    <3>6. ClientIs(c2, loads)
      BY <3>4, <3>5 DEF ClientIs
    <3>7. Sound(server, toServer, tc2, client'.loads, loads', Late, Alive')
      BY <1>3, <1>5, <3>1, <3>3, <3>5
    <3>8. LoadsAreSound(loads', Late) /\ loads' \in [Loads -> LoadRecords] /\ failedReq' \in BOOLEAN
      BY <3>1 DEF Inv, Shape
    <3>9. client'.loads = client.loads /\ client'.unsent = client.unsent /\ ClientIs(client', loads')
      BY <3>1, <3>3, <3>5, <3>6
    <3> QED  BY <2>2, <3>7, <3>8, <3>9
  <2> QED  BY <2>1, <2>2
<1>8. ClientEngine
  BY <1>2, <1>3, <1>5, <1>7 DEF ClientEngine, Inv, Shape
<1>9. Ends'
  BY <1>2, <1>7 DEF Inv, Ends
<1>10. workload.mode = "prefill" => /\ client'.unsent = {}
                                    /\ \A i \in DOMAIN toServer' : toServer'[i].type # "lookup"
  BY <1>2, <1>7 DEF Inv, Modes
<1>11. connected => Promises(server, toServer', toClient', client'.loads)
  <2> SUFFICES ASSUME connected, NEW i \in DOMAIN client'.loads
               PROVE  Asking(toServer, i) \/ Owed(server, tc2, i, client'.loads[i].job)
    BY <1>2, <1>3 DEF Promises
  <2>1. Asking(toServer, i) \/ Owed(server, tc, i, client.loads[i].job)
    BY <1>3, <1>7 DEF Inv, Promises
  <2> QED  BY <1>6, <1>7, <2>1
<1>12. Sound(server, toServer', toClient', client'.loads, loads', Late, Alive')
  BY <1>2, <1>3, <1>7
<1> QED  BY <1>7, <1>8, <1>9, <1>10, <1>11, <1>12, ClientActs

\* The client forgets every load, and can start no more.
LEMMA AllGivenUp ==
    ASSUME NEW s, NEW q, NEW tc, NEW cl, NEW ls, NEW late, NEW alive,
           Sound(s, q, tc, cl, ls, late, alive), Waits(cl, ls), NEW ls2, Follows(ls, ls2),
           NEW cl2, DOMAIN cl2 = {}, NEW alive2, alive2 = FALSE
    PROVE  Sound(s, q, tc, cl2, ls2, late, alive2)
<1>1. Forgets(cl, cl2, alive, alive2)
  BY DEF Forgets
<1> QED  BY <1>1, GivenUp

\* ClientReaps: close() of the client's session.
LEMMA ClientReapsInv == (Inv /\ ClientReaps) => Inv'
<1> SUFFICES ASSUME Inv, ClientReaps PROVE Inv'
  OBVIOUS
<1>1. PICK js : js = {client.loads[n].job : n \in DOMAIN client.loads}
  OBVIOUS
<1>2. /\ ~connected /\ session' = [session EXCEPT !["client"] = FALSE]
      /\ client' = C!FreshClient
      /\ loads' = [j \in Loads |-> IF j \in js THEN [loads[j] EXCEPT !.state = "failed"] ELSE loads[j]]
      /\ \E asking : asking \in BOOLEAN /\ failedReq' = (failedReq \/ js # {} \/ asking)
      /\ phase' = phase /\ server' = server /\ used' = used /\ toServer' = toServer
      /\ bound' = bound /\ unbound' = unbound /\ toClient' = toClient
      /\ connected' = connected /\ workload' = workload
  <2>1. PICK asking : asking = \E k \in DOMAIN client.probes : client.probes[k] = "none"
    OBVIOUS
  <2>2. asking \in BOOLEAN
    BY <2>1
  <2>3. /\ ~connected /\ session' = [session EXCEPT !["client"] = FALSE]
        /\ client' = C!FreshClient
        /\ loads' = [j \in Loads |-> IF j \in js THEN [loads[j] EXCEPT !.state = "failed"] ELSE loads[j]]
        /\ failedReq' = (failedReq \/ js # {} \/ asking)
        /\ phase' = phase /\ server' = server /\ used' = used /\ toServer' = toServer
        /\ bound' = bound /\ unbound' = unbound /\ toClient' = toClient
        /\ connected' = connected /\ workload' = workload
    BY Zenon, <1>1, <2>1 DEF ClientReaps, serverVars, channelVars
  <2> QED  BY <2>2, <2>3
<1>3. PICK ls, ls2, st : ls = loads /\ ls2 = loads' /\ st = "failed"
  OBVIOUS
<1>4. ls \in [Loads -> LoadRecords] /\ st \in LoadStates /\ LoadsAreSound(ls, Late)
  BY <1>3 DEF Inv, Shape, LoadStates
<1>5. Marks(ls, ls2, js, st)
  <2>1. ls2 = [j \in Loads |-> IF j \in js THEN [ls[j] EXCEPT !.state = st] ELSE ls[j]]
    BY <1>2, <1>3
  <2> QED  BY <1>4, <2>1, MarkedLoads
<1>6. LoadsAreSound(ls2, Late) /\ Follows(ls, ls2) /\ ls2 \in [Loads -> LoadRecords]
  <2>1. ls2 \in [Loads -> LoadRecords]
    BY <1>5 DEF Marks
  <2> QED  BY <1>3, <1>4, <1>5, <2>1, FailedLoads
<1>7. failedReq' \in BOOLEAN
  BY <1>2 DEF Inv, Shape
<1>8. session' \in [{"client", "server"} -> BOOLEAN] /\ Alive' = FALSE
  BY <1>2 DEF Inv, Shape, Alive
<1>9. ClientIs(client', loads') /\ client'.unsent = {} /\ DOMAIN client'.loads = {}
  BY <1>2, FreshClientIs
<1>10. PICK cl, cl2, alive, no : cl = client.loads /\ cl2 = client'.loads /\ alive = Alive /\ no = FALSE
  OBVIOUS
<1>11. Sound(server, toServer, toClient, cl2, ls2, Late, no)
  <2>1. Sound(server, toServer, toClient, cl, ls, Late, alive) /\ Waits(cl, ls)
    BY <1>3, <1>10 DEF Inv, ClientIs
  <2> QED  BY <1>6, <1>9, <1>10, <2>1, AllGivenUp
<1>12. Sound(server, toServer', toClient', client'.loads, loads', Late, Alive')
  BY <1>2, <1>3, <1>8, <1>10, <1>11
<1>13. ClientEngine
  BY <1>2, <1>3, <1>6, <1>7, <1>8 DEF ClientEngine, Inv, Shape
<1>14. Ends'
  BY <1>2, <1>9 DEF Inv, Ends
<1>15. workload.mode = "prefill" => /\ client'.unsent = {}
                                    /\ \A i \in DOMAIN toServer' : toServer'[i].type # "lookup"
  BY <1>2, <1>9 DEF Inv, Modes
<1>16. LoadsAreSound(loads', Late)
  BY <1>3, <1>6
<1> QED  BY <1>2, <1>9, <1>12, <1>13, <1>14, <1>15, <1>16, ClientActs

\* The messages of finish: aborts, and the fetch of nothing.
LEMMA FinishMessages ==
    ASSUME NEW c, NEW ls, ClientIs(c, ls), NEW msgs, msgs = C!FinishMsgs(c)
    PROVE  /\ msgs \in Seq(Request)
           /\ \A i \in DOMAIN msgs : ~Fetching(msgs[i]) /\ msgs[i].type # "lookup"
<1>1. PICK awaited : awaited = {n \in DOMAIN c.loads : ~c.loads[n].aborting}
  OBVIOUS
<1>2. c.round \in Nat /\ \A n \in DOMAIN c.loads : n \in 0..(c.round - 1)
  BY DEF ClientIs
<1>3. awaited \subseteq 0..(c.round - 1) /\ IsFiniteSet(0..(c.round - 1))
  BY <1>1, <1>2, FS_Interval
<1>4. IsFiniteSet(awaited) /\ \A n \in awaited : n \in Nat
  <2>1. PICK all : all = 0..(c.round - 1)
    OBVIOUS
  <2>2. awaited \subseteq all /\ IsFiniteSet(all)
    BY <1>3, <2>1
  <2>3. IsFiniteSet(awaited)
    BY ONLY <2>2, FS_Subset
  <2>4. \A n \in awaited : n \in Nat
    BY <1>2, <1>3
  <2> QED  BY <2>3, <2>4
<1>5. PICK f : f = C!SetToSeq(awaited)
  OBVIOUS
<1>6. PICK k \in Nat : f \in [1..k -> awaited]
  BY <1>4, <1>5, ListedRounds
<1>7. PICK aborts : aborts = [i \in DOMAIN f |-> C!AbortMsg(f[i])]
  OBVIOUS
<1>8. \A n \in Nat : /\ C!AbortMsg(n) \in Request /\ C!AbortMsg(n).type = "abort"
  BY DEF C!AbortMsg, Request
<1>9. \A i \in 1..k : aborts[i] \in Request /\ aborts[i].type = "abort"
  BY <1>4, <1>6, <1>7, <1>8
<1>10. aborts \in Seq(Request) /\ DOMAIN aborts = 1..k
  <2>1. DOMAIN aborts = 1..k /\ aborts = [i \in 1..k |-> aborts[i]]
    BY <1>6, <1>7
  <2>2. aborts \in [1..k -> Request]
    BY <1>9, <2>1
  <2> QED  BY <1>6, <2>1, <2>2, SeqDef
<1>11. PICK last : last = IF c.open THEN <<C!FetchMsg(c, {}, 0)>> ELSE <<>>
  OBVIOUS
<1>12. last \in Seq(Request) /\ \A i \in DOMAIN last : ~Fetching(last[i]) /\ last[i].type # "lookup"
  <2>1. PICK m, none : none = {} /\ m = [type |-> "fetch", keys |-> none, job |-> 0, round |-> c.round]
    OBVIOUS
  <2>2. m \in Request /\ m.type = "fetch" /\ m.keys = {}
    BY <1>2, <2>1 DEF Request
  <2>3. C!FetchMsg(c, {}, 0) = m
    BY <2>1 DEF C!FetchMsg
  <2>4. last = <<m>> \/ last = <<>>
    BY <1>11, <2>3
  <2>5. CASE last = <<m>>
    <3>1. <<m>> \in Seq(Request) /\ DOMAIN <<m>> = {1} /\ <<m>>[1] = m
      BY <2>2, OneMessage
    <3> QED  BY <2>2, <2>5, <3>1 DEF Fetching
  <2>6. CASE last = <<>>
    BY <2>6
  <2> QED  BY <2>4, <2>5, <2>6
<1>13. msgs = aborts \o last
  <2>1. C!FinishMsgs(c) = [i \in DOMAIN f |-> C!AbortMsg(f[i])] \o last
    BY Zenon, <1>1, <1>5, <1>11 DEF C!FinishMsgs
  <2> QED  BY <1>7, <2>1
<1>14. /\ msgs \in Seq(Request)
       /\ \A i \in DOMAIN msgs : i \in DOMAIN aborts \/ \E h \in DOMAIN last : i = Len(aborts) + h
       /\ \A i \in DOMAIN aborts : msgs[i] = aborts[i]
       /\ \A i \in DOMAIN last : msgs[Len(aborts) + i] = last[i]
  <2>1. PICK T : T = Request
    OBVIOUS
  <2>2. aborts \in Seq(T) /\ last \in Seq(T)
    BY <1>10, <1>12, <2>1
  <2>3. PICK both : both = aborts \o last
    OBVIOUS
  <2>4. /\ both \in Seq(T)
        /\ \A i \in DOMAIN both : i \in DOMAIN aborts \/ \E h \in DOMAIN last : i = Len(aborts) + h
        /\ \A i \in DOMAIN aborts : both[i] = aborts[i]
        /\ \A i \in DOMAIN last : both[Len(aborts) + i] = last[i]
    BY ONLY <2>2, <2>3, JoinedMessages
  <2> QED  BY <1>13, <2>1, <2>3, <2>4
<1>15. ASSUME NEW i \in DOMAIN msgs
       PROVE  ~Fetching(msgs[i]) /\ msgs[i].type # "lookup"
  <2>1. CASE i \in DOMAIN aborts
    BY <1>9, <1>10, <1>14, <2>1 DEF Fetching
  <2>2. CASE \E h \in DOMAIN last : i = Len(aborts) + h
    BY <1>12, <1>14, <2>2
  <2> QED  BY <1>14, <2>1, <2>2
<1> QED  BY <1>14, <1>15

\* FinishRequest: the loads in flight are aborted and forgotten.
LEMMA FinishRequestInv == (Inv /\ FinishRequest) => Inv'
<1> SUFFICES ASSUME Inv, FinishRequest PROVE Inv'
  OBVIOUS
<1>1. PICK msgs : msgs = C!FinishMsgs(client)
  OBVIOUS
<1>2. /\ phase' = "finished" /\ client' = C!FreshClient /\ toServer' = Sends(toServer, msgs)
      /\ failedReq' = FALSE
      /\ loads' = loads /\ server' = server /\ used' = used
      /\ bound' = bound /\ unbound' = unbound /\ toClient' = toClient
      /\ session' = session /\ connected' = connected /\ workload' = workload
  BY Zenon, <1>1 DEF FinishRequest, serverVars, linkVars
<1>3. PICK q, q2, cl, cl2, alive, no :
         /\ q = toServer /\ q2 = toServer' /\ cl = client.loads /\ cl2 = client'.loads
         /\ alive = Alive /\ no = FALSE
  OBVIOUS
<1>4. /\ msgs \in Seq(Request)
      /\ \A i \in DOMAIN msgs : ~Fetching(msgs[i]) /\ msgs[i].type # "lookup"
  <2>1. ClientIs(client, loads)
    BY DEF Inv
  <2> QED  BY <1>1, <2>1, FinishMessages
<1>5. /\ q \in Seq(Request) /\ q2 = Sends(q, msgs) /\ Sound(server, q, toClient, cl, loads, Late, alive)
      /\ Waits(cl, loads)
  BY <1>2, <1>3 DEF Inv, Shape, ClientIs
<1>6. Grows(q, msgs, q2)
  BY <1>4, <1>5, SendsGrow
<1>7. Sound(server, q2, toClient, cl, loads, Late, alive)
  BY <1>4, <1>5, SentQuietly
<1>8. ClientIs(client', loads') /\ client'.unsent = {} /\ DOMAIN client'.loads = {}
  BY <1>2, FreshClientIs
<1>9. Sound(server, q2, toClient, cl2, loads, Late, no)
  <2>1. Follows(loads, loads)
    BY DEF Follows
  <2> QED  BY <1>3, <1>5, <1>7, <1>8, <2>1, AllGivenUp
<1>10. Alive' = FALSE
  BY <1>2 DEF Alive
<1>11. ClientEngine
  BY <1>2, <1>3, <1>6 DEF ClientEngine, Inv, Shape, Grows
<1>12. Ends'
  BY <1>2, <1>8 DEF Ends
<1>13. workload.mode = "prefill" => /\ client'.unsent = {}
                                    /\ \A i \in DOMAIN toServer' : toServer'[i].type # "lookup"
  <2> SUFFICES ASSUME workload.mode = "prefill", NEW i \in DOMAIN q2
               PROVE  q2[i].type # "lookup"
    BY <1>3, <1>8
  <2>1. \A k \in DOMAIN q : q[k].type # "lookup"
    BY <1>3 DEF Inv, Modes
  <2> QED  BY <1>4, <1>6, <2>1 DEF Grows
<1>14. Promises(server, toServer', toClient', client'.loads)
  BY <1>8 DEF Promises
<1>15. Sound(server, toServer', toClient', client'.loads, loads', Late, Alive')
  BY <1>2, <1>3, <1>9, <1>10
<1>16. LoadsAreSound(loads', Late)
  BY <1>2 DEF Inv
<1> QED  BY <1>8, <1>11, <1>12, <1>13, <1>14, <1>15, <1>16, ClientActs

\* register_lookup.
LEMMA RegisteredClient ==
    ASSUME NEW c, NEW ls, ClientIs(c, ls), NEW keys, keys \in SUBSET Keys,
           NEW r, r = IF keys = {} THEN c ELSE C!Registered(c, keys)
    PROVE  /\ ClientIs(r, ls) /\ r.loads = c.loads /\ r.round = c.round
           /\ keys = {} => r.unsent = c.unsent
<1>1. CASE keys = {}
  BY <1>1
<1>2. CASE keys # {}
  <2>1. PICK ps, us : us = c.unsent \cup keys /\ r = [c EXCEPT !.probes = ps, !.unsent = us]
    BY <1>2 DEF C!Registered
  <2>2. c = [probes |-> c.probes, unsent |-> c.unsent, round |-> c.round, open |-> c.open, loads |-> c.loads]
    BY DEF ClientIs
  <2>3. r = [c EXCEPT !.probes = ps, !.unsent = us]
    BY <2>1
  <2>4. r = [probes |-> ps, unsent |-> us, round |-> c.round, open |-> c.open, loads |-> c.loads]
    BY ONLY <2>2, <2>3
  <2>5. /\ r.probes = ps /\ r.unsent = us /\ r.round = c.round /\ r.open = c.open
        /\ r.loads = c.loads
    BY ONLY <2>4
  <2>6. us \in SUBSET Keys
    BY <2>1 DEF ClientIs
  <2>7. r = [probes |-> r.probes, unsent |-> r.unsent, round |-> r.round, open |-> r.open, loads |-> r.loads]
    BY <2>4, <2>5
  <2>8. ClientIs(r, ls)
    BY <2>5, <2>6, <2>7 DEF ClientIs
  <2> QED  BY <1>2, <2>5, <2>8
<1> QED  BY <1>1, <1>2

\* flush_pending_lookups.
LEMMA FlushedClient ==
    ASSUME NEW c, NEW ls, ClientIs(c, ls), NEW f, f = C!Flushed(c)
    PROVE  ClientIs(f, ls) /\ f.loads = c.loads /\ f.unsent = {}
<1>1. CASE c.unsent = {}
  BY <1>1 DEF C!Flushed
<1>2. CASE c.unsent # {}
  <2>1. PICK yes, none : yes = TRUE /\ none = {}
    OBVIOUS
  <2>2. c = [probes |-> c.probes, unsent |-> c.unsent, round |-> c.round, open |-> c.open, loads |-> c.loads]
    BY DEF ClientIs
  <2>3. f = [c EXCEPT !.open = yes, !.unsent = none]
    BY <1>2, <2>1 DEF C!Flushed
  <2>4. f = [probes |-> c.probes, unsent |-> none, round |-> c.round, open |-> yes, loads |-> c.loads]
    BY ONLY <2>2, <2>3
  <2>5. /\ f.probes = c.probes /\ f.unsent = none /\ f.round = c.round /\ f.open = yes
        /\ f.loads = c.loads
    BY ONLY <2>4
  <2>6. none \in SUBSET Keys /\ yes \in BOOLEAN
    BY <2>1
  <2>7. f = [probes |-> f.probes, unsent |-> f.unsent, round |-> f.round, open |-> f.open, loads |-> f.loads]
    BY <2>4, <2>5
  <2>8. ClientIs(f, ls)
    BY <2>5, <2>6, <2>7 DEF ClientIs
  <2> QED  BY <2>1, <2>5, <2>8
<1> QED  BY <1>1, <1>2

\* The lookups that it sends.
LEMMA LookupMessages ==
    ASSUME NEW c, NEW ls, ClientIs(c, ls), NEW msgs, msgs = C!LookupMsgs(c)
    PROVE  /\ msgs \in Seq(Request) /\ \A i \in DOMAIN msgs : msgs[i].type = "lookup"
           /\ c.unsent = {} => msgs = <<>>
<1>1. CASE c.unsent = {}
  BY <1>1 DEF C!LookupMsgs
<1>2. CASE c.unsent # {}
  <2>1. PICK m : m = [type |-> "lookup", keys |-> c.unsent, job |-> 0, round |-> c.round]
    OBVIOUS
  <2>2. m \in Request /\ m.type = "lookup"
    BY <2>1 DEF ClientIs, Request
  <2>3. msgs = <<m>>
    BY <1>2, <2>1 DEF C!LookupMsgs
  <2>4. <<m>> \in Seq(Request) /\ DOMAIN <<m>> = {1} /\ <<m>>[1] = m
    BY <2>2, OneMessage
  <2> QED  BY <1>2, <2>2, <2>3, <2>4
<1> QED  BY <1>1, <1>2

\* Schedule: the lookups are sent, and perhaps the request runs.
LEMMA ScheduleInv == (Inv /\ Schedule) => Inv'
<1> SUFFICES ASSUME Inv, Schedule PROVE Inv'
  OBVIOUS
<1>1. PICK c : c = IF NewProbes = {} THEN client ELSE C!Registered(client, NewProbes)
  OBVIOUS
<1>2. /\ phase = "waiting" /\ client' = C!Flushed(c) /\ toServer' = Sends(toServer, C!LookupMsgs(c))
      /\ phase' = IF \A k \in Scanned : primary[k] = "ready" THEN "running" ELSE "waiting"
      /\ loads' = loads /\ failedReq' = failedReq /\ server' = server
      /\ bound' = bound /\ unbound' = unbound /\ toClient' = toClient
      /\ session' = session /\ connected' = connected /\ workload' = workload /\ used' = used
  BY Zenon, <1>1 DEF Schedule, serverVars, linkVars
<1>3. PICK q, q2, cl, msgs, alive, c2 :
         /\ q = toServer /\ q2 = toServer' /\ cl = client.loads
         /\ alive = Alive /\ msgs = C!LookupMsgs(c) /\ c2 = client'
  OBVIOUS
<1>4. /\ ClientIs(c, loads) /\ c.loads = cl /\ (NewProbes = {} => c.unsent = client.unsent)
  <2>1. PICK new, c0 : new = NewProbes /\ c0 = client
    OBVIOUS
  <2>2. new \in SUBSET Keys /\ ClientIs(c0, loads)
    BY <2>1, ScannedKeys DEF Inv
  <2>3. c = IF new = {} THEN c0 ELSE C!Registered(c0, new)
    BY <1>1, <2>1
  <2>4. ClientIs(c, loads) /\ c.loads = c0.loads /\ (new = {} => c.unsent = c0.unsent)
    BY <2>2, <2>3, RegisteredClient
  <2> QED  BY <1>3, <2>1, <2>4
<1>5. ClientIs(c2, loads) /\ c2.loads = cl /\ c2.unsent = {}
  <2>1. c2 = C!Flushed(c)
    BY <1>2, <1>3
  <2> QED  BY <1>4, <2>1, FlushedClient
<1>6. /\ msgs \in Seq(Request) /\ \A i \in DOMAIN msgs : msgs[i].type = "lookup"
      /\ c.unsent = {} => msgs = <<>>
  BY <1>3, <1>4, LookupMessages
<1>7. \A i \in DOMAIN msgs : ~Fetching(msgs[i])
  BY <1>6 DEF Fetching
<1>8. /\ q \in Seq(Request) /\ q2 = Sends(q, msgs)
      /\ Sound(server, q, toClient, cl, loads, Late, alive)
  BY <1>2, <1>3 DEF Inv, Shape
<1>9. Grows(q, msgs, q2)
  BY <1>6, <1>8, SendsGrow
<1>10. Sound(server, q2, toClient, cl, loads, Late, alive)
  BY <1>6, <1>7, <1>8, SentQuietly
<1>11. phase' # "finished" /\ Alive' = Alive
  BY <1>2 DEF Alive
<1>12. ClientEngine
  BY <1>2, <1>3, <1>9 DEF ClientEngine, Inv, Shape, Grows
<1>13. Ends'
  <2>1. \A i \in DOMAIN q : ~(q[i].type = "fetch" /\ q[i].keys = {})
    BY <1>2, <1>3 DEF Inv, Ends
  <2>2. \A i \in DOMAIN q2 : ~(q2[i].type = "fetch" /\ q2[i].keys = {})
    BY <1>6, <1>9, <2>1 DEF Grows
  <2> QED  BY <1>3, <1>11, <2>2 DEF Ends
<1>14. workload.mode = "prefill" => /\ client'.unsent = {}
                                    /\ \A i \in DOMAIN toServer' : toServer'[i].type # "lookup"
  <2> SUFFICES ASSUME workload.mode = "prefill", NEW i \in DOMAIN q2
               PROVE  q2[i].type # "lookup"
    BY <1>3, <1>5
  <2>1. NewProbes = {} /\ client.unsent = {}
    BY ScannedKeys DEF Inv, Modes
  <2>2. msgs = <<>>
    BY <1>4, <1>6, <2>1
  <2>3. \A k \in DOMAIN q : q[k].type # "lookup"
    BY <1>3 DEF Inv, Modes
  <2> QED  BY <1>9, <2>2, <2>3 DEF Grows
<1>15. connected => Promises(server, toServer', toClient', client'.loads)
  <2> SUFFICES ASSUME connected, NEW i \in DOMAIN cl
               PROVE  Asking(q2, i) \/ Owed(server, toClient, i, cl[i].job)
    BY <1>2, <1>3, <1>5 DEF Promises
  <2>1. Asking(q, i) \/ Owed(server, toClient, i, cl[i].job)
    BY <1>3 DEF Inv, Promises
  <2> QED  BY <1>9, <2>1, AskedMore
<1>16. Sound(server, toServer', toClient', client'.loads, loads', Late, Alive')
  BY <1>2, <1>3, <1>5, <1>10, <1>11
<1>17. ClientIs(client', loads') /\ LoadsAreSound(loads', Late)
  BY <1>2, <1>3, <1>5 DEF Inv
<1> QED  BY <1>12, <1>13, <1>14, <1>15, <1>16, <1>17, ClientActs

\* request_blocks: the round that opens.
LEMMA RequestedClient ==
    ASSUME NEW c, NEW ls, ClientIs(c, ls), NEW j, j \in Loads, ls[j].state = "unused",
           NEW ls2, NEW keys, keys \in SUBSET Keys, keys # {},
           ls2[j] = [state |-> "wait", keys |-> keys, got |-> {}, clean |-> TRUE],
           \A i \in Loads : i # j => ls2[i] = ls[i],
           NEW r, r = C!Requested(c, j)
    PROVE  /\ ClientIs(r, ls2) /\ r.unsent = c.unsent
           /\ Starting(c.loads, r.loads, c.round, j, keys, ls, ls2)
<1>1. PICK n, l, no, ps, cl2 :
         /\ n = c.round /\ no = FALSE /\ l = [job |-> j, aborting |-> no]
         /\ ps = C!FreshClient.probes
         /\ cl2 = [m \in DOMAIN c.loads \cup {n} |-> IF m = n THEN l ELSE c.loads[m]]
  OBVIOUS
<1>2. r = [c EXCEPT !.round = n + 1, !.loads = cl2, !.open = no, !.probes = ps]
  BY <1>1 DEF C!Requested
<1>3. c = [probes |-> c.probes, unsent |-> c.unsent, round |-> c.round, open |-> c.open, loads |-> c.loads]
  BY DEF ClientIs
<1>4. PICK n1 : n1 = n + 1
  OBVIOUS
<1>5. r = [probes |-> ps, unsent |-> c.unsent, round |-> n1, open |-> no, loads |-> cl2]
  <2>1. r = [c EXCEPT !.round = n1, !.loads = cl2, !.open = no, !.probes = ps]
    BY <1>2, <1>4
  <2> QED  BY ONLY <1>3, <2>1
<1>6. /\ r.probes = ps /\ r.unsent = c.unsent /\ r.round = n1 /\ r.open = no /\ r.loads = cl2
  BY ONLY <1>5
<1>7. r = [probes |-> r.probes, unsent |-> r.unsent, round |-> r.round, open |-> r.open, loads |-> r.loads]
  BY <1>5, <1>6
<1>8. /\ n \in Nat /\ \A m \in DOMAIN c.loads : m \in 0..(n - 1) /\ c.loads[m] \in [job : Loads, aborting : BOOLEAN]
      /\ Waits(c.loads, ls) /\ c.unsent \in SUBSET Keys
  BY <1>1 DEF ClientIs
<1>9. n \notin DOMAIN c.loads
  BY <1>8
<1>10. /\ DOMAIN cl2 = DOMAIN c.loads \cup {n} /\ cl2[n] = l
       /\ \A m \in DOMAIN c.loads : cl2[m] = c.loads[m]
  BY <1>1, <1>9
<1>11. l \in [job : Loads, aborting : BOOLEAN] /\ l.job = j
  <2>1. no \in BOOLEAN
    BY Zenon, <1>1
  <2> QED  BY <1>1, <2>1
<1>12. \A m \in DOMAIN cl2 : m \in 0..(n1 - 1) /\ cl2[m] \in [job : Loads, aborting : BOOLEAN]
  BY <1>4, <1>8, <1>10, <1>11
<1>13. \A m \in DOMAIN c.loads : c.loads[m].job \in Loads /\ c.loads[m].job # j /\ ls[c.loads[m].job].state = "wait"
  BY <1>8 DEF Waits
<1>14. Waits(cl2, ls2)
  <2>1. ls2[j].state = "wait"
    OBVIOUS
  <2>2. \A m \in DOMAIN c.loads : ls2[c.loads[m].job].state = "wait"
    BY <1>13
  <2>3. \A m, h \in DOMAIN c.loads : m # h => c.loads[m].job # c.loads[h].job
    BY <1>8 DEF Waits
  <2>4. \A m \in DOMAIN cl2 : cl2[m].job \in Loads /\ ls2[cl2[m].job].state = "wait"
    BY <1>10, <1>11, <1>13, <2>1, <2>2
  <2>5. \A m, h \in DOMAIN cl2 : m # h => cl2[m].job # cl2[h].job
    BY <1>10, <1>11, <1>13, <2>3
  <2> QED  BY <2>4, <2>5 DEF Waits
<1>15. ClientIs(r, ls2)
  <2>1. n1 \in Nat /\ no \in BOOLEAN
    <3>1. no \in BOOLEAN
      BY Zenon, <1>1
    <3> QED  BY <1>4, <1>8, <3>1
  <2>2. cl2 = [m \in DOMAIN cl2 |-> cl2[m]]
    BY <1>1
  <2> QED  BY <1>6, <1>7, <1>8, <1>12, <1>14, <2>1, <2>2 DEF ClientIs
<1>16. Starting(c.loads, cl2, n, j, keys, ls, ls2)
  BY <1>8, <1>9, <1>10, <1>11 DEF Starting
<1> QED  BY <1>1, <1>6, <1>15, <1>16

\* ScheduleFetch: the fetch is sent, the lookups after it.
LEMMA ScheduleFetchInv ==
    ASSUME Inv, NEW j \in Loads, ScheduleFetch(j)
    PROVE  Inv'
<1>1. PICK c, c1 : /\ c = IF NewProbes = {} THEN client ELSE C!Registered(client, NewProbes)
                   /\ c1 = C!Requested(c, j)
  OBVIOUS
<1>2. /\ phase = "waiting" /\ Hits # {} /\ session["client"] /\ j \in NextLoad
      /\ client' = C!Flushed(c1)
      /\ toServer' = Sends(toServer, <<C!FetchMsg(c, Hits, j)>> \o C!LookupMsgs(c1))
      /\ Began(j, "wait")
      /\ phase' = phase /\ failedReq' = failedReq /\ server' = server
      /\ bound' = bound /\ unbound' = unbound /\ toClient' = toClient
      /\ session' = session /\ connected' = connected /\ workload' = workload /\ used' = used
  BY Zenon, <1>1 DEF ScheduleFetch, serverVars, linkVars
<1>3. PICK q, q2, cl, lookups, c2, m, one, keys, ls, ls2, n, late, yes :
         /\ q = toServer /\ q2 = toServer' /\ cl = client.loads
         /\ lookups = C!LookupMsgs(c1) /\ c2 = client' /\ keys = Hits /\ n = c.round
         /\ m = [type |-> "fetch", keys |-> keys, job |-> j, round |-> n]
         /\ one = <<m>> /\ ls = loads /\ ls2 = loads' /\ late = Late /\ yes = TRUE
  OBVIOUS
<1>4. ls[j].state = "unused" /\ "wait" \in LoadStates
  BY <1>2, <1>3 DEF NextLoad, LoadStates
<1>5. /\ ls2 \in [Loads -> LoadRecords]
      /\ ls2[j] = [state |-> "wait", keys |-> keys, got |-> {}, clean |-> TRUE]
      /\ \A i \in Loads : i # j => ls2[i] = ls[i]
      /\ LoadsAreSound(ls2, late)
  <2>1. PICK wait : wait = "wait"
    OBVIOUS
  <2>2. wait \in LoadStates /\ wait # "ok" /\ Began(j, wait)
    BY <1>2, <1>4, <2>1
  <2>3. /\ loads' \in [Loads -> LoadRecords]
        /\ loads'[j] = [state |-> wait, keys |-> Hits, got |-> {}, clean |-> TRUE]
        /\ \A i \in Loads : i # j => loads'[i] = loads[i]
        /\ LoadsAreSound(loads', Late)
    BY <2>2, BeganLoads
  <2>4. Late = late
    BY <1>3
  <2> QED  BY <1>3, <2>1, <2>3, <2>4
<1>6. Alive = TRUE /\ Alive' = TRUE /\ ~failedReq
  <2>1. ~failedReq
    BY <1>2, ScannedKeys
  <2> QED  BY <1>2, <2>1 DEF Alive
<1>7. keys \in SUBSET Keys /\ keys # {}
  BY <1>2, <1>3, ScannedKeys
<1>8. ClientIs(c, ls) /\ c.loads = cl /\ (NewProbes = {} => c.unsent = client.unsent)
  <2>1. PICK new, c0 : new = NewProbes /\ c0 = client
    OBVIOUS
  <2>2. new \in SUBSET Keys /\ ClientIs(c0, ls)
    BY <1>3, <2>1, ScannedKeys DEF Inv
  <2>3. c = IF new = {} THEN c0 ELSE C!Registered(c0, new)
    BY <1>1, <2>1
  <2>4. ClientIs(c, ls) /\ c.loads = c0.loads /\ (new = {} => c.unsent = c0.unsent)
    BY <2>2, <2>3, RegisteredClient
  <2> QED  BY <1>3, <2>1, <2>4
<1>9. /\ ClientIs(c1, ls2) /\ c1.unsent = c.unsent
      /\ Starting(cl, c1.loads, n, j, keys, ls, ls2)
  <2>1. /\ ClientIs(c1, ls2) /\ c1.unsent = c.unsent
        /\ Starting(c.loads, c1.loads, c.round, j, keys, ls, ls2)
    <3>1. /\ ClientIs(c, ls) /\ j \in Loads /\ ls[j].state = "unused"
          /\ keys \in SUBSET Keys /\ keys # {} /\ c1 = C!Requested(c, j)
          /\ ls2[j] = [state |-> "wait", keys |-> keys, got |-> {}, clean |-> TRUE]
          /\ \A i \in Loads : i # j => ls2[i] = ls[i]
      BY <1>1, <1>4, <1>5, <1>7, <1>8
    <3> QED  BY ONLY <3>1, RequestedClient
  <2> QED  BY <1>3, <1>8, <2>1
<1>10. ClientIs(c2, ls2) /\ c2.loads = c1.loads /\ c2.unsent = {}
  <2>1. c2 = C!Flushed(c1)
    BY <1>2, <1>3
  <2> QED  BY <1>9, <2>1, FlushedClient
<1>11. /\ lookups \in Seq(Request) /\ \A i \in DOMAIN lookups : lookups[i].type = "lookup"
       /\ c1.unsent = {} => lookups = <<>>
  BY <1>3, <1>9, LookupMessages
<1>12. \A i \in DOMAIN lookups : ~Fetching(lookups[i])
  BY <1>11 DEF Fetching
<1>13. q \in Seq(Request) /\ Sound(server, q, toClient, cl, ls, late, yes) /\ Waits(cl, ls)
  BY <1>3, <1>6 DEF Inv, Shape, ClientIs
<1>14. Sound(server, q, toClient, cl, ls, late, TRUE)
  BY <1>3, <1>13
<1>15. m \in Request /\ m.type = "fetch" /\ m.keys # {} /\ m.round = n
  <2>1. n \in Nat
    BY <1>3, <1>8 DEF ClientIs
  <2> QED  BY <1>3, <1>7, <2>1 DEF Request, Loads
<1>16. one \in Seq(Request) /\ DOMAIN one = {1} /\ one[1] = m
  BY <1>3, <1>15, OneMessage
<1>17. PICK q1 : q1 = q \o one
  OBVIOUS
<1>18. Sound(server, q1, toClient, c1.loads, ls2, late, TRUE) /\ q1 \in Seq(Request)
  <2>1. q1 = q \o <<[type |-> "fetch", keys |-> keys, job |-> j, round |-> n]>>
    BY <1>3, <1>17
  <2> QED  BY <1>9, <1>13, <1>14, <2>1, FetchSentSound
<1>19. PICK msgs : msgs = one \o lookups
  OBVIOUS
<1>20. q2 = IF connected THEN q1 \o lookups ELSE q
  <2>1. q2 = Sends(q, msgs)
    <3>1. C!FetchMsg(c, Hits, j) = m
      BY <1>3 DEF C!FetchMsg
    <3> QED  BY <1>2, <1>3, <1>19, <3>1
  <2>2. PICK T : T = Request
    OBVIOUS
  <2>3. q \in Seq(T) /\ one \in Seq(T) /\ lookups \in Seq(T)
    BY <1>11, <1>13, <1>16, <2>2
  <2>4. q \o (one \o lookups) = (q \o one) \o lookups
    BY ONLY <2>3, ConcatAssociative
  <2> QED  BY <1>17, <1>19, <2>1, <2>4 DEF Sends
<1>21. Sound(server, q2, toClient, c1.loads, ls2, late, yes) /\ q2 \in Seq(Request)
  <2>1. CASE connected
    <3>1. q2 = q1 \o lookups /\ Sound(server, q1, toClient, c1.loads, ls2, late, yes)
      BY <1>3, <1>18, <1>20, <2>1
    <3>2. Sound(server, q2, toClient, c1.loads, ls2, late, yes)
      BY <1>11, <1>12, <1>18, <3>1, MoreRequests
    <3>3. q2 \in Seq(Request)
      BY <1>11, <1>18, <3>1
    <3> QED  BY <3>2, <3>3
  <2>2. CASE ~connected
    <3>1. Sound(server, q, toClient, c1.loads, ls2, late, TRUE)
      BY <1>9, <1>13, <1>14, StartingSound
    <3> QED  BY <1>3, <1>13, <1>20, <2>2, <3>1
  <2> QED  BY <2>1, <2>2
<1>22. \A i \in DOMAIN q2 : \/ \E k \in DOMAIN q : q2[i] = q[k]
                            \/ q2[i] = m
                            \/ \E k \in DOMAIN lookups : q2[i] = lookups[k]
  <2>1. CASE connected
    <3>1. PICK T : T = Request
      OBVIOUS
    <3>2. q \in Seq(T) /\ one \in Seq(T) /\ lookups \in Seq(T) /\ q1 \in Seq(T)
      BY <1>11, <1>13, <1>16, <1>18, <3>1
    <3>3. PICK r : r = q1 \o lookups
      OBVIOUS
    <3>4. /\ \A i \in DOMAIN r : i \in DOMAIN q1 \/ \E k \in DOMAIN lookups : i = Len(q1) + k
          /\ \A i \in DOMAIN q1 : r[i] = q1[i]
          /\ \A i \in DOMAIN lookups : r[Len(q1) + i] = lookups[i]
      BY ONLY <3>2, <3>3, JoinedMessages
    <3>5. /\ \A i \in DOMAIN q1 : i \in DOMAIN q \/ \E k \in DOMAIN one : i = Len(q) + k
          /\ \A i \in DOMAIN q : q1[i] = q[i]
          /\ \A i \in DOMAIN one : q1[Len(q) + i] = one[i]
      BY ONLY <1>17, <3>2, JoinedMessages
    <3>6. \A i \in DOMAIN q1 : q1[i] = m \/ \E k \in DOMAIN q : q1[i] = q[k]
      BY <1>16, <3>5
    <3> QED  BY <1>20, <2>1, <3>3, <3>4, <3>6
  <2>2. CASE ~connected
    BY <1>20, <2>2
  <2> QED  BY <2>1, <2>2
<1>23. ClientEngine
  BY <1>2, <1>3, <1>5, <1>21 DEF ClientEngine, Inv, Shape
<1>24. Ends'
  <2>1. \A i \in DOMAIN q : ~(q[i].type = "fetch" /\ q[i].keys = {})
    BY <1>2, <1>3 DEF Inv, Ends
  <2>2. \A i \in DOMAIN q2 : ~(q2[i].type = "fetch" /\ q2[i].keys = {})
    BY <1>11, <1>15, <1>22, <2>1
  <2> QED  BY <1>2, <1>3, <2>2 DEF Ends
<1>25. workload.mode = "prefill" => /\ client'.unsent = {}
                                    /\ \A i \in DOMAIN toServer' : toServer'[i].type # "lookup"
  <2> SUFFICES ASSUME workload.mode = "prefill", NEW i \in DOMAIN q2
               PROVE  q2[i].type # "lookup"
    BY <1>3, <1>10
  <2>1. NewProbes = {} /\ client.unsent = {}
    BY ScannedKeys DEF Inv, Modes
  <2>2. lookups = <<>>
    BY <1>8, <1>9, <1>11, <2>1
  <2>3. \A k \in DOMAIN q : q[k].type # "lookup"
    BY <1>3 DEF Inv, Modes
  <2> QED  BY <1>15, <1>22, <2>2, <2>3
<1>26. connected => Promises(server, toServer', toClient', client'.loads)
  <2> SUFFICES ASSUME connected, NEW i \in DOMAIN c1.loads
               PROVE  Asking(q2, i) \/ Owed(server, toClient, i, c1.loads[i].job)
    BY <1>2, <1>3, <1>10 DEF Promises
  <2>1. PICK T : T = Request
    OBVIOUS
  <2>2. q \in Seq(T) /\ one \in Seq(T) /\ lookups \in Seq(T) /\ q1 \in Seq(T)
    BY <1>11, <1>13, <1>16, <1>18, <2>1
  <2>3. /\ DOMAIN q = 1..Len(q) /\ DOMAIN one = 1..Len(one) /\ DOMAIN q1 = 1..(Len(q) + Len(one))
        /\ \A k \in 1..Len(q) : q1[k] = q[k]
        /\ \A k \in 1..Len(one) : q1[Len(q) + k] = one[k]
        /\ Len(q) \in Nat /\ Len(one) \in Nat
    BY ONLY <1>17, <2>2, JoinedMessages
  <2>4. PICK r : r = q1 \o lookups
    OBVIOUS
  <2>5. /\ DOMAIN q1 = 1..Len(q1) /\ Len(q1) \in Nat /\ Len(lookups) \in Nat
        /\ DOMAIN r = 1..(Len(q1) + Len(lookups)) /\ \A k \in 1..Len(q1) : r[k] = q1[k]
    BY ONLY <2>2, <2>4, JoinedMessages
  <2>6. \A k \in DOMAIN q1 : k \in DOMAIN r /\ r[k] = q1[k]
    BY ONLY <2>5
  <2>7. r = q2
    BY <1>20, <2>4
  <2>8. CASE i = n
    <3>1. 1 \in 1..Len(one)
      BY <1>16, <2>3
    <3>2. PICK k : k = Len(q) + 1
      OBVIOUS
    <3>3. k \in DOMAIN q1 /\ q1[k] = m
      BY <1>16, <2>3, <3>1, <3>2
    <3>4. k \in DOMAIN q2 /\ q2[k] = m
      BY <2>6, <2>7, <3>3
    <3> QED  BY <1>15, <2>8, <3>4 DEF Asking
  <2>9. CASE i # n
    <3>1. i \in DOMAIN cl /\ c1.loads[i].job = cl[i].job
      BY <1>9, <2>9 DEF Starting
    <3>2. Asking(q, i) \/ Owed(server, toClient, i, cl[i].job)
      BY <1>3, <3>1 DEF Inv, Promises
    <3>3. \A k \in DOMAIN q : k \in DOMAIN q1 /\ q1[k] = q[k]
      BY ONLY <2>3
    <3>4. Asking(q, i) => Asking(q2, i)
      BY <2>6, <2>7, <3>3 DEF Asking
    <3> QED  BY <3>1, <3>2, <3>4
  <2> QED  BY <2>8, <2>9
<1>27. Sound(server, toServer', toClient', client'.loads, loads', Late, Alive')
  BY <1>2, <1>3, <1>6, <1>10, <1>21
<1>28. ClientIs(client', loads') /\ LoadsAreSound(loads', Late)
  BY <1>2, <1>3, <1>5, <1>10
<1> QED  BY <1>23, <1>24, <1>25, <1>26, <1>27, <1>28, ClientActs

-----------------------------------------------------------------------------
(***************************************************************************)
(* The theorems.                                                           *)
(***************************************************************************)

\* What the invariant speaks of did not change.
LEMMA StutterInv == (Inv /\ UNCHANGED vars) => Inv'
<1> SUFFICES ASSUME Inv, UNCHANGED vars PROVE Inv'
  OBVIOUS
<1>1. /\ client' = client /\ phase' = phase /\ loads' = loads /\ failedReq' = failedReq
      /\ server' = server /\ bound' = bound /\ unbound' = unbound /\ toServer' = toServer
      /\ toClient' = toClient /\ session' = session /\ connected' = connected
      /\ workload' = workload /\ used' = used
  BY Zenon DEF vars, clientVars, serverVars, channelVars, linkVars
<1>2. Late' = Late /\ Alive' = Alive
  BY <1>1 DEF Late, Alive
<1>3. ClientEngine
  BY <1>1 DEF ClientEngine, Inv, Shape
<1>4. Ends' /\ ClientIs(client', loads') /\ LoadsAreSound(loads', Late)
  BY <1>1 DEF Inv, Ends
<1>5. Sound(server, toServer', toClient', client'.loads, loads', Late, Alive')
  BY <1>1, <1>2 DEF Inv
<1>6. workload.mode = "prefill" => /\ client'.unsent = {}
                                    /\ \A i \in DOMAIN toServer' : toServer'[i].type # "lookup"
  BY <1>1 DEF Inv, Modes
<1>7. connected => Promises(server, toServer', toClient', client'.loads)
  BY <1>1 DEF Inv
<1> QED  BY <1>3, <1>4, <1>5, <1>6, <1>7, ClientActs

\* A step keeps the invariant, whoever takes it.
LEMMA StepInv == (Inv /\ [Next]_vars) => Inv'
<1> SUFFICES ASSUME Inv, [Next]_vars PROVE Inv'
  OBVIOUS
<1>1. CASE Schedule
  BY <1>1, ScheduleInv
<1>2. ASSUME NEW j \in Loads, ScheduleFetch(j) PROVE Inv'
  BY <1>2, ScheduleFetchInv
<1>3. ASSUME NEW j \in Loads, ScheduleNoSession(j) PROVE Inv'
  BY <1>3, ScheduleNoSessionInv
<1>4. ASSUME NEW lost \in SUBSET Keys, Preempt(lost) PROVE Inv'
  BY <1>4, PreemptInv
<1>5. CASE FinishRequest
  BY <1>5, FinishRequestInv
<1>6. CASE ClientPoll
  BY <1>6, ClientPollInv
<1>7. ASSUME NEW n \in DOMAIN client.loads, LoadTimeout(n) PROVE Inv'
  BY <1>7, LoadTimeoutInv
<1>8. ASSUME NEW n \in DOMAIN client.loads, AckTimeout(n) PROVE Inv'
  BY <1>8, AckTimeoutInv
<1>9. CASE Poll
  <2>1. ASSUME NEW stuck \in SUBSET server.xfers, OnAbort(stuck) PROVE Inv'
    BY <2>1, OnAbortInv
  <2> QED  BY Zenon, <1>9, <2>1, OnFetchInv, OnLookupInv DEF Poll
<1>10. ASSUME NEW result \in [Keys -> {"HIT", "MISS", "PENDING"}], NEW late \in 0..2, Serve(result, late)
       PROVE  Inv'
  BY <1>10, ServeInv
<1>11. CASE Transfer
  <2>1. ASSUME NEW x \in server.xfers, TransferDone(x) PROVE Inv'
    BY <2>1, TransferDoneInv
  <2> QED  BY Zenon, <1>11, <2>1 DEF Transfer
<1>12. ASSUME NEW x \in server.xfers, TransferFails(x) PROVE Inv'
  BY <1>12, TransferFailsInv
<1>13. CASE Drain
  <2>1. ASSUME NEW n \in server.aborts, NEW stuck \in SUBSET server.xfers, DrainAbort(n, stuck)
        PROVE  Inv'
    BY <2>1, DrainAbortInv
  <2> QED  BY Zenon, <1>13, <2>1 DEF Drain
<1>14. ASSUME NEW keys \in SUBSET Keys, SubmitStore(keys) PROVE Inv'
  BY <1>14, SubmitStoreInv
<1>15. CASE FinishPrefill
  BY <1>15, FinishPrefillInv
<1>16. ASSUME NEW j \in server.stores, StoreTimeout(j) PROVE Inv'
  BY <1>16, StoreTimeoutInv
<1>17. CASE ReapUnbound
  BY <1>17, ReapUnboundInv
<1>18. CASE LoseConnection
  BY <1>18, LoseConnectionInv
<1>19. CASE ClientReaps
  BY <1>19, ClientReapsInv
<1>20. CASE ServerReaps
  BY <1>20, ServerReapsInv
<1>21. ASSUME NEW k \in Keys, Evict(k) PROVE Inv'
  BY <1>21, EvictInv
<1>22. CASE UNCHANGED vars
  BY <1>22, StutterInv
<1> QED  BY Zenon, <1>1, <1>2, <1>3, <1>4, <1>5, <1>6, <1>7, <1>8, <1>9, <1>10, <1>11, <1>12,
            <1>13, <1>14, <1>15, <1>16, <1>17, <1>18, <1>19, <1>20, <1>21, <1>22 DEF Next

\* The invariant holds, whatever the workloads are.
THEOREM InvHolds == Spec => []Inv
<1>1. Init => Inv
  BY InitInv
<1>2. Inv /\ [Next]_vars => Inv'
  BY StepInv
<1> QED  BY <1>1, <1>2, PTL DEF Spec

\* A load that ends well has all its blocks, and read them while they were pinned,
\* unless a store of the server timed out (on_transfer_done, _send_transfer).
THEOREM SuccessHolds == Spec => []SuccessMeansWritten
<1>1. Inv => SuccessMeansWritten
  BY InvComplete
<1> QED  BY <1>1, InvHolds, PTL

\* While the connection lives, each load in flight is on its way to the server,
\* held by it, or on its way back: no handler drops it (ServerRole, ClientRole).
THEOREM PromisesHold == Spec => []NoLoadIsForgotten
<1>1. Inv => NoLoadIsForgotten
  BY InvPromises
<1> QED  BY <1>1, InvHolds, PTL

=============================================================================

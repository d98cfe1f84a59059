------------------------- MODULE TieringManagerProofs -------------------------
(***************************************************************************)
(* Proofs about TieringManager, for any workloads, any number of tiers,        *)
(* requests and threads, and any set of keys: the blocks, the jobs, the        *)
(* files and the verdicts are what the manager takes them for.                *)
(*                                                                         *)
(* The invariant has two halves.  Books is about the primary tier, the jobs   *)
(* and the pools: who fills and who reads each block, where each job is, and  *)
(* what the slots and the files hold.  Engine is about the requests: what of   *)
(* theirs is in flight at each stage of their life.  Its parts take the state  *)
(* as parameters, so that they can be stated half-way through a handler.      *)
(***************************************************************************)
EXTENDS TieringManager, DataProofs

-----------------------------------------------------------------------------
(***************************************************************************)
(* The invariant.                                                          *)
(***************************************************************************)

Phases == {"new", "waiting", "loading", "running", "finished", "gone"}
Results == {"none", "hit", "miss"}
Promise == [key : Keys, slot : Nat]
Job(T) == [tier : T, req : Reqs, promotion : BOOLEAN, keys : Seq(Keys), slots : Seq(Nat)]
Move(T) == [job : Job(T), n : Nat, loads : BOOLEAN]
Ending(T) == [job : Job(T), ok : BOOLEAN, n : Nat]
Scans == [req : Reqs \cup {NoKey}, part : {"none", "prefix", "tail", "done"},
          i : Nat, hits : Nat, wait : BOOLEAN]

IsTable(v) == v \in [DOMAIN v -> [result : Results, reqs : SUBSET Reqs]] /\ DOMAIN v \subseteq Keys

IsPrimary(p, S) == /\ p \in [DOMAIN p -> [ref : Nat \cup {-1}, slot : S]]
                   /\ DOMAIN p \subseteq Keys

EngineTypes ==
    /\ workload \in Workloads
    /\ stage \in {"outputs", "schedule", "meta", "draining"}
    /\ scan \in Scans
    /\ phase \in [Reqs -> Phases]
    /\ computed \in [Reqs -> Nat] /\ offered \in [Reqs -> Nat]
    /\ gpuLoads \in [Reqs -> SUBSET Keys] /\ gpuStores \in [Reqs -> SUBSET SUBSET Keys]
    /\ reqState \in [DOMAIN reqState -> [stores : Nat, finished : BOOLEAN]]
    /\ DOMAIN reqState \subseteq Reqs
    /\ told \in [Tiers -> [Reqs -> Nat]]
    /\ pending \in [Tiers -> [Reqs -> Seq(Promise)]]
    /\ DOMAIN verdicts = Tiers /\ \A t \in Tiers : IsTable(verdicts[t])

\* The manager keeps a request from its arrival until it is over and its last
\* store is done, and tells the tiers then.
LifeOf(r) ==
    /\ r \in DOMAIN reqState <=> \/ phase[r] \in {"waiting", "loading", "running", "finished"}
                                 \/ phase[r] = "gone" /\ gpuStores[r] # {}
    /\ r \in DOMAIN reqState => /\ IsFiniteSet(gpuStores[r])
                                /\ reqState[r].stores = Cardinality(gpuStores[r])
                                /\ reqState[r].finished <=> phase[r] = "gone"
    /\ r \notin DOMAIN reqState => gpuStores[r] = {}
    /\ phase[r] \in {"new", "waiting"} =>
          gpuLoads[r] = {} /\ gpuStores[r] = {} /\ offered[r] = 0 /\ computed[r] = 0
    /\ phase[r] # "new" => r \in DOMAIN workload.prompt /\ computed[r] <= Chunks(r)
    /\ \A t \in Tiers :
         /\ told[t][r] = IF phase[r] = "gone" /\ r \notin DOMAIN reqState THEN 1 ELSE 0
         /\ pending[t][r] # <<>> => stage = "schedule" /\ phase[r] \notin {"new", "gone"}
Lives == \A r \in Reqs : LifeOf(r)

ScanIsSound ==
    /\ scan.part = "none" => scan = NoScan
    /\ scan.part # "none" => /\ stage = "schedule" /\ scan.req \in Reqs
                             /\ phase[scan.req] = "waiting"
    /\ scan.part = "prefix" => scan.i < Chunks(scan.req)
    /\ scan.part = "tail" => TailKey(scan.req) # NoKey

Engine == EngineTypes /\ Lives /\ ScanIsSound /\ VerdictsAreWanted

\* Who reads a key's block: GPU loads gl and cascades among the jobs js.  Who
\* fills it: GPU stores gs, promotions under way, and promotions pe to be submitted.
Loading(gl, k) == {r \in Reqs : k \in gl[r]}
Reading(js, k) == {j \in js : ~j.promotion /\ k \in Range(j.keys)}
Storing(gs, k) == {r \in Reqs : \E keys \in gs[r] : k \in keys}
Filling(js, k) == {j \in js : j.promotion /\ k \in Range(j.keys)}
Promised(T, pe, k) ==
    {x \in T \X Reqs : \E i \in DOMAIN pe[x[1]][x[2]] : pe[x[1]][x[2]][i].key = k}

One(A) == \E x : A = {x}
OneWriter(S, F, P) == \/ One(S) /\ F = {} /\ P = {}
                      \/ S = {} /\ One(F) /\ P = {}
                      \/ S = {} /\ F = {} /\ One(P)

\* The block of k and the claims to it agree.
Exact(p, k, L, R, S, F, P) ==
    IF k \notin DOMAIN p THEN L = {} /\ R = {} /\ S = {} /\ F = {} /\ P = {}
    ELSE IF p[k].ref = -1 THEN L = {} /\ R = {} /\ OneWriter(S, F, P)
    ELSE S = {} /\ F = {} /\ P = {} /\ p[k].ref = Cardinality(L) + Cardinality(R)

Counted(p, gl, gs, js, T, pe) ==
    \A k \in Keys : Exact(p, k, Loading(gl, k), Reading(js, k), Storing(gs, k),
                          Filling(js, k), Promised(T, pe, k))

SlotsDiffer(p) == \A k, l \in DOMAIN p : p[k].slot = p[l].slot => k = l

\* Jobs and promises name the slots of their keys.
LocatedJobs(p, js) == \A j \in js : \A i \in DOMAIN j.keys : /\ j.keys[i] \in DOMAIN p
                                                             /\ j.slots[i] = p[j.keys[i]].slot
LocatedPromises(p, T, pe) ==
    \A t \in T, r \in Reqs : \A i \in DOMAIN pe[t][r] :
        /\ pe[t][r][i].key \in DOMAIN p
        /\ pe[t][r][i].slot = p[pe[t][r][i].key].slot

StoresDiffer(gs) == \A r \in Reqs : /\ {} \notin gs[r]
                                    /\ \A x, y \in gs[r] : x \cap y # {} => x = y
PromisesDiffer(T, pe) ==
    \A t \in T, r \in Reqs : \A i, n \in DOMAIN pe[t][r] : pe[t][r][i].key = pe[t][r][n].key => i = n

Accounts(p, gl, gs, js, T, pe) ==
    /\ SlotsDiffer(p) /\ Counted(p, gl, gs, js, T, pe)
    /\ LocatedJobs(p, js) /\ LocatedPromises(p, T, pe)
    /\ StoresDiffer(gs) /\ PromisesDiffer(T, pe)

JobIsSound(j) == Len(j.keys) > 0 /\ Len(j.slots) = Len(j.keys) /\ IsInjective(j.keys)
JobsAreSound(js, T) == /\ IsFiniteSet(js) /\ js \subseteq Job(T)
                       /\ \A j \in js : JobIsSound(j)

\* What a request stores or cascades is among the chunks it has offered.
OfferedKeys(r, of, pr) == {pr[r][i] : i \in 1..of[r]}
Offers(js, gs, of, pr) ==
    /\ \A j \in js : ~j.promotion => Range(j.keys) \subseteq OfferedKeys(j.req, of, pr)
    /\ \A r \in Reqs : \A keys \in gs[r] : keys \subseteq OfferedKeys(r, of, pr)

\* A tier's jobs js are each in one place: queued, running or finished.
Working(ru) == {w.job : w \in ru}
Over(fi) == {f.job : f \in fi}
PlacedIn(js, lq, sq, ru, fi, T) ==
    /\ lq \in Seq(Job(T)) /\ sq \in Seq(Job(T)) /\ IsInjective(lq) /\ IsInjective(sq)
    /\ IsFiniteSet(ru) /\ ru \subseteq Move(T) /\ IsFiniteSet(fi) /\ fi \subseteq Ending(T)
    /\ \A v, w \in ru : v.job = w.job => v = w
    /\ \A f, g \in fi : f.job = g.job => f = g
    /\ js = ((Range(lq) \cup Range(sq)) \cup Working(ru)) \cup Over(fi)
    /\ Range(lq) \cap Range(sq) = {}
    /\ Range(lq) \cap Working(ru) = {} /\ Range(sq) \cap Working(ru) = {}
    /\ Range(lq) \cap Over(fi) = {} /\ Range(sq) \cap Over(fi) = {} /\ Working(ru) \cap Over(fi) = {}
JobsOf(js, t) == {j \in js : j.tier = t}
Placed(js, lq, sq, ru, fi, T) ==
    /\ DOMAIN lq = T /\ DOMAIN sq = T /\ DOMAIN ru = T /\ DOMAIN fi = T
    /\ \A t \in T : PlacedIn(JobsOf(js, t), lq[t], sq[t], ru[t], fi[t], T)

\* What was copied so far is where it belongs.
CopiedTo(d, x) == x.job.promotion => \A i \in 1..x.n : d[x.job.slots[i]] = x.job.keys[i]
ReadyHold(p, d) == \A k \in DOMAIN p : p[k].ref # -1 => d[p[k].slot] = k
DiskHolds(dk, T) == /\ DOMAIN dk = T
                    /\ \A t \in T : dk[t] \in [Keys -> Keys \cup {NoKey}]
                    /\ \A t \in T, k \in Keys : dk[t][k] \in {NoKey, k}
Progress(d, ru, fi, T) ==
    \A t \in T : /\ \A w \in ru[t] : w.n < Len(w.job.keys) /\ CopiedTo(d, w)
                 /\ \A f \in fi[t] : f.n <= Len(f.job.keys) /\ CopiedTo(d, f)
Copies(p, d, dk, ru, fi, T, S) ==
    /\ d \in [S -> Keys \cup {Garbage}]
    /\ ReadyHold(p, d) /\ DiskHolds(dk, T) /\ Progress(d, ru, fi, T)

Books ==
    /\ IsPrimary(primary, Slots)
    /\ JobsAreSound(jobs, Tiers)
    /\ Accounts(primary, gpuLoads, gpuStores, jobs, Tiers, pending)
    /\ Offers(jobs, gpuStores, offered, workload.prompt)
    /\ Placed(jobs, loadQ, storeQ, running, finished, Tiers)
    /\ Copies(primary, data, disk, running, finished, Tiers, Slots)

Inv == Engine /\ Books

-----------------------------------------------------------------------------
(***************************************************************************)
(* Sets, lists and workloads.                                              *)
(***************************************************************************)

\* Counting a set from two parts, or what is left of it.
LEMMA CountParts ==
    ASSUME NEW A, IsFiniteSet(A), NEW B, IsFiniteSet(B)
    PROVE  /\ A \cap B = {} => Cardinality(A \cup B) = Cardinality(A) + Cardinality(B)
           /\ B \subseteq A => Cardinality(A \ B) = Cardinality(A) - Cardinality(B)
           /\ IsFiniteSet(A \cup B) /\ IsFiniteSet(A \ B)
           /\ Cardinality(A) \in Nat /\ Cardinality(B) \in Nat
<1>1. /\ Cardinality(A) \in Nat /\ Cardinality(B) \in Nat
      /\ IsFiniteSet(A \cup B) /\ IsFiniteSet(A \ B)
  BY FS_CardinalityType, FS_Union, FS_Difference
<1>2. ASSUME A \cap B = {} PROVE Cardinality(A \cup B) = Cardinality(A) + Cardinality(B)
  <2>1. Cardinality(A \cup B) = Cardinality(A) + Cardinality(B) - Cardinality(A \cap B)
    BY FS_Union
  <2>2. Cardinality(A \cap B) = 0
    BY <1>2, FS_EmptySet
  <2> QED  BY <1>1, <2>1, <2>2
<1>3. ASSUME B \subseteq A PROVE Cardinality(A \ B) = Cardinality(A) - Cardinality(B)
  <2>1. Cardinality(A \ B) = Cardinality(A) - Cardinality(A \cap B)
    BY FS_Difference
  <2>2. A \cap B = B
    BY <1>3
  <2> QED  BY <2>1, <2>2
<1> QED  BY <1>1, <1>2, <1>3

\* An injective image counts like the set.
LEMMA CountImage ==
    ASSUME NEW A, IsFiniteSet(A), NEW C, NEW f \in [A -> C],
           \A x, y \in A : f[x] = f[y] => x = y
    PROVE  /\ IsFiniteSet({f[x] : x \in A})
           /\ Cardinality({f[x] : x \in A}) = Cardinality(A)
<1> DEFINE B == {f[x] : x \in A}
<1>1. f \in [A -> B]
  OBVIOUS
<1>2. f \in Bijection(A, B)
  BY <1>1 DEF Bijection, Injection, Surjection, IsInjective
<1>3. ExistsBijection(A, B)
  BY <1>2 DEF ExistsBijection
<1> HIDE DEF B
<1>4. IsFiniteSet(B) /\ Cardinality(B) = Cardinality(A)
  BY <1>3, FS_Bijection
<1> QED  BY <1>4 DEF B

\* A finite set put in some order.
LEMMA SetAsList ==
    ASSUME NEW S, IsFiniteSet(S)
    PROVE  /\ SetToSeq(S) \in Seq(S) /\ IsInjective(SetToSeq(S))
           /\ Len(SetToSeq(S)) = Cardinality(S) /\ Range(SetToSeq(S)) = S
           /\ Cardinality(S) \in Nat /\ DOMAIN SetToSeq(S) = 1..Cardinality(S)
<1> DEFINE n == Cardinality(S)
           q == SetToSeq(S)
<1>1. n \in Nat /\ ExistsBijection(1..n, S)
  BY FS_CardinalityType
<1>2. \E f \in [1..n -> S] : IsInjective(f)
  BY <1>1 DEF ExistsBijection, Bijection, Injection
<1>3. q \in [1..n -> S] /\ IsInjective(q)
  BY <1>2 DEF SetToSeq
<1> HIDE DEF q, n
<1>4. q \in Seq(S) /\ Len(q) = n
  BY <1>1, <1>3
<1>5. Range(q) = S
  <2>1. IsFiniteSet(1..n) /\ Cardinality(1..n) = n
    BY <1>1, FS_Interval
  <2>2. q \in Injection(1..n, S)
    BY <1>3 DEF Injection
  <2>3. Cardinality(1..n) = Cardinality(S)
    BY <2>1 DEF n
  <2>4. q \in Surjection(1..n, S)
    BY <2>2, <2>3, FS_Injection
  <2> QED  BY <1>3, <2>4 DEF Surjection, Range
<1> QED  BY <1>1, <1>3, <1>4, <1>5 DEF n, q

\* What a workload is.
LEMMA WorkloadFacts ==
    ASSUME workload \in Workloads
    PROVE  /\ workload.tiers \in Nat /\ IsFiniteSet(Tiers) /\ Cardinality(Tiers) = workload.tiers
           /\ Tiers \subseteq Nat \ {0} /\ Slots \subseteq Nat /\ IsFiniteSet(Slots)
           /\ \A r \in DOMAIN workload.prompt :
                 /\ r \in Reqs /\ Prompt(r) \in Seq(Keys) /\ IsInjective(Prompt(r))
                 /\ Chunks(r) \in Nat /\ TailKey(r) \in Keys \cup {NoKey}
           /\ \A t \in Tiers : workload.onDisk[t] \subseteq Keys
<1>1. workload.tiers \in Nat /\ workload.tiers >= 1 /\ workload.slots \in Nat
  BY WorkloadsAssumption
<1>2. IsFiniteSet(Tiers) /\ Cardinality(Tiers) = workload.tiers
  <2>1. \A n \in Nat : IsFiniteSet(1..n) /\ Cardinality(1..n) = n
    BY FS_Interval
  <2> QED  BY <1>1, <2>1 DEF Tiers
<1>3. IsFiniteSet(Slots)
  BY <1>1, FS_Interval DEF Slots
<1>4. Tiers \subseteq Nat \ {0} /\ Slots \subseteq Nat
  BY <1>1 DEF Tiers, Slots
<1> QED  BY <1>1, <1>2, <1>3, <1>4, WorkloadsAssumption DEF Tiers, Prompt, TailKey, Chunks

-----------------------------------------------------------------------------
(***************************************************************************)
(* Claims to blocks.                                                       *)
(***************************************************************************)

\* Only finitely many loads and cascades read a block.
LEMMA ClaimsAreFinite ==
    ASSUME NEW gl, NEW js, IsFiniteSet(js), NEW k
    PROVE  IsFiniteSet(Loading(gl, k)) /\ IsFiniteSet(Reading(js, k))
<1>1. Loading(gl, k) \in SUBSET Reqs /\ Reading(js, k) \in SUBSET js
  BY DEF Loading, Reading
<1> QED  BY <1>1, ReqsAssumption, FS_Subset

\* Nobody has a claim to an idle block.
LEMMA IdleIsUnclaimed ==
    ASSUME NEW p, NEW k \in DOMAIN p, p[k].ref = 0, NEW L, IsFiniteSet(L), NEW R, IsFiniteSet(R),
           NEW S, NEW F, NEW P, Exact(p, k, L, R, S, F, P)
    PROVE  L = {} /\ R = {} /\ S = {} /\ F = {} /\ P = {}
<1>1. Cardinality(L) \in Nat /\ Cardinality(R) \in Nat
  BY FS_CardinalityType
<1>2. S = {} /\ F = {} /\ P = {} /\ Cardinality(L) + Cardinality(R) = 0
  BY DEF Exact
<1>3. Cardinality(L) = 0 /\ Cardinality(R) = 0
  BY <1>1, <1>2
<1> QED  BY <1>2, <1>3, FS_EmptySet

-----------------------------------------------------------------------------
(***************************************************************************)
(* What polling the tiers leaves.                                          *)
(***************************************************************************)

Ends == UNION {Collected(t) : t \in Tiers}

\* What is collected are jobs of the manager, each once.
LEMMA EndsAreJobs ==
    ASSUME Inv
    PROVE  /\ CollectedJobs = {f.job : f \in Ends} /\ CollectedJobs \subseteq jobs
           /\ \A f \in Ends : /\ f \in Ending(Tiers) /\ f.job \in jobs
                              /\ f.n \in Nat /\ f.n <= Len(f.job.keys) /\ CopiedTo(data, f)
           /\ \A f, g \in Ends : f.job = g.job => f = g
<1>1. \A t \in Tiers : Collected(t) \subseteq finished[t]
  BY DEF Collected
<1>2. \A t \in Tiers : PlacedIn(JobsOf(jobs, t), loadQ[t], storeQ[t], running[t], finished[t], Tiers)
  BY DEF Inv, Books, Placed
<1>3. \A t \in Tiers : \A f \in finished[t] :
          /\ f \in Ending(Tiers) /\ f.job \in jobs /\ f.job.tier = t
          /\ \A g \in finished[t] : f.job = g.job => f = g
  BY <1>2 DEF PlacedIn, JobsOf, Over
<1>4. \A t \in Tiers : \A f \in finished[t] : f.n <= Len(f.job.keys) /\ CopiedTo(data, f)
  BY DEF Inv, Books, Copies, Progress
<1>5. \A f \in Ends : \E t \in Tiers : f \in finished[t]
  BY <1>1 DEF Ends
<1>6. \A f \in Ends : /\ f \in Ending(Tiers) /\ f.job \in jobs
                      /\ f.n \in Nat /\ f.n <= Len(f.job.keys) /\ CopiedTo(data, f)
  BY <1>3, <1>4, <1>5 DEF Ending
<1>7. \A f, g \in Ends : f.job = g.job => f = g
  BY <1>3, <1>5
<1>8. CollectedJobs = {f.job : f \in Ends}
  BY DEF CollectedJobs, Ends
<1> QED  BY <1>6, <1>7, <1>8

\* An ended promotion settles the keys it was to fill.
LEMMA SettledKeys ==
    ASSUME Inv, NEW k
    PROVE  /\ k \in UNION {KeptIn(t) : t \in Tiers} <=> \E f \in Ends : k \in KeptKeys(f)
           /\ k \in UNION {LostIn(t) : t \in Tiers} <=> \E f \in Ends : k \in LostKeys(f)
           /\ \A f \in Ends : k \in KeptKeys(f) \cup LostKeys(f) <=> f.job \in Filling(CollectedJobs, k)
           /\ \A f \in Ends : k \in KeptKeys(f) =>
                 \E i \in DOMAIN f.job.keys : i \in 1..f.n /\ f.job.keys[i] = k
<1>1. k \in UNION {KeptIn(t) : t \in Tiers} <=> \E f \in Ends : k \in KeptKeys(f)
  BY DEF KeptIn, Ends
<1>2. k \in UNION {LostIn(t) : t \in Tiers} <=> \E f \in Ends : k \in LostKeys(f)
  BY DEF LostIn, Ends
<1>3. \A f \in Ends : f.job.keys \in Seq(Keys) /\ f.n \in Nat /\ f.n <= Len(f.job.keys)
  BY EndsAreJobs DEF Ending, Job
<1>4. \A f \in Ends : DOMAIN f.job.keys = 1..Len(f.job.keys) /\ Len(f.job.keys) \in Nat
  BY <1>3
<1>5. \A f \in Ends : k \in KeptKeys(f) =>
         \E i \in DOMAIN f.job.keys : i \in 1..f.n /\ f.job.keys[i] = k
  BY <1>3, <1>4 DEF KeptKeys
<1>6. \A f \in Ends : k \in KeptKeys(f) \cup LostKeys(f) <=> f.job.promotion /\ k \in Range(f.job.keys)
  BY <1>5 DEF KeptKeys, LostKeys, Range
<1>7. \A f \in Ends : f.job \in CollectedJobs
  BY EndsAreJobs
<1> QED  BY <1>1, <1>2, <1>5, <1>6, <1>7 DEF Filling

\* The primary tier after the poll, block by block.
LEMMA PolledBlocks ==
    ASSUME Inv
    PROVE  LET kept == UNION {KeptIn(t) : t \in Tiers}
               lost == UNION {LostIn(t) : t \in Tiers}
           IN /\ \A k : k \in DOMAIN PolledPrimary <=>
                    k \in DOMAIN primary /\ (k \notin lost \/ k \in kept \/ primary[k].ref >= 0)
              /\ \A k \in DOMAIN PolledPrimary :
                    PolledPrimary[k] = [ref |-> (IF k \in kept /\ primary[k].ref < 0 THEN 0 ELSE primary[k].ref)
                                                - ReadsDone(k),
                                        slot |-> primary[k].slot]
              /\ PolledPrimary = [k \in DOMAIN PolledPrimary |-> PolledPrimary[k]]
<1> DEFINE kept == UNION {KeptIn(t) : t \in Tiers}
           lost == UNION {LostIn(t) : t \in Tiers}
           w == Written(primary, kept)
           p == Removed(w, lost)
           q == PolledPrimary
<1>1. q = [k \in DOMAIN p |-> [p[k] EXCEPT !.ref = @ - ReadsDone(k)]]
  BY DEF PolledPrimary
<1>2. \A k \in DOMAIN primary : primary[k] \in [ref : Nat \cup {-1}, slot : Slots]
  BY DEF Inv, Books, IsPrimary
<1>3. DOMAIN w = DOMAIN primary
  BY DEF Written
<1>4. \A k \in DOMAIN primary :
         w[k] = IF k \in kept /\ primary[k].ref < 0 THEN [ref |-> 0, slot |-> primary[k].slot] ELSE primary[k]
  <2> HIDE DEF kept, lost, p, q
  <2> QED  BY <1>2 DEF Written, Ready
<1> HIDE DEF kept, lost, w
<1>5. DOMAIN p = {k \in DOMAIN w : k \notin lost \/ (k \in DOMAIN w /\ w[k].ref >= 0)}
      /\ \A k \in DOMAIN p : p[k] = w[k]
  BY DEF Removed, Ready
<1> HIDE DEF p
<1>6. \A k \in DOMAIN q : q[k] = [p[k] EXCEPT !.ref = @ - ReadsDone(k)]
  BY <1>1
<1>7. DOMAIN q = DOMAIN p /\ q = [k \in DOMAIN q |-> q[k]]
  BY <1>1
<1> HIDE DEF q
<1>8. \A k \in DOMAIN p : /\ k \in DOMAIN primary
                          /\ p[k] = IF k \in kept /\ primary[k].ref < 0
                                    THEN [ref |-> 0, slot |-> primary[k].slot] ELSE primary[k]
  BY <1>3, <1>4, <1>5
<1>9. \A k \in DOMAIN q :
         q[k] = [ref |-> (IF k \in kept /\ primary[k].ref < 0 THEN 0 ELSE primary[k].ref) - ReadsDone(k),
                 slot |-> primary[k].slot]
  <2> TAKE k \in DOMAIN q
  <2>1. /\ primary[k] \in [ref : Nat \cup {-1}, slot : Slots]
        /\ q[k] = [p[k] EXCEPT !.ref = @ - ReadsDone(k)]
        /\ p[k] = IF k \in kept /\ primary[k].ref < 0
                  THEN [ref |-> 0, slot |-> primary[k].slot] ELSE primary[k]
    BY <1>2, <1>6, <1>7, <1>8
  <2> QED  BY <2>1
<1>10. \A k : k \in DOMAIN q <=>
          k \in DOMAIN primary /\ (k \notin lost \/ k \in kept \/ primary[k].ref >= 0)
  BY <1>2, <1>3, <1>4, <1>5, <1>7
<1> QED  BY <1>7, <1>9, <1>10 DEF kept, lost, q

\* A block whose filling ended is ready with its key's KV, or gone; any other
\* loses the pins of the cascades that ended.
LEMMA PolledKeys ==
    ASSUME Inv, NEW k \in Keys
    PROVE  /\ k \in DOMAIN PolledPrimary =>
                 k \in DOMAIN primary /\ PolledPrimary[k].slot = primary[k].slot
           /\ k \in DOMAIN primary /\ Filling(CollectedJobs, k) = {} =>
                 /\ k \in DOMAIN PolledPrimary
                 /\ PolledPrimary[k].ref = primary[k].ref - Cardinality(Reading(CollectedJobs, k))
           /\ Filling(CollectedJobs, k) # {} =>
                 /\ k \in DOMAIN primary /\ primary[k].ref = -1
                 /\ k \in DOMAIN PolledPrimary =>
                       PolledPrimary[k].ref = 0 /\ data[primary[k].slot] = k
<1> DEFINE kept == UNION {KeptIn(t) : t \in Tiers}
           lost == UNION {LostIn(t) : t \in Tiers}
           q == PolledPrimary
           CJ == CollectedJobs
<1>1. ReadsDone(k) = Cardinality(Reading(CJ, k))
  BY DEF ReadsDone, Reading
<1>2. /\ k \in DOMAIN q <=> k \in DOMAIN primary /\ (k \notin lost \/ k \in kept \/ primary[k].ref >= 0)
      /\ k \in DOMAIN q =>
            q[k] = [ref |-> (IF k \in kept /\ primary[k].ref < 0 THEN 0 ELSE primary[k].ref) - ReadsDone(k),
                    slot |-> primary[k].slot]
  BY PolledBlocks
<1>3. /\ k \in kept <=> \E f \in Ends : k \in KeptKeys(f)
      /\ k \in lost <=> \E f \in Ends : k \in LostKeys(f)
      /\ \A f \in Ends : k \in KeptKeys(f) \cup LostKeys(f) <=> f.job \in Filling(CJ, k)
      /\ \A f \in Ends : k \in KeptKeys(f) =>
            \E i \in DOMAIN f.job.keys : i \in 1..f.n /\ f.job.keys[i] = k
  BY SettledKeys
<1>4. /\ CJ = {f.job : f \in Ends} /\ CJ \subseteq jobs
      /\ \A f \in Ends : f.job \in jobs /\ CopiedTo(data, f)
      /\ \A f, g \in Ends : f.job = g.job => f = g
  BY EndsAreJobs
<1>5. /\ Exact(primary, k, Loading(gpuLoads, k), Reading(jobs, k), Storing(gpuStores, k),
               Filling(jobs, k), Promised(Tiers, pending, k))
      /\ LocatedJobs(primary, jobs)
  BY DEF Inv, Books, Accounts, Counted
<1>6. k \in DOMAIN primary => primary[k].ref \in Nat \cup {-1}
  BY DEF Inv, Books, IsPrimary
<1>7. Filling(CJ, k) \subseteq Filling(jobs, k) /\ Reading(CJ, k) \subseteq Reading(jobs, k)
      /\ Filling(CJ, k) \subseteq CJ
  BY <1>4 DEF Filling, Reading
<1>8. Cardinality({}) = 0
  BY FS_EmptySet
<1> HIDE DEF kept, lost, q, CJ
<1>9. CASE Filling(CJ, k) = {}
  <2>1. k \notin kept /\ k \notin lost
    BY <1>3, <1>9
  <2>2. k \in DOMAIN primary => k \in DOMAIN q /\ q[k].ref = primary[k].ref - ReadsDone(k)
                                /\ q[k].slot = primary[k].slot
    BY <1>2, <2>1
  <2> QED  BY <1>1, <1>2, <1>9, <2>2 DEF q, CJ
<1>10. CASE Filling(CJ, k) # {}
  <2>1. PICK f \in Ends : f.job \in Filling(CJ, k)
    <3>1. PICK j : j \in Filling(CJ, k)
      BY <1>10
    <3>2. j \in {f.job : f \in Ends}
      BY <1>4, <1>7, <3>1
    <3> QED  BY <3>1, <3>2
  <2>2. k \in DOMAIN primary /\ primary[k].ref = -1 /\ Reading(jobs, k) = {} /\ One(Filling(jobs, k))
    BY <1>5, <1>6, <1>7, <1>10 DEF Exact, OneWriter
  <2>3. ReadsDone(k) = 0
    BY <1>1, <1>7, <1>8, <2>2
  <2>4. ASSUME k \in DOMAIN q
        PROVE  q[k].ref = 0 /\ q[k].slot = primary[k].slot /\ data[primary[k].slot] = k
    <3>1. \A g \in Ends : g.job \in Filling(CJ, k) => g = f
      BY <1>4, <1>7, <2>1, <2>2 DEF One
    <3>2. k \in KeptKeys(f)
      BY <1>2, <1>3, <2>1, <2>2, <2>4, <3>1
    <3>3. k \in kept
      BY <1>3, <3>2
    <3>4. q[k].ref = 0 /\ q[k].slot = primary[k].slot
      BY <1>2, <2>2, <2>3, <2>4, <3>3
    <3>5. PICK i \in DOMAIN f.job.keys : i \in 1..f.n /\ f.job.keys[i] = k
      BY <1>3, <3>2
    <3>6. f.job.promotion
      BY <2>1 DEF Filling
    <3>7. data[f.job.slots[i]] = k
      BY <1>4, <3>5, <3>6 DEF CopiedTo
    <3>8. f.job.slots[i] = primary[k].slot
      BY <1>4, <1>5, <3>5 DEF LocatedJobs
    <3> QED  BY <3>4, <3>7, <3>8
  <2> QED  BY <1>10, <2>2, <2>4 DEF q, CJ
<1> QED  BY <1>9, <1>10

\* The jobs that are left, and where they are.
PolledJobs == jobs \ CollectedJobs
PolledFinished == [t \in Tiers |-> finished[t] \ Collected(t)]

\* Polling keeps every other job in its place.
LEMMA PolledPlaces ==
    ASSUME Inv
    PROVE  /\ JobsAreSound(PolledJobs, Tiers)
           /\ Offers(PolledJobs, gpuStores, offered, workload.prompt)
           /\ Placed(PolledJobs, loadQ, storeQ, running, PolledFinished, Tiers)
           /\ Progress(data, running, PolledFinished, Tiers)
<1>1. JobsAreSound(PolledJobs, Tiers)
  BY CountParts, FS_Difference DEF Inv, Books, JobsAreSound, PolledJobs
<1>2. Offers(PolledJobs, gpuStores, offered, workload.prompt)
  BY DEF Inv, Books, Offers, PolledJobs
<1>3. Progress(data, running, PolledFinished, Tiers)
  BY DEF Inv, Books, Copies, Progress, PolledFinished
<1>4. ASSUME NEW t \in Tiers
      PROVE  PlacedIn(JobsOf(PolledJobs, t), loadQ[t], storeQ[t], running[t],
                      finished[t] \ Collected(t), Tiers)
  <2> DEFINE js == JobsOf(jobs, t)
             left == finished[t] \ Collected(t)
             gone == Over(Collected(t))
  <2>1. PlacedIn(js, loadQ[t], storeQ[t], running[t], finished[t], Tiers)
    BY DEF Inv, Books, Placed
  <2>2. Collected(t) \subseteq finished[t]
    BY DEF Collected
  <2>3. JobsOf(PolledJobs, t) = js \ gone
    <3>1. \A u \in Tiers : \A f \in Collected(u) : f.job.tier = u
      <4>1. \A u \in Tiers : Over(finished[u]) \subseteq JobsOf(jobs, u)
        BY DEF Inv, Books, Placed, PlacedIn
      <4> QED  BY <4>1 DEF Collected, JobsOf, Over
    <3>2. CollectedJobs = {f.job : f \in Ends}
      BY EndsAreJobs
    <3>3. \A j : j \in CollectedJobs /\ j.tier = t <=> j \in gone
      BY <3>1, <3>2 DEF Ends, Over
    <3> QED  BY <3>3 DEF PolledJobs, JobsOf
  <2>4. Over(finished[t]) \ gone = Over(left) /\ left \subseteq finished[t] /\ gone \subseteq Over(finished[t])
    <3>1. \A f, g \in finished[t] : f.job = g.job => f = g
      BY <2>1 DEF PlacedIn
    <3> QED  BY <2>2, <3>1 DEF Over
  <2> HIDE DEF js, left, gone
  <2>5. IsFiniteSet(left)
    BY <2>1, FS_Difference DEF PlacedIn, left
  <2>6. js \ gone = ((Range(loadQ[t]) \cup Range(storeQ[t])) \cup Working(running[t])) \cup Over(left)
    BY <2>1, <2>4 DEF PlacedIn
  <2>7. Over(left) \subseteq Over(finished[t])
    BY <2>4
  <2>8. \A f, g \in left : f.job = g.job => f = g
    BY <2>1, <2>4 DEF PlacedIn
  <2>9. PlacedIn(js \ gone, loadQ[t], storeQ[t], running[t], left, Tiers)
    BY <2>1, <2>4, <2>5, <2>6, <2>7, <2>8 DEF PlacedIn
  <2> QED  BY <2>3, <2>9 DEF left
<1>5. Placed(PolledJobs, loadQ, storeQ, running, PolledFinished, Tiers)
  BY <1>4 DEF Inv, Books, Placed, PolledFinished
<1> QED  BY <1>1, <1>2, <1>3, <1>5

\* Polling keeps the accounts: what ended no longer has a claim.
LEMMA PolledAccounts ==
    ASSUME Inv
    PROVE  /\ IsPrimary(PolledPrimary, Slots)
           /\ Accounts(PolledPrimary, gpuLoads, gpuStores, PolledJobs, Tiers, pending)
           /\ ReadyHold(PolledPrimary, data)
<1> DEFINE q == PolledPrimary
           CJ == CollectedJobs
<1>1. /\ IsPrimary(primary, Slots) /\ JobsAreSound(jobs, Tiers)
      /\ SlotsDiffer(primary) /\ LocatedJobs(primary, jobs)
      /\ LocatedPromises(primary, Tiers, pending)
      /\ StoresDiffer(gpuStores) /\ PromisesDiffer(Tiers, pending)
      /\ ReadyHold(primary, data)
  BY DEF Inv, Books, Accounts, Copies
<1>2. CJ \subseteq jobs /\ IsFiniteSet(CJ) /\ IsFiniteSet(jobs)
  BY <1>1, EndsAreJobs, FS_Subset DEF JobsAreSound
<1>3. DOMAIN q \subseteq Keys /\ q = [k \in DOMAIN q |-> q[k]]
      /\ \A k \in DOMAIN q : q[k] = [ref |-> q[k].ref, slot |-> q[k].slot] /\ k \in DOMAIN primary
  BY <1>1, PolledBlocks DEF IsPrimary
<1>4. ASSUME NEW k \in Keys
      PROVE  /\ Exact(q, k, Loading(gpuLoads, k), Reading(PolledJobs, k), Storing(gpuStores, k),
                      Filling(PolledJobs, k), Promised(Tiers, pending, k))
             /\ k \in DOMAIN q => /\ q[k].ref \in Nat \cup {-1} /\ q[k].slot = primary[k].slot
                                  /\ q[k].ref # -1 => data[q[k].slot] = k
  <2> DEFINE L == Loading(gpuLoads, k)
             R == Reading(jobs, k)
             S == Storing(gpuStores, k)
             F == Filling(jobs, k)
             P == Promised(Tiers, pending, k)
             RC == Reading(CJ, k)
             FC == Filling(CJ, k)
  <2>1. Exact(primary, k, L, R, S, F, P)
    BY DEF Inv, Books, Accounts, Counted
  <2>2. Reading(PolledJobs, k) = R \ RC /\ Filling(PolledJobs, k) = F \ FC
        /\ RC \subseteq R /\ FC \subseteq F
    BY <1>2 DEF Reading, Filling, PolledJobs
  <2>3. IsFiniteSet(L) /\ IsFiniteSet(R) /\ IsFiniteSet(RC)
    BY <1>2, ClaimsAreFinite
  <2>4. /\ k \in DOMAIN q => k \in DOMAIN primary /\ q[k].slot = primary[k].slot
        /\ k \in DOMAIN primary /\ FC = {} => k \in DOMAIN q /\ q[k].ref = primary[k].ref - Cardinality(RC)
        /\ FC # {} => /\ k \in DOMAIN primary /\ primary[k].ref = -1
                      /\ k \in DOMAIN q => q[k].ref = 0 /\ data[primary[k].slot] = k
    BY PolledKeys
  <2>5. k \in DOMAIN primary => /\ primary[k].ref \in Nat \cup {-1}
                                /\ primary[k].ref # -1 => data[primary[k].slot] = k
    BY <1>1 DEF IsPrimary, ReadyHold
  <2>6. /\ Cardinality(R \ RC) = Cardinality(R) - Cardinality(RC)
        /\ Cardinality(L) \in Nat /\ Cardinality(R) \in Nat /\ Cardinality(RC) \in Nat
        /\ Cardinality(R \ RC) \in Nat
    BY <2>2, <2>3, CountParts, FS_CardinalityType
  <2>7. Cardinality({}) = 0
    BY FS_EmptySet
  <2> HIDE DEF L, R, S, F, P, RC, FC, q, CJ
  <2>8. CASE k \notin DOMAIN primary
    BY <2>1, <2>2, <2>4, <2>8 DEF Exact, L, S, P
  <2>9. CASE k \in DOMAIN primary /\ FC # {}
    <3>1. L = {} /\ R = {} /\ OneWriter(S, F, P)
      BY <2>1, <2>4, <2>9 DEF Exact
    <3>2. S = {} /\ P = {} /\ F \ FC = {} /\ R \ RC = {}
      BY <2>2, <2>9, <3>1 DEF OneWriter, One
    <3>3. k \in DOMAIN q => q[k].ref = Cardinality(L) + Cardinality(R \ RC)
      BY <2>4, <2>7, <2>9, <3>1, <3>2
    <3>4. Exact(q, k, L, R \ RC, S, F \ FC, P)
      BY <2>4, <2>9, <3>1, <3>2, <3>3 DEF Exact
    <3> QED  BY <2>2, <2>4, <2>9, <3>4 DEF L, S, P
  <2>10. CASE k \in DOMAIN primary /\ FC = {}
    <3>1. k \in DOMAIN q /\ q[k].slot = primary[k].slot /\ q[k].ref = primary[k].ref - Cardinality(RC)
      BY <2>4, <2>10
    <3>2. F \ FC = F
      BY <2>10
    <3>3. CASE primary[k].ref = -1
      <4>1. L = {} /\ R = {} /\ OneWriter(S, F, P) /\ R \ RC = {} /\ RC = {}
        BY <2>1, <2>2, <2>10, <3>3 DEF Exact
      <4>2. q[k].ref = -1
        BY <2>7, <3>1, <3>3, <4>1
      <4>3. Exact(q, k, L, R \ RC, S, F \ FC, P)
        BY <3>1, <3>2, <4>1, <4>2 DEF Exact
      <4> QED  BY <2>2, <2>10, <3>1, <4>2, <4>3 DEF L, S, P
    <3>4. CASE primary[k].ref # -1
      <4>1. S = {} /\ F = {} /\ P = {} /\ primary[k].ref = Cardinality(L) + Cardinality(R)
        BY <2>1, <2>10, <3>4 DEF Exact
      <4>2. q[k].ref = Cardinality(L) + Cardinality(R \ RC) /\ q[k].ref \in Nat
        BY <2>6, <3>1, <4>1
      <4>3. Exact(q, k, L, R \ RC, S, F \ FC, P)
        BY <3>1, <3>2, <4>1, <4>2 DEF Exact
      <4> QED  BY <2>2, <2>5, <2>10, <3>1, <3>4, <4>2, <4>3 DEF L, S, P
    <3> QED  BY <3>3, <3>4
  <2> QED  BY <2>8, <2>9, <2>10
<1> HIDE DEF q, CJ
<1>5. \A k \in DOMAIN q : q[k].slot = primary[k].slot /\ q[k].ref \in Nat \cup {-1} /\ k \in DOMAIN primary
                          /\ q[k].slot \in Slots /\ q[k] = [ref |-> q[k].ref, slot |-> q[k].slot]
  BY <1>1, <1>3, <1>4 DEF IsPrimary
<1>6. IsPrimary(q, Slots)
  <2>1. \A k \in DOMAIN q : q[k] \in [ref : Nat \cup {-1}, slot : Slots]
    BY <1>5
  <2> QED  BY <1>3, <2>1 DEF IsPrimary
<1>7. SlotsDiffer(q)
  BY <1>1, <1>5 DEF SlotsDiffer
<1>8. Counted(q, gpuLoads, gpuStores, PolledJobs, Tiers, pending)
  BY <1>4 DEF Counted
<1>9. LocatedJobs(q, PolledJobs)
  <2> SUFFICES ASSUME NEW j \in PolledJobs, NEW i \in DOMAIN j.keys
               PROVE  j.keys[i] \in DOMAIN q /\ j.slots[i] = q[j.keys[i]].slot
    BY DEF LocatedJobs
  <2> DEFINE k == j.keys[i]
  <2>1. j \in jobs /\ j.keys \in Seq(Keys) /\ j.promotion \in BOOLEAN
    BY <1>1 DEF PolledJobs, JobsAreSound, Job
  <2>2. k \in Keys /\ k \in Range(j.keys)
    BY <2>1 DEF Range
  <2>3. j \in Reading(PolledJobs, k) \cup Filling(PolledJobs, k)
    BY <2>1, <2>2 DEF Reading, Filling
  <2>4. k \in DOMAIN q
    BY <1>4, <2>2, <2>3 DEF Exact
  <2> QED  BY <1>1, <1>5, <2>1, <2>4 DEF LocatedJobs
<1>10. LocatedPromises(q, Tiers, pending)
  <2> SUFFICES ASSUME NEW t \in Tiers, NEW r \in Reqs, NEW i \in DOMAIN pending[t][r]
               PROVE  /\ pending[t][r][i].key \in DOMAIN q
                      /\ pending[t][r][i].slot = q[pending[t][r][i].key].slot
    BY DEF LocatedPromises
  <2> DEFINE k == pending[t][r][i].key
  <2>1. k \in DOMAIN primary /\ pending[t][r][i].slot = primary[k].slot
    BY <1>1 DEF LocatedPromises
  <2>2. k \in Keys
    BY <1>1, <2>1 DEF IsPrimary
  <2>3. <<t, r>> \in Promised(Tiers, pending, k)
    BY DEF Promised
  <2>4. k \in DOMAIN q
    BY <1>4, <2>2, <2>3 DEF Exact
  <2> QED  BY <1>5, <2>1, <2>4
<1>11. ReadyHold(q, data)
  BY <1>3, <1>4 DEF ReadyHold
<1> QED  BY <1>1, <1>6, <1>7, <1>8, <1>9, <1>10, <1>11 DEF Accounts, q

-----------------------------------------------------------------------------
(***************************************************************************)
(* Making room.                                                            *)
(***************************************************************************)

\* The primary tier holds finitely many keys: each has a slot of its own.
LEMMA PrimaryIsFinite ==
    ASSUME workload \in Workloads, NEW p, IsPrimary(p, Slots), SlotsDiffer(p)
    PROVE  IsFiniteSet(DOMAIN p)
<1> DEFINE f == [k \in DOMAIN p |-> p[k].slot]
<1>1. f \in [DOMAIN p -> Slots]
  BY DEF IsPrimary
<1>2. f \in Injection(DOMAIN p, Slots)
  BY <1>1 DEF Injection, IsInjective, SlotsDiffer
<1> HIDE DEF f
<1>3. IsFiniteSet(Slots)
  BY WorkloadFacts
<1> QED  BY <1>2, <1>3, FS_Injection

\* Evicting blocks frees their slots.
LEMMA FreedSlots ==
    ASSUME workload \in Workloads, NEW p, IsPrimary(p, Slots), SlotsDiffer(p),
           NEW evicted \in SUBSET DOMAIN p
    PROVE  /\ IsFiniteSet(FreeSlots(Evicted(p, evicted))) /\ IsFiniteSet(evicted)
           /\ Cardinality(FreeSlots(Evicted(p, evicted))) =
                 Cardinality(FreeSlots(p)) + Cardinality(evicted)
           /\ Cardinality(FreeSlots(p)) \in Nat /\ Cardinality(evicted) \in Nat
<1> DEFINE e == Evicted(p, evicted)
           f == [k \in evicted |-> p[k].slot]
           back == {f[k] : k \in evicted}
<1>1. IsFiniteSet(Slots) /\ IsFiniteSet(evicted)
  BY WorkloadFacts, PrimaryIsFinite, FS_Subset
<1>2. DOMAIN e = DOMAIN p \ evicted /\ \A k \in DOMAIN e : e[k] = p[k]
  BY DEF Evicted
<1>3. f \in [evicted -> Slots] /\ \A k, l \in evicted : f[k] = f[l] => k = l
  BY DEF IsPrimary, SlotsDiffer
<1>4. \A k \in evicted : f[k] = p[k].slot
  OBVIOUS
<1> HIDE DEF e, f
<1>5. IsFiniteSet(back) /\ Cardinality(back) = Cardinality(evicted)
  BY <1>1, <1>3, CountImage
<1>6. FreeSlots(e) = FreeSlots(p) \cup back /\ FreeSlots(p) \cap back = {}
  <2>1. \A s : s \in back <=> \E k \in evicted : s = p[k].slot
    BY <1>4
  <2>2. \A s : s \in FreeSlots(p) <=> s \in Slots /\ \A k \in DOMAIN p : s # p[k].slot
    BY DEF FreeSlots
  <2>3. \A s : s \in FreeSlots(e) <=> s \in Slots /\ \A k \in DOMAIN p \ evicted : s # p[k].slot
    BY <1>2 DEF FreeSlots
  <2>4. \A k \in DOMAIN p : p[k].slot \in Slots
    BY DEF IsPrimary
  <2> HIDE DEF back
  <2>5. \A s : s \in FreeSlots(e) <=> s \in FreeSlots(p) \/ s \in back
    BY <2>1, <2>2, <2>3, <2>4 DEF SlotsDiffer
  <2>6. \A s : ~(s \in FreeSlots(p) /\ s \in back)
    BY <2>1, <2>2
  <2> QED  BY <2>5, <2>6
<1>7. IsFiniteSet(FreeSlots(p)) /\ IsFiniteSet(FreeSlots(e))
  <2>1. FreeSlots(p) \in SUBSET Slots /\ FreeSlots(e) \in SUBSET Slots
    BY DEF FreeSlots
  <2> QED  BY <1>1, <2>1, FS_Subset
<1> HIDE DEF back
<1>8. /\ Cardinality(FreeSlots(e)) = Cardinality(FreeSlots(p)) + Cardinality(back)
      /\ Cardinality(FreeSlots(p)) \in Nat /\ Cardinality(back) \in Nat
  BY <1>5, <1>6, <1>7, CountParts
<1> QED  BY <1>1, <1>5, <1>7, <1>8 DEF e

\* The victims are idle blocks that nobody asks for, and enough of them.
LEMMA VictimsMakeRoom ==
    ASSUME workload \in Workloads, NEW p, IsPrimary(p, Slots), SlotsDiffer(p),
           NEW keys \in SUBSET Keys, IsFiniteSet(keys), NEW evicted \in Victims(p, keys)
    PROVE  /\ evicted \subseteq Idle(p) \ keys /\ evicted \subseteq DOMAIN p
           /\ Cardinality(keys \ DOMAIN p) <= Cardinality(FreeSlots(Evicted(p, evicted)))
<1> DEFINE needed == Cardinality(keys \ DOMAIN p)
           free == Cardinality(FreeSlots(p))
<1>1. IF needed - free <= 0 THEN evicted = {}
      ELSE evicted \subseteq Idle(p) \ keys /\ Cardinality(evicted) = needed - free
  BY DEF Victims, kSubset
<1>2. evicted \subseteq Idle(p) \ keys /\ evicted \subseteq DOMAIN p
  BY <1>1 DEF Idle
<1>3. needed \in Nat
  BY FS_Difference, FS_CardinalityType
<1>4. /\ Cardinality(FreeSlots(Evicted(p, evicted))) = free + Cardinality(evicted)
      /\ free \in Nat /\ Cardinality(evicted) \in Nat
  BY <1>2, FreedSlots
<1> QED  BY <1>1, <1>2, <1>3, <1>4

\* q is p with blocks reserved for those of the keys that p does not hold.
Reservation(p, q, keys, evicted, new) ==
    /\ keys \in SUBSET Keys /\ IsFiniteSet(keys) /\ evicted \in Victims(p, keys)
    /\ new \in Seq(Keys) /\ IsInjective(new) /\ Range(new) = keys \ DOMAIN p
    /\ q = Reserve(Evicted(p, evicted), new)

\* The reserved blocks get free slots, one each; the others stay.
MadeRoom(p, q, keys, evicted, new) ==
    /\ evicted \subseteq Idle(p) \ keys /\ evicted \subseteq DOMAIN p
    /\ IsPrimary(q, Slots) /\ SlotsDiffer(q)
    /\ DOMAIN q = (DOMAIN p \ evicted) \cup Range(new)
    /\ \A k \in DOMAIN p \ evicted : q[k] = p[k]
    /\ \A k \in Range(new) : q[k].ref = -1

\* A reservation does that.
LEMMA Reserved ==
    ASSUME workload \in Workloads, NEW p, IsPrimary(p, Slots), SlotsDiffer(p),
           NEW q, NEW keys, NEW evicted, NEW new, Reservation(p, q, keys, evicted, new)
    PROVE  MadeRoom(p, q, keys, evicted, new)
<1> DEFINE e == Evicted(p, evicted)
           free == FreeSlots(e)
           order == SetToSeq(free)
<1>0. /\ keys \in SUBSET Keys /\ IsFiniteSet(keys) /\ evicted \in Victims(p, keys)
      /\ new \in Seq(Keys) /\ IsInjective(new) /\ Range(new) = keys \ DOMAIN p
      /\ q = Reserve(e, new)
  BY DEF Reservation
<1>1. /\ evicted \subseteq Idle(p) \ keys /\ evicted \subseteq DOMAIN p
      /\ Cardinality(keys \ DOMAIN p) <= Cardinality(free)
  BY <1>0, VictimsMakeRoom
<1>2. DOMAIN e = DOMAIN p \ evicted /\ \A k \in DOMAIN e : e[k] = p[k]
  BY DEF Evicted
<1>3. IsFiniteSet(free)
  BY <1>1, FreedSlots
<1>4. /\ \A i \in 1..Cardinality(free) : order[i] \in free
      /\ \A i, n \in 1..Cardinality(free) : order[i] = order[n] => i = n
      /\ Cardinality(free) \in Nat
  <2>1. /\ SetToSeq(free) \in Seq(free) /\ IsInjective(SetToSeq(free))
        /\ Cardinality(free) \in Nat /\ DOMAIN SetToSeq(free) = 1..Cardinality(free)
    BY <1>3, SetAsList
  <2> HIDE DEF order
  <2> QED  BY <2>1 DEF order, IsInjective
<1>5. DOMAIN new \subseteq 1..Cardinality(free)
  <2>1. Len(new) = Cardinality(keys \ DOMAIN p) /\ Len(new) \in Nat
    BY <1>0, LengthIsCount
  <2>2. DOMAIN new = 1..Len(new)
    BY <1>0
  <2> HIDE DEF free
  <2> QED  BY <1>1, <1>4, <2>1, <2>2
<1>6. q = [k \in DOMAIN e \cup Range(new) |->
             IF k \in DOMAIN e THEN e[k]
             ELSE [ref |-> -1, slot |-> order[CHOOSE i \in DOMAIN new : new[i] = k]]]
  BY <1>0 DEF Reserve
<1>7. DOMAIN q = DOMAIN e \cup Range(new) /\ \A k \in DOMAIN e : q[k] = e[k]
  <2> HIDE DEF e, order
  <2> QED  BY <1>6
<1>8. \A k \in Range(new) : \E i \in 1..Cardinality(free) :
         i \in DOMAIN new /\ new[i] = k /\ q[k] = [ref |-> -1, slot |-> order[i]]
  <2> SUFFICES ASSUME NEW k \in Range(new)
               PROVE  \E i \in 1..Cardinality(free) :
                        i \in DOMAIN new /\ new[i] = k /\ q[k] = [ref |-> -1, slot |-> order[i]]
    OBVIOUS
  <2> DEFINE i == CHOOSE n \in DOMAIN new : new[n] = k
  <2>1. i \in DOMAIN new /\ new[i] = k
    BY DEF Range
  <2>2. k \notin DOMAIN e
    BY <1>0, <1>2
  <2>3. q[k] = [ref |-> -1, slot |-> order[i]]
    <3> HIDE DEF e, order
    <3> QED  BY <1>6, <2>2
  <2> HIDE DEF i, e, order, free
  <2> QED  BY <1>5, <2>1, <2>3
<1>9. q = [k \in DOMAIN q |-> q[k]]
  <2> HIDE DEF e, order
  <2> QED  BY <1>6
<1> HIDE DEF e, order, free
<1>10. \A k \in Range(new) : /\ k \in Keys /\ q[k] = [ref |-> -1, slot |-> q[k].slot]
                             /\ q[k].ref = -1 /\ q[k].slot \in free
  <2> TAKE k \in Range(new)
  <2>1. PICK i \in 1..Cardinality(free) :
           i \in DOMAIN new /\ new[i] = k /\ q[k] = [ref |-> -1, slot |-> order[i]]
    BY <1>8
  <2>2. q[k].ref = -1 /\ q[k].slot = order[i]
    BY <2>1
  <2>3. k \in Keys
    BY <1>0
  <2> QED  BY <1>4, <2>1, <2>2, <2>3
<1>11. free \subseteq Slots /\ \A k \in DOMAIN e : e[k].slot \notin free
  BY DEF FreeSlots, free
<1>12. IsPrimary(q, Slots)
  <2>1. \A k \in DOMAIN e : q[k] \in [ref : Nat \cup {-1}, slot : Slots] /\ k \in Keys
    BY <1>2, <1>7 DEF IsPrimary
  <2>2. \A k \in Range(new) : q[k] \in [ref : Nat \cup {-1}, slot : Slots] /\ k \in Keys
    <3> TAKE k \in Range(new)
    <3> DEFINE s == q[k].slot
    <3>1. k \in Keys /\ q[k] = [ref |-> -1, slot |-> s] /\ s \in Slots
      BY <1>10, <1>11
    <3> HIDE DEF s
    <3> QED  BY <3>1
  <2> QED  BY <1>7, <1>9, <2>1, <2>2 DEF IsPrimary
<1>13. SlotsDiffer(q)
  <2>1. \A k, l \in DOMAIN e : q[k].slot = q[l].slot => k = l
    BY <1>2, <1>7 DEF SlotsDiffer
  <2>2. \A k, l \in Range(new) : q[k].slot = q[l].slot => k = l
    <3> SUFFICES ASSUME NEW k \in Range(new), NEW l \in Range(new), q[k].slot = q[l].slot
                 PROVE  k = l
      OBVIOUS
    <3>1. PICK i \in 1..Cardinality(free) :
             i \in DOMAIN new /\ new[i] = k /\ q[k] = [ref |-> -1, slot |-> order[i]]
      BY <1>8
    <3>2. PICK n \in 1..Cardinality(free) :
             n \in DOMAIN new /\ new[n] = l /\ q[l] = [ref |-> -1, slot |-> order[n]]
      BY <1>8
    <3>3. order[i] = order[n]
      BY <3>1, <3>2
    <3> QED  BY <1>4, <3>1, <3>2, <3>3
  <2>3. \A k \in DOMAIN e, l \in Range(new) : q[k].slot # q[l].slot
    BY <1>7, <1>10, <1>11
  <2> QED  BY <1>7, <2>1, <2>2, <2>3 DEF SlotsDiffer
<1> QED  BY <1>1, <1>2, <1>7, <1>10, <1>12, <1>13 DEF e, MadeRoom

\* Reserving blocks disturbs no claim, and nobody has one to the new blocks yet.
KeptClaims(p, q, gl, gs, js, pe, keys, new) ==
    /\ IsPrimary(q, Slots) /\ SlotsDiffer(q) /\ ReadyHold(q, data)
    /\ LocatedJobs(q, js) /\ LocatedPromises(q, Tiers, pe)
    /\ Range(new) \subseteq DOMAIN q
    /\ \A k \in keys \cap DOMAIN p : k \in DOMAIN q /\ q[k] = p[k]
    /\ \A k \in Keys :
          IF k \notin Range(new)
          THEN Exact(q, k, Loading(gl, k), Reading(js, k), Storing(gs, k),
                     Filling(js, k), Promised(Tiers, pe, k))
          ELSE /\ q[k].ref = -1
               /\ Loading(gl, k) = {} /\ Reading(js, k) = {} /\ Storing(gs, k) = {}
               /\ Filling(js, k) = {} /\ Promised(Tiers, pe, k) = {}

\* A reservation keeps the claims.
LEMMA ReservedClaims ==
    ASSUME workload \in Workloads, NEW p, IsPrimary(p, Slots), NEW gl, NEW gs, NEW js,
           JobsAreSound(js, Tiers), NEW pe, Accounts(p, gl, gs, js, Tiers, pe), ReadyHold(p, data),
           NEW q, NEW keys, NEW evicted, NEW new, Reservation(p, q, keys, evicted, new)
    PROVE  KeptClaims(p, q, gl, gs, js, pe, keys, new)
<1>1. /\ SlotsDiffer(p) /\ LocatedJobs(p, js) /\ LocatedPromises(p, Tiers, pe)
      /\ Counted(p, gl, gs, js, Tiers, pe)
  BY DEF Accounts
<1>2. /\ evicted \subseteq Idle(p) \ keys /\ evicted \subseteq DOMAIN p
      /\ IsPrimary(q, Slots) /\ SlotsDiffer(q)
      /\ DOMAIN q = (DOMAIN p \ evicted) \cup Range(new)
      /\ \A k \in DOMAIN p \ evicted : q[k] = p[k]
      /\ \A k \in Range(new) : q[k].ref = -1
  <2>1. MadeRoom(p, q, keys, evicted, new)
    BY <1>1, Reserved
  <2> QED  BY <2>1 DEF MadeRoom
<1>3. IsFiniteSet(js) /\ js \subseteq Job(Tiers) /\ DOMAIN p \subseteq Keys
  BY DEF JobsAreSound, IsPrimary
<1>4. ASSUME NEW k \in evicted
      PROVE  /\ Loading(gl, k) = {} /\ Reading(js, k) = {} /\ Storing(gs, k) = {}
             /\ Filling(js, k) = {} /\ Promised(Tiers, pe, k) = {}
  <2>1. k \in DOMAIN p /\ p[k].ref = 0 /\ k \in Keys
    BY <1>2, <1>3, <1>4 DEF Idle
  <2>2. IsFiniteSet(Loading(gl, k)) /\ IsFiniteSet(Reading(js, k))
    BY <1>3, ClaimsAreFinite
  <2>3. Exact(p, k, Loading(gl, k), Reading(js, k), Storing(gs, k), Filling(js, k), Promised(Tiers, pe, k))
    BY <1>1, <2>1 DEF Counted
  <2> QED  BY <2>1, <2>2, <2>3, IdleIsUnclaimed
<1>5. \A k \in Keys :
         IF k \notin Range(new)
         THEN Exact(q, k, Loading(gl, k), Reading(js, k), Storing(gs, k),
                    Filling(js, k), Promised(Tiers, pe, k))
         ELSE /\ q[k].ref = -1
              /\ Loading(gl, k) = {} /\ Reading(js, k) = {} /\ Storing(gs, k) = {}
              /\ Filling(js, k) = {} /\ Promised(Tiers, pe, k) = {}
  <2> TAKE k \in Keys
  <2>1. Exact(p, k, Loading(gl, k), Reading(js, k), Storing(gs, k), Filling(js, k), Promised(Tiers, pe, k))
    BY <1>1 DEF Counted
  <2>2. CASE k \in Range(new)
    <3>1. k \notin DOMAIN p
      BY <2>2 DEF Reservation
    <3> QED  BY <1>2, <2>1, <2>2, <3>1 DEF Exact
  <2>3. CASE k \notin Range(new)
    BY <1>2, <1>4, <2>1, <2>3 DEF Exact
  <2> QED  BY <2>2, <2>3
<1>6. ReadyHold(q, data)
  BY <1>2 DEF ReadyHold
<1>7. LocatedJobs(q, js)
  <2> SUFFICES ASSUME NEW j \in js, NEW i \in DOMAIN j.keys
               PROVE  j.keys[i] \in DOMAIN q /\ j.slots[i] = q[j.keys[i]].slot
    BY DEF LocatedJobs
  <2>1. j.keys \in Seq(Keys) /\ j.promotion \in BOOLEAN
    BY <1>3 DEF Job
  <2>2. j \in Reading(js, j.keys[i]) \cup Filling(js, j.keys[i])
    BY <2>1 DEF Reading, Filling, Range
  <2>3. j.keys[i] \in DOMAIN p \ evicted /\ j.slots[i] = p[j.keys[i]].slot
    BY <1>1, <1>4, <2>2 DEF LocatedJobs
  <2> QED  BY <1>2, <2>3
<1>8. LocatedPromises(q, Tiers, pe)
  <2> SUFFICES ASSUME NEW t \in Tiers, NEW r \in Reqs, NEW i \in DOMAIN pe[t][r]
               PROVE  pe[t][r][i].key \in DOMAIN q /\ pe[t][r][i].slot = q[pe[t][r][i].key].slot
    BY DEF LocatedPromises
  <2>1. <<t, r>> \in Promised(Tiers, pe, pe[t][r][i].key)
    BY DEF Promised
  <2>2. pe[t][r][i].key \in DOMAIN p \ evicted /\ pe[t][r][i].slot = p[pe[t][r][i].key].slot
    BY <1>1, <1>4, <2>1 DEF LocatedPromises
  <2> QED  BY <1>2, <2>2
<1>9. \A k \in keys \cap DOMAIN p : k \in DOMAIN q /\ q[k] = p[k]
  BY <1>2
<1> QED  BY <1>2, <1>5, <1>6, <1>7, <1>8, <1>9 DEF KeptClaims

\* A promotion reserves a block that only it will fill.
LEMMA PromisedBlock ==
    ASSUME workload \in Workloads, NEW p, IsPrimary(p, Slots), NEW gl, NEW gs, NEW js,
           JobsAreSound(js, Tiers), NEW pe \in [Tiers -> [Reqs -> Seq(Promise)]],
           Accounts(p, gl, gs, js, Tiers, pe), ReadyHold(p, data),
           NEW k \in Keys, k \notin DOMAIN p, NEW evicted \in Victims(p, {k}),
           NEW q, q = Reserve(Evicted(p, evicted), <<k>>), NEW t \in Tiers, NEW r \in Reqs
    PROVE  LET pf == [pe EXCEPT ![t][r] = Append(@, [key |-> k, slot |-> q[k].slot])]
           IN /\ IsPrimary(q, Slots) /\ ReadyHold(q, data)
              /\ pf \in [Tiers -> [Reqs -> Seq(Promise)]]
              /\ Accounts(q, gl, gs, js, Tiers, pf)
<1> DEFINE new == <<k>>
           one == [key |-> k, slot |-> q[k].slot]
           pf == [pe EXCEPT ![t][r] = Append(@, one)]
<1>1. new \in Seq(Keys) /\ IsInjective(new) /\ Range(new) = {k} \ DOMAIN p
  BY DEF IsInjective, Range
<1>2. IsFiniteSet({k}) /\ {k} \in SUBSET Keys
  BY FS_Singleton
<1>3. /\ IsPrimary(q, Slots) /\ SlotsDiffer(q) /\ ReadyHold(q, data)
      /\ LocatedJobs(q, js) /\ LocatedPromises(q, Tiers, pe)
      /\ Range(new) \subseteq DOMAIN q
      /\ \A x \in Keys :
            IF x \notin Range(new)
            THEN Exact(q, x, Loading(gl, x), Reading(js, x), Storing(gs, x),
                       Filling(js, x), Promised(Tiers, pe, x))
            ELSE /\ q[x].ref = -1
                 /\ Loading(gl, x) = {} /\ Reading(js, x) = {} /\ Storing(gs, x) = {}
                 /\ Filling(js, x) = {} /\ Promised(Tiers, pe, x) = {}
  <2>1. Reservation(p, q, {k}, evicted, new)
    BY <1>1, <1>2 DEF Reservation, new
  <2>2. KeptClaims(p, q, gl, gs, js, pe, {k}, new)
    BY <2>1, ReservedClaims
  <2> QED  BY <2>2 DEF KeptClaims
<1> HIDE DEF new
<1>4. Range(new) = {k} /\ k \in DOMAIN q
  BY <1>1, <1>3
<1>5. one \in Promise /\ one.key = k /\ one.slot = q[k].slot
  <2>1. q[k].slot \in Slots
    BY <1>3, <1>4 DEF IsPrimary
  <2> QED  BY <2>1, WorkloadFacts DEF Promise
<1> HIDE DEF one
<1>6. /\ pf \in [Tiers -> [Reqs -> Seq(Promise)]]
      /\ \A u \in Tiers, s \in Reqs :
            pf[u][s] = IF u = t /\ s = r THEN Append(pe[t][r], one) ELSE pe[u][s]
  <2>1. Append(pe[t][r], one) \in Seq(Promise)
    BY <1>5
  <2> QED  BY <2>1
<1> HIDE DEF pf
<1>7. /\ DOMAIN pf[t][r] = 1..(Len(pe[t][r]) + 1) /\ DOMAIN pe[t][r] = 1..Len(pe[t][r])
      /\ Len(pe[t][r]) \in Nat
      /\ \A i \in DOMAIN pe[t][r] : pf[t][r][i] = pe[t][r][i]
      /\ pf[t][r][Len(pe[t][r]) + 1] = one
  <2>1. pe[t][r] \in Seq(Promise) /\ pf[t][r] = Append(pe[t][r], one)
    BY <1>6
  <2> QED  BY <1>5, <2>1
<1>8. \A u \in Tiers, s \in Reqs : ~(u = t /\ s = r) => pf[u][s] = pe[u][s]
  BY <1>6
<1>9. \A u \in Tiers, s \in Reqs : \A i \in DOMAIN pe[u][s] : pe[u][s][i].key # k
  <2>1. Promised(Tiers, pe, k) = {}
    BY <1>3, <1>4
  <2> SUFFICES ASSUME NEW u \in Tiers, NEW s \in Reqs, NEW i \in DOMAIN pe[u][s], pe[u][s][i].key = k
               PROVE  FALSE
    OBVIOUS
  <2>2. <<u, s>> \in Promised(Tiers, pe, k)
    BY DEF Promised
  <2> QED  BY <2>1, <2>2
<1>10. \A u \in Tiers, s \in Reqs : \A i \in DOMAIN pf[u][s] :
          \/ i \in DOMAIN pe[u][s] /\ pf[u][s][i] = pe[u][s][i]
          \/ u = t /\ s = r /\ i = Len(pe[t][r]) + 1 /\ pf[u][s][i] = one
  <2> TAKE u \in Tiers, s \in Reqs
  <2>1. CASE u = t /\ s = r
    <3>1. \A i \in DOMAIN pf[t][r] : i \in DOMAIN pe[t][r] \/ i = Len(pe[t][r]) + 1
      BY <1>7
    <3> QED  BY <1>7, <2>1, <3>1
  <2>2. CASE ~(u = t /\ s = r)
    BY <1>8, <2>2
  <2> QED  BY <2>1, <2>2
<1>11. \A u \in Tiers, s \in Reqs : \A i \in DOMAIN pe[u][s] :
          i \in DOMAIN pf[u][s] /\ pf[u][s][i] = pe[u][s][i]
  <2> TAKE u \in Tiers, s \in Reqs
  <2>1. CASE u = t /\ s = r
    <3>1. \A i \in DOMAIN pe[t][r] : i \in DOMAIN pf[t][r]
      BY <1>7
    <3> QED  BY <1>7, <2>1, <3>1
  <2>2. CASE ~(u = t /\ s = r)
    BY <1>8, <2>2
  <2> QED  BY <2>1, <2>2
<1>12. PromisesDiffer(Tiers, pf)
  <2>1. PromisesDiffer(Tiers, pe)
    BY DEF Accounts
  <2> SUFFICES ASSUME NEW u \in Tiers, NEW s \in Reqs, NEW i \in DOMAIN pf[u][s],
                      NEW n \in DOMAIN pf[u][s], pf[u][s][i].key = pf[u][s][n].key
               PROVE  i = n
    BY DEF PromisesDiffer
  <2>2. \A m \in {i, n} : \/ m \in DOMAIN pe[u][s] /\ pf[u][s][m] = pe[u][s][m]
                          \/ m = Len(pe[t][r]) + 1 /\ pf[u][s][m] = one
    BY <1>10
  <2>3. CASE i \in DOMAIN pe[u][s] /\ pf[u][s][i] = pe[u][s][i]
    BY <1>5, <1>9, <2>1, <2>2, <2>3 DEF PromisesDiffer
  <2>4. CASE i = Len(pe[t][r]) + 1 /\ pf[u][s][i] = one
    BY <1>5, <1>9, <2>2, <2>4
  <2> QED  BY <2>2, <2>3, <2>4
<1>13. LocatedPromises(q, Tiers, pf)
  <2> SUFFICES ASSUME NEW u \in Tiers, NEW s \in Reqs, NEW i \in DOMAIN pf[u][s]
               PROVE  pf[u][s][i].key \in DOMAIN q /\ pf[u][s][i].slot = q[pf[u][s][i].key].slot
    BY DEF LocatedPromises
  <2>1. CASE i \in DOMAIN pe[u][s] /\ pf[u][s][i] = pe[u][s][i]
    <3>1. pe[u][s][i].key \in DOMAIN q /\ pe[u][s][i].slot = q[pe[u][s][i].key].slot
      BY <1>3, <2>1 DEF LocatedPromises
    <3> QED  BY <2>1, <3>1
  <2>2. CASE pf[u][s][i] = one
    BY <1>4, <1>5, <2>2
  <2> QED  BY <1>10, <2>1, <2>2
<1>14. \A x \in Keys : x # k => Promised(Tiers, pf, x) = Promised(Tiers, pe, x)
  <2> SUFFICES ASSUME NEW x \in Keys, x # k, NEW y \in Tiers \X Reqs
               PROVE  (\E i \in DOMAIN pf[y[1]][y[2]] : pf[y[1]][y[2]][i].key = x)
                        <=> \E i \in DOMAIN pe[y[1]][y[2]] : pe[y[1]][y[2]][i].key = x
    BY DEF Promised
  <2>1. y[1] \in Tiers /\ y[2] \in Reqs
    OBVIOUS
  <2> DEFINE u == y[1]
             s == y[2]
  <2> HIDE DEF u, s
  <2>2. u \in Tiers /\ s \in Reqs
    BY <2>1 DEF u, s
  <2>3. ASSUME NEW i \in DOMAIN pf[u][s], pf[u][s][i].key = x
        PROVE  i \in DOMAIN pe[u][s] /\ pe[u][s][i].key = x
    BY <1>5, <1>10, <2>2, <2>3
  <2>4. ASSUME NEW i \in DOMAIN pe[u][s], pe[u][s][i].key = x
        PROVE  i \in DOMAIN pf[u][s] /\ pf[u][s][i].key = x
    BY <1>11, <2>2, <2>4
  <2> QED  BY <2>3, <2>4 DEF u, s
<1>15. Promised(Tiers, pf, k) = {<<t, r>>}
  <2>1. <<t, r>> \in Promised(Tiers, pf, k)
    <3>1. Len(pe[t][r]) + 1 \in DOMAIN pf[t][r]
      BY <1>7
    <3>2. \E i \in DOMAIN pf[t][r] : pf[t][r][i].key = k
      BY <1>5, <1>7, <3>1
    <3> QED  BY <3>2 DEF Promised
  <2>2. ASSUME NEW y \in Promised(Tiers, pf, k) PROVE y = <<t, r>>
    <3>1. y \in Tiers \X Reqs /\ \E i \in DOMAIN pf[y[1]][y[2]] : pf[y[1]][y[2]][i].key = k
      BY DEF Promised
    <3>2. y[1] \in Tiers /\ y[2] \in Reqs /\ y = <<y[1], y[2]>>
      BY <3>1
    <3>3. y[1] = t /\ y[2] = r
      BY <1>9, <1>10, <3>1, <3>2
    <3> QED  BY <3>2, <3>3
  <2> QED  BY <2>1, <2>2
<1>16. Counted(q, gl, gs, js, Tiers, pf)
  <2> SUFFICES ASSUME NEW x \in Keys
               PROVE  Exact(q, x, Loading(gl, x), Reading(js, x), Storing(gs, x),
                            Filling(js, x), Promised(Tiers, pf, x))
    BY DEF Counted
  <2>1. CASE x = k
    BY <1>3, <1>4, <1>15, <2>1 DEF Exact, OneWriter, One
  <2>2. CASE x # k
    BY <1>3, <1>4, <1>14, <2>2
  <2> QED  BY <2>1, <2>2
<1>17. StoresDiffer(gs)
  BY DEF Accounts
<1> QED  BY <1>3, <1>6, <1>12, <1>13, <1>16, <1>17 DEF Accounts, one, pf

-----------------------------------------------------------------------------
(***************************************************************************)
(* Cascades.                                                               *)
(***************************************************************************)

\* The jobs that carry the same blocks of one request to these tiers.
CascadesTo(tiers, r, keys, slots) == {Transfer(t, r, FALSE, keys, slots) : t \in tiers}

\* What a list of blocks must be to be cascaded, and how its jobs look.
CanCascade(q, js, tiers, r, keys, slots) ==
    /\ tiers \subseteq Tiers /\ r \in Reqs
    /\ keys \in Seq(Keys) /\ IsInjective(keys) /\ (tiers # {} => Len(keys) > 0)
    /\ \A k \in Range(keys) : k \in DOMAIN q /\ q[k].ref >= 0
    /\ slots = SlotsOf(q, keys)
    /\ \A t \in tiers : Transfer(t, r, FALSE, keys, slots) \notin js

CascadesAreNew(js, C, tiers, keys) ==
    /\ IsFiniteSet(C) /\ Cardinality(C) = Cardinality(tiers)
    /\ C \cap js = {} /\ C \subseteq Job(Tiers)
    /\ \A j \in C : /\ JobIsSound(j) /\ ~j.promotion /\ j.keys = keys

\* The cascades of one list of keys are new jobs, one for each tier.
LEMMA NewCascades ==
    ASSUME workload \in Workloads, NEW q, IsPrimary(q, Slots), NEW js, NEW tiers, NEW r,
           NEW keys, NEW slots, CanCascade(q, js, tiers, r, keys, slots)
    PROVE  CascadesAreNew(js, CascadesTo(tiers, r, keys, slots), tiers, keys)
<1> DEFINE C == CascadesTo(tiers, r, keys, slots)
           f == [t \in tiers |-> Transfer(t, r, FALSE, keys, slots)]
<1>1. IsFiniteSet(tiers)
  BY WorkloadFacts, FS_Subset DEF CanCascade
<1>2. \A t \in tiers : f[t].tier = t /\ f[t] = Transfer(t, r, FALSE, keys, slots)
  BY DEF Transfer
<1>3. f \in [tiers -> C]
  BY DEF CascadesTo
<1>4. C = {f[t] : t \in tiers}
  BY <1>2 DEF CascadesTo
<1> HIDE DEF f, C
<1>5. \A t, u \in tiers : f[t] = f[u] => t = u
  BY <1>2
<1>6. IsFiniteSet({f[t] : t \in tiers}) /\ Cardinality({f[t] : t \in tiers}) = Cardinality(tiers)
  BY <1>1, <1>3, <1>5, CountImage
<1>7. C \cap js = {}
  <2>1. \A t \in tiers : Transfer(t, r, FALSE, keys, slots) \notin js
    BY DEF CanCascade
  <2> QED  BY <2>1 DEF C, CascadesTo
<1>8. slots \in Seq(Nat) /\ Len(slots) = Len(keys) /\ Len(keys) \in Nat
  <2>1. \A i \in DOMAIN keys : q[keys[i]].slot \in Nat
    BY WorkloadFacts DEF CanCascade, IsPrimary, Range
  <2>2. keys \in Seq(Keys) /\ Len(keys) \in Nat /\ DOMAIN keys = 1..Len(keys)
    BY DEF CanCascade
  <2>3. slots = [i \in 1..Len(keys) |-> q[keys[i]].slot]
    BY <2>2 DEF CanCascade, SlotsOf
  <2>4. slots \in [1..Len(keys) -> Nat]
    BY <2>1, <2>2, <2>3
  <2> QED  BY <2>2, <2>4, FunctionIsList
<1>9. ASSUME NEW j \in C
      PROVE  j \in Job(Tiers) /\ JobIsSound(j) /\ ~j.promotion /\ j.keys = keys
  <2>1. PICK t \in tiers : j = Transfer(t, r, FALSE, keys, slots)
    BY <1>2, <1>4
  <2>2. t \in Tiers /\ r \in Reqs /\ keys \in Seq(Keys) /\ IsInjective(keys) /\ Len(keys) > 0
    BY DEF CanCascade
  <2>3. j = [tier |-> t, req |-> r, promotion |-> FALSE, keys |-> keys, slots |-> slots]
    BY <2>1 DEF Transfer
  <2>4. j \in Job(Tiers) /\ ~j.promotion /\ j.keys = keys /\ j.slots = slots
    BY <1>8, <2>2, <2>3 DEF Job
  <2>5. JobIsSound(j)
    BY <1>8, <2>2, <2>4 DEF JobIsSound
  <2> QED  BY <2>4, <2>5
<1> QED  BY <1>4, <1>6, <1>7, <1>9 DEF CascadesAreNew, C

\* Each block is pinned once for every tier it goes to.
PinnedFor(q, keys, n) ==
    [k \in DOMAIN q |-> IF k \in keys THEN [q[k] EXCEPT !.ref = @ + n] ELSE q[k]]

\* Cascades start: z is q with their pins, ks the jobs with them.
CascadesStart(q, z, js, ks, tiers, r, keys, slots) ==
    /\ CanCascade(q, js, tiers, r, keys, slots)
    /\ z = PinnedFor(q, Range(keys), Cardinality(tiers))
    /\ ks = js \cup CascadesTo(tiers, r, keys, slots)

\* A pin for each cascade keeps the accounts.
LEMMA CascadedBlocks ==
    ASSUME workload \in Workloads, NEW q, IsPrimary(q, Slots), NEW gl, NEW gs, NEW js,
           JobsAreSound(js, Tiers), NEW pe, Accounts(q, gl, gs, js, Tiers, pe),
           NEW d, ReadyHold(q, d),
           NEW tiers, NEW r, NEW keys, NEW slots, NEW z, NEW ks,
           CascadesStart(q, z, js, ks, tiers, r, keys, slots)
    PROVE  /\ IsPrimary(z, Slots) /\ ReadyHold(z, d)
           /\ JobsAreSound(ks, Tiers) /\ Accounts(z, gl, gs, ks, Tiers, pe)
<1> USE DEF CascadesStart
<1> DEFINE n == Cardinality(tiers)
           C == CascadesTo(tiers, r, keys, slots)
<1>1. IsFiniteSet(tiers) /\ n \in Nat
  BY WorkloadFacts, FS_Subset, FS_CardinalityType DEF CanCascade
<1>2. CascadesAreNew(js, C, tiers, keys)
  BY NewCascades
<1>3. ks = js \cup C
  OBVIOUS
<1>4. \A k \in DOMAIN q : q[k] \in [ref : Nat \cup {-1}, slot : Slots] /\ k \in Keys
  BY DEF IsPrimary
<1>5. \A k \in Range(keys) : k \in DOMAIN q /\ q[k].ref \in Nat
  BY <1>4 DEF CanCascade
<1> HIDE DEF n, C
<1>6. /\ DOMAIN z = DOMAIN q /\ z = [k \in DOMAIN z |-> z[k]]
      /\ \A k \in DOMAIN q :
            z[k] = IF k \in Range(keys) THEN [ref |-> q[k].ref + n, slot |-> q[k].slot] ELSE q[k]
  <2>1. z = [k \in DOMAIN q |-> IF k \in Range(keys) THEN [q[k] EXCEPT !.ref = @ + n] ELSE q[k]]
    BY DEF PinnedFor, n
  <2> QED  BY <1>4, <2>1
<1>7. \A k \in DOMAIN q : /\ z[k] \in [ref : Nat \cup {-1}, slot : Slots]
                          /\ z[k].slot = q[k].slot /\ (z[k].ref = -1 <=> q[k].ref = -1)
  <2> TAKE k \in DOMAIN q
  <2>1. CASE k \in Range(keys)
    <3>1. z[k] = [ref |-> q[k].ref + n, slot |-> q[k].slot] /\ q[k].ref \in Nat /\ q[k].ref + n \in Nat
          /\ q[k].slot \in Slots
      BY <1>1, <1>4, <1>5, <1>6, <2>1
    <3> QED  BY <3>1
  <2>2. CASE k \notin Range(keys)
    BY <1>4, <1>6, <2>2
  <2> QED  BY <2>1, <2>2
<1>8. IsPrimary(z, Slots)
  BY <1>4, <1>6, <1>7 DEF IsPrimary
<1>9. ReadyHold(z, d)
  BY <1>6, <1>7 DEF ReadyHold
<1>10. JobsAreSound(ks, Tiers)
  <2>1. IsFiniteSet(js) /\ js \subseteq Job(Tiers) /\ \A j \in js : JobIsSound(j)
    BY DEF JobsAreSound
  <2>2. IsFiniteSet(ks)
    BY <1>2, <1>3, <2>1, FS_Union DEF CascadesAreNew
  <2> QED  BY <1>2, <1>3, <2>1, <2>2 DEF JobsAreSound, CascadesAreNew
<1>11. SlotsDiffer(z)
  <2>1. SlotsDiffer(q)
    BY DEF Accounts
  <2> QED  BY <1>6, <1>7, <2>1 DEF SlotsDiffer
<1>12. LocatedPromises(z, Tiers, pe)
  <2>1. LocatedPromises(q, Tiers, pe)
    BY DEF Accounts
  <2> QED  BY <1>6, <1>7, <2>1 DEF LocatedPromises
<1>13. LocatedJobs(z, ks)
  <2>1. LocatedJobs(q, js)
    BY DEF Accounts
  <2> SUFFICES ASSUME NEW j \in ks, NEW i \in DOMAIN j.keys
               PROVE  j.keys[i] \in DOMAIN z /\ j.slots[i] = z[j.keys[i]].slot
    BY DEF LocatedJobs
  <2>2. CASE j \in js
    BY <1>6, <1>7, <2>1, <2>2 DEF LocatedJobs
  <2>3. CASE j \in C
    <3>1. PICK t \in tiers : j = Transfer(t, r, FALSE, keys, slots)
      BY <2>3 DEF C, CascadesTo
    <3>2. j.keys = keys /\ j.slots = SlotsOf(q, keys)
      BY <3>1 DEF Transfer, CanCascade
    <3>3. j.slots[i] = q[keys[i]].slot /\ keys[i] \in Range(keys)
      BY <3>2 DEF SlotsOf, Range
    <3> QED  BY <1>5, <1>6, <1>7, <3>2, <3>3
  <2> QED  BY <1>3, <2>2, <2>3
<1>14. Counted(z, gl, gs, ks, Tiers, pe)
  <2> SUFFICES ASSUME NEW k \in Keys
               PROVE  Exact(z, k, Loading(gl, k), Reading(ks, k), Storing(gs, k),
                            Filling(ks, k), Promised(Tiers, pe, k))
    BY DEF Counted
  <2> DEFINE L == Loading(gl, k)
             R == Reading(js, k)
             S == Storing(gs, k)
             F == Filling(js, k)
             P == Promised(Tiers, pe, k)
  <2>1. Exact(q, k, L, R, S, F, P)
    BY DEF Accounts, Counted
  <2>2. Filling(ks, k) = F
    BY <1>2, <1>3 DEF Filling, CascadesAreNew
  <2>3. Reading(ks, k) = IF k \in Range(keys) THEN R \cup C ELSE R
    BY <1>2, <1>3 DEF Reading, CascadesAreNew
  <2>4. R \subseteq js
    BY DEF Reading
  <2>5. IsFiniteSet(L) /\ IsFiniteSet(R)
    BY ClaimsAreFinite DEF JobsAreSound
  <2> HIDE DEF L, R, S, F, P
  <2>6. CASE k \in Range(keys)
    <3>1. S = {} /\ F = {} /\ P = {} /\ q[k].ref = Cardinality(L) + Cardinality(R)
      BY <1>5, <2>1, <2>6 DEF Exact
    <3>2. Cardinality(R \cup C) = Cardinality(R) + n /\ Cardinality(R) \in Nat /\ Cardinality(L) \in Nat
      <4>1. R \cap C = {} /\ IsFiniteSet(C) /\ Cardinality(C) = n
        BY <1>2, <2>4 DEF CascadesAreNew, n
      <4> QED  BY <2>5, <4>1, CountParts, FS_CardinalityType
    <3>3. z[k].ref = q[k].ref + n /\ k \in DOMAIN z /\ q[k].ref \in Nat
      BY <1>5, <1>6, <2>6
    <3>4. z[k].ref = Cardinality(L) + Cardinality(R \cup C) /\ z[k].ref # -1
      BY <1>1, <3>1, <3>2, <3>3
    <3>5. Exact(z, k, L, R \cup C, S, F, P)
      BY <3>1, <3>3, <3>4 DEF Exact
    <3> QED  BY <2>2, <2>3, <2>6, <3>5 DEF L, S, P
  <2>7. CASE k \notin Range(keys)
    <3>1. Exact(z, k, L, R, S, F, P)
      BY <1>6, <2>1, <2>7 DEF Exact
    <3> QED  BY <2>2, <2>3, <2>7, <3>1 DEF L, S, P
  <2> QED  BY <2>6, <2>7
<1>15. StoresDiffer(gs) /\ PromisesDiffer(Tiers, pe)
  BY DEF Accounts
<1> QED  BY <1>8, <1>9, <1>10, <1>11, <1>12, <1>13, <1>14, <1>15 DEF Accounts

-----------------------------------------------------------------------------
(***************************************************************************)
(* GPU stores and loads.                                                   *)
(***************************************************************************)

\* A request gets a store of the new blocks, if there are any.
StoreStarts(gs, gt, r, new) ==
    /\ r \in Reqs
    /\ gt = [gs EXCEPT ![r] = IF new = <<>> THEN @ ELSE @ \cup {Range(new)}]

\* A store of new blocks is the one writer each of them has.
LEMMA OfferedBlocks ==
    ASSUME workload \in Workloads, NEW p, IsPrimary(p, Slots), NEW gl,
           NEW gs \in [Reqs -> SUBSET SUBSET Keys], NEW js,
           JobsAreSound(js, Tiers), NEW pe, Accounts(p, gl, gs, js, Tiers, pe), ReadyHold(p, data),
           NEW q, NEW keys, NEW evicted, NEW new, Reservation(p, q, keys, evicted, new),
           NEW r, NEW gt, StoreStarts(gs, gt, r, new)
    PROVE  /\ IsPrimary(q, Slots) /\ ReadyHold(q, data) /\ Accounts(q, gl, gt, js, Tiers, pe)
           /\ gt \in [Reqs -> SUBSET SUBSET Keys]
           /\ new # <<>> => Range(new) \notin gs[r]
<1> USE DEF StoreStarts
<1>1. KeptClaims(p, q, gl, gs, js, pe, keys, new)
  BY ReservedClaims
<1>2. /\ IsPrimary(q, Slots) /\ SlotsDiffer(q) /\ ReadyHold(q, data)
      /\ LocatedJobs(q, js) /\ LocatedPromises(q, Tiers, pe) /\ Range(new) \subseteq DOMAIN q
      /\ \A k \in Keys :
            IF k \notin Range(new)
            THEN Exact(q, k, Loading(gl, k), Reading(js, k), Storing(gs, k),
                       Filling(js, k), Promised(Tiers, pe, k))
            ELSE /\ q[k].ref = -1
                 /\ Loading(gl, k) = {} /\ Reading(js, k) = {} /\ Storing(gs, k) = {}
                 /\ Filling(js, k) = {} /\ Promised(Tiers, pe, k) = {}
  BY <1>1 DEF KeptClaims
<1>3. StoresDiffer(gs) /\ PromisesDiffer(Tiers, pe)
  BY DEF Accounts
<1>4. new \in Seq(Keys) /\ Range(new) \subseteq Keys
  BY DEF Reservation
<1>5. CASE new = <<>>
  <2>1. gt = gs
    BY <1>5
  <2>2. Range(new) = {}
    BY <1>5 DEF Range
  <2>3. Counted(q, gl, gs, js, Tiers, pe)
    BY <1>2, <2>2 DEF Counted
  <2> QED  BY <1>2, <1>3, <1>5, <2>1, <2>3 DEF Accounts
<1>6. CASE new # <<>>
  <2> DEFINE N == Range(new)
  <2>1. N # {} /\ N \in SUBSET Keys
    <3>1. Len(new) > 0 /\ DOMAIN new = 1..Len(new) /\ Len(new) \in Nat
      BY <1>4, <1>6
    <3>2. new[1] \in N
      BY <3>1 DEF Range
    <3> QED  BY <1>4, <3>2
  <2> HIDE DEF N
  <2>2. \A x \in Reqs : gt[x] = IF x = r THEN gs[r] \cup {N} ELSE gs[x]
    BY <1>6 DEF N
  <2>3. gt \in [Reqs -> SUBSET SUBSET Keys]
    BY <1>6, <2>1 DEF N
  <2>4. \A x \in Reqs : \A s \in gs[x] : s \cap N = {}
    <3> SUFFICES ASSUME NEW x \in Reqs, NEW s \in gs[x], NEW k \in s \cap N PROVE FALSE
      OBVIOUS
    <3>1. x \in Storing(gs, k) /\ k \in Keys
      BY <2>1 DEF Storing
    <3> QED  BY <1>2, <3>1 DEF N
  <2>5. N \notin gs[r]
    BY <2>1, <2>4
  <2>6. StoresDiffer(gt)
    BY <1>3, <2>1, <2>2, <2>4 DEF StoresDiffer
  <2>7. ASSUME NEW k \in Keys
        PROVE  Exact(q, k, Loading(gl, k), Reading(js, k), Storing(gt, k),
                     Filling(js, k), Promised(Tiers, pe, k))
    <3>1. CASE k \in N
      <4>1. Storing(gs, k) = {}
        BY <1>2, <3>1 DEF N
      <4>2. Storing(gt, k) = {r}
        BY <2>2, <3>1, <4>1 DEF Storing
      <4> QED  BY <1>2, <3>1, <4>2 DEF Exact, OneWriter, One, N
    <3>2. CASE k \notin N
      <4>1. Storing(gt, k) = Storing(gs, k)
        BY <2>2, <3>2 DEF Storing
      <4> QED  BY <1>2, <3>2, <4>1 DEF N
    <3> QED  BY <3>1, <3>2
  <2>8. Counted(q, gl, gt, js, Tiers, pe)
    BY <2>7 DEF Counted
  <2> QED  BY <1>2, <1>3, <2>3, <2>5, <2>6, <2>8 DEF Accounts, N
<1> QED  BY <1>5, <1>6

\* The same blocks in the same slots, ready or not as before.
SameBlocks(p, q) ==
    /\ DOMAIN q = DOMAIN p /\ q = [k \in DOMAIN q |-> q[k]]
    /\ \A k \in DOMAIN p : /\ q[k] = [ref |-> q[k].ref, slot |-> p[k].slot]
                           /\ q[k].ref \in Nat \cup {-1}
                           /\ q[k].ref = -1 <=> p[k].ref = -1

\* Counting up or down moves no block.
LEMMA SameBlocksServe ==
    ASSUME NEW p, NEW q, SameBlocks(p, q), IsPrimary(p, Slots),
           NEW js, NEW pe, LocatedJobs(p, js), LocatedPromises(p, Tiers, pe), SlotsDiffer(p),
           NEW d, ReadyHold(p, d)
    PROVE  /\ IsPrimary(q, Slots) /\ ReadyHold(q, d) /\ SlotsDiffer(q)
           /\ LocatedJobs(q, js) /\ LocatedPromises(q, Tiers, pe)
<1>1. \A k \in DOMAIN p : p[k].slot \in Slots /\ k \in Keys
  BY DEF IsPrimary
<1>2. \A k \in DOMAIN p : q[k].slot = p[k].slot
  BY DEF SameBlocks
<1>3. DOMAIN q = DOMAIN p /\ \A k \in DOMAIN p : q[k].ref = -1 <=> p[k].ref = -1
  BY DEF SameBlocks
<1>4. IsPrimary(q, Slots)
  <2>1. \A k \in DOMAIN q : q[k] \in [ref : Nat \cup {-1}, slot : Slots]
    <3> TAKE k \in DOMAIN q
    <3> DEFINE n == q[k].ref
               s == p[k].slot
    <3>1. q[k] = [ref |-> n, slot |-> s] /\ n \in Nat \cup {-1} /\ s \in Slots
      BY <1>1 DEF SameBlocks
    <3> HIDE DEF n, s
    <3> QED  BY <3>1
  <2>2. q = [k \in DOMAIN q |-> q[k]]
    BY DEF SameBlocks
  <2> QED  BY <1>1, <1>3, <2>1, <2>2 DEF IsPrimary
<1>5. ReadyHold(q, d)
  BY <1>2, <1>3 DEF ReadyHold
<1>6. SlotsDiffer(q)
  BY <1>2, <1>3 DEF SlotsDiffer
<1>7. LocatedJobs(q, js)
  BY <1>2, <1>3 DEF LocatedJobs
<1>8. LocatedPromises(q, Tiers, pe)
  BY <1>2, <1>3 DEF LocatedPromises
<1> QED  BY <1>4, <1>5, <1>6, <1>7, <1>8

\* prepare_load pins ready blocks for one more request.
LEMMA PinnedBlocks ==
    ASSUME NEW p, IsPrimary(p, Slots), NEW gl \in [Reqs -> SUBSET Keys], NEW gs, NEW js,
           JobsAreSound(js, Tiers), NEW pe, Accounts(p, gl, gs, js, Tiers, pe), ReadyHold(p, data),
           NEW r \in Reqs, gl[r] = {}, NEW K, \A k \in K : Ready(p, k),
           NEW q, q = Pinned(p, K), NEW gm, gm = [gl EXCEPT ![r] = K]
    PROVE  /\ IsPrimary(q, Slots) /\ ReadyHold(q, data)
           /\ Accounts(q, gm, gs, js, Tiers, pe)
           /\ gm \in [Reqs -> SUBSET Keys]
<1>1. \A k \in DOMAIN p : p[k] \in [ref : Nat \cup {-1}, slot : Slots] /\ k \in Keys
  BY DEF IsPrimary
<1>2. \A k \in K : k \in DOMAIN p /\ p[k].ref \in Nat /\ k \in Keys
  BY <1>1 DEF Ready
<1>3. /\ DOMAIN q = DOMAIN p /\ q = [k \in DOMAIN q |-> q[k]]
      /\ \A k \in DOMAIN p :
            q[k] = IF k \in K THEN [ref |-> p[k].ref + 1, slot |-> p[k].slot] ELSE p[k]
  BY <1>1 DEF Pinned
<1>4. SameBlocks(p, q)
  BY <1>1, <1>2, <1>3 DEF SameBlocks
<1>5. /\ LocatedJobs(p, js) /\ LocatedPromises(p, Tiers, pe) /\ SlotsDiffer(p)
      /\ Counted(p, gl, gs, js, Tiers, pe) /\ StoresDiffer(gs) /\ PromisesDiffer(Tiers, pe)
  BY DEF Accounts
<1>6. /\ IsPrimary(q, Slots) /\ ReadyHold(q, data) /\ SlotsDiffer(q)
      /\ LocatedJobs(q, js) /\ LocatedPromises(q, Tiers, pe)
  BY <1>4, <1>5, SameBlocksServe
<1>7. gm \in [Reqs -> SUBSET Keys] /\ \A x \in Reqs : gm[x] = IF x = r THEN K ELSE gl[x]
  BY <1>2
<1>8. ASSUME NEW k \in Keys
      PROVE  Exact(q, k, Loading(gm, k), Reading(js, k), Storing(gs, k),
                   Filling(js, k), Promised(Tiers, pe, k))
  <2> DEFINE L == Loading(gl, k)
             R == Reading(js, k)
             S == Storing(gs, k)
             F == Filling(js, k)
             P == Promised(Tiers, pe, k)
  <2>1. Exact(p, k, L, R, S, F, P)
    BY <1>5 DEF Counted
  <2>2. Loading(gm, k) = (IF k \in K THEN L \cup {r} ELSE L) /\ r \notin L
    BY <1>7 DEF Loading
  <2>3. IsFiniteSet(L) /\ IsFiniteSet(R)
    BY ClaimsAreFinite DEF JobsAreSound
  <2>4. /\ Cardinality(L \cup {r}) = Cardinality(L) + 1
        /\ Cardinality(L) \in Nat /\ Cardinality(R) \in Nat
    BY <2>2, <2>3, FS_AddElement, FS_CardinalityType
  <2> HIDE DEF L, R, S, F, P
  <2>5. CASE k \in K
    <3>1. S = {} /\ F = {} /\ P = {} /\ p[k].ref = Cardinality(L) + Cardinality(R)
      BY <1>2, <2>1, <2>5 DEF Exact
    <3>2. k \in DOMAIN q /\ q[k].ref = p[k].ref + 1
      BY <1>2, <1>3, <2>5
    <3>3. q[k].ref = Cardinality(L \cup {r}) + Cardinality(R) /\ q[k].ref # -1
      BY <2>4, <3>1, <3>2
    <3>4. Exact(q, k, L \cup {r}, R, S, F, P)
      BY <3>1, <3>2, <3>3 DEF Exact
    <3> QED  BY <2>2, <2>5, <3>4 DEF R, S, F, P
  <2>6. CASE k \notin K
    <3>1. Exact(q, k, L, R, S, F, P)
      BY <1>3, <2>1, <2>6 DEF Exact
    <3> QED  BY <2>2, <2>6, <3>1 DEF R, S, F, P
  <2> QED  BY <2>5, <2>6
<1>9. Counted(q, gm, gs, js, Tiers, pe)
  BY <1>8 DEF Counted
<1> QED  BY <1>5, <1>6, <1>7, <1>9 DEF Accounts

\* complete_load unpins what a request read.
LEMMA UnpinnedBlocks ==
    ASSUME NEW p, IsPrimary(p, Slots), NEW gl \in [Reqs -> SUBSET Keys], NEW gs, NEW js,
           JobsAreSound(js, Tiers), NEW pe, Accounts(p, gl, gs, js, Tiers, pe), ReadyHold(p, data),
           NEW r \in Reqs, NEW q, q = Unpinned(p, gl[r]), NEW gm, gm = [gl EXCEPT ![r] = {}]
    PROVE  /\ IsPrimary(q, Slots) /\ ReadyHold(q, data)
           /\ Accounts(q, gm, gs, js, Tiers, pe)
           /\ gm \in [Reqs -> SUBSET Keys]
<1> DEFINE K == gl[r]
<1>1. \A k \in DOMAIN p : p[k] \in [ref : Nat \cup {-1}, slot : Slots] /\ k \in Keys
  BY DEF IsPrimary
<1>2. /\ LocatedJobs(p, js) /\ LocatedPromises(p, Tiers, pe) /\ SlotsDiffer(p)
      /\ Counted(p, gl, gs, js, Tiers, pe) /\ StoresDiffer(gs) /\ PromisesDiffer(Tiers, pe)
  BY DEF Accounts
<1>3. K \subseteq Keys
  OBVIOUS
<1>4. gm \in [Reqs -> SUBSET Keys] /\ \A x \in Reqs : gm[x] = IF x = r THEN {} ELSE gl[x]
  OBVIOUS
<1>5. /\ DOMAIN q = DOMAIN p /\ q = [k \in DOMAIN q |-> q[k]]
      /\ \A k \in DOMAIN p :
            q[k] = IF k \in K THEN [ref |-> p[k].ref - 1, slot |-> p[k].slot] ELSE p[k]
  BY <1>1 DEF Unpinned
<1> HIDE DEF K
<1>6. ASSUME NEW k \in Keys
      PROVE  /\ Exact(q, k, Loading(gm, k), Reading(js, k), Storing(gs, k),
                      Filling(js, k), Promised(Tiers, pe, k))
             /\ k \in K => k \in DOMAIN p /\ p[k].ref \in Nat /\ p[k].ref > 0
  <2> DEFINE L == Loading(gl, k)
             R == Reading(js, k)
             S == Storing(gs, k)
             F == Filling(js, k)
             P == Promised(Tiers, pe, k)
  <2>1. Exact(p, k, L, R, S, F, P)
    BY <1>2 DEF Counted
  <2>2. Loading(gm, k) = L \ {r} /\ (k \in K <=> r \in L)
    BY <1>4 DEF Loading, K
  <2>3. IsFiniteSet(L) /\ IsFiniteSet(R)
    BY ClaimsAreFinite DEF JobsAreSound
  <2>4. /\ r \in L => Cardinality(L \ {r}) = Cardinality(L) - 1
        /\ Cardinality(L) \in Nat /\ Cardinality(R) \in Nat /\ Cardinality(L \ {r}) \in Nat
    BY <2>3, FS_RemoveElement, FS_CardinalityType
  <2> HIDE DEF L, R, S, F, P
  <2>5. CASE k \in K
    <3>1. k \in DOMAIN p /\ S = {} /\ F = {} /\ P = {} /\ p[k].ref = Cardinality(L) + Cardinality(R)
      BY <2>1, <2>2, <2>5 DEF Exact
    <3>2. k \in DOMAIN q /\ q[k].ref = p[k].ref - 1
      BY <1>5, <2>5, <3>1
    <3>3. q[k].ref = Cardinality(L \ {r}) + Cardinality(R) /\ q[k].ref # -1 /\ p[k].ref \in Nat
          /\ p[k].ref > 0
      BY <2>2, <2>4, <2>5, <3>1, <3>2
    <3>4. Exact(q, k, L \ {r}, R, S, F, P)
      BY <3>1, <3>2, <3>3 DEF Exact
    <3> QED  BY <2>2, <2>5, <3>1, <3>3, <3>4 DEF R, S, F, P
  <2>6. CASE k \notin K
    <3>1. Exact(q, k, L, R, S, F, P)
      BY <1>5, <2>1, <2>6 DEF Exact
    <3>2. L \ {r} = L
      BY <2>2, <2>6
    <3> QED  BY <2>2, <2>6, <3>1, <3>2 DEF R, S, F, P
  <2> QED  BY <2>5, <2>6
<1>7. SameBlocks(p, q)
  <2>1. \A k \in DOMAIN p : k \in K => p[k].ref - 1 \in Nat
    BY <1>1, <1>6
  <2> QED  BY <1>1, <1>5, <2>1 DEF SameBlocks
<1>8. /\ IsPrimary(q, Slots) /\ ReadyHold(q, data) /\ SlotsDiffer(q)
      /\ LocatedJobs(q, js) /\ LocatedPromises(q, Tiers, pe)
  BY <1>2, <1>7, SameBlocksServe
<1>9. Counted(q, gm, gs, js, Tiers, pe)
  BY <1>6 DEF Counted
<1> QED  BY <1>2, <1>4, <1>8, <1>9 DEF Accounts

\* complete_store makes the blocks of a store ready; e is what the slots hold then.
StoreDoneWell(p, d, e, keys) ==
    \A k \in DOMAIN p : e[p[k].slot] = IF k \in keys THEN k ELSE d[p[k].slot]

StoreEnds(p, q, gs, gt, r, keys, d, e) ==
    /\ r \in Reqs /\ keys \in gs[r] /\ q = Written(p, keys)
    /\ gt = [gs EXCEPT ![r] = @ \ {keys}] /\ StoreDoneWell(p, d, e, keys)

\* The blocks in q are ready, and nobody reads them yet.
NowReady(p, q, js, keys) ==
    \A k \in keys : /\ k \in DOMAIN p /\ k \in DOMAIN q /\ q[k].ref = 0 /\ q[k].slot = p[k].slot
                    /\ Reading(js, k) = {} /\ Filling(js, k) = {}

\* complete_write of a store: its claims to its blocks end with it.
LEMMA WrittenBlocks ==
    ASSUME NEW p, IsPrimary(p, Slots), NEW gl, NEW gs \in [Reqs -> SUBSET SUBSET Keys], NEW js,
           JobsAreSound(js, Tiers), NEW pe, Accounts(p, gl, gs, js, Tiers, pe),
           NEW d, ReadyHold(p, d), NEW r, NEW keys, NEW q, NEW gt, NEW e,
           StoreEnds(p, q, gs, gt, r, keys, d, e)
    PROVE  /\ IsPrimary(q, Slots) /\ ReadyHold(q, e) /\ Accounts(q, gl, gt, js, Tiers, pe)
           /\ gt \in [Reqs -> SUBSET SUBSET Keys]
           /\ NowReady(p, q, js, keys)
<1>1. \A k \in DOMAIN p : p[k] \in [ref : Nat \cup {-1}, slot : Slots] /\ k \in Keys
  BY DEF IsPrimary
<1>2. /\ LocatedJobs(p, js) /\ LocatedPromises(p, Tiers, pe) /\ SlotsDiffer(p)
      /\ Counted(p, gl, gs, js, Tiers, pe) /\ StoresDiffer(gs) /\ PromisesDiffer(Tiers, pe)
  BY DEF Accounts
<1> USE DEF StoreEnds
<1>3. keys \subseteq Keys
  OBVIOUS
<1>4. /\ gt \in [Reqs -> SUBSET SUBSET Keys]
      /\ \A x \in Reqs : gt[x] = IF x = r THEN gs[r] \ {keys} ELSE gs[x]
  OBVIOUS
<1>5. ASSUME NEW k \in Keys
      PROVE  /\ k \in keys => /\ k \in DOMAIN p /\ p[k].ref = -1 /\ Loading(gl, k) = {}
                              /\ Reading(js, k) = {} /\ Filling(js, k) = {}
                              /\ Promised(Tiers, pe, k) = {} /\ Storing(gt, k) = {}
             /\ k \notin keys => Storing(gt, k) = Storing(gs, k)
  <2> DEFINE L == Loading(gl, k)
             R == Reading(js, k)
             S == Storing(gs, k)
             F == Filling(js, k)
             P == Promised(Tiers, pe, k)
  <2>1. Exact(p, k, L, R, S, F, P)
    BY <1>2 DEF Counted
  <2>2. k \in keys => r \in S
    BY DEF Storing
  <2>3. k \in keys => Storing(gt, k) \subseteq S \ {r}
    BY <1>2, <1>4 DEF Storing, StoresDiffer
  <2>4. k \notin keys => Storing(gt, k) = S
    BY <1>4 DEF Storing
  <2> HIDE DEF L, R, S, F, P
  <2>5. ASSUME k \in keys
        PROVE  k \in DOMAIN p /\ p[k].ref = -1 /\ L = {} /\ R = {} /\ F = {} /\ P = {} /\ S \ {r} = {}
    BY <2>1, <2>2, <2>5 DEF Exact, OneWriter, One
  <2> QED  BY <2>3, <2>4, <2>5 DEF L, R, S, F, P
<1>6. /\ DOMAIN q = DOMAIN p /\ q = [k \in DOMAIN q |-> q[k]]
      /\ \A k \in DOMAIN p : q[k] = IF k \in keys THEN [ref |-> 0, slot |-> p[k].slot] ELSE p[k]
  <2>1. /\ DOMAIN q = DOMAIN p /\ q = [k \in DOMAIN q |-> q[k]]
        /\ \A k \in DOMAIN p : q[k] = IF k \in keys /\ ~Ready(p, k) THEN [p[k] EXCEPT !.ref = 0] ELSE p[k]
    BY DEF Written
  <2>2. \A k \in DOMAIN p : k \in keys => ~Ready(p, k)
    BY <1>1, <1>5 DEF Ready
  <2>3. \A k \in DOMAIN p : [p[k] EXCEPT !.ref = 0] = [ref |-> 0, slot |-> p[k].slot]
    BY <1>1
  <2> QED  BY <2>1, <2>2, <2>3
<1>7. \A k \in DOMAIN p : q[k].slot = p[k].slot
  BY <1>6
<1>8. \A k \in DOMAIN q : q[k] \in [ref : Nat \cup {-1}, slot : Slots]
  <2> TAKE k \in DOMAIN q
  <2>1. p[k] \in [ref : Nat \cup {-1}, slot : Slots]
    BY <1>1, <1>6
  <2>2. q[k] = p[k] \/ q[k] = [ref |-> 0, slot |-> p[k].slot]
    BY <1>6
  <2> QED  BY <2>1, <2>2
<1>9. IsPrimary(q, Slots)
  BY <1>1, <1>6, <1>8 DEF IsPrimary
<1>10. ReadyHold(q, e)
  BY <1>6, <1>7 DEF ReadyHold, StoreDoneWell
<1>11. SlotsDiffer(q)
  BY <1>2, <1>6, <1>7 DEF SlotsDiffer
<1>12. LocatedJobs(q, js)
  BY <1>2, <1>6, <1>7 DEF LocatedJobs
<1>13. LocatedPromises(q, Tiers, pe)
  BY <1>2, <1>6, <1>7 DEF LocatedPromises
<1>14. StoresDiffer(gt)
  BY <1>2, <1>4 DEF StoresDiffer
<1>15. ASSUME NEW k \in Keys
       PROVE  Exact(q, k, Loading(gl, k), Reading(js, k), Storing(gt, k),
                    Filling(js, k), Promised(Tiers, pe, k))
  <2>1. CASE k \in keys
    <3>1. q[k].ref = 0 /\ k \in DOMAIN q
      BY <1>5, <1>6, <2>1
    <3>2. Cardinality({}) = 0
      BY FS_EmptySet
    <3>3. Exact(q, k, {}, {}, {}, {}, {})
      BY <3>1, <3>2 DEF Exact
    <3> QED  BY <1>5, <2>1, <3>3
  <2>2. CASE k \notin keys
    <3>1. Exact(p, k, Loading(gl, k), Reading(js, k), Storing(gt, k),
                Filling(js, k), Promised(Tiers, pe, k))
      BY <1>2, <1>5, <2>2 DEF Counted
    <3>2. (k \in DOMAIN q <=> k \in DOMAIN p) /\ (k \in DOMAIN p => q[k] = p[k])
      BY <1>6, <2>2
    <3> QED  BY <3>1, <3>2 DEF Exact
  <2> QED  BY <2>1, <2>2
<1>16. Counted(q, gl, gt, js, Tiers, pe)
  BY <1>15 DEF Counted
<1>17. Accounts(q, gl, gt, js, Tiers, pe)
  BY <1>2, <1>11, <1>12, <1>13, <1>14, <1>16 DEF Accounts
<1>18. NowReady(p, q, js, keys)
  BY <1>3, <1>5, <1>6, <1>7 DEF NowReady
<1> QED  BY <1>4, <1>9, <1>10, <1>17, <1>18

-----------------------------------------------------------------------------
(***************************************************************************)
(* Submitting jobs.                                                        *)
(***************************************************************************)

\* What build_connector_meta submits for one tier and request, and altogether.
Promotion(t, r) == Transfer(t, r, TRUE, [i \in DOMAIN pending[t][r] |-> pending[t][r][i].key],
                                        [i \in DOMAIN pending[t][r] |-> pending[t][r][i].slot])
Waiting == {x \in Tiers \X Reqs : pending[x[1]][x[2]] # <<>>}
Promotions == UNION {PromotionsOf(t) : t \in Tiers}
NoPromises == [t \in Tiers |-> [r \in Reqs |-> <<>>]]

PromotionServes(q, js, t, r) ==
    /\ Promotion(t, r) \in Job(Tiers) /\ JobIsSound(Promotion(t, r))
    /\ Promotion(t, r).promotion /\ Promotion(t, r).tier = t /\ Promotion(t, r).req = r
    /\ \A k : k \in Range(Promotion(t, r).keys) <=> <<t, r>> \in Promised(Tiers, pending, k)
    /\ LocatedJobs(q, {Promotion(t, r)}) /\ Promotion(t, r) \notin js

\* A promise of some keys makes a sound job, and a new one.
LEMMA PromotionFacts ==
    ASSUME workload \in Workloads, NEW q, IsPrimary(q, Slots), NEW gl, NEW gs, NEW js,
           JobsAreSound(js, Tiers), pending \in [Tiers -> [Reqs -> Seq(Promise)]],
           Accounts(q, gl, gs, js, Tiers, pending), NEW t \in Tiers, NEW r \in Reqs,
           pending[t][r] # <<>>
    PROVE  PromotionServes(q, js, t, r)
<1> DEFINE pp == pending[t][r]
           keys == [i \in DOMAIN pp |-> pp[i].key]
           slots == [i \in DOMAIN pp |-> pp[i].slot]
           j == Promotion(t, r)
<1>1. /\ pp \in Seq(Promise) /\ pp # <<>>
      /\ \A i, n \in DOMAIN pp : pp[i].key = pp[n].key => i = n
      /\ \A i \in DOMAIN pp : pp[i].key \in DOMAIN q /\ pp[i].slot = q[pp[i].key].slot
  BY DEF Accounts, PromisesDiffer, LocatedPromises
<1>2. j = [tier |-> t, req |-> r, promotion |-> TRUE, keys |-> keys, slots |-> slots]
  BY DEF Promotion, Transfer
<1>3. \A k : <<t, r>> \in Promised(Tiers, pending, k) <=> \E i \in DOMAIN pp : pp[i].key = k
  BY DEF Promised
<1> HIDE DEF pp, j
<1>4. /\ Len(pp) \in Nat /\ Len(pp) > 0 /\ DOMAIN pp = 1..Len(pp)
      /\ \A i \in DOMAIN pp : pp[i].key \in Keys /\ pp[i].slot \in Nat
  <2>1. Len(pp) \in Nat /\ Len(pp) > 0 /\ DOMAIN pp = 1..Len(pp)
    BY <1>1
  <2>2. \A i \in DOMAIN pp : pp[i] \in Promise
    BY <1>1
  <2>3. \A x \in Promise : x.key \in Keys /\ x.slot \in Nat
    BY DEF Promise
  <2> QED  BY <2>1, <2>2, <2>3
<1>5. keys \in [1..Len(pp) -> Keys] /\ slots \in [1..Len(pp) -> Nat]
  BY <1>4
<1>6. /\ keys \in Seq(Keys) /\ slots \in Seq(Nat) /\ Len(keys) = Len(pp) /\ Len(slots) = Len(pp)
      /\ DOMAIN keys = 1..Len(pp) /\ DOMAIN slots = 1..Len(pp)
  BY <1>4, <1>5, FunctionIsList
<1>7. \A i \in DOMAIN pp : keys[i] = pp[i].key /\ slots[i] = pp[i].slot
  OBVIOUS
<1> HIDE DEF keys, slots
<1>8. j \in Job(Tiers) /\ j.promotion /\ j.tier = t /\ j.req = r /\ j.keys = keys /\ j.slots = slots
  BY <1>2, <1>6 DEF Job
<1>9. IsInjective(keys)
  BY <1>1, <1>4, <1>6, <1>7 DEF IsInjective
<1>10. JobIsSound(j)
  BY <1>4, <1>6, <1>8, <1>9 DEF JobIsSound
<1>11. \A k : k \in Range(j.keys) <=> <<t, r>> \in Promised(Tiers, pending, k)
  <2>1. \A k : k \in Range(keys) <=> \E i \in DOMAIN pp : keys[i] = k
    BY <1>4, <1>6 DEF Range
  <2>2. \A k : k \in Range(keys) <=> \E i \in DOMAIN pp : pp[i].key = k
    BY <1>7, <2>1
  <2> QED  BY <1>3, <1>8, <2>2
<1>12. LocatedJobs(q, {j})
  <2>1. \A i \in DOMAIN keys : keys[i] \in DOMAIN q /\ slots[i] = q[keys[i]].slot
    BY <1>1, <1>4, <1>6, <1>7
  <2> QED  BY <1>8, <2>1 DEF LocatedJobs
<1>13. j \notin js
  <2> SUFFICES ASSUME j \in js PROVE FALSE
    OBVIOUS
  <2>1. PICK k : k = keys[1]
    OBVIOUS
  <2>4. 1 \in DOMAIN keys /\ keys[1] \in Keys
    BY <1>4, <1>6
  <2>2. k \in Range(j.keys) /\ k \in Keys
    BY <1>8, <2>1, <2>4 DEF Range
  <2>3. Promised(Tiers, pending, k) # {}
    BY <1>11, <2>2
  <2>5. Filling(js, k) # {}
    BY <1>8, <2>2 DEF Filling
  <2>6. Exact(q, k, Loading(gl, k), Reading(js, k), Storing(gs, k), Filling(js, k),
              Promised(Tiers, pending, k))
    BY <2>2 DEF Accounts, Counted
  <2> QED  BY <2>3, <2>5, <2>6 DEF Exact, OneWriter, One
<1> QED  BY <1>8, <1>10, <1>11, <1>12, <1>13 DEF j, PromotionServes

\* What is submitted, job by job.
LEMMA PromotionsAreJobs ==
    ASSUME workload \in Workloads, pending \in [Tiers -> [Reqs -> Seq(Promise)]]
    PROVE  /\ Promotions = {Promotion(x[1], x[2]) : x \in Waiting}
           /\ \A t \in Tiers : PromotionsOf(t) = {j \in Promotions : j.tier = t}
           /\ IsFiniteSet(Promotions)
           /\ \A x, y \in Waiting : Promotion(x[1], x[2]) = Promotion(y[1], y[2]) => x = y
<1>1. \A t, r : Promotion(t, r).tier = t /\ Promotion(t, r).req = r
  BY DEF Promotion, Transfer
<1>2. \A t \in Tiers : PromotionsOf(t) = {Promotion(t, r) : r \in {x \in Reqs : pending[t][x] # <<>>}}
  BY DEF PromotionsOf, Promotion
<1>3. \A t \in Tiers : \A r \in Reqs : <<t, r>> \in Waiting <=> pending[t][r] # <<>>
  BY DEF Waiting
<1>4. \A x \in Waiting : /\ x = <<x[1], x[2]>> /\ x[1] \in Tiers /\ x[2] \in Reqs
                         /\ pending[x[1]][x[2]] # <<>>
  BY DEF Waiting
<1> HIDE DEF Waiting
<1>5. \A j : j \in Promotions <=> \E x \in Waiting : j = Promotion(x[1], x[2])
  <2>1. ASSUME NEW j \in Promotions PROVE \E x \in Waiting : j = Promotion(x[1], x[2])
    <3>1. PICK t \in Tiers : j \in PromotionsOf(t)
      BY DEF Promotions
    <3>2. PICK r \in Reqs : pending[t][r] # <<>> /\ j = Promotion(t, r)
      BY <1>2, <3>1
    <3>3. <<t, r>> \in Waiting
      BY <1>3, <3>2
    <3> QED  BY <3>2, <3>3
  <2>2. ASSUME NEW x \in Waiting PROVE Promotion(x[1], x[2]) \in Promotions
    <3>1. Promotion(x[1], x[2]) \in PromotionsOf(x[1]) /\ x[1] \in Tiers
      BY <1>2, <1>4
    <3> QED  BY <3>1 DEF Promotions
  <2> QED  BY <2>1, <2>2
<1>6. ASSUME NEW t \in Tiers PROVE PromotionsOf(t) = {j \in Promotions : j.tier = t}
  <2>1. \A j \in PromotionsOf(t) : j \in Promotions /\ j.tier = t
    BY <1>1, <1>2 DEF Promotions
  <2>2. ASSUME NEW j \in Promotions, j.tier = t PROVE j \in PromotionsOf(t)
    <3>1. PICK u \in Tiers : j \in PromotionsOf(u)
      BY DEF Promotions
    <3>2. j.tier = u
      BY <1>1, <1>2, <3>1
    <3> QED  BY <2>2, <3>1, <3>2
  <2> QED  BY <2>1, <2>2
<1>7. IsFiniteSet(Waiting)
  <2>1. IsFiniteSet(Tiers \X Reqs)
    BY WorkloadFacts, ReqsAssumption, FS_Product
  <2> QED  BY <2>1, FS_Subset DEF Waiting
<1>8. ASSUME NEW x \in Waiting, NEW y \in Waiting, Promotion(x[1], x[2]) = Promotion(y[1], y[2])
      PROVE  x = y
  <2>1. x[1] = y[1] /\ x[2] = y[2]
    BY <1>1, <1>8
  <2>2. x = <<x[1], x[2]>> /\ y = <<y[1], y[2]>>
    BY <1>4
  <2> QED  BY <2>1, <2>2
<1>9. IsFiniteSet(Promotions)
  <2> DEFINE f == [x \in Waiting |-> Promotion(x[1], x[2])]
  <2>1. f \in [Waiting -> Promotions] /\ \A x \in Waiting : f[x] = Promotion(x[1], x[2])
    BY <1>5
  <2> HIDE DEF f
  <2>2. f \in Surjection(Waiting, Promotions)
    BY <1>5, <2>1 DEF Surjection
  <2> QED  BY <1>7, <2>2, FS_Surjection
<1>10. Promotions = {Promotion(x[1], x[2]) : x \in Waiting}
  BY <1>5
<1> QED  BY <1>6, <1>8, <1>9, <1>10

\* Each promise becomes the job that fills its block.
LEMMA FlushedPromises ==
    ASSUME workload \in Workloads, NEW q, IsPrimary(q, Slots), NEW gl, NEW gs, NEW js,
           JobsAreSound(js, Tiers), pending \in [Tiers -> [Reqs -> Seq(Promise)]],
           Accounts(q, gl, gs, js, Tiers, pending), NEW ks, ks = js \cup Promotions
    PROVE  /\ Accounts(q, gl, gs, ks, Tiers, NoPromises) /\ JobsAreSound(ks, Tiers)
           /\ Promotions \cap js = {} /\ IsFiniteSet(Promotions)
           /\ \A j \in Promotions : j \in Job(Tiers) /\ j.promotion
<1>1. /\ SlotsDiffer(q) /\ LocatedJobs(q, js) /\ StoresDiffer(gs)
      /\ Counted(q, gl, gs, js, Tiers, pending)
      /\ IsFiniteSet(js) /\ js \subseteq Job(Tiers) /\ \A j \in js : JobIsSound(j)
  BY DEF Accounts, JobsAreSound
<1>2. \A x \in Waiting : /\ x = <<x[1], x[2]>> /\ x[1] \in Tiers /\ x[2] \in Reqs
                         /\ pending[x[1]][x[2]] # <<>>
  BY DEF Waiting
<1>3. ASSUME NEW x \in Waiting
      PROVE  LET j == Promotion(x[1], x[2])
             IN /\ j \in Job(Tiers) /\ JobIsSound(j) /\ j.promotion
                /\ \A k : k \in Range(j.keys) <=> x \in Promised(Tiers, pending, k)
                /\ LocatedJobs(q, {j}) /\ j \notin js
  <2>1. PICK t, r : t = x[1] /\ r = x[2] /\ t \in Tiers /\ r \in Reqs /\ pending[t][r] # <<>>
                    /\ x = <<t, r>>
    BY <1>2
  <2>2. PromotionServes(q, js, t, r)
    BY <2>1, PromotionFacts
  <2> QED  BY <2>1, <2>2 DEF PromotionServes
<1>4. \A j \in Promotions : \E x \in Waiting : j = Promotion(x[1], x[2])
  BY PromotionsAreJobs
<1>5. \A j \in Promotions : /\ j \in Job(Tiers) /\ JobIsSound(j) /\ j.promotion
                            /\ LocatedJobs(q, {j}) /\ j \notin js
  BY <1>3, <1>4
<1>6. IsFiniteSet(Promotions)
  BY PromotionsAreJobs
<1>7. JobsAreSound(ks, Tiers)
  BY <1>1, <1>5, <1>6, FS_Union DEF JobsAreSound
<1>8. LocatedJobs(q, ks)
  BY <1>1, <1>5 DEF LocatedJobs
<1>9. LocatedPromises(q, Tiers, NoPromises) /\ PromisesDiffer(Tiers, NoPromises)
  BY DEF LocatedPromises, PromisesDiffer, NoPromises
<1>10. ASSUME NEW k \in Keys
       PROVE  Exact(q, k, Loading(gl, k), Reading(ks, k), Storing(gs, k),
                    Filling(ks, k), Promised(Tiers, NoPromises, k))
  <2> DEFINE L == Loading(gl, k)
             R == Reading(js, k)
             S == Storing(gs, k)
             F == Filling(js, k)
             P == Promised(Tiers, pending, k)
             N == {j \in Promotions : k \in Range(j.keys)}
  <2>1. Exact(q, k, L, R, S, F, P)
    BY <1>1 DEF Counted
  <2>2. Reading(ks, k) = R
    BY <1>5 DEF Reading
  <2>3. Filling(ks, k) = F \cup N
    BY <1>5 DEF Filling
  <2>4. Promised(Tiers, NoPromises, k) = {}
    BY DEF Promised, NoPromises
  <2>5. P \subseteq Waiting
    <3>1. \A x \in P : x \in Tiers \X Reqs /\ DOMAIN pending[x[1]][x[2]] # {}
      BY DEF Promised
    <3>2. \A s : s = <<>> => DOMAIN s = {}
      OBVIOUS
    <3> QED  BY <3>1, <3>2 DEF Waiting
  <2>6. \A j : j \in N <=> \E x \in Waiting : x \in P /\ j = Promotion(x[1], x[2])
    <3>1. \A x \in Waiting : Promotion(x[1], x[2]) \in Promotions
      BY PromotionsAreJobs
    <3> QED  BY <1>3, <1>4, <3>1
  <2>7. P = {} => N = {}
    BY <2>6
  <2>8. One(P) => One(N)
    <3> SUFFICES ASSUME One(P) PROVE One(N)
      OBVIOUS
    <3>1. PICK x : P = {x}
      BY DEF One
    <3>2. N = {Promotion(x[1], x[2])}
      BY <2>5, <2>6, <3>1
    <3> QED  BY <3>2 DEF One
  <2> HIDE DEF L, R, S, F, P, N
  <2>9. Exact(q, k, L, R, S, F \cup N, {})
    <3>1. CASE k \notin DOMAIN q
      BY <2>1, <2>7, <3>1 DEF Exact
    <3>2. CASE k \in DOMAIN q /\ q[k].ref = -1
      <4>1. L = {} /\ R = {} /\ OneWriter(S, F, P)
        BY <2>1, <3>2 DEF Exact
      <4>2. OneWriter(S, F \cup N, {})
        <5>1. CASE P = {}
          <6>1. F \cup N = F
            BY <2>7, <5>1
          <6> QED  BY <4>1, <5>1, <6>1
        <5>2. CASE P # {}
          <6>1. S = {} /\ F = {} /\ One(P)
            BY <4>1, <5>2 DEF OneWriter
          <6>2. F \cup N = N
            BY <6>1
          <6> QED  BY <2>8, <6>1, <6>2 DEF OneWriter
        <5> QED  BY <5>1, <5>2
      <4> QED  BY <3>2, <4>1, <4>2 DEF Exact
    <3>3. CASE k \in DOMAIN q /\ q[k].ref # -1
      BY <2>1, <2>7, <3>3 DEF Exact
    <3> QED  BY <3>1, <3>2, <3>3
  <2> QED  BY <2>2, <2>3, <2>4, <2>9 DEF L, S, R, F
<1>11. Counted(q, gl, gs, ks, Tiers, NoPromises)
  BY <1>10 DEF Counted
<1>12. Accounts(q, gl, gs, ks, Tiers, NoPromises)
  BY <1>1, <1>8, <1>9, <1>11 DEF Accounts
<1> QED  BY <1>5, <1>6, <1>7, <1>12

\* Jobs that join the end of a queue.
LEMMA Enqueued ==
    ASSUME NEW T, NEW js, NEW lq, NEW sq, NEW ru, NEW fi, PlacedIn(js, lq, sq, ru, fi, T),
           NEW u \in Seq(Job(T)), IsInjective(u), Range(u) \cap js = {}
    PROVE  /\ PlacedIn(js \cup Range(u), lq \o u, sq, ru, fi, T)
           /\ PlacedIn(js \cup Range(u), lq, sq \o u, ru, fi, T)
<1>1. /\ lq \in Seq(Job(T)) /\ sq \in Seq(Job(T)) /\ IsInjective(lq) /\ IsInjective(sq)
      /\ js = ((Range(lq) \cup Range(sq)) \cup Working(ru)) \cup Over(fi)
  BY DEF PlacedIn
<1>2. /\ lq \o u \in Seq(Job(T)) /\ Range(lq \o u) = Range(lq) \cup Range(u) /\ IsInjective(lq \o u)
  BY <1>1, JoinedKeys
<1>3. /\ sq \o u \in Seq(Job(T)) /\ Range(sq \o u) = Range(sq) \cup Range(u) /\ IsInjective(sq \o u)
  BY <1>1, JoinedKeys
<1>4. PlacedIn(js \cup Range(u), lq \o u, sq, ru, fi, T)
  BY <1>1, <1>2 DEF PlacedIn
<1>5. PlacedIn(js \cup Range(u), lq, sq \o u, ru, fi, T)
  BY <1>1, <1>3 DEF PlacedIn
<1> QED  BY <1>4, <1>5

\* A cascade is queued.
LEMMA OneEnqueued ==
    ASSUME NEW T, NEW js, NEW lq, NEW sq, NEW ru, NEW fi, PlacedIn(js, lq, sq, ru, fi, T),
           NEW j \in Job(T), j \notin js
    PROVE  PlacedIn(js \cup {j}, lq, Append(sq, j), ru, fi, T)
<1>1. /\ lq \in Seq(Job(T)) /\ sq \in Seq(Job(T)) /\ IsInjective(lq) /\ IsInjective(sq)
      /\ js = ((Range(lq) \cup Range(sq)) \cup Working(ru)) \cup Over(fi)
  BY DEF PlacedIn
<1>2. j \notin Range(sq)
  BY <1>1
<1>3. /\ Append(sq, j) \in Seq(Job(T)) /\ Range(Append(sq, j)) = Range(sq) \cup {j}
      /\ IsInjective(Append(sq, j))
  BY <1>1, <1>2, AddedKey
<1> QED  BY <1>1, <1>3 DEF PlacedIn

-----------------------------------------------------------------------------
(***************************************************************************)
(* The pools' threads.                                                     *)
(***************************************************************************)

\* The head of a queue leaves it.
LEMMA Dequeued ==
    ASSUME NEW T, NEW s \in Seq(T), IsInjective(s), s # <<>>
    PROVE  /\ Tail(s) \in Seq(T) /\ IsInjective(Tail(s)) /\ Head(s) \in T
           /\ Head(s) \in Range(s) /\ Range(Tail(s)) = Range(s) \ {Head(s)}
<1>1. Len(s) \in Nat /\ Len(s) > 0 /\ DOMAIN s = 1..Len(s) /\ Head(s) = s[1] /\ 1 \in DOMAIN s
  OBVIOUS
<1>2. /\ Tail(s) \in Seq(T) /\ DOMAIN Tail(s) = 1..(Len(s) - 1)
      /\ \A i \in 1..(Len(s) - 1) : Tail(s)[i] = s[i + 1]
  BY <1>1
<1>3. \A i, n \in DOMAIN s : s[i] = s[n] => i = n
  BY DEF IsInjective
<1>4. IsInjective(Tail(s))
  <2> SUFFICES ASSUME NEW i \in DOMAIN Tail(s), NEW n \in DOMAIN Tail(s), Tail(s)[i] = Tail(s)[n]
               PROVE  i = n
    BY DEF IsInjective
  <2>1. i + 1 \in DOMAIN s /\ n + 1 \in DOMAIN s /\ s[i + 1] = s[n + 1] /\ i \in Nat /\ n \in Nat
    BY <1>1, <1>2
  <2>2. i + 1 = n + 1
    BY <1>3, <2>1
  <2> QED  BY <2>1, <2>2
<1>5. \A x : x \in Range(Tail(s)) <=> x \in Range(s) \ {s[1]}
  <2> TAKE x
  <2>1. ASSUME NEW i \in DOMAIN Tail(s), x = Tail(s)[i] PROVE x \in Range(s) \ {s[1]}
    <3>1. i + 1 \in DOMAIN s /\ x = s[i + 1] /\ i \in Nat /\ i + 1 # 1
      BY <1>1, <1>2, <2>1
    <3>2. x # s[1]
      BY <1>1, <1>3, <3>1
    <3> QED  BY <3>1, <3>2 DEF Range
  <2>2. ASSUME NEW i \in DOMAIN s, x = s[i], x # s[1] PROVE x \in Range(Tail(s))
    <3>1. i \in 1..Len(s) /\ i # 1
      BY <1>1, <2>2
    <3>2. i - 1 \in 1..(Len(s) - 1) /\ Tail(s)[i - 1] = s[i - 1 + 1] /\ i - 1 + 1 = i
      BY <1>1, <1>2, <3>1
    <3>3. i - 1 \in DOMAIN Tail(s) /\ x = Tail(s)[i - 1]
      BY <1>2, <2>2, <3>2
    <3> QED  BY <3>3 DEF Range
  <2> QED  BY <2>1, <2>2 DEF Range
<1>6. s[1] \in Range(s) /\ s[1] \in T
  BY <1>1 DEF Range
<1> QED  BY <1>1, <1>2, <1>4, <1>5, <1>6

\* A thread takes the job at the head of a queue.
LEMMA TakenJob ==
    ASSUME NEW T, NEW js, NEW lq, NEW sq, NEW ru, NEW fi, PlacedIn(js, lq, sq, ru, fi, T),
           NEW b \in BOOLEAN, NEW j, NEW m, m = [job |-> j, n |-> 0, loads |-> b]
    PROVE  /\ lq # <<>> /\ j = Head(lq) =>
                 j \in js /\ PlacedIn(js, Tail(lq), sq, ru \cup {m}, fi, T)
           /\ sq # <<>> /\ j = Head(sq) =>
                 j \in js /\ PlacedIn(js, lq, Tail(sq), ru \cup {m}, fi, T)
<1>1. /\ lq \in Seq(Job(T)) /\ sq \in Seq(Job(T)) /\ IsInjective(lq) /\ IsInjective(sq)
      /\ IsFiniteSet(ru) /\ ru \subseteq Move(T)
      /\ js = ((Range(lq) \cup Range(sq)) \cup Working(ru)) \cup Over(fi)
      /\ \A v, w \in ru : v.job = w.job => v = w
  BY DEF PlacedIn
<1>2. IsFiniteSet(ru \cup {m})
  BY <1>1, FS_AddElement
<1>3. m.job = j /\ Working(ru \cup {m}) = Working(ru) \cup {j}
  BY DEF Working
<1>4. j \in Job(T) => ru \cup {m} \subseteq Move(T)
  BY <1>1 DEF Move
<1>5. ASSUME j \notin Working(ru)
      PROVE  \A v, w \in ru \cup {m} : v.job = w.job => v = w
  BY <1>1, <1>3, <1>5 DEF Working
<1>6. ASSUME lq # <<>>, j = Head(lq)
      PROVE  j \in js /\ PlacedIn(js, Tail(lq), sq, ru \cup {m}, fi, T)
  <2>1. /\ Tail(lq) \in Seq(Job(T)) /\ IsInjective(Tail(lq)) /\ j \in Job(T)
        /\ j \in Range(lq) /\ Range(Tail(lq)) = Range(lq) \ {j}
    BY <1>1, <1>6, Dequeued
  <2>2. j \notin Range(sq) /\ j \notin Working(ru) /\ j \notin Over(fi)
    BY <2>1 DEF PlacedIn
  <2>3. js = (((Range(lq) \ {j}) \cup Range(sq)) \cup (Working(ru) \cup {j})) \cup Over(fi)
    BY <1>1, <2>1
  <2>4. /\ Range(Tail(lq)) \cap Range(sq) = {} /\ Range(Tail(lq)) \cap (Working(ru) \cup {j}) = {}
        /\ Range(sq) \cap (Working(ru) \cup {j}) = {} /\ (Working(ru) \cup {j}) \cap Over(fi) = {}
        /\ Range(Tail(lq)) \cap Over(fi) = {}
    BY <2>1, <2>2 DEF PlacedIn
  <2>5. ru \cup {m} \subseteq Move(T) /\ \A v, w \in ru \cup {m} : v.job = w.job => v = w
    BY <1>4, <1>5, <2>1, <2>2
  <2>6. js = ((Range(Tail(lq)) \cup Range(sq)) \cup Working(ru \cup {m})) \cup Over(fi)
    BY <1>3, <2>1, <2>3
  <2>7. PlacedIn(js, Tail(lq), sq, ru \cup {m}, fi, T)
    BY <1>2, <1>3, <2>1, <2>4, <2>5, <2>6 DEF PlacedIn
  <2> QED  BY <1>1, <2>1, <2>7
<1>7. ASSUME sq # <<>>, j = Head(sq)
      PROVE  j \in js /\ PlacedIn(js, lq, Tail(sq), ru \cup {m}, fi, T)
  <2>1. /\ Tail(sq) \in Seq(Job(T)) /\ IsInjective(Tail(sq)) /\ j \in Job(T)
        /\ j \in Range(sq) /\ Range(Tail(sq)) = Range(sq) \ {j}
    BY <1>1, <1>7, Dequeued
  <2>2. j \notin Range(lq) /\ j \notin Working(ru) /\ j \notin Over(fi)
    BY <2>1 DEF PlacedIn
  <2>3. js = ((Range(lq) \cup (Range(sq) \ {j})) \cup (Working(ru) \cup {j})) \cup Over(fi)
    BY <1>1, <2>1
  <2>4. /\ Range(lq) \cap Range(Tail(sq)) = {} /\ Range(Tail(sq)) \cap (Working(ru) \cup {j}) = {}
        /\ Range(lq) \cap (Working(ru) \cup {j}) = {} /\ (Working(ru) \cup {j}) \cap Over(fi) = {}
        /\ Range(Tail(sq)) \cap Over(fi) = {}
    BY <2>1, <2>2 DEF PlacedIn
  <2>5. ru \cup {m} \subseteq Move(T) /\ \A v, w \in ru \cup {m} : v.job = w.job => v = w
    BY <1>4, <1>5, <2>1, <2>2
  <2>6. js = ((Range(lq) \cup Range(Tail(sq))) \cup Working(ru \cup {m})) \cup Over(fi)
    BY <1>3, <2>1, <2>3
  <2>7. PlacedIn(js, lq, Tail(sq), ru \cup {m}, fi, T)
    BY <1>2, <1>3, <2>1, <2>4, <2>5, <2>6 DEF PlacedIn
  <2> QED  BY <1>1, <2>1, <2>7
<1> QED  BY <1>6, <1>7

\* It copies a block and goes on, or ends the job.
LEMMA MovedJob ==
    ASSUME NEW T, NEW js, NEW lq, NEW sq, NEW ru, NEW fi, PlacedIn(js, lq, sq, ru, fi, T),
           NEW w \in ru, NEW v, v = [w EXCEPT !.n = @ + 1]
    PROVE  PlacedIn(js, lq, sq, (ru \ {w}) \cup {v}, fi, T)
<1>1. /\ IsFiniteSet(ru) /\ ru \subseteq Move(T) /\ \A x, y \in ru : x.job = y.job => x = y
  BY DEF PlacedIn
<1>2. w \in [job : Job(T), n : Nat, loads : BOOLEAN]
  BY <1>1 DEF Move
<1>3. v.job = w.job /\ v \in Move(T)
  BY <1>2 DEF Move
<1>4. IsFiniteSet((ru \ {w}) \cup {v})
  BY <1>1, FS_AddElement, FS_RemoveElement
<1>5. Working((ru \ {w}) \cup {v}) = Working(ru)
  BY <1>3 DEF Working
<1>6. \A x, y \in (ru \ {w}) \cup {v} : x.job = y.job => x = y
  BY <1>1, <1>3
<1>7. (ru \ {w}) \cup {v} \subseteq Move(T)
  BY <1>1, <1>3
<1> QED  BY <1>4, <1>5, <1>6, <1>7 DEF PlacedIn

\* A job ends, well or not.
LEMMA EndedJob ==
    ASSUME NEW T, NEW js, NEW lq, NEW sq, NEW ru, NEW fi, PlacedIn(js, lq, sq, ru, fi, T),
           NEW w \in ru, NEW ok \in BOOLEAN, NEW n \in Nat,
           NEW f, f = [job |-> w.job, ok |-> ok, n |-> n]
    PROVE  PlacedIn(js, lq, sq, ru \ {w}, fi \cup {f}, T)
<1>1. /\ IsFiniteSet(ru) /\ ru \subseteq Move(T) /\ \A x, y \in ru : x.job = y.job => x = y
      /\ IsFiniteSet(fi) /\ fi \subseteq Ending(T) /\ \A x, y \in fi : x.job = y.job => x = y
      /\ Working(ru) \cap Over(fi) = {}
      /\ js = ((Range(lq) \cup Range(sq)) \cup Working(ru)) \cup Over(fi)
  BY DEF PlacedIn
<1>2. w.job \in Job(T) /\ f.job = w.job /\ f \in Ending(T)
  BY <1>1 DEF Move, Ending
<1>3. IsFiniteSet(ru \ {w}) /\ IsFiniteSet(fi \cup {f})
  BY <1>1, FS_AddElement, FS_RemoveElement
<1>4. Working(ru \ {w}) = Working(ru) \ {w.job} /\ w.job \in Working(ru)
  BY <1>1 DEF Working
<1>5. Over(fi \cup {f}) = Over(fi) \cup {w.job}
  BY <1>2 DEF Over
<1>6. w.job \notin Over(fi)
  BY <1>1, <1>4
<1>7. \A x, y \in fi \cup {f} : x.job = y.job => x = y
  BY <1>1, <1>2, <1>6 DEF Over
<1>8. js = ((Range(lq) \cup Range(sq)) \cup (Working(ru) \ {w.job})) \cup (Over(fi) \cup {w.job})
  BY <1>1, <1>4
<1>9. /\ Range(lq) \cap (Working(ru) \ {w.job}) = {} /\ Range(sq) \cap (Working(ru) \ {w.job}) = {}
      /\ Range(lq) \cap (Over(fi) \cup {w.job}) = {} /\ Range(sq) \cap (Over(fi) \cup {w.job}) = {}
      /\ (Working(ru) \ {w.job}) \cap (Over(fi) \cup {w.job}) = {}
  BY <1>4 DEF PlacedIn
<1> QED  BY <1>1, <1>2, <1>3, <1>4, <1>5, <1>7, <1>8, <1>9 DEF PlacedIn

\* The block that a thread is about to copy.
LEMMA RunningJob ==
    ASSUME Inv, NEW t \in Tiers, NEW w \in running[t]
    PROVE  /\ w \in Move(Tiers) /\ w.job \in jobs /\ w.job.tier = t
           /\ w.n \in Nat /\ w.n < Len(w.job.keys) /\ w.n + 1 \in DOMAIN w.job.keys
           /\ Pool!KeyOf(w) \in DOMAIN primary /\ Pool!KeyOf(w) \in Keys
           /\ Pool!SlotOf(w) = primary[Pool!KeyOf(w)].slot /\ Pool!SlotOf(w) \in Slots
           /\ IF w.job.promotion
              THEN primary[Pool!KeyOf(w)].ref = -1 /\ Filling(jobs, Pool!KeyOf(w)) = {w.job}
              ELSE primary[Pool!KeyOf(w)].ref # -1 /\ data[Pool!SlotOf(w)] = Pool!KeyOf(w)
<1> DEFINE k == Pool!KeyOf(w)
           s == Pool!SlotOf(w)
<1>1. /\ PlacedIn(JobsOf(jobs, t), loadQ[t], storeQ[t], running[t], finished[t], Tiers)
      /\ w.n < Len(w.job.keys) /\ LocatedJobs(primary, jobs) /\ JobsAreSound(jobs, Tiers)
      /\ IsPrimary(primary, Slots) /\ ReadyHold(primary, data)
      /\ Counted(primary, gpuLoads, gpuStores, jobs, Tiers, pending)
  BY DEF Inv, Books, Placed, Copies, Progress, Accounts
<1>2. w \in Move(Tiers) /\ w.job \in JobsOf(jobs, t)
  BY <1>1 DEF PlacedIn, Working
<1>3. w.n \in Nat /\ w.job \in Job(Tiers) /\ w.job \in jobs /\ w.job.tier = t
  BY <1>2 DEF Move, JobsOf
<1>4. w.job.keys \in Seq(Keys)
  BY <1>3 DEF Job
<1>5. w.n + 1 \in DOMAIN w.job.keys /\ w.job.keys[w.n + 1] \in Keys
  BY <1>1, <1>3, <1>4
<1>6. k = w.job.keys[w.n + 1] /\ s = w.job.slots[w.n + 1]
  BY DEF Pool!KeyOf, Pool!SlotOf
<1> HIDE DEF k, s
<1>7. k \in DOMAIN primary /\ k \in Keys /\ s = primary[k].slot /\ k \in Range(w.job.keys)
  BY <1>1, <1>3, <1>5, <1>6 DEF LocatedJobs, Range
<1>8. s \in Slots
  BY <1>1, <1>7 DEF IsPrimary
<1>9. Exact(primary, k, Loading(gpuLoads, k), Reading(jobs, k), Storing(gpuStores, k),
            Filling(jobs, k), Promised(Tiers, pending, k))
  BY <1>1, <1>7 DEF Counted
<1>10. CASE w.job.promotion
  <2>1. w.job \in Filling(jobs, k)
    BY <1>3, <1>7, <1>10 DEF Filling
  <2>2. primary[k].ref = -1 /\ One(Filling(jobs, k))
    BY <1>7, <1>9, <2>1 DEF Exact, OneWriter
  <2>3. Filling(jobs, k) = {w.job}
    BY <2>1, <2>2 DEF One
  <2> QED  BY <1>1, <1>2, <1>3, <1>5, <1>7, <1>8, <1>10, <2>2, <2>3 DEF k, s
<1>11. CASE ~w.job.promotion
  <2>1. w.job \in Reading(jobs, k)
    BY <1>3, <1>7, <1>11 DEF Reading
  <2>2. primary[k].ref # -1
    BY <1>7, <1>9, <2>1 DEF Exact
  <2>3. data[s] = k
    BY <1>1, <1>7, <2>2 DEF ReadyHold
  <2> QED  BY <1>1, <1>2, <1>3, <1>5, <1>7, <1>8, <1>11, <2>2, <2>3 DEF k, s
<1> QED  BY <1>10, <1>11

\* No other copy is in the slot that a promotion is filling.
LEMMA FilledSlot ==
    ASSUME Inv, NEW t \in Tiers, NEW w \in running[t], w.job.promotion,
           NEW x \in Keys \cup {Garbage}, NEW e, e = [data EXCEPT ![Pool!SlotOf(w)] = x]
    PROVE  /\ e \in [Slots -> Keys \cup {Garbage}] /\ e[Pool!SlotOf(w)] = x
           /\ ReadyHold(primary, e) /\ Progress(e, running, finished, Tiers)
<1> DEFINE k == Pool!KeyOf(w)
           s == Pool!SlotOf(w)
<1>1. /\ w.job \in jobs /\ w.job.tier = t /\ w.n \in Nat /\ w.n < Len(w.job.keys)
      /\ w.n + 1 \in DOMAIN w.job.keys
      /\ k \in DOMAIN primary /\ k \in Keys /\ s = primary[k].slot /\ s \in Slots
      /\ primary[k].ref = -1 /\ Filling(jobs, k) = {w.job}
  BY RunningJob
<1>2. k = w.job.keys[w.n + 1]
  BY DEF Pool!KeyOf
<1>3. data \in [Slots -> Keys \cup {Garbage}]
  BY DEF Inv, Books, Copies
<1> HIDE DEF k, s
<1>4. /\ e \in [Slots -> Keys \cup {Garbage}] /\ e[s] = x
      /\ \A u \in Slots : u # s => e[u] = data[u]
  BY <1>1, <1>3 DEF s
<1>5. /\ SlotsDiffer(primary) /\ LocatedJobs(primary, jobs) /\ JobsAreSound(jobs, Tiers)
      /\ IsPrimary(primary, Slots) /\ ReadyHold(primary, data)
      /\ Progress(data, running, finished, Tiers)
      /\ Placed(jobs, loadQ, storeQ, running, finished, Tiers)
  BY DEF Inv, Books, Copies, Accounts
<1>6. \A l \in DOMAIN primary : l # k => e[primary[l].slot] = data[primary[l].slot]
  BY <1>1, <1>4, <1>5 DEF SlotsDiffer, IsPrimary
<1>7. ReadyHold(primary, e)
  BY <1>1, <1>5, <1>6 DEF ReadyHold
<1>8. ASSUME NEW j \in jobs, j.promotion, NEW n \in Nat, n <= Len(j.keys),
             \A i \in 1..n : data[j.slots[i]] = j.keys[i], j = w.job => n = w.n
      PROVE  \A i \in 1..n : e[j.slots[i]] = j.keys[i]
  <2> TAKE i \in 1..n
  <2>1. j \in Job(Tiers) /\ JobIsSound(j)
    BY <1>5 DEF JobsAreSound
  <2>2. j.keys \in Seq(Keys) /\ IsInjective(j.keys)
    BY <2>1 DEF Job, JobIsSound
  <2>3. i \in DOMAIN j.keys
    BY <1>8, <2>2
  <2>4. j.keys[i] \in DOMAIN primary /\ j.slots[i] = primary[j.keys[i]].slot
    BY <1>5, <2>3 DEF LocatedJobs
  <2>5. j.keys[i] # k
    <3> SUFFICES ASSUME j.keys[i] = k PROVE FALSE
      OBVIOUS
    <3>1. j \in Filling(jobs, k)
      BY <1>8, <2>3 DEF Filling, Range
    <3>2. j = w.job /\ n = w.n
      BY <1>1, <1>8, <3>1
    <3>3. i = w.n + 1
      BY <1>1, <1>2, <2>2, <2>3, <3>2 DEF IsInjective
    <3> QED  BY <1>1, <3>2, <3>3
  <2> QED  BY <1>6, <1>8, <2>4, <2>5
<1>9. ASSUME NEW u \in Tiers
      PROVE  /\ \A v \in running[u] : v.n < Len(v.job.keys) /\ CopiedTo(e, v)
             /\ \A f \in finished[u] : f.n <= Len(f.job.keys) /\ CopiedTo(e, f)
  <2>1. PlacedIn(JobsOf(jobs, u), loadQ[u], storeQ[u], running[u], finished[u], Tiers)
    BY <1>5 DEF Placed
  <2>2. /\ \A v \in running[u] : v.n < Len(v.job.keys) /\ CopiedTo(data, v)
        /\ \A f \in finished[u] : f.n <= Len(f.job.keys) /\ CopiedTo(data, f)
    BY <1>5 DEF Progress
  <2>3. ASSUME NEW v \in running[u] PROVE CopiedTo(e, v)
    <3>1. v.job \in jobs /\ v.n \in Nat /\ v.n < Len(v.job.keys) /\ v.job.tier = u
      BY RunningJob
    <3>2. v.n <= Len(v.job.keys)
      BY <1>5, <3>1 DEF JobsAreSound, Job
    <3>3. v.job = w.job => v.n = w.n
      <4>1. v.job = w.job => u = t
        BY <1>1, <3>1
      <4> QED  BY <2>1, <4>1 DEF PlacedIn
    <3> QED  BY <1>8, <2>2, <3>1, <3>2, <3>3 DEF CopiedTo
  <2>4. ASSUME NEW f \in finished[u] PROVE CopiedTo(e, f)
    <3>1. f \in Ending(Tiers) /\ f.job \in JobsOf(jobs, u) /\ f.job \in Over(finished[u])
      BY <2>1 DEF PlacedIn, Over
    <3>2. f.job \in jobs /\ f.job.tier = u /\ f.n \in Nat
      BY <3>1 DEF JobsOf, Ending
    <3>3. f.job # w.job
      <4>1. f.job = w.job => u = t /\ w.job \in Working(running[t])
        BY <1>1, <3>2 DEF Working
      <4> QED  BY <2>1, <3>1, <4>1 DEF PlacedIn
    <3> QED  BY <1>8, <2>2, <3>2, <3>3 DEF CopiedTo
  <2> QED  BY <2>2, <2>3, <2>4
<1>10. Progress(e, running, finished, Tiers)
  BY <1>9 DEF Progress
<1> QED  BY <1>4, <1>7, <1>10 DEF s

\* A job ends after n blocks.
LEMMA EndedWell ==
    ASSUME Inv, NEW t \in Tiers, NEW w \in running[t],
           NEW e, Progress(e, running, finished, Tiers), NEW ok \in BOOLEAN,
           NEW n \in Nat, n <= Len(w.job.keys),
           w.job.promotion => \A i \in 1..n : e[w.job.slots[i]] = w.job.keys[i],
           Pool!Ended(t, w, ok, n)
    PROVE  /\ Placed(jobs, loadQ, storeQ, running', finished', Tiers)
           /\ Progress(e, running', finished', Tiers)
<1> DEFINE f == [job |-> w.job, ok |-> ok, n |-> n]
<1>1. /\ running' = [running EXCEPT ![t] = @ \ {w}]
      /\ finished' = [finished EXCEPT ![t] = @ \cup {f}]
  BY DEF Pool!Ended
<1>2. f.job = w.job /\ f.n = n
  OBVIOUS
<1>3. Placed(jobs, loadQ, storeQ, running, finished, Tiers)
  BY DEF Inv, Books
<1>4. /\ DOMAIN loadQ = Tiers /\ DOMAIN storeQ = Tiers
      /\ DOMAIN running = Tiers /\ DOMAIN finished = Tiers
      /\ \A u \in Tiers : PlacedIn(JobsOf(jobs, u), loadQ[u], storeQ[u], running[u], finished[u], Tiers)
  BY <1>3 DEF Placed
<1>5. PlacedIn(JobsOf(jobs, t), loadQ[t], storeQ[t], running[t] \ {w}, finished[t] \cup {f}, Tiers)
  BY <1>4, EndedJob
<1> HIDE DEF f
<1>6. /\ DOMAIN running' = Tiers /\ DOMAIN finished' = Tiers
      /\ \A u \in Tiers : /\ running'[u] = IF u = t THEN running[t] \ {w} ELSE running[u]
                          /\ finished'[u] = IF u = t THEN finished[t] \cup {f} ELSE finished[u]
  BY <1>1, <1>4
<1>7. Placed(jobs, loadQ, storeQ, running', finished', Tiers)
  BY <1>4, <1>5, <1>6 DEF Placed
<1>8. f.n <= Len(f.job.keys) /\ CopiedTo(e, f)
  BY <1>2 DEF CopiedTo
<1>9. Progress(e, running', finished', Tiers)
  BY <1>6, <1>8 DEF Progress
<1> QED  BY <1>7, <1>9

\* A job goes on after one more block.
LEMMA CopiedWell ==
    ASSUME Inv, NEW t \in Tiers, NEW w \in running[t],
           NEW e, Progress(e, running, finished, Tiers),
           w.job.promotion => e[Pool!SlotOf(w)] = Pool!KeyOf(w), Pool!Copied(t, w)
    PROVE  /\ Placed(jobs, loadQ, storeQ, running', finished', Tiers)
           /\ Progress(e, running', finished', Tiers)
<1>1. /\ w \in Move(Tiers) /\ w.n \in Nat /\ w.n < Len(w.job.keys) /\ w.job \in Job(Tiers)
  BY RunningJob DEF Move
<1>2. w.job.keys \in Seq(Keys) /\ Len(w.job.keys) \in Nat
  BY <1>1 DEF Job
<1>3. w.job.promotion => \A i \in 1..(w.n + 1) : e[w.job.slots[i]] = w.job.keys[i]
  <2> SUFFICES ASSUME w.job.promotion, NEW i \in 1..(w.n + 1) PROVE e[w.job.slots[i]] = w.job.keys[i]
    OBVIOUS
  <2>1. CASE i = w.n + 1
    BY <2>1 DEF Pool!SlotOf, Pool!KeyOf
  <2>2. CASE i # w.n + 1
    <3>1. i \in 1..w.n
      BY <1>1, <2>2
    <3>2. CopiedTo(e, w)
      BY DEF Progress
    <3> QED  BY <3>1, <3>2 DEF CopiedTo
  <2> QED  BY <2>1, <2>2
<1>4. CASE w.n + 1 = Len(w.job.keys)
  <2>1. Pool!Ended(t, w, TRUE, w.n + 1)
    BY <1>4 DEF Pool!Copied
  <2>2. w.n + 1 \in Nat /\ w.n + 1 <= Len(w.job.keys)
    BY <1>1, <1>2, <1>4
  <2> QED  BY <1>3, <2>1, <2>2, EndedWell
<1>5. CASE w.n + 1 # Len(w.job.keys)
  <2> DEFINE v == [w EXCEPT !.n = @ + 1]
  <2>1. running' = [running EXCEPT ![t] = (@ \ {w}) \cup {v}] /\ finished' = finished
    BY <1>5 DEF Pool!Copied
  <2>2. v.job = w.job /\ v.n = w.n + 1
    BY <1>1 DEF Move
  <2>3. Placed(jobs, loadQ, storeQ, running, finished, Tiers)
    BY DEF Inv, Books
  <2>4. /\ DOMAIN loadQ = Tiers /\ DOMAIN storeQ = Tiers
        /\ DOMAIN running = Tiers /\ DOMAIN finished = Tiers
        /\ \A u \in Tiers : PlacedIn(JobsOf(jobs, u), loadQ[u], storeQ[u], running[u], finished[u], Tiers)
    BY <2>3 DEF Placed
  <2>5. PlacedIn(JobsOf(jobs, t), loadQ[t], storeQ[t], (running[t] \ {w}) \cup {v}, finished[t], Tiers)
    BY <2>4, MovedJob
  <2> HIDE DEF v
  <2>6. /\ DOMAIN running' = Tiers /\ DOMAIN finished' = Tiers
        /\ \A u \in Tiers : /\ running'[u] = IF u = t THEN (running[t] \ {w}) \cup {v} ELSE running[u]
                            /\ finished'[u] = finished[u]
    BY <2>1, <2>4
  <2>7. Placed(jobs, loadQ, storeQ, running', finished', Tiers)
    BY <2>4, <2>5, <2>6 DEF Placed
  <2>8. v.n < Len(v.job.keys) /\ CopiedTo(e, v)
    BY <1>1, <1>2, <1>3, <1>5, <2>2 DEF CopiedTo
  <2>9. Progress(e, running', finished', Tiers)
    BY <2>6, <2>8 DEF Progress
  <2> QED  BY <2>7, <2>9
<1> QED  BY <1>4, <1>5

\* A thread starts a job.
LEMMA StartedWell ==
    ASSUME Inv, NEW t \in Tiers, NEW loads \in BOOLEAN,
           Pool!TakeLoad(t, loads) \/ Pool!TakeStore(t, loads)
    PROVE  /\ Placed(jobs, loadQ', storeQ', running', finished', Tiers)
           /\ Progress(data, running', finished', Tiers)
<1> DEFINE j == IF Pool!TakeLoad(t, loads) THEN Head(loadQ[t]) ELSE Head(storeQ[t])
           m == [job |-> j, n |-> 0, loads |-> loads]
<1>1. PICK lq, sq : /\ \/ lq = [loadQ EXCEPT ![t] = Tail(@)] /\ sq = storeQ /\ loadQ[t] # <<>> /\ j = Head(loadQ[t])
                       \/ lq = loadQ /\ sq = [storeQ EXCEPT ![t] = Tail(@)] /\ storeQ[t] # <<>> /\ j = Head(storeQ[t])
                    /\ loadQ' = lq /\ storeQ' = sq
                    /\ running' = [running EXCEPT ![t] = @ \cup {m}] /\ finished' = finished
  BY DEF Pool!TakeLoad, Pool!TakeStore, Pool!Started
<1>2. Placed(jobs, loadQ, storeQ, running, finished, Tiers) /\ JobsAreSound(jobs, Tiers)
      /\ Progress(data, running, finished, Tiers)
  BY DEF Inv, Books, Copies
<1>3. /\ DOMAIN loadQ = Tiers /\ DOMAIN storeQ = Tiers
      /\ DOMAIN running = Tiers /\ DOMAIN finished = Tiers
      /\ \A u \in Tiers : PlacedIn(JobsOf(jobs, u), loadQ[u], storeQ[u], running[u], finished[u], Tiers)
  BY <1>2 DEF Placed
<1>11. m = [job |-> j, n |-> 0, loads |-> loads] /\ m.job = j /\ m.n = 0
  OBVIOUS
<1> HIDE DEF j, m
<1>4. /\ loadQ[t] # <<>> /\ j = Head(loadQ[t]) =>
            /\ j \in JobsOf(jobs, t)
            /\ PlacedIn(JobsOf(jobs, t), Tail(loadQ[t]), storeQ[t], running[t] \cup {m}, finished[t], Tiers)
      /\ storeQ[t] # <<>> /\ j = Head(storeQ[t]) =>
            /\ j \in JobsOf(jobs, t)
            /\ PlacedIn(JobsOf(jobs, t), loadQ[t], Tail(storeQ[t]), running[t] \cup {m}, finished[t], Tiers)
  BY <1>3, <1>11, TakenJob
<1>5. j \in JobsOf(jobs, t) /\ PlacedIn(JobsOf(jobs, t), lq[t], sq[t], running[t] \cup {m}, finished[t], Tiers)
  BY <1>1, <1>3, <1>4
<1>6. j \in jobs /\ JobIsSound(j) /\ m.job = j /\ m.n = 0
  BY <1>2, <1>5, <1>11 DEF JobsOf, JobsAreSound
<1>7. m.n < Len(m.job.keys) /\ CopiedTo(data, m)
  BY <1>6 DEF JobIsSound, CopiedTo
<1>8. /\ DOMAIN lq = Tiers /\ DOMAIN sq = Tiers /\ DOMAIN running' = Tiers
      /\ \A u \in Tiers : /\ running'[u] = IF u = t THEN running[t] \cup {m} ELSE running[u]
                          /\ u # t => lq[u] = loadQ[u] /\ sq[u] = storeQ[u]
  BY <1>1, <1>3
<1>9. Placed(jobs, lq, sq, running', finished, Tiers)
  BY <1>3, <1>5, <1>8 DEF Placed
<1>10. Progress(data, running', finished, Tiers)
  BY <1>2, <1>7, <1>8 DEF Progress
<1> QED  BY <1>1, <1>9, <1>10

\* A key's file is written with its own KV, or removed.
LEMMA OneFile ==
    ASSUME DiskHolds(disk, Tiers), NEW t \in Tiers, NEW k \in Keys, NEW x \in {NoKey, k},
           NEW dk, dk = [disk EXCEPT ![t][k] = x]
    PROVE  DiskHolds(dk, Tiers)
<1>1. DOMAIN disk = Tiers /\ \A u \in Tiers : disk[u] \in [Keys -> Keys \cup {NoKey}]
  BY DEF DiskHolds
<1>2. /\ DOMAIN dk = Tiers
      /\ \A u \in Tiers : dk[u] = IF u = t THEN [disk[t] EXCEPT ![k] = x] ELSE disk[u]
  BY <1>1
<1>3. x \in Keys \cup {NoKey}
  OBVIOUS
<1>4. \A u \in Tiers : dk[u] \in [Keys -> Keys \cup {NoKey}]
  BY <1>1, <1>2, <1>3
<1>5. \A u \in Tiers, l \in Keys : dk[u][l] = (IF u = t /\ l = k THEN x ELSE disk[u][l])
  BY <1>1, <1>2
<1>6. \A u \in Tiers, l \in Keys : dk[u][l] \in {NoKey, l}
  BY <1>5 DEF DiskHolds
<1> QED  BY <1>2, <1>4, <1>6 DEF DiskHolds

\* Whatever the threads do, and whatever files go, is accounted for.
PoolsServe(e, dk, lq, sq, ru, fi) ==
    /\ Placed(jobs, lq, sq, ru, fi, Tiers)
    /\ Copies(primary, e, dk, ru, fi, Tiers, Slots)

\* Whatever a thread of a pool does, or fails to do, the pools serve the manager.
LEMMA PoolsWork ==
    ASSUME Inv, NEW t \in Tiers,
           \/ Pool!Work(t)
           \/ \E k \in Keys : Pool!FileVanishes(t, k)
           \/ \E w \in running[t] : \/ Pool!StoreBlockFails(t, w)
                                    \/ \E short \in BOOLEAN : Pool!LoadBlockFails(t, w, short)
    PROVE  PoolsServe(data', disk', loadQ', storeQ', running', finished')
<1>1. /\ data \in [Slots -> Keys \cup {Garbage}] /\ ReadyHold(primary, data)
      /\ DiskHolds(disk, Tiers) /\ Progress(data, running, finished, Tiers)
      /\ Placed(jobs, loadQ, storeQ, running, finished, Tiers)
  BY DEF Inv, Books, Copies
<1>2. ASSUME NEW loads \in BOOLEAN, Pool!TakeLoad(t, loads) \/ Pool!TakeStore(t, loads)
      PROVE  PoolsServe(data', disk', loadQ', storeQ', running', finished')
  <2>1. data' = data /\ disk' = disk
    BY <1>2 DEF Pool!TakeLoad, Pool!TakeStore
  <2>2. /\ Placed(jobs, loadQ', storeQ', running', finished', Tiers)
        /\ Progress(data, running', finished', Tiers)
    BY <1>2, StartedWell
  <2> QED  BY <1>1, <2>1, <2>2 DEF PoolsServe, Copies
<1>3. ASSUME NEW w \in running[t] 
      PROVE  /\ w.n \in Nat /\ w.n <= Len(w.job.keys)
             /\ w.job.promotion => \A i \in 1..w.n : data[w.job.slots[i]] = w.job.keys[i]
             /\ Pool!KeyOf(w) \in Keys
             /\ ~w.job.promotion => data[Pool!SlotOf(w)] = Pool!KeyOf(w)
  <2>1. /\ w.n \in Nat /\ w.n < Len(w.job.keys) /\ w.job \in Job(Tiers) /\ Pool!KeyOf(w) \in Keys
        /\ ~w.job.promotion => data[Pool!SlotOf(w)] = Pool!KeyOf(w)
    BY RunningJob DEF Move
  <2>2. w.n <= Len(w.job.keys)
    BY <2>1 DEF Job
  <2>3. CopiedTo(data, w)
    BY <1>1 DEF Progress
  <2> QED  BY <2>1, <2>2, <2>3 DEF CopiedTo
<1>4. ASSUME NEW w \in running[t], Pool!StoreBlock(t, w)
      PROVE  PoolsServe(data', disk', loadQ', storeQ', running', finished')
  <2> DEFINE k == Pool!KeyOf(w)
             x == IF disk[t][k] = NoKey THEN data[Pool!SlotOf(w)] ELSE disk[t][k]
  <2>1. /\ ~w.job.promotion /\ disk' = [disk EXCEPT ![t][k] = x]
        /\ Pool!Copied(t, w) /\ loadQ' = loadQ /\ storeQ' = storeQ /\ data' = data
    BY <1>4 DEF Pool!StoreBlock
  <2>2. k \in Keys /\ x \in {NoKey, k}
    BY <1>1, <1>3, <2>1 DEF DiskHolds
  <2>3. DiskHolds(disk', Tiers)
    <3> HIDE DEF k, x
    <3> QED  BY <1>1, <2>1, <2>2, OneFile
  <2>4. /\ Placed(jobs, loadQ, storeQ, running', finished', Tiers)
        /\ Progress(data, running', finished', Tiers)
    BY <1>1, <2>1, CopiedWell
  <2> QED  BY <1>1, <2>1, <2>3, <2>4 DEF PoolsServe, Copies
<1>5. ASSUME NEW w \in running[t], Pool!LoadBlock(t, w)
      PROVE  PoolsServe(data', disk', loadQ', storeQ', running', finished')
  <2> DEFINE k == Pool!KeyOf(w)
             x == disk[t][k]
  <2>1. /\ w.job.promotion /\ k \in Pool!HasFile(t) /\ data' = [data EXCEPT ![Pool!SlotOf(w)] = x]
        /\ Pool!Copied(t, w) /\ loadQ' = loadQ /\ storeQ' = storeQ /\ disk' = disk
    BY <1>5 DEF Pool!LoadBlock
  <2>2. k \in Keys /\ x = k
    BY <1>1, <2>1 DEF DiskHolds, Pool!HasFile
  <2>3. /\ data' \in [Slots -> Keys \cup {Garbage}] /\ data'[Pool!SlotOf(w)] = x
        /\ ReadyHold(primary, data') /\ Progress(data', running, finished, Tiers)
    <3>1. x \in Keys \cup {Garbage}
      BY <2>2
    <3> HIDE DEF x
    <3> QED  BY <2>1, <3>1, FilledSlot
  <2>4. /\ Placed(jobs, loadQ, storeQ, running', finished', Tiers)
        /\ Progress(data', running', finished', Tiers)
    BY <2>1, <2>2, <2>3, CopiedWell
  <2> QED  BY <1>1, <2>1, <2>3, <2>4 DEF PoolsServe, Copies
<1>6. ASSUME NEW w \in running[t], Pool!LoadBlockMissing(t, w) \/ Pool!StoreBlockFails(t, w)
      PROVE  PoolsServe(data', disk', loadQ', storeQ', running', finished')
  <2>1. /\ Pool!Ended(t, w, FALSE, w.n)
        /\ loadQ' = loadQ /\ storeQ' = storeQ /\ disk' = disk /\ data' = data
    BY <1>6 DEF Pool!LoadBlockMissing, Pool!StoreBlockFails
  <2>2. /\ Placed(jobs, loadQ, storeQ, running', finished', Tiers)
        /\ Progress(data, running', finished', Tiers)
    BY <1>1, <1>3, <2>1, EndedWell
  <2> QED  BY <1>1, <2>1, <2>2 DEF PoolsServe, Copies
<1>7. ASSUME NEW w \in running[t], NEW short \in BOOLEAN, Pool!LoadBlockFails(t, w, short)
      PROVE  PoolsServe(data', disk', loadQ', storeQ', running', finished')
  <2> DEFINE k == Pool!KeyOf(w)
             x == IF short THEN NoKey ELSE disk[t][k]
  <2>1. /\ w.job.promotion /\ data' = [data EXCEPT ![Pool!SlotOf(w)] = Garbage]
        /\ disk' = [disk EXCEPT ![t][k] = x]
        /\ Pool!Ended(t, w, FALSE, w.n) /\ loadQ' = loadQ /\ storeQ' = storeQ
    BY <1>7 DEF Pool!LoadBlockFails
  <2>2. k \in Keys /\ x \in {NoKey, k}
    BY <1>1, <1>3 DEF DiskHolds
  <2>3. DiskHolds(disk', Tiers)
    <3> HIDE DEF k, x
    <3> QED  BY <1>1, <2>1, <2>2, OneFile
  <2>4. /\ data' \in [Slots -> Keys \cup {Garbage}]
        /\ ReadyHold(primary, data') /\ Progress(data', running, finished, Tiers)
    BY <2>1, FilledSlot
  <2>5. w.job.promotion => \A i \in 1..w.n : data'[w.job.slots[i]] = w.job.keys[i]
    BY <2>4 DEF Progress, CopiedTo
  <2>6. /\ Placed(jobs, loadQ, storeQ, running', finished', Tiers)
        /\ Progress(data', running', finished', Tiers)
    <3>1. w.n \in Nat /\ w.n <= Len(w.job.keys) /\ FALSE \in BOOLEAN
      BY <1>3
    <3>2. PICK e : e = data'
      OBVIOUS
    <3>3. /\ Progress(e, running, finished, Tiers)
          /\ w.job.promotion => \A i \in 1..w.n : e[w.job.slots[i]] = w.job.keys[i]
      BY <2>4, <2>5, <3>2
    <3>4. /\ Placed(jobs, loadQ, storeQ, running', finished', Tiers)
          /\ Progress(e, running', finished', Tiers)
      BY <2>1, <3>1, <3>3, EndedWell
    <3> QED  BY <3>2, <3>4
  <2> QED  BY <2>1, <2>3, <2>4, <2>6 DEF PoolsServe, Copies
<1>8. ASSUME NEW k \in Keys, Pool!FileVanishes(t, k)
      PROVE  PoolsServe(data', disk', loadQ', storeQ', running', finished')
  <2>1. /\ disk' = [disk EXCEPT ![t][k] = NoKey]
        /\ loadQ' = loadQ /\ storeQ' = storeQ /\ running' = running /\ finished' = finished
        /\ data' = data
    BY <1>8 DEF Pool!FileVanishes
  <2>2. NoKey \in {NoKey, k}
    OBVIOUS
  <2>3. DiskHolds(disk', Tiers)
    BY <1>1, <2>1, <2>2, OneFile
  <2> QED  BY <1>1, <2>1, <2>3 DEF PoolsServe, Copies
<1> QED  BY <1>2, <1>4, <1>5, <1>6, <1>7, <1>8 DEF Pool!Work

-----------------------------------------------------------------------------
(***************************************************************************)
(* The steps of the manager keep its books.                                *)
(***************************************************************************)

\* The books hold after a step if their parts do.
LEMMA BooksNext ==
    ASSUME workload' = workload, IsPrimary(primary', Slots), JobsAreSound(jobs', Tiers),
           Accounts(primary', gpuLoads', gpuStores', jobs', Tiers, pending'),
           Offers(jobs', gpuStores', offered', workload.prompt),
           Placed(jobs', loadQ', storeQ', running', finished', Tiers),
           Copies(primary', data', disk', running', finished', Tiers, Slots)
    PROVE  Books'
<1>1. Slots' = Slots /\ Tiers' = Tiers
  BY DEF Slots, Tiers
<1> QED  BY <1>1 DEF Books

\* Steps that leave them alone.
LEMMA BooksStay ==
    ASSUME Inv, workload' = workload, primary' = primary, jobs' = jobs, pending' = pending,
           gpuLoads' = gpuLoads, gpuStores' = gpuStores, offered' = offered,
           loadQ' = loadQ, storeQ' = storeQ, running' = running, finished' = finished,
           data' = data, disk' = disk
    PROVE  Books'
BY BooksNext DEF Inv, Books

\* A poll, and nothing else.
LEMMA BooksPolled ==
    ASSUME Inv, workload' = workload, primary' = PolledPrimary, Poll, pending' = pending,
           gpuLoads' = gpuLoads, gpuStores' = gpuStores, offered' = offered,
           loadQ' = loadQ, storeQ' = storeQ, running' = running, data' = data, disk' = disk
    PROVE  Books'
<1>1. jobs' = PolledJobs /\ finished' = PolledFinished
  BY DEF Poll, PolledJobs, PolledFinished
<1>2. /\ JobsAreSound(PolledJobs, Tiers)
      /\ Offers(PolledJobs, gpuStores, offered, workload.prompt)
      /\ Placed(PolledJobs, loadQ, storeQ, running, PolledFinished, Tiers)
      /\ Progress(data, running, PolledFinished, Tiers)
  BY PolledPlaces
<1>3. /\ IsPrimary(PolledPrimary, Slots)
      /\ Accounts(PolledPrimary, gpuLoads, gpuStores, PolledJobs, Tiers, pending)
      /\ ReadyHold(PolledPrimary, data)
  BY PolledAccounts
<1>4. Copies(PolledPrimary, data, disk, running, PolledFinished, Tiers, Slots)
  BY <1>2, <1>3 DEF Inv, Books, Copies
<1> QED  BY <1>1, <1>2, <1>3, <1>4, BooksNext

\* The tiers' threads, and what can go wrong around them.
LEMMA BooksMoved ==
    ASSUME Inv, NEW t \in Tiers, MoveBlocks(t) \/ Fault(t)
    PROVE  Books'
<1>1. /\ workload' = workload /\ primary' = primary /\ jobs' = jobs /\ pending' = pending
      /\ gpuLoads' = gpuLoads /\ gpuStores' = gpuStores /\ offered' = offered
  BY DEF MoveBlocks, Fault, mgrVars, gpuVars, progressVars, boundVars
<1>2. PoolsServe(data', disk', loadQ', storeQ', running', finished')
  <2>1. \/ Pool!Work(t)
        \/ \E k \in Keys : Pool!FileVanishes(t, k)
        \/ \E w \in running[t] : \/ Pool!StoreBlockFails(t, w)
                                 \/ \E short \in BOOLEAN : Pool!LoadBlockFails(t, w, short)
    BY Zenon DEF MoveBlocks, Fault
  <2> QED  BY <2>1, PoolsWork
<1> QED  BY <1>1, <1>2, BooksNext DEF PoolsServe, Inv, Books

\* update_state_after_alloc, and a GPU load that ends.
LEMMA BooksAdmitted ==
    ASSUME Inv, Admit
    PROVE  Books'
<1> DEFINE r == scan.req
<1>1. /\ ScanOver /\ \A k \in HitKeys : Ready(primary, k)
      /\ primary' = Pinned(primary, HitKeys)
      /\ gpuLoads' = [gpuLoads EXCEPT ![r] = HitKeys]
      /\ \E chunks : offered' = [offered EXCEPT ![r] = chunks]
      /\ workload' = workload /\ jobs' = jobs /\ pending' = pending /\ gpuStores' = gpuStores
      /\ loadQ' = loadQ /\ storeQ' = storeQ /\ running' = running /\ finished' = finished
      /\ data' = data /\ disk' = disk
  BY Zenon DEF Admit, poolVars, storageVars, boundVars
<1>2. /\ gpuLoads \in [Reqs -> SUBSET Keys] /\ r \in Reqs /\ phase[r] = "waiting"
      /\ gpuLoads[r] = {} /\ gpuStores[r] = {} /\ offered[r] = 0 /\ offered \in [Reqs -> Nat]
      /\ gpuStores \in [Reqs -> SUBSET SUBSET Keys]
  BY <1>1 DEF ScanOver, Inv, Engine, EngineTypes, ScanIsSound, Lives, LifeOf
<1> HIDE DEF r
<1>3. /\ IsPrimary(primary, Slots) /\ JobsAreSound(jobs, Tiers)
      /\ Accounts(primary, gpuLoads, gpuStores, jobs, Tiers, pending) /\ ReadyHold(primary, data)
      /\ Offers(jobs, gpuStores, offered, workload.prompt)
  BY DEF Inv, Books, Copies
<1>4. /\ IsPrimary(primary', Slots) /\ ReadyHold(primary', data)
      /\ Accounts(primary', gpuLoads', gpuStores, jobs, Tiers, pending)
  <2>1. PICK K : K = HitKeys
    OBVIOUS
  <2>2. /\ \A k \in K : Ready(primary, k)
        /\ primary' = Pinned(primary, K) /\ gpuLoads' = [gpuLoads EXCEPT ![r] = K]
    BY <1>1, <2>1
  <2>3. r \in Reqs /\ gpuLoads[r] = {} /\ gpuLoads \in [Reqs -> SUBSET Keys]
    BY <1>2
  <2> QED  BY <1>3, <2>2, <2>3, PinnedBlocks, ZenonT(60)
<1>5. Offers(jobs, gpuStores, offered', workload.prompt)
  <2>1. \A x \in Reqs : x # r => offered'[x] = offered[x]
    BY <1>1, <1>2
  <2>2. ASSUME NEW x \in Reqs
        PROVE  OfferedKeys(x, offered, workload.prompt) \subseteq OfferedKeys(x, offered', workload.prompt)
    <3>1. CASE x = r
      BY <1>2, <3>1 DEF OfferedKeys
    <3>2. CASE x # r
      BY <2>1, <3>2 DEF OfferedKeys
    <3> QED  BY <3>1, <3>2
  <2>3. \A j \in jobs : j.req \in Reqs
    BY <1>3 DEF JobsAreSound, Job
  <2> QED  BY <1>3, <2>2, <2>3 DEF Offers
<1>6. Copies(primary', data, disk, running, finished, Tiers, Slots)
  BY <1>4 DEF Inv, Books, Copies
<1>7. Placed(jobs, loadQ, storeQ, running, finished, Tiers)
  BY DEF Inv, Books
<1> QED  BY <1>1, <1>3, <1>4, <1>5, <1>6, <1>7, BooksNext

\* A GPU load ends.
LEMMA BooksLoaded ==
    ASSUME Inv, NEW r \in Reqs, CompleteLoad(r)
    PROVE  Books'
<1>1. /\ primary' = Unpinned(primary, gpuLoads[r])
      /\ gpuLoads' = [gpuLoads EXCEPT ![r] = {}]
      /\ workload' = workload /\ jobs' = jobs /\ pending' = pending /\ gpuStores' = gpuStores
      /\ loadQ' = loadQ /\ storeQ' = storeQ /\ running' = running /\ finished' = finished
      /\ data' = data /\ disk' = disk /\ offered' = offered
  BY Zenon DEF CompleteLoad, poolVars, storageVars, boundVars
<1>2. /\ IsPrimary(primary, Slots) /\ JobsAreSound(jobs, Tiers)
      /\ Accounts(primary, gpuLoads, gpuStores, jobs, Tiers, pending) /\ ReadyHold(primary, data)
      /\ gpuLoads \in [Reqs -> SUBSET Keys]
  BY DEF Inv, Books, Copies, Engine, EngineTypes
<1>3. /\ IsPrimary(primary', Slots) /\ ReadyHold(primary', data)
      /\ Accounts(primary', gpuLoads', gpuStores, jobs, Tiers, pending)
  BY <1>1, <1>2, UnpinnedBlocks, ZenonT(60)
<1>4. Copies(primary', data, disk, running, finished, Tiers, Slots)
  BY <1>3 DEF Inv, Books, Copies
<1> QED  BY <1>1, <1>2, <1>3, <1>4, BooksNext DEF Inv, Books

\* A lookup asks for one of the keys of a request that waits.
LEMMA ScannedKey ==
    ASSUME Inv, ScanNow
    PROVE  /\ KeyToScan \in Keys /\ scan.req \in Reqs /\ phase[scan.req] = "waiting"
           /\ stage = "schedule" /\ scan.req \in DOMAIN workload.prompt
           /\ Chunks(scan.req) \in Nat /\ scan.i \in Nat /\ scan.hits \in Nat /\ scan \in Scans
           /\ scan.part = "prefix" => scan.i < Chunks(scan.req)
           /\ \A t \in Tiers : told[t][scan.req] = 0
<1> DEFINE r == scan.req
<1>1. /\ scan.part \in {"prefix", "tail"} /\ r \in Reqs /\ phase[r] = "waiting" /\ stage = "schedule"
      /\ scan.part = "prefix" => scan.i < Chunks(r)
      /\ scan.part = "tail" => TailKey(r) # NoKey
      /\ scan \in Scans /\ workload \in Workloads /\ LifeOf(r)
  BY DEF ScanNow, Inv, Engine, EngineTypes, ScanIsSound, Lives
<1>2. scan.i \in Nat /\ scan.hits \in Nat
  BY <1>1 DEF Scans
<1> HIDE DEF r
<1>3. r \in DOMAIN workload.prompt
  BY <1>1 DEF LifeOf
<1>4. /\ Prompt(r) \in Seq(Keys) /\ Chunks(r) \in Nat /\ TailKey(r) \in Keys \cup {NoKey}
      /\ Chunks(r) = Len(Prompt(r))
  BY <1>1, <1>3, WorkloadFacts DEF Chunks
<1>5. KeyToScan \in Keys
  <2>1. CASE scan.part = "prefix"
    <3>1. scan.i + 1 \in 1..Len(Prompt(r))
      BY <1>1, <1>2, <1>4, <2>1
    <3>2. Prompt(r)[scan.i + 1] \in Keys
      BY <1>4, <3>1
    <3> QED  BY <2>1, <3>2 DEF KeyToScan, r
  <2>2. CASE scan.part = "tail"
    BY <1>1, <1>4, <2>2 DEF KeyToScan, r
  <2> QED  BY <1>1, <2>1, <2>2
<1>6. \A t \in Tiers : told[t][r] = 0
  BY <1>1 DEF LifeOf
<1> QED  BY <1>1, <1>2, <1>3, <1>4, <1>5, <1>6 DEF r

\* The tier that a promotion comes from.
LEMMA HolderIsATier ==
    ASSUME workload \in Workloads, Holders # {}
    PROVE  Min(Holders) \in Tiers
<1>1. Holders \subseteq Tiers
  BY DEF Holders
<1>2. Holders \in (SUBSET Nat) \ {{}}
  BY <1>1, WorkloadFacts
<1>3. PICK H : H = Holders
  OBVIOUS
<1>4. Min(H) \in H
  BY <1>2, <1>3, MinIsLeast
<1> QED  BY <1>1, <1>3, <1>4

\* A lookup reserves a slot for a key that a tier holds.
LEMMA BooksPromoted ==
    ASSUME Inv, NEW evicted \in SUBSET Keys, LookupPromotes(evicted)
    PROVE  Books' /\ pending' \in [Tiers -> [Reqs -> Seq(Promise)]]
<1>1. PICK t, k, q, r :
         /\ t = Min(Holders) /\ k = KeyToScan /\ r = scan.req
         /\ q = Reserve(Evicted(PolledPrimary, evicted), <<k>>)
         /\ Holders # {} /\ evicted \in Victims(PolledPrimary, {k})
         /\ k \notin DOMAIN PolledPrimary /\ ScanNow /\ Poll
         /\ primary' = q
         /\ pending' = [pending EXCEPT ![t][r] = Append(@, [key |-> k, slot |-> q[k].slot])]
         /\ workload' = workload /\ gpuLoads' = gpuLoads /\ gpuStores' = gpuStores
         /\ offered' = offered /\ loadQ' = loadQ /\ storeQ' = storeQ /\ running' = running
         /\ data' = data /\ disk' = disk
  BY Zenon DEF LookupPromotes, AskSecondary, storageVars, boundVars, progressVars, gpuVars
<1>2. workload \in Workloads /\ pending \in [Tiers -> [Reqs -> Seq(Promise)]]
  BY DEF Inv, Engine, EngineTypes
<1>3. t \in Tiers /\ k \in Keys /\ r \in Reqs
  BY <1>1, <1>2, HolderIsATier, ScannedKey
<1>4. jobs' = PolledJobs /\ finished' = PolledFinished
  BY <1>1 DEF Poll, PolledJobs, PolledFinished
<1>5. /\ JobsAreSound(PolledJobs, Tiers)
      /\ Offers(PolledJobs, gpuStores, offered, workload.prompt)
      /\ Placed(PolledJobs, loadQ, storeQ, running, PolledFinished, Tiers)
      /\ Progress(data, running, PolledFinished, Tiers)
  BY PolledPlaces
<1>6. /\ IsPrimary(PolledPrimary, Slots)
      /\ Accounts(PolledPrimary, gpuLoads, gpuStores, PolledJobs, Tiers, pending)
      /\ ReadyHold(PolledPrimary, data)
  BY PolledAccounts
<1>7. /\ IsPrimary(q, Slots) /\ ReadyHold(q, data)
      /\ pending' \in [Tiers -> [Reqs -> Seq(Promise)]]
      /\ Accounts(q, gpuLoads, gpuStores, PolledJobs, Tiers, pending')
  BY <1>1, <1>2, <1>3, <1>5, <1>6, PromisedBlock, ZenonT(60)
<1>8. Copies(q, data, disk, running, PolledFinished, Tiers, Slots)
  BY <1>5, <1>7 DEF Inv, Books, Copies
<1>9. Books'
  BY <1>1, <1>4, <1>5, <1>7, <1>8, BooksNext
<1> QED  BY <1>7, <1>9

\* build_connector_meta submits the promotions.
LEMMA BooksFlushed ==
    ASSUME Inv, OnScheduleEnd
    PROVE  Books'
<1> DEFINE ks == PolledJobs \cup Promotions
           lq == [t \in Tiers |-> loadQ[t] \o SetToSeq(PromotionsOf(t))]
<1>1. /\ primary' = PolledPrimary /\ jobs' = ks /\ finished' = PolledFinished
      /\ loadQ' = lq /\ pending' = NoPromises
      /\ workload' = workload /\ gpuLoads' = gpuLoads /\ gpuStores' = gpuStores
      /\ offered' = offered /\ storeQ' = storeQ /\ running' = running
      /\ data' = data /\ disk' = disk
  BY Zenon DEF OnScheduleEnd, storageVars, boundVars, progressVars, gpuVars, PolledJobs,
               PolledFinished, Promotions, NoPromises
<1>2. workload \in Workloads /\ pending \in [Tiers -> [Reqs -> Seq(Promise)]]
  BY DEF Inv, Engine, EngineTypes
<1>3. /\ JobsAreSound(PolledJobs, Tiers)
      /\ Offers(PolledJobs, gpuStores, offered, workload.prompt)
      /\ Placed(PolledJobs, loadQ, storeQ, running, PolledFinished, Tiers)
      /\ Progress(data, running, PolledFinished, Tiers)
  BY PolledPlaces
<1>4. /\ IsPrimary(PolledPrimary, Slots)
      /\ Accounts(PolledPrimary, gpuLoads, gpuStores, PolledJobs, Tiers, pending)
      /\ ReadyHold(PolledPrimary, data)
  BY PolledAccounts
<1>5. /\ Accounts(PolledPrimary, gpuLoads, gpuStores, ks, Tiers, NoPromises)
      /\ JobsAreSound(ks, Tiers)
      /\ Promotions \cap PolledJobs = {} /\ IsFiniteSet(Promotions)
      /\ \A j \in Promotions : j \in Job(Tiers) /\ j.promotion
  BY <1>2, <1>3, <1>4, FlushedPromises
<1>6. Offers(ks, gpuStores, offered, workload.prompt)
  BY <1>3, <1>5 DEF Offers
<1>7. ASSUME NEW t \in Tiers
      PROVE  PlacedIn(JobsOf(ks, t), lq[t], storeQ[t], running[t], PolledFinished[t], Tiers)
  <2> DEFINE S == PromotionsOf(t)
             u == SetToSeq(S)
  <2>1. S = {j \in Promotions : j.tier = t}
    BY <1>2, PromotionsAreJobs
  <2>2. S \subseteq Promotions /\ IsFiniteSet(S)
    BY <1>5, <2>1, FS_Subset
  <2> HIDE DEF S
  <2>3. u \in Seq(S) /\ IsInjective(u) /\ Range(u) = S
    BY <2>2, SetAsList
  <2>4. S \subseteq Job(Tiers)
    BY <1>5, <2>2
  <2>5. u \in Seq(Job(Tiers))
    BY <2>3, <2>4
  <2>6. JobsOf(ks, t) = JobsOf(PolledJobs, t) \cup Range(u) /\ Range(u) \cap JobsOf(PolledJobs, t) = {}
    BY <1>5, <2>1, <2>3 DEF JobsOf
  <2>7. PlacedIn(JobsOf(PolledJobs, t), loadQ[t], storeQ[t], running[t], PolledFinished[t], Tiers)
    BY <1>3 DEF Placed
  <2>8. lq[t] = loadQ[t] \o u
    BY DEF S
  <2> HIDE DEF u, lq, ks
  <2>9. PlacedIn(JobsOf(PolledJobs, t) \cup Range(u), loadQ[t] \o u, storeQ[t], running[t],
                 PolledFinished[t], Tiers)
    BY <2>3, <2>5, <2>6, <2>7, Enqueued
  <2> QED  BY <2>6, <2>8, <2>9
<1>8. Placed(ks, lq, storeQ, running, PolledFinished, Tiers)
  BY <1>3, <1>7 DEF Placed
<1>9. Copies(PolledPrimary, data, disk, running, PolledFinished, Tiers, Slots)
  BY <1>3, <1>4 DEF Inv, Books, Copies
<1> HIDE DEF ks, lq
<1> QED  BY <1>1, <1>4, <1>5, <1>6, <1>8, <1>9, BooksNext

\* A finite set put in an order that something else chose.
LEMMA ChosenOrder ==
    ASSUME NEW S, IsFiniteSet(S), NEW o \in SetToSeqs(S)
    PROVE  /\ o \in Seq(S) /\ IsInjective(o) /\ Range(o) = S
           /\ S # {} => Len(o) > 0
<1> DEFINE n == Cardinality(S)
<1>1. n \in Nat
  BY FS_CardinalityType
<1>2. o \in [1..n -> S] /\ \A i, j \in 1..n : o[i] = o[j] => i = j
  BY DEF SetToSeqs
<1> HIDE DEF n
<1>3. o \in Seq(S) /\ Len(o) = n /\ DOMAIN o = 1..n
  BY <1>1, <1>2, FunctionIsList
<1>4. IsInjective(o)
  BY <1>2, <1>3 DEF IsInjective
<1>5. o \in Injection(1..n, S)
  BY <1>2, <1>4 DEF Injection
<1>6. IsFiniteSet(1..n) /\ Cardinality(1..n) = n
  BY <1>1, FS_Interval
<1>7. Cardinality(1..n) = Cardinality(S)
  BY <1>6 DEF n
<1>8. o \in Surjection(1..n, S)
  BY <1>5, <1>7, FS_Injection
<1>9. Range(o) = S
  BY <1>2, <1>8 DEF Surjection, Range
<1>10. S # {} => Len(o) > 0
  BY <1>1, <1>3, <1>9 DEF Range
<1> QED  BY <1>3, <1>4, <1>9, <1>10

\* Each tier queues its cascade.
CascadesQueued(sq, z, tiers, r, keys, slots) ==
    z = [t \in Tiers |-> IF t \in tiers THEN Append(sq[t], Transfer(t, r, FALSE, keys, slots)) ELSE sq[t]]

\* Each cascade is in the queue of its tier.
LEMMA CascadesPlaced ==
    ASSUME NEW js, NEW lq, NEW sq, NEW ru, NEW fi, Placed(js, lq, sq, ru, fi, Tiers),
           NEW tiers \in SUBSET Tiers, NEW r, NEW keys, NEW slots,
           CascadesAreNew(js, CascadesTo(tiers, r, keys, slots), tiers, keys),
           NEW z, CascadesQueued(sq, z, tiers, r, keys, slots),
           NEW ks, ks = js \cup CascadesTo(tiers, r, keys, slots)
    PROVE  Placed(ks, lq, z, ru, fi, Tiers)
<1> DEFINE C == CascadesTo(tiers, r, keys, slots)
           c(t) == Transfer(t, r, FALSE, keys, slots)
<1>1. /\ DOMAIN lq = Tiers /\ DOMAIN sq = Tiers /\ DOMAIN ru = Tiers /\ DOMAIN fi = Tiers
      /\ \A t \in Tiers : PlacedIn(JobsOf(js, t), lq[t], sq[t], ru[t], fi[t], Tiers)
  BY DEF Placed
<1>2. C \cap js = {} /\ C \subseteq Job(Tiers)
  BY DEF CascadesAreNew
<1>3. DOMAIN z = Tiers /\ \A t \in Tiers : z[t] = IF t \in tiers THEN Append(sq[t], c(t)) ELSE sq[t]
  BY DEF CascadesQueued
<1>4. \A t : c(t).tier = t
  BY DEF Transfer
<1>5. C = {c(t) : t \in tiers}
  BY DEF CascadesTo
<1>6. ASSUME NEW t \in Tiers PROVE PlacedIn(JobsOf(ks, t), lq[t], z[t], ru[t], fi[t], Tiers)
  <2>1. CASE t \in tiers
    <3>1. JobsOf(ks, t) = JobsOf(js, t) \cup {c(t)}
      BY <1>4, <1>5, <2>1 DEF JobsOf
    <3>2. c(t) \in Job(Tiers) /\ c(t) \notin JobsOf(js, t)
      BY <1>2, <1>5, <2>1 DEF JobsOf
    <3>3. PICK j : j = c(t)
      OBVIOUS
    <3>4. PlacedIn(JobsOf(js, t) \cup {j}, lq[t], Append(sq[t], j), ru[t], fi[t], Tiers)
      BY <1>1, <3>2, <3>3, OneEnqueued
    <3> QED  BY <1>3, <2>1, <3>1, <3>3, <3>4
  <2>2. CASE t \notin tiers
    <3>1. JobsOf(ks, t) = JobsOf(js, t)
      BY <1>4, <1>5, <2>2 DEF JobsOf
    <3> QED  BY <1>1, <1>3, <2>2, <3>1
  <2> QED  BY <2>1, <2>2
<1> QED  BY <1>1, <1>3, <1>6 DEF Placed

\* What the slots hold after a GPU store: its keys' KV in their slots.
StoresInto(p, q, keys, order, slots, d, e) ==
    /\ keys \in SUBSET DOMAIN p /\ DOMAIN q = DOMAIN p /\ \A k \in DOMAIN p : q[k].slot = p[k].slot
    /\ order \in Seq(keys) /\ Range(order) = keys /\ slots = SlotsOf(q, order)
    /\ e = [s \in Slots |-> IF \E i \in DOMAIN slots : slots[i] = s
                            THEN order[CHOOSE i \in DOMAIN slots : slots[i] = s]
                            ELSE d[s]]

\* What the worker copied is where the store has its blocks, and nothing else changes.
LEMMA StoredData ==
    ASSUME NEW p, IsPrimary(p, Slots), SlotsDiffer(p), NEW d \in [Slots -> Keys \cup {Garbage}],
           NEW q, NEW keys, NEW order, NEW slots, NEW e,
           StoresInto(p, q, keys, order, slots, d, e)
    PROVE  e \in [Slots -> Keys \cup {Garbage}] /\ StoreDoneWell(p, d, e, keys)
<1> USE DEF StoresInto
<1>1. /\ DOMAIN slots = DOMAIN order
      /\ \A i \in DOMAIN order : order[i] \in keys /\ slots[i] = p[order[i]].slot
  <2>1. \A i \in DOMAIN order : order[i] \in keys
    OBVIOUS
  <2> QED  BY <2>1 DEF SlotsOf
<1>2. \A k \in DOMAIN p : k \in Keys /\ p[k].slot \in Slots
  BY DEF IsPrimary
<1>3. ASSUME NEW s \in Slots, \E i \in DOMAIN slots : slots[i] = s
      PROVE  e[s] \in keys /\ p[e[s]].slot = s
  <2> DEFINE i == CHOOSE x \in DOMAIN slots : slots[x] = s
  <2>1. i \in DOMAIN slots /\ slots[i] = s
    BY <1>3
  <2>2. e[s] = order[i]
    BY <1>3
  <2> HIDE DEF i
  <2> QED  BY <1>1, <2>1, <2>2
<1>4. \A s \in Slots : ~(\E i \in DOMAIN slots : slots[i] = s) => e[s] = d[s]
  OBVIOUS
<1>5. e \in [Slots -> Keys \cup {Garbage}]
  <2>1. \A s \in Slots : e[s] \in Keys \cup {Garbage}
    BY <1>2, <1>3, <1>4
  <2>2. e = [s \in Slots |-> e[s]]
    OBVIOUS
  <2> QED  BY <2>1, <2>2
<1>6. ASSUME NEW k \in DOMAIN p
      PROVE  e[p[k].slot] = IF k \in keys THEN k ELSE d[p[k].slot]
  <2> DEFINE s == p[k].slot
  <2>1. s \in Slots
    BY <1>2
  <2>2. CASE k \in keys
    <3>1. PICK i \in DOMAIN order : order[i] = k
      BY <2>2 DEF Range
    <3>2. i \in DOMAIN slots /\ slots[i] = s
      BY <1>1, <3>1
    <3>3. e[s] \in keys /\ p[e[s]].slot = s
      BY <1>3, <2>1, <3>2
    <3>4. e[s] = k
      BY <3>3 DEF SlotsDiffer
    <3> QED  BY <2>2, <3>4
  <2>3. CASE k \notin keys
    <3>1. ~(\E i \in DOMAIN slots : slots[i] = s)
      BY <1>1, <2>3 DEF SlotsDiffer
    <3> QED  BY <1>4, <2>1, <2>3, <3>1
  <2> QED  BY <2>2, <2>3
<1> QED  BY <1>5, <1>6 DEF StoreDoneWell

\* complete_store cascades what was stored to every tier.
LEMMA BooksStored ==
    ASSUME Inv, NEW r \in Reqs, NEW keys \in gpuStores[r], NEW order \in SetToSeqs(keys),
           CompleteStore(r, keys, order)
    PROVE  Books'
<1>1. PICK p, slots :
         /\ p = Written(primary, keys) /\ slots = SlotsOf(p, order)
         /\ data' = [s \in Slots |-> IF \E i \in DOMAIN slots : slots[i] = s
                                     THEN order[CHOOSE i \in DOMAIN slots : slots[i] = s]
                                     ELSE data[s]]
         /\ primary' = [k \in DOMAIN p |-> IF k \in keys THEN [p[k] EXCEPT !.ref = @ + CascadePins] ELSE p[k]]
         /\ jobs' = jobs \cup {Transfer(t, r, FALSE, order, slots) : t \in Tiers}
         /\ storeQ' = [t \in Tiers |-> Append(storeQ[t], Transfer(t, r, FALSE, order, slots))]
         /\ gpuStores' = [gpuStores EXCEPT ![r] = @ \ {keys}]
         /\ workload' = workload /\ gpuLoads' = gpuLoads /\ pending' = pending
         /\ offered' = offered /\ loadQ' = loadQ /\ running' = running /\ finished' = finished
         /\ disk' = disk
  BY Zenon DEF CompleteStore, boundVars, progressVars
<1>2. /\ workload \in Workloads /\ gpuStores \in [Reqs -> SUBSET SUBSET Keys]
      /\ IsPrimary(primary, Slots) /\ JobsAreSound(jobs, Tiers)
      /\ Accounts(primary, gpuLoads, gpuStores, jobs, Tiers, pending)
      /\ ReadyHold(primary, data) /\ data \in [Slots -> Keys \cup {Garbage}]
      /\ Placed(jobs, loadQ, storeQ, running, finished, Tiers)
      /\ Offers(jobs, gpuStores, offered, workload.prompt)
      /\ DiskHolds(disk, Tiers) /\ Progress(data, running, finished, Tiers)
  BY DEF Inv, Books, Copies, Engine, EngineTypes
<1>3. /\ SlotsDiffer(primary) /\ StoresDiffer(gpuStores) /\ LocatedJobs(primary, jobs)
      /\ Counted(primary, gpuLoads, gpuStores, jobs, Tiers, pending)
  BY <1>2 DEF Accounts
<1>4. keys \subseteq Keys /\ keys # {}
  <2>1. gpuStores[r] \in SUBSET SUBSET Keys
    BY <1>2
  <2>2. {} \notin gpuStores[r]
    BY <1>3 DEF StoresDiffer
  <2> QED  BY <2>1, <2>2
<1>5. keys \subseteq DOMAIN primary
  <2> SUFFICES ASSUME NEW k \in keys PROVE k \in DOMAIN primary
    OBVIOUS
  <2>1. r \in Storing(gpuStores, k)
    BY DEF Storing
  <2>2. Exact(primary, k, Loading(gpuLoads, k), Reading(jobs, k), Storing(gpuStores, k),
              Filling(jobs, k), Promised(Tiers, pending, k))
    BY <1>3, <1>4 DEF Counted
  <2> QED  BY <2>1, <2>2 DEF Exact
<1>6. IsFiniteSet(keys)
  BY <1>2, <1>3, <1>5, PrimaryIsFinite, FS_Subset
<1>7. order \in Seq(keys) /\ IsInjective(order) /\ Range(order) = keys /\ Len(order) > 0
  BY <1>4, <1>6, ChosenOrder
<1>8. DOMAIN p = DOMAIN primary /\ \A k \in DOMAIN primary : p[k].slot = primary[k].slot
  <2>1. \A k \in DOMAIN primary : primary[k] \in [ref : Nat \cup {-1}, slot : Slots]
    BY <1>2 DEF IsPrimary
  <2> QED  BY <1>1, <2>1 DEF Written
<1>9. data' \in [Slots -> Keys \cup {Garbage}] /\ StoreDoneWell(primary, data, data', keys)
  <2>1. StoresInto(primary, p, keys, order, slots, data, data')
    BY <1>1, <1>5, <1>7, <1>8 DEF StoresInto
  <2> QED  BY <1>2, <1>3, <2>1, StoredData
<1>10. /\ IsPrimary(p, Slots) /\ ReadyHold(p, data')
       /\ Accounts(p, gpuLoads, gpuStores', jobs, Tiers, pending)
       /\ NowReady(primary, p, jobs, keys)
  <2>1. StoreEnds(primary, p, gpuStores, gpuStores', r, keys, data, data')
    BY <1>1, <1>9 DEF StoreEnds
  <2> QED  BY <1>2, <2>1, WrittenBlocks
<1>11. Tiers \subseteq Tiers /\ Cardinality(Tiers) = CascadePins /\ IsFiniteSet(Tiers)
  BY <1>2, WorkloadFacts DEF CascadePins
<1>12. CanCascade(p, jobs, Tiers, r, order, slots)
  <2>1. order \in Seq(Keys)
    BY <1>4, <1>7
  <2>2. \A k \in Range(order) : k \in DOMAIN p /\ p[k].ref >= 0
    BY <1>7, <1>10 DEF NowReady
  <2>3. ASSUME NEW t \in Tiers, Transfer(t, r, FALSE, order, slots) \in jobs PROVE FALSE
    <3>1. order[1] \in keys
      BY <1>7
    <3>2. Transfer(t, r, FALSE, order, slots) \in Reading(jobs, order[1])
      BY <1>7, <2>3 DEF Reading, Transfer, Range
    <3> QED  BY <1>10, <3>1, <3>2 DEF NowReady
  <2> QED  BY <1>1, <1>7, <2>1, <2>2, <2>3 DEF CanCascade
<1>13. /\ primary' = PinnedFor(p, Range(order), Cardinality(Tiers))
       /\ jobs' = jobs \cup CascadesTo(Tiers, r, order, slots)
  BY <1>1, <1>7, <1>11 DEF PinnedFor, CascadesTo
<1>14. /\ IsPrimary(primary', Slots) /\ ReadyHold(primary', data')
       /\ JobsAreSound(jobs', Tiers) /\ Accounts(primary', gpuLoads, gpuStores', jobs', Tiers, pending)
  <2>1. CascadesStart(p, primary', jobs, jobs', Tiers, r, order, slots)
    BY <1>12, <1>13 DEF CascadesStart
  <2> QED  BY <1>2, <1>10, <2>1, CascadedBlocks
<1>15. CascadesAreNew(jobs, CascadesTo(Tiers, r, order, slots), Tiers, order)
  BY <1>2, <1>10, <1>12, NewCascades
<1>16. Placed(jobs', loadQ, storeQ', running, finished, Tiers)
  <2>1. CascadesQueued(storeQ, storeQ', Tiers, r, order, slots)
    BY <1>1 DEF CascadesQueued
  <2> QED  BY <1>2, <1>13, <1>15, <2>1, CascadesPlaced
<1>17. Offers(jobs', gpuStores', offered, workload.prompt)
  <2>1. \A x \in Reqs : gpuStores'[x] \subseteq gpuStores[x]
    BY <1>1, <1>2
  <2>2. keys \subseteq OfferedKeys(r, offered, workload.prompt)
    BY <1>2 DEF Offers
  <2>3. ASSUME NEW j \in CascadesTo(Tiers, r, order, slots)
        PROVE  Range(j.keys) \subseteq OfferedKeys(j.req, offered, workload.prompt)
    BY <1>7, <2>2 DEF CascadesTo, Transfer
  <2> QED  BY <1>2, <1>13, <2>1, <2>3 DEF Offers
<1>18. Progress(data', running, finished, Tiers)
  <2>1. ASSUME NEW j \in jobs, j.promotion, NEW i \in DOMAIN j.keys
        PROVE  data'[j.slots[i]] = data[j.slots[i]]
    <3>1. j.keys[i] \in DOMAIN primary /\ j.slots[i] = primary[j.keys[i]].slot
      BY <1>3 DEF LocatedJobs
    <3>2. j \in Filling(jobs, j.keys[i])
      BY <2>1 DEF Filling, Range
    <3>3. j.keys[i] \notin keys
      BY <1>10, <3>2 DEF NowReady
    <3> QED  BY <1>9, <3>1, <3>3 DEF StoreDoneWell
  <2>2. ASSUME NEW j \in jobs, j.promotion, NEW n \in Nat, n <= Len(j.keys),
               \A i \in 1..n : data[j.slots[i]] = j.keys[i]
        PROVE  \A i \in 1..n : data'[j.slots[i]] = j.keys[i]
    <3>1. j.keys \in Seq(Keys)
      BY <1>2 DEF JobsAreSound, Job
    <3>2. \A i \in 1..n : i \in DOMAIN j.keys
      BY <2>2, <3>1
    <3> QED  BY <2>1, <2>2, <3>2
  <2>3. ASSUME NEW t \in Tiers
        PROVE  /\ \A v \in running[t] : v.n < Len(v.job.keys) /\ CopiedTo(data', v)
               /\ \A f \in finished[t] : f.n <= Len(f.job.keys) /\ CopiedTo(data', f)
    <3>1. PlacedIn(JobsOf(jobs, t), loadQ[t], storeQ[t], running[t], finished[t], Tiers)
      BY <1>2 DEF Placed
    <3>2. /\ \A v \in running[t] : v.n < Len(v.job.keys) /\ CopiedTo(data, v)
          /\ \A f \in finished[t] : f.n <= Len(f.job.keys) /\ CopiedTo(data, f)
      BY <1>2 DEF Progress
    <3>3. ASSUME NEW v \in running[t] PROVE CopiedTo(data', v)
      <4>1. v.job \in jobs /\ v.n \in Nat /\ v.n < Len(v.job.keys)
        BY RunningJob
      <4>2. v.n <= Len(v.job.keys)
        BY <1>2, <4>1 DEF JobsAreSound, Job
      <4> QED  BY <2>2, <3>2, <4>1, <4>2 DEF CopiedTo
    <3>4. ASSUME NEW f \in finished[t] PROVE CopiedTo(data', f)
      <4>1. f \in Ending(Tiers) /\ f.job \in JobsOf(jobs, t)
        BY <3>1 DEF PlacedIn, Over
      <4>2. f.job \in jobs /\ f.n \in Nat
        BY <4>1 DEF JobsOf, Ending
      <4> QED  BY <2>2, <3>2, <4>2 DEF CopiedTo
    <3> QED  BY <3>2, <3>3, <3>4
  <2> QED  BY <2>3 DEF Progress
<1>19. Copies(primary', data', disk, running, finished, Tiers, Slots)
  BY <1>2, <1>9, <1>14, <1>18 DEF Copies
<1> QED  BY <1>1, <1>14, <1>16, <1>17, <1>19, BooksNext

\* The chunks that a request offers next, none of which it has offered before.
LEMMA NextChunks ==
    ASSUME Inv, NEW r \in Reqs, InMeta(r), NEW upto,
           upto \in computed[r]..(IF phase[r] = "running" THEN Chunks(r) ELSE computed[r])
    PROVE  /\ r \in DOMAIN workload.prompt /\ upto \in Nat /\ upto <= Chunks(r)
           /\ upto > offered[r] =>
                 /\ ToOffer(r, upto) \in Seq(Keys) /\ IsInjective(ToOffer(r, upto))
                 /\ IsFiniteSet(Range(ToOffer(r, upto)))
                 /\ \A k \in Range(ToOffer(r, upto)) : \E i \in 1..upto : k = workload.prompt[r][i]
                 /\ Range(ToOffer(r, upto)) \cap OfferedKeys(r, offered, workload.prompt) = {}
<1> DEFINE s == workload.prompt[r]
           a == offered[r]
<1>1. /\ phase[r] \in {"running", "finished"} /\ LifeOf(r) /\ workload \in Workloads
      /\ computed[r] \in Nat /\ a \in Nat
  BY DEF InMeta, Inv, Engine, EngineTypes, Lives
<1>2. r \in DOMAIN workload.prompt /\ computed[r] <= Chunks(r)
  BY <1>1 DEF LifeOf
<1>3. s \in Seq(Keys) /\ IsInjective(s) /\ Chunks(r) \in Nat /\ Chunks(r) = Len(s)
  BY <1>1, <1>2, WorkloadFacts DEF Prompt, Chunks
<1>4. upto \in Nat /\ upto <= Len(s)
  BY <1>1, <1>2, <1>3
<1>5. ToOffer(r, upto) = SubSeq(s, a + 1, upto)
  BY DEF ToOffer, Prompt
<1> HIDE DEF s, a
<1>6. ASSUME upto > a
      PROVE  /\ ToOffer(r, upto) \in Seq(Keys) /\ IsInjective(ToOffer(r, upto))
             /\ IsFiniteSet(Range(ToOffer(r, upto)))
             /\ \A k \in Range(ToOffer(r, upto)) : \E i \in 1..upto : k = s[i]
             /\ \A k \in Range(ToOffer(r, upto)) : ~(\E i \in 1..a : k = s[i])
  <2> DEFINE u == SubSeq(s, a + 1, upto)
             n == upto - a
  <2>1. n \in Nat /\ n > 0 /\ a + n = upto
    BY <1>1, <1>4, <1>6 DEF a
  <2>2. u \in Seq(Keys) /\ Len(u) = n
    BY <1>1, <1>3, <1>4, <2>1, SMTT(60) DEF a
  <2>3. DOMAIN u = 1..n /\ \A i \in 1..n : u[i] = s[a + i] /\ a + i \in DOMAIN s /\ a + i \in 1..upto
    <3>1. DOMAIN u = 1..n
      BY <2>2
    <3>2. \A i \in 1..n : a + i \in DOMAIN s /\ a + i \in 1..upto
      BY <1>1, <1>3, <1>4, <2>1 DEF a
    <3>3. \A i \in 1..n : u[i] = s[a + i]
      BY <1>1, <1>3, <1>4, <2>1 DEF a
    <3> QED  BY <3>1, <3>2, <3>3
  <2> HIDE DEF u, n
  <2>4. \A i, j \in DOMAIN s : s[i] = s[j] => i = j
    BY <1>3 DEF IsInjective
  <2>5. IsInjective(u)
    <3> SUFFICES ASSUME NEW i \in DOMAIN u, NEW j \in DOMAIN u, u[i] = u[j] PROVE i = j
      BY DEF IsInjective
    <3>1. a + i = a + j
      BY <2>3, <2>4
    <3> QED  BY <1>1, <2>1, <2>3, <3>1 DEF a
  <2>6. IsFiniteSet(Range(u))
    BY <2>2, <2>5, LengthIsCount
  <2>7. \A k \in Range(u) : \E i \in 1..n : k = s[a + i] /\ a + i \in DOMAIN s /\ a + i \in 1..upto
    BY <2>3 DEF Range
  <2>8. \A k \in Range(u) : \E i \in 1..upto : k = s[i]
    BY <2>7
  <2>9. ASSUME NEW k \in Range(u), NEW i \in 1..a, k = s[i] PROVE FALSE
    <3>1. PICK m \in 1..n : k = s[a + m] /\ a + m \in DOMAIN s
      BY <2>7
    <3>2. i \in DOMAIN s
      BY <1>1, <1>3, <1>4, <1>6 DEF a
    <3>3. i = a + m
      BY <2>4, <2>9, <3>1, <3>2
    <3> QED  BY <1>1, <2>1, <3>3 DEF a
  <2> QED  BY <1>5, <2>2, <2>5, <2>6, <2>8, <2>9 DEF u
<1> QED  BY <1>2, <1>3, <1>4, <1>6 DEF OfferedKeys, s, a

\* prepare_store: what a step that offers new chunks does.
LEMMA BooksOffered ==
    ASSUME Inv, NEW r \in Reqs, NEW upto, NEW evicted \in SUBSET Keys, BuildStore(r, upto, evicted)
    PROVE  /\ Books'
           /\ \/ gpuStores' = gpuStores /\ reqState' = reqState
              \/ \E b \in SUBSET Keys : /\ b \notin gpuStores[r]
                                        /\ gpuStores' = [gpuStores EXCEPT ![r] = @ \cup {b}]
                                        /\ reqState' = [reqState EXCEPT ![r].stores = @ + 1]
<1> DEFINE keys == ToOffer(r, upto)
           new == Without(keys, DOMAIN PolledPrimary)
           p == Reserve(Evicted(PolledPrimary, evicted), new)
           old == Within(keys, {k \in DOMAIN p : Ready(p, k)})
           tiers == IF old = <<>> THEN {} ELSE RequestLevel[r] \cap Tiers
           slots == SlotsOf(p, old)
<1>0. /\ keys = ToOffer(r, upto) /\ new = Without(keys, DOMAIN PolledPrimary)
      /\ p = Reserve(Evicted(PolledPrimary, evicted), new)
      /\ old = Within(keys, {k \in DOMAIN p : Ready(p, k)})
      /\ tiers = IF old = <<>> THEN {} ELSE RequestLevel[r] \cap Tiers
      /\ slots = SlotsOf(p, old)
  OBVIOUS
<1>1.    /\ InMeta(r)
         /\ upto \in computed[r]..(IF phase[r] = "running" THEN Chunks(r) ELSE computed[r])
         /\ upto > offered[r] /\ evicted \in Victims(PolledPrimary, Range(keys))
         /\ primary' = PinnedFor(p, Range(old), Cardinality(tiers))
         /\ jobs' = PolledJobs \cup CascadesTo(tiers, r, old, slots)
         /\ finished' = PolledFinished
         /\ storeQ' = [t \in Tiers |-> IF t \in tiers
                                       THEN Append(storeQ[t], Transfer(t, r, FALSE, old, slots))
                                       ELSE storeQ[t]]
         /\ gpuStores' = [gpuStores EXCEPT ![r] = IF new = <<>> THEN @ ELSE @ \cup {Range(new)}]
         /\ reqState' = [reqState EXCEPT ![r].stores = IF new = <<>> THEN @ ELSE @ + 1]
         /\ offered' = [offered EXCEPT ![r] = upto]
         /\ workload' = workload /\ gpuLoads' = gpuLoads /\ pending' = pending
         /\ loadQ' = loadQ /\ running' = running /\ data' = data /\ disk' = disk
  BY Zenon DEF BuildStore, boundVars, storageVars, PinnedFor, PolledJobs, PolledFinished, CascadesTo
<1> HIDE DEF keys, new, p, old, tiers, slots
<1>2. /\ workload \in Workloads /\ gpuStores \in [Reqs -> SUBSET SUBSET Keys]
      /\ offered \in [Reqs -> Nat]
      /\ reqState \in [DOMAIN reqState -> [stores : Nat, finished : BOOLEAN]]
  BY DEF Inv, Engine, EngineTypes
<1>3. /\ JobsAreSound(PolledJobs, Tiers)
      /\ Offers(PolledJobs, gpuStores, offered, workload.prompt)
      /\ Placed(PolledJobs, loadQ, storeQ, running, PolledFinished, Tiers)
      /\ Progress(data, running, PolledFinished, Tiers)
  BY PolledPlaces
<1>4. /\ IsPrimary(PolledPrimary, Slots)
      /\ Accounts(PolledPrimary, gpuLoads, gpuStores, PolledJobs, Tiers, pending)
      /\ ReadyHold(PolledPrimary, data)
  BY PolledAccounts
<1>5. /\ keys \in Seq(Keys) /\ IsInjective(keys) /\ IsFiniteSet(Range(keys)) /\ upto \in Nat
      /\ \A k \in Range(keys) : \E i \in 1..upto : k = workload.prompt[r][i]
      /\ Range(keys) \cap OfferedKeys(r, offered, workload.prompt) = {}
  BY <1>0, <1>1, NextChunks
<1>6. /\ new \in Seq(Keys) /\ IsInjective(new) /\ Range(new) = Range(keys) \ DOMAIN PolledPrimary
  BY <1>0, <1>5, WithoutKeys
<1>7. /\ old \in Seq(Keys) /\ IsInjective(old)
      /\ Range(old) = Range(keys) \cap {k \in DOMAIN p : Ready(p, k)}
  <2>1. PICK S : S = {k \in DOMAIN p : Ready(p, k)}
    OBVIOUS
  <2>2. /\ Within(keys, S) \in Seq(Keys) /\ IsInjective(Within(keys, S))
        /\ Range(Within(keys, S)) = Range(keys) \cap S
    BY <1>5, WithinKeys
  <2> QED  BY <1>0, <2>1, <2>2
<1>8. Reservation(PolledPrimary, p, Range(keys), evicted, new)
  <2>1. Range(keys) \in SUBSET Keys
    BY <1>5 DEF Range
  <2> QED  BY <1>0, <1>1, <1>5, <1>6, <2>1 DEF Reservation
<1>9. /\ IsPrimary(p, Slots) /\ ReadyHold(p, data)
      /\ Accounts(p, gpuLoads, gpuStores', PolledJobs, Tiers, pending)
      /\ new # <<>> => Range(new) \notin gpuStores[r]
  <2>1. StoreStarts(gpuStores, gpuStores', r, new)
    BY <1>1 DEF StoreStarts
  <2>2. gpuStores \in [Reqs -> SUBSET SUBSET Keys]
    BY <1>2
  <2> QED  BY <1>2, <1>3, <1>4, <1>8, <2>1, <2>2, OfferedBlocks
<1>10. CanCascade(p, PolledJobs, tiers, r, old, slots)
  <2>1. tiers \subseteq Tiers /\ (tiers # {} => Len(old) > 0)
    <3>1. old # <<>> => Len(old) > 0
      BY <1>7
    <3> QED  BY <1>0, <3>1
  <2>2. \A k \in Range(old) : k \in DOMAIN p /\ p[k].ref >= 0
    BY <1>7 DEF Ready
  <2>3. ASSUME NEW t \in tiers, Transfer(t, r, FALSE, old, slots) \in PolledJobs PROVE FALSE
    <3>1. Range(old) \subseteq OfferedKeys(r, offered, workload.prompt)
      BY <1>3, <2>3 DEF Offers, Transfer
    <3>2. old[1] \in Range(old)
      BY <1>7, <2>1, <2>3 DEF Range
    <3> QED  BY <1>5, <1>7, <3>1, <3>2
  <2> QED  BY <1>0, <1>7, <2>1, <2>2, <2>3 DEF CanCascade
<1>11. /\ IsPrimary(primary', Slots) /\ ReadyHold(primary', data)
       /\ JobsAreSound(jobs', Tiers) /\ Accounts(primary', gpuLoads, gpuStores', jobs', Tiers, pending)
  <2>1. CascadesStart(p, primary', PolledJobs, jobs', tiers, r, old, slots)
    BY <1>1, <1>10 DEF CascadesStart
  <2> QED  BY <1>2, <1>3, <1>9, <2>1, CascadedBlocks
<1>12. CascadesAreNew(PolledJobs, CascadesTo(tiers, r, old, slots), tiers, old)
  BY <1>2, <1>9, <1>10, NewCascades
<1>13. Placed(jobs', loadQ, storeQ', running, PolledFinished, Tiers)
  <2>1. CascadesQueued(storeQ, storeQ', tiers, r, old, slots)
    BY <1>1 DEF CascadesQueued
  <2>2. tiers \in SUBSET Tiers
    BY <1>10 DEF CanCascade
  <2> QED  BY <1>1, <1>3, <1>12, <2>1, <2>2, CascadesPlaced
<1>14. Offers(jobs', gpuStores', offered', workload.prompt)
  <2>1. ASSUME NEW x \in Reqs
        PROVE  OfferedKeys(x, offered, workload.prompt) \subseteq OfferedKeys(x, offered', workload.prompt)
    <3>1. CASE x = r
      <4>1. offered'[r] = upto /\ offered[r] \in Nat /\ upto \in Nat /\ upto > offered[r]
        BY <1>1, <1>2, <1>5
      <4>2. \A i \in 1..offered[r] : i \in 1..offered'[r]
        BY <4>1
      <4> QED  BY <3>1, <4>2 DEF OfferedKeys
    <3>2. CASE x # r
      BY <1>1, <1>2, <3>2 DEF OfferedKeys
    <3> QED  BY <3>1, <3>2
  <2>2. Range(keys) \subseteq OfferedKeys(r, offered', workload.prompt)
    <3>1. offered'[r] = upto
      BY <1>1, <1>2
    <3> QED  BY <1>5, <3>1 DEF OfferedKeys
  <2>3. ASSUME NEW j \in jobs', ~j.promotion
        PROVE  Range(j.keys) \subseteq OfferedKeys(j.req, offered', workload.prompt)
    <3>1. CASE j \in PolledJobs
      <4>1. j.req \in Reqs
        BY <1>3, <3>1 DEF JobsAreSound, Job
      <4> QED  BY <1>3, <2>1, <2>3, <3>1, <4>1 DEF Offers
    <3>2. CASE j \in CascadesTo(tiers, r, old, slots)
      BY <1>7, <2>2, <3>2 DEF CascadesTo, Transfer
    <3> QED  BY <1>1, <3>1, <3>2
  <2>4. ASSUME NEW x \in Reqs, NEW b \in gpuStores'[x]
        PROVE  b \subseteq OfferedKeys(x, offered', workload.prompt)
    <3>1. b \in gpuStores[x] \/ (x = r /\ b = Range(new))
      BY <1>1, <1>2
    <3>2. CASE b \in gpuStores[x]
      BY <1>3, <2>1, <3>2 DEF Offers
    <3>3. CASE x = r /\ b = Range(new)
      BY <1>6, <2>2, <3>3
    <3> QED  BY <3>1, <3>2, <3>3
  <2> QED  BY <2>3, <2>4 DEF Offers
<1>15. Copies(primary', data, disk, running, PolledFinished, Tiers, Slots)
  BY <1>3, <1>11 DEF Inv, Books, Copies
<1>16. Books'
  BY <1>1, <1>11, <1>13, <1>14, <1>15, BooksNext
<1>17. \/ gpuStores' = gpuStores /\ reqState' = reqState
       \/ \E b \in SUBSET Keys : /\ b \notin gpuStores[r]
                                 /\ gpuStores' = [gpuStores EXCEPT ![r] = @ \cup {b}]
                                 /\ reqState' = [reqState EXCEPT ![r].stores = @ + 1]
  <2>1. CASE new = <<>>
    <3>1. gpuStores' = [gpuStores EXCEPT ![r] = @] /\ reqState' = [reqState EXCEPT ![r].stores = @]
      BY <1>1, <2>1
    <3>2. [gpuStores EXCEPT ![r] = @] = gpuStores
      BY <1>2
    <3>3. [reqState EXCEPT ![r].stores = @] = reqState
      BY <1>2
    <3> QED  BY <3>1, <3>2, <3>3
  <2>2. CASE new # <<>>
    <3>1. Range(new) \in SUBSET Keys
      BY <1>6 DEF Range
    <3> QED  BY <1>1, <1>9, <2>2, <3>1
  <2> QED  BY <2>1, <2>2
<1> QED  BY <1>16, <1>17

\* When the pools are idle every job is one of those that ended.
LEMMA BooksReset ==
    ASSUME Inv, ResetCache
    PROVE  Books'
<1>1. /\ \A t \in Tiers : Pool!PoolIdle(t)
      /\ primary' = [k \in {} |-> [ref |-> 0, slot |-> 0]]
      /\ jobs' = jobs \ (UNION {{f.job : f \in finished[t]} : t \in Tiers})
      /\ finished' = [t \in Tiers |-> {}]
      /\ pending' = [t \in Tiers |-> [r \in Reqs |-> <<>>]]
      /\ gpuLoads' = [r \in Reqs |-> {}] /\ gpuStores' = [r \in Reqs |-> {}]
      /\ workload' = workload /\ loadQ' = loadQ /\ storeQ' = storeQ /\ running' = running
      /\ data' = data /\ disk' = disk
  BY Zenon DEF ResetCache, storageVars, boundVars
<1>2. /\ JobsAreSound(jobs, Tiers)
      /\ Placed(jobs, loadQ, storeQ, running, finished, Tiers)
      /\ data \in [Slots -> Keys \cup {Garbage}] /\ DiskHolds(disk, Tiers)
  BY DEF Inv, Books, Copies
<1>3. ASSUME NEW t \in Tiers
      PROVE  /\ loadQ[t] = <<>> /\ storeQ[t] = <<>> /\ running[t] = {}
             /\ JobsOf(jobs, t) = Over(finished[t])
  <2>1. loadQ[t] = <<>> /\ storeQ[t] = <<>> /\ running[t] = {}
    BY <1>1 DEF Pool!PoolIdle
  <2>2. PlacedIn(JobsOf(jobs, t), loadQ[t], storeQ[t], running[t], finished[t], Tiers)
    BY <1>2 DEF Placed
  <2>3. Range(loadQ[t]) = {} /\ Range(storeQ[t]) = {} /\ Working(running[t]) = {}
    BY <2>1 DEF Range, Working
  <2>4. JobsOf(jobs, t) = ((Range(loadQ[t]) \cup Range(storeQ[t])) \cup Working(running[t]))
                          \cup Over(finished[t])
    BY <2>2 DEF PlacedIn
  <2> QED  BY <2>1, <2>3, <2>4
<1>4. jobs' = {}
  <2>1. \A j \in jobs : j.tier \in Tiers
    BY <1>2 DEF JobsAreSound, Job
  <2>2. \A j \in jobs : j \in Over(finished[j.tier])
    BY <1>3, <2>1 DEF JobsOf
  <2> QED  BY <1>1, <2>1, <2>2 DEF Over
<1>5. IsPrimary(primary', Slots) /\ ReadyHold(primary', data) /\ DOMAIN primary' = {}
  BY <1>1 DEF IsPrimary, ReadyHold
<1>6. JobsAreSound(jobs', Tiers)
  BY <1>4, FS_EmptySet DEF JobsAreSound
<1>7. Accounts(primary', gpuLoads', gpuStores', jobs', Tiers, pending')
  <2>1. ASSUME NEW k \in Keys
        PROVE  /\ Loading(gpuLoads', k) = {} /\ Reading(jobs', k) = {} /\ Storing(gpuStores', k) = {}
               /\ Filling(jobs', k) = {} /\ Promised(Tiers, pending', k) = {}
    BY <1>1, <1>4 DEF Loading, Reading, Storing, Filling, Promised
  <2>2. Counted(primary', gpuLoads', gpuStores', jobs', Tiers, pending')
    BY <1>5, <2>1 DEF Counted, Exact
  <2>3. SlotsDiffer(primary') /\ LocatedJobs(primary', jobs')
    BY <1>4, <1>5 DEF SlotsDiffer, LocatedJobs
  <2>4. \A t \in Tiers, r \in Reqs : DOMAIN pending'[t][r] = {}
    BY <1>1
  <2>5. LocatedPromises(primary', Tiers, pending') /\ PromisesDiffer(Tiers, pending')
    BY <2>4 DEF LocatedPromises, PromisesDiffer
  <2>6. StoresDiffer(gpuStores')
    BY <1>1 DEF StoresDiffer
  <2> QED  BY <2>2, <2>3, <2>5, <2>6 DEF Accounts
<1>8. Offers(jobs', gpuStores', offered', workload.prompt)
  BY <1>1, <1>4 DEF Offers
<1>9. Placed(jobs', loadQ, storeQ, running, finished', Tiers)
  <2>1. DOMAIN loadQ = Tiers /\ DOMAIN storeQ = Tiers /\ DOMAIN running = Tiers /\ DOMAIN finished' = Tiers
    BY <1>1, <1>2 DEF Placed
  <2>2. ASSUME NEW t \in Tiers
        PROVE  PlacedIn(JobsOf(jobs', t), loadQ[t], storeQ[t], running[t], finished'[t], Tiers)
    <3>1. PlacedIn(JobsOf(jobs, t), loadQ[t], storeQ[t], running[t], finished[t], Tiers)
      BY <1>2 DEF Placed
    <3>2. Range(loadQ[t]) = {} /\ Range(storeQ[t]) = {} /\ Working(running[t]) = {}
      BY <1>3 DEF Range, Working
    <3>3. finished'[t] = {} /\ Over(finished'[t]) = {} /\ JobsOf(jobs', t) = {}
      BY <1>1, <1>4 DEF Over, JobsOf
    <3> QED  BY <3>1, <3>2, <3>3, FS_EmptySet DEF PlacedIn
  <2> QED  BY <2>1, <2>2 DEF Placed
<1>10. Copies(primary', data, disk, running, finished', Tiers, Slots)
  BY <1>1, <1>2, <1>3, <1>5 DEF Copies, Progress
<1> QED  BY <1>1, <1>5, <1>6, <1>7, <1>8, <1>9, <1>10, BooksNext

-----------------------------------------------------------------------------
(***************************************************************************)
(* The verdict tables.                                                     *)
(***************************************************************************)

\* A table of verdicts, each wanted by a request its tier was not told is over.
Wanted(v, m) == /\ IsTable(v)
                /\ \A k \in DOMAIN v : v[k].reqs # {} /\ \A r \in v[k].reqs : m[r] = 0
AllWanted(vs, tl) == DOMAIN vs = Tiers /\ \A t \in Tiers : Wanted(vs[t], tl[t])

\* The entries of a table that Wanted allows.
WantedEntries(w, m) ==
    /\ w = [x \in DOMAIN w |-> w[x]] /\ DOMAIN w \subseteq Keys
    /\ \A x \in DOMAIN w : /\ w[x] \in [result : Results, reqs : SUBSET Reqs]
                           /\ w[x].reqs # {} /\ \A y \in w[x].reqs : m[y] = 0

\* A table with such entries.
LEMMA SomeTable ==
    ASSUME NEW w, NEW m, WantedEntries(w, m)
    PROVE  Wanted(w, m)
<1>1. w \in [DOMAIN w -> [result : Results, reqs : SUBSET Reqs]]
  BY Zenon DEF WantedEntries
<1> QED  BY <1>1 DEF Wanted, IsTable, WantedEntries

\* A promotion that failed, and an answer, change verdicts only.
LEMMA DecidedTables ==
    ASSUME NEW v, NEW m, Wanted(v, m), NEW K, NEW t
    PROVE  Wanted(Lookup!MarkMiss(K, v), m) /\ Wanted(Lookup!Seen(t, v), m)
<1>1. \A k \in DOMAIN v : v[k] \in [result : Results, reqs : SUBSET Reqs]
  BY DEF Wanted, IsTable
<1>2. Wanted(Lookup!MarkMiss(K, v), m)
  <2> DEFINE w == Lookup!MarkMiss(K, v)
  <2>1. DOMAIN w = DOMAIN v /\ w = [k \in DOMAIN w |-> w[k]]
    BY DEF Lookup!MarkMiss
  <2>2. ASSUME NEW k \in DOMAIN v
        PROVE  w[k] \in [result : Results, reqs : SUBSET Reqs] /\ w[k].reqs = v[k].reqs
    <3>1. w[k] = IF k \in K THEN [v[k] EXCEPT !.result = "miss"] ELSE v[k]
      BY DEF Lookup!MarkMiss
    <3> HIDE DEF w
    <3> QED  BY <1>1, <3>1 DEF Results
  <2> HIDE DEF w
  <2>3. DOMAIN w \subseteq Keys
    BY <2>1 DEF Wanted, IsTable
  <2>4. WantedEntries(w, m)
    BY <2>1, <2>2, <2>3 DEF Wanted, WantedEntries
  <2> QED  BY <2>4, SomeTable DEF w
<1>3. Wanted(Lookup!Drain(t, v), m)
  <2> DEFINE w == Lookup!Drain(t, v)
  <2>1. DOMAIN w = DOMAIN v /\ w = [k \in DOMAIN w |-> w[k]]
    BY DEF Lookup!Drain
  <2>2. ASSUME NEW k \in DOMAIN v
        PROVE  w[k] \in [result : Results, reqs : SUBSET Reqs] /\ w[k].reqs = v[k].reqs
    <3>1. w[k] = IF Lookup!AnswersFor(t, k) = <<>> THEN v[k]
                 ELSE [v[k] EXCEPT !.result = Lookup!Verdict(Lookup!AnswersFor(t, k)[1].found)]
      BY DEF Lookup!Drain
    <3>2. PICK x : x = Lookup!Verdict(Lookup!AnswersFor(t, k)[1].found)
      OBVIOUS
    <3>3. x \in Results
      BY <3>2 DEF Lookup!Verdict, Results
    <3> HIDE DEF w
    <3>4. w[k] = v[k] \/ w[k] = [v[k] EXCEPT !.result = x]
      BY <3>1, <3>2
    <3> QED  BY <1>1, <3>3, <3>4
  <2> HIDE DEF w
  <2>3. DOMAIN w \subseteq Keys
    BY <2>1 DEF Wanted, IsTable
  <2>4. WantedEntries(w, m)
    BY <2>1, <2>2, <2>3 DEF Wanted, WantedEntries
  <2> QED  BY <2>4, SomeTable DEF w
<1> QED  BY <1>2, <1>3 DEF Lookup!Seen

\* Asking adds a request that is not over.
LEMMA AskedTables ==
    ASSUME NEW v, NEW m, Wanted(v, m), NEW k \in Keys, NEW r \in Reqs, m[r] = 0
    PROVE  Wanted(Lookup!AskedBy(k, r, v), m)
<1> DEFINE w == Lookup!AskedBy(k, r, v)
<1>1. DOMAIN w = DOMAIN v \cup {k} /\ w = [x \in DOMAIN w |-> w[x]]
  BY DEF Lookup!AskedBy
<1>2. \A x \in DOMAIN v : v[x] \in [result : Results, reqs : SUBSET Reqs]
  BY DEF Wanted, IsTable
<1>3. \A x \in DOMAIN w : x # k => w[x] = v[x] /\ x \in DOMAIN v
  BY DEF Lookup!AskedBy
<1>4. w[k] = IF k \in DOMAIN v THEN [v[k] EXCEPT !.reqs = @ \cup {r}]
             ELSE [result |-> "none", reqs |-> {r}]
  BY DEF Lookup!AskedBy, Lookup!Known
<1> HIDE DEF w
<1>5. w[k] \in [result : Results, reqs : SUBSET Reqs] /\ w[k].reqs # {} /\ \A y \in w[k].reqs : m[y] = 0
  <2>1. CASE k \in DOMAIN v
    <3>1. w[k] = [v[k] EXCEPT !.reqs = @ \cup {r}] /\ v[k] \in [result : Results, reqs : SUBSET Reqs]
      BY <1>2, <1>4, <2>1
    <3>2. w[k] \in [result : Results, reqs : SUBSET Reqs] /\ w[k].reqs = v[k].reqs \cup {r}
      BY <3>1
    <3> QED  BY <2>1, <3>2 DEF Wanted
  <2>2. CASE k \notin DOMAIN v
    BY <1>4, <2>2 DEF Results
  <2> QED  BY <2>1, <2>2
<1>6. \A x \in DOMAIN w : /\ w[x] \in [result : Results, reqs : SUBSET Reqs]
                          /\ w[x].reqs # {} /\ \A y \in w[x].reqs : m[y] = 0
  BY <1>2, <1>3, <1>5 DEF Wanted
<1>7. DOMAIN w \subseteq Keys
  BY <1>1 DEF Wanted, IsTable
<1>8. WantedEntries(w, m)
  BY <1>1, <1>6, <1>7 DEF WantedEntries
<1> QED  BY <1>8, SomeTable DEF w

\* Cleaning up leaves the entries of the requests that go on.
LEMMA CleanTables ==
    ASSUME NEW v, NEW m, Wanted(v, m), NEW rs, NEW n, \A r \in Reqs : r \notin rs => n[r] = m[r]
    PROVE  Wanted(Lookup!Cleanup(rs, v), n)
<1> DEFINE w == Lookup!Cleanup(rs, v)
<1>1. DOMAIN w = {x \in DOMAIN v : ~(v[x].reqs \subseteq rs)} /\ w = [x \in DOMAIN w |-> w[x]]
  BY DEF Lookup!Cleanup
<1>2. \A x \in DOMAIN v : v[x] \in [result : Results, reqs : SUBSET Reqs]
  BY DEF Wanted, IsTable
<1>3. \A x \in DOMAIN w : w[x] = [v[x] EXCEPT !.reqs = @ \ rs] /\ x \in DOMAIN v /\ ~(v[x].reqs \subseteq rs)
  BY DEF Lookup!Cleanup
<1> HIDE DEF w
<1>4. \A x \in DOMAIN w : w[x] \in [result : Results, reqs : SUBSET Reqs] /\ w[x].reqs = v[x].reqs \ rs
  BY <1>2, <1>3
<1>5. \A x \in DOMAIN w : w[x].reqs # {} /\ \A y \in w[x].reqs : n[y] = 0
  BY <1>2, <1>3, <1>4 DEF Wanted
<1>6. DOMAIN w \subseteq Keys
  BY <1>1 DEF Wanted, IsTable
<1>7. \A x \in DOMAIN w : /\ w[x] \in [result : Results, reqs : SUBSET Reqs]
                          /\ w[x].reqs # {} /\ \A y \in w[x].reqs : n[y] = 0
  BY <1>4, <1>5
<1>8. WantedEntries(w, n)
  BY <1>1, <1>6, <1>7 DEF WantedEntries
<1> QED  BY <1>8, SomeTable DEF w

\* What a lookup leaves of the tables.
LEMMA TablesNow ==
    ASSUME Inv
    PROVE  /\ AllWanted(verdicts, told)
           /\ AllWanted([t \in Tiers |-> PolledVerdicts(t)], told)
           /\ ScanNow /\ AskTiers => AllWanted(verdicts', told)
<1>1. AllWanted(verdicts, told)
  BY DEF Inv, Engine, EngineTypes, VerdictsAreWanted, AllWanted, Wanted
<1>2. \A t \in Tiers : Wanted(PolledVerdicts(t), told[t])
  BY <1>1, DecidedTables DEF AllWanted, PolledVerdicts
<1>3. \A t \in Tiers : Wanted(SeenVerdicts(t), told[t])
  BY <1>2, DecidedTables DEF SeenVerdicts
<1>4. ASSUME ScanNow, AskTiers PROVE AllWanted(verdicts', told)
  <2>1. KeyToScan \in Keys /\ scan.req \in Reqs /\ \A t \in Tiers : told[t][scan.req] = 0
    BY <1>4, ScannedKey
  <2>2. \A t \in Tiers : Wanted(Lookup!AskedBy(KeyToScan, scan.req, SeenVerdicts(t)), told[t])
    BY <1>3, <2>1, AskedTables
  <2>3. verdicts' = [t \in Tiers |->
                       IF t \in AskedTiers THEN Lookup!AskedBy(KeyToScan, scan.req, SeenVerdicts(t))
                       ELSE PolledVerdicts(t)]
    BY <1>4 DEF AskTiers
  <2>4. \A t \in Tiers : Wanted(verdicts'[t], told[t])
    BY <1>2, <2>2, <2>3
  <2> QED  BY <2>3, <2>4 DEF AllWanted
<1> QED  BY <1>1, <1>2, <1>4 DEF AllWanted

-----------------------------------------------------------------------------
(***************************************************************************)
(* The requests and the scan.                                              *)
(***************************************************************************)

EngineTypesNext ==
    /\ workload \in Workloads /\ workload' = workload
    /\ stage' \in {"outputs", "schedule", "meta", "draining"} /\ scan' \in Scans
    /\ phase' \in [Reqs -> Phases]
    /\ computed' \in [Reqs -> Nat] /\ offered' \in [Reqs -> Nat]
    /\ gpuLoads' \in [Reqs -> SUBSET Keys] /\ gpuStores' \in [Reqs -> SUBSET SUBSET Keys]
    /\ reqState' \in [DOMAIN reqState' -> [stores : Nat, finished : BOOLEAN]]
    /\ DOMAIN reqState' \subseteq Reqs
    /\ told' \in [Tiers -> [Reqs -> Nat]]
    /\ pending' \in [Tiers -> [Reqs -> Seq(Promise)]]

\* The engine's half holds after a step if its parts do.
LEMMA EngineNext ==
    ASSUME EngineTypesNext, \A r \in Reqs : LifeOf(r)', ScanIsSound', AllWanted(verdicts', told')
    PROVE  Engine'
<1>1. Tiers' = Tiers
  BY DEF Tiers, EngineTypesNext
<1>2. EngineTypes'
  BY <1>1 DEF EngineTypesNext, EngineTypes, AllWanted, Wanted
<1>3. VerdictsAreWanted'
  BY <1>1 DEF VerdictsAreWanted, AllWanted, Wanted
<1> QED  BY <1>2, <1>3 DEF Engine, Lives

\* A scan under way, for the request that is looked up.
Scanning(s) == /\ s \in Scans /\ s.part # "none" /\ s.req = scan.req
               /\ s.part = "prefix" => s.i < Chunks(s.req)
               /\ s.part = "tail" => TailKey(s.req) # NoKey

\* The scan goes on in the prefix, with the tail, or is done.
LEMMA PrefixGoesOn ==
    ASSUME NEW s \in Scans, s.part # "none", s.req = scan.req, s.part # "tail"
    PROVE  /\ s.i <= Chunks(s.req) /\ Chunks(s.req) \in Nat => Scanning(AfterPrefix(s))
<1> SUFFICES ASSUME s.i <= Chunks(s.req), Chunks(s.req) \in Nat PROVE Scanning(AfterPrefix(s))
  OBVIOUS
<1>1. s.i \in Nat
  BY DEF Scans
<1>2. CASE s.i < Chunks(s.req)
  BY <1>2 DEF AfterPrefix, Scanning
<1>3. CASE ~(s.i < Chunks(s.req))
  <2>1. PICK x \in {"done", "tail"} : /\ AfterPrefix(s) = [s EXCEPT !.part = x]
                                      /\ x = "tail" => TailKey(s.req) # NoKey
    BY <1>3 DEF AfterPrefix
  <2>2. [s EXCEPT !.part = x] \in Scans /\ [s EXCEPT !.part = x].part = x
        /\ [s EXCEPT !.part = x].req = s.req
    BY <2>1 DEF Scans
  <2> QED  BY <2>1, <2>2 DEF Scanning
<1> QED  BY <1>2, <1>3

\* So it does whatever the answer to a lookup is.
LEMMA LookupGoesOn ==
    ASSUME Inv, ScanNow, NEW result
    PROVE  Scanning(AfterLookup(scan, result))
<1>1. /\ scan \in Scans /\ scan.part \in {"prefix", "tail"} /\ scan.i \in Nat /\ scan.hits \in Nat
      /\ Chunks(scan.req) \in Nat
      /\ scan.part = "prefix" => scan.i < Chunks(scan.req)
  BY ScannedKey DEF ScanNow
<1>2. CASE scan.part = "tail"
  <2>1. PICK h \in Nat, w \in BOOLEAN :
           AfterLookup(scan, result) = [scan EXCEPT !.part = "done", !.hits = h, !.wait = w]
    <3>1. scan.hits + 1 \in Nat
      BY <1>1
    <3> QED  BY <1>1, <1>2, <3>1 DEF AfterLookup
  <2>2. [scan EXCEPT !.part = "done", !.hits = h, !.wait = w] \in Scans
        /\ [scan EXCEPT !.part = "done", !.hits = h, !.wait = w].part = "done"
        /\ [scan EXCEPT !.part = "done", !.hits = h, !.wait = w].req = scan.req
    BY <1>1 DEF Scans
  <2> QED  BY <2>1, <2>2 DEF Scanning
<1>3. CASE scan.part = "prefix" /\ result = "MISS"
  <2>1. AfterLookup(scan, result) = [scan EXCEPT !.part = "done"]
    BY <1>3 DEF AfterLookup
  <2>2. [scan EXCEPT !.part = "done"] \in Scans /\ [scan EXCEPT !.part = "done"].part = "done"
        /\ [scan EXCEPT !.part = "done"].req = scan.req
    BY <1>1 DEF Scans
  <2> QED  BY <2>1, <2>2 DEF Scanning
<1>4. CASE scan.part = "prefix" /\ result # "MISS"
  <2>1. PICK h \in Nat, w \in BOOLEAN :
           AfterLookup(scan, result) =
             AfterPrefix([scan EXCEPT !.i = scan.i + 1, !.hits = h, !.wait = w])
    <3>1. scan.hits + 1 \in Nat /\ scan.wait \in BOOLEAN
      BY <1>1 DEF Scans
    <3>2. AfterLookup(scan, result) =
            AfterPrefix([scan EXCEPT !.i = scan.i + 1,
                                     !.hits = IF result = "RETRY" THEN scan.hits ELSE scan.hits + 1,
                                     !.wait = scan.wait \/ result # "HIT"])
      BY <1>4 DEF AfterLookup
    <3>3. (IF result = "RETRY" THEN scan.hits ELSE scan.hits + 1) \in Nat
      BY <1>1, <3>1
    <3>4. (scan.wait \/ result # "HIT") \in BOOLEAN
      OBVIOUS
    <3> QED  BY <3>2, <3>3, <3>4
  <2> DEFINE s == [scan EXCEPT !.i = scan.i + 1, !.hits = h, !.wait = w]
  <2>2. PICK n \in Nat : n = scan.i + 1 /\ n <= Chunks(scan.req)
    BY <1>1, <1>4
  <2>3. s \in Scans /\ s.part = "prefix" /\ s.req = scan.req /\ s.i <= Chunks(s.req)
    <3>1. s = [scan EXCEPT !.i = n, !.hits = h, !.wait = w]
      BY <2>2
    <3> HIDE DEF s
    <3>2. s \in Scans /\ s.part = scan.part /\ s.req = scan.req /\ s.i = n
      BY <1>1, <3>1 DEF Scans
    <3> QED  BY <1>4, <2>2, <3>2
  <2> HIDE DEF s
  <2>4. Scanning(AfterPrefix(s))
    <3>1. Chunks(s.req) \in Nat
      BY <1>1, <2>3
    <3> QED  BY <2>3, <3>1, PrefixGoesOn
  <2> QED  BY <2>1, <2>4 DEF s
<1> QED  BY <1>1, <1>2, <1>3, <1>4

\* Steps that leave the requests alone.
RequestsStay ==
    /\ workload' = workload /\ phase' = phase /\ computed' = computed /\ offered' = offered
    /\ gpuLoads' = gpuLoads /\ gpuStores' = gpuStores /\ reqState' = reqState /\ told' = told

\* Such a step changes the stage, the scan and the tables at most.
LEMMA EngineStays ==
    ASSUME Inv, RequestsStay, pending' = pending, AllWanted(verdicts', told),
           stage' \in {"outputs", "schedule", "meta", "draining"},
           stage = "schedule" => stage' = "schedule",
           scan' \in Scans, ScanIsSound'
    PROVE  Engine'
<1>1. EngineTypes /\ Lives
  BY DEF Inv, Engine
<1>2. EngineTypesNext
  BY <1>1 DEF EngineTypes, EngineTypesNext, RequestsStay
<1>3. Tiers' = Tiers
  BY DEF RequestsStay, Tiers
<1>4. ASSUME NEW r \in Reqs PROVE LifeOf(r)'
  <2>1. LifeOf(r) /\ Chunks(r)' = Chunks(r)
    BY <1>1 DEF Lives, RequestsStay, Chunks, Prompt
  <2> QED  BY <1>3, <2>1 DEF LifeOf, RequestsStay
<1> QED  BY <1>2, <1>4, EngineNext DEF RequestsStay

\* The scan goes on.
LEMMA EngineScans ==
    ASSUME Inv, RequestsStay, pending' = pending, AllWanted(verdicts', told),
           stage' = stage, ScanNow, Scanning(scan')
    PROVE  Engine'
<1>1. stage = "schedule" /\ scan.req \in Reqs /\ phase[scan.req] = "waiting"
  BY ScannedKey
<1>2. Chunks(scan.req)' = Chunks(scan'.req) /\ TailKey(scan.req)' = TailKey(scan'.req)
  BY DEF RequestsStay, Chunks, Prompt, TailKey
<1>3. ScanIsSound'
  BY <1>1, <1>2 DEF ScanIsSound, Scanning, RequestsStay
<1> QED  BY <1>1, <1>3, EngineStays DEF Scanning

\* Steps of the scan that promise nothing.
LEMMA EngineLooksUp ==
    ASSUME Inv, LookupInPrimary \/ LookupUndecided \/ LookupRefused
    PROVE  Engine'
<1>1. CASE LookupInPrimary
  <2>1. /\ ScanNow /\ stage' = stage /\ pending' = pending /\ RequestsStay
        /\ verdicts' = [t \in Tiers |-> PolledVerdicts(t)]
        /\ scan' = AfterLookup(scan, PrimaryLookup(PolledPrimary, KeyToScan))
    BY <1>1, Zenon DEF LookupInPrimary, RequestsStay, reqVars, progressVars, gpuVars, boundVars
  <2> QED  BY <2>1, TablesNow, LookupGoesOn, EngineScans
<1>2. CASE LookupUndecided \/ LookupRefused
  <2>1. /\ ScanNow /\ stage' = stage /\ RequestsStay /\ AskTiers
    BY <1>2, Zenon DEF LookupUndecided, LookupRefused, AskSecondary, RequestsStay, reqVars,
                       progressVars, gpuVars, boundVars
  <2>2. pending' = pending /\ \E x : scan' = AfterLookup(scan, x)
    BY <1>2, Zenon DEF LookupUndecided, LookupRefused
  <2> QED  BY <2>1, <2>2, TablesNow, LookupGoesOn, EngineScans
<1> QED  BY <1>1, <1>2

\* The scan begins, if there is anything to look up.
LEMMA EngineStarts ==
    ASSUME Inv, NEW r \in Reqs, StartScan(r)
    PROVE  Engine'
<1> DEFINE s == [NoScan EXCEPT !.req = r, !.part = "prefix"]
<1>1. /\ stage = "schedule" /\ phase[r] = "waiting" /\ stage' = stage /\ RequestsStay
      /\ pending' = pending /\ verdicts' = verdicts /\ scan' = AfterPrefix(s)
  BY Zenon DEF StartScan, RequestsStay, reqVars, progressVars, gpuVars, boundVars, mgrVars, lookupVars
<1>2. s \in Scans /\ s.part = "prefix" /\ s.req = r /\ s.i = 0 /\ s.wait = FALSE
  BY DEF NoScan, Scans
<1> HIDE DEF s
<1>3. LifeOf(r) /\ workload \in Workloads
  BY DEF Inv, Engine, EngineTypes, Lives
<1>4. r \in DOMAIN workload.prompt
  BY <1>1, <1>3 DEF LifeOf
<1>5. Chunks(r) \in Nat
  BY <1>3, <1>4, WorkloadFacts
<1>6. scan' = s \/ \E x \in {"done", "tail"} : /\ scan' = [s EXCEPT !.part = x]
                                               /\ x = "tail" => TailKey(r) # NoKey
  BY <1>1, <1>2 DEF AfterPrefix
<1>7. /\ scan' \in Scans /\ scan'.part # "none" /\ scan'.req = r
      /\ scan'.part = "tail" => TailKey(r) # NoKey
  <2>1. CASE scan' = s
    BY <1>2, <2>1
  <2>2. ASSUME NEW x \in {"done", "tail"}, scan' = [s EXCEPT !.part = x],
               x = "tail" => TailKey(r) # NoKey
        PROVE  /\ scan' \in Scans /\ scan'.part # "none" /\ scan'.req = r
               /\ scan'.part = "tail" => TailKey(r) # NoKey
    <3>1. scan' \in Scans /\ scan'.part = x /\ scan'.req = r
      BY <1>2, <2>2 DEF Scans
    <3> QED  BY <2>2, <3>1
  <2> QED  BY <1>6, <2>1, <2>2
<1>8. scan'.part = "prefix" => scan'.i < Chunks(r)
  <2>1. CASE s.i < Chunks(s.req)
    <3>1. scan' = s
      BY <1>1, <2>1 DEF AfterPrefix
    <3> QED  BY <1>2, <2>1, <3>1
  <2>2. CASE ~(s.i < Chunks(s.req))
    <3>1. \E x \in {"done", "tail"} : scan' = [s EXCEPT !.part = x]
      BY <1>1, <2>2 DEF AfterPrefix
    <3>2. scan'.part # "prefix"
      BY <1>2, <3>1 DEF Scans
    <3> QED  BY <3>2
  <2> QED  BY <2>1, <2>2
<1>9. Chunks(r)' = Chunks(r) /\ TailKey(r)' = TailKey(r) /\ scan'.req = r
  BY <1>1, <1>7 DEF RequestsStay, Chunks, Prompt, TailKey
<1>10. Chunks(scan.req)' = Chunks(r) /\ TailKey(scan.req)' = TailKey(r)
  BY <1>1, <1>7 DEF RequestsStay, Chunks, Prompt, TailKey
<1>11. ScanIsSound'
  BY <1>1, <1>7, <1>8, <1>10 DEF ScanIsSound, RequestsStay
<1> QED  BY <1>1, <1>7, <1>11, TablesNow, EngineStays

\* Steps that leave the requests, the promises and the verdicts alone, and the
\* scan too unless it ends.
LEMMA EngineIdles ==
    ASSUME Inv, RequestsStay, pending' = pending, verdicts' = verdicts,
           scan' \in {scan, NoScan},
           \/ stage' = stage
           \/ stage = "outputs" /\ stage' \in {"schedule", "draining"}
    PROVE  Engine'
<1>1. ScanIsSound /\ EngineTypes
  BY DEF Inv, Engine
<1>2. scan \in Scans /\ NoScan \in Scans /\ NoScan.part = "none"
  BY <1>1 DEF EngineTypes, Scans, NoScan
<1>3. Chunks(scan.req)' = Chunks(scan'.req) /\ TailKey(scan.req)' = TailKey(scan'.req)
  BY DEF RequestsStay, Chunks, Prompt, TailKey
<1>4. ScanIsSound'
  <2>1. CASE scan' = NoScan
    BY <1>2, <2>1 DEF ScanIsSound
  <2>2. CASE scan' = scan
    BY <1>1, <1>3, <2>2 DEF ScanIsSound, RequestsStay
  <2> QED  BY <2>1, <2>2
<1>5. /\ stage' \in {"outputs", "schedule", "meta", "draining"}
      /\ stage = "schedule" => stage' = "schedule"
  BY <1>1 DEF EngineTypes
<1> QED  BY <1>2, <1>4, <1>5, TablesNow, EngineStays

\* Which steps those are.
LEMMA EngineQuiet ==
    ASSUME Inv,
           \/ BeginStep \/ StayWaiting \/ LookupCrashes \/ AdmitCrashes \/ StartReset
           \/ \E t \in Tiers : \/ ProbeFiles(t, {}) \/ MoveBlocks(t) \/ Fault(t)
                               \/ \E r \in Reqs : FailingProbe(t, r)
    PROVE  Engine' /\ Books'
<1> USE DEF RequestsStay
<1>1. CASE BeginStep
  <2>1. /\ RequestsStay /\ pending' = pending /\ verdicts' = verdicts /\ scan' = scan
        /\ stage = "outputs" /\ stage' = "schedule"
        /\ primary' = primary /\ jobs' = jobs /\ loadQ' = loadQ /\ storeQ' = storeQ
        /\ running' = running /\ finished' = finished /\ data' = data /\ disk' = disk
    BY <1>1, Zenon DEF BeginStep, mgrVars, reqVars, lookupVars, poolVars, storageVars, progressVars, gpuVars, boundVars
  <2> QED  BY <2>1, EngineIdles, BooksStay
<1>2. CASE StayWaiting
  <2>1. /\ RequestsStay /\ pending' = pending /\ verdicts' = verdicts /\ scan' = NoScan
        /\ stage' = stage
        /\ primary' = primary /\ jobs' = jobs /\ loadQ' = loadQ /\ storeQ' = storeQ
        /\ running' = running /\ finished' = finished /\ data' = data /\ disk' = disk
    BY <1>2, Zenon DEF StayWaiting, mgrVars, reqVars, lookupVars, poolVars, storageVars, progressVars, gpuVars
  <2> QED  BY <2>1, EngineIdles, BooksStay
<1>3. CASE LookupCrashes \/ AdmitCrashes
  <2>1. /\ RequestsStay /\ pending' = pending /\ verdicts' = verdicts /\ scan' = scan
        /\ stage' = stage
        /\ primary' = primary /\ jobs' = jobs /\ loadQ' = loadQ /\ storeQ' = storeQ
        /\ running' = running /\ finished' = finished /\ data' = data /\ disk' = disk
    BY <1>3, Zenon DEF LookupCrashes, AdmitCrashes, mgrVars, reqVars, lookupVars, poolVars,
                       storageVars, engineVars, progressVars, gpuVars, boundVars
  <2> QED  BY <2>1, EngineIdles, BooksStay
<1>4. CASE StartReset
  <2>1. /\ RequestsStay /\ pending' = pending /\ verdicts' = verdicts /\ scan' = scan
        /\ stage = "outputs" /\ stage' = "draining"
        /\ primary' = primary /\ jobs' = jobs /\ loadQ' = loadQ /\ storeQ' = storeQ
        /\ running' = running /\ finished' = finished /\ data' = data /\ disk' = disk
    BY <1>4, Zenon DEF StartReset, mgrVars, reqVars, lookupVars, poolVars, storageVars, progressVars, gpuVars
  <2> QED  BY <2>1, EngineIdles, BooksStay
<1>5. ASSUME NEW t \in Tiers, ProbeFiles(t, {}) \/ \E r \in Reqs : ProbeFiles(t, {r})
      PROVE  Engine' /\ Books'
  <2>1. /\ RequestsStay /\ pending' = pending /\ verdicts' = verdicts /\ scan' = scan
        /\ stage' = stage
        /\ primary' = primary /\ jobs' = jobs /\ loadQ' = loadQ /\ storeQ' = storeQ
        /\ running' = running /\ finished' = finished /\ data' = data /\ disk' = disk
    BY <1>5, Zenon DEF ProbeFiles, Lookup!Probe, mgrVars, reqVars, poolVars, storageVars, engineVars, progressVars, gpuVars
  <2> QED  BY <2>1, EngineIdles, BooksStay
<1>6. ASSUME NEW t \in Tiers, MoveBlocks(t) \/ Fault(t)
      PROVE  Engine' /\ Books'
  <2>1. /\ RequestsStay /\ pending' = pending /\ verdicts' = verdicts /\ scan' = scan
        /\ stage' = stage
    BY <1>6, Zenon DEF MoveBlocks, Fault, mgrVars, reqVars, lookupVars, engineVars, progressVars, gpuVars, boundVars
  <2> QED  BY <1>6, <2>1, EngineIdles, BooksMoved
<1> QED  BY <1>1, <1>2, <1>3, <1>4, <1>5, <1>6, Zenon DEF FailingProbe

\* A promise is for a request whose lookup is under way.
LEMMA EnginePromises ==
    ASSUME Inv, NEW evicted \in SUBSET Keys, LookupPromotes(evicted)
    PROVE  Engine'
<1>1. PICK t, q, r, m :
         /\ t = Min(Holders) /\ r = scan.req /\ Holders # {} /\ ScanNow /\ AskTiers
         /\ pending' = [pending EXCEPT ![t][r] = Append(@, m)]
         /\ RequestsStay /\ stage' = stage /\ scan' = AfterLookup(scan, "HIT_PENDING")
  BY Zenon DEF LookupPromotes, AskSecondary, RequestsStay, reqVars, boundVars, progressVars, gpuVars
<1>2. EngineTypes /\ Lives
  BY DEF Inv, Engine
<1>3. /\ stage = "schedule" /\ r \in Reqs /\ phase[r] = "waiting" /\ t \in Tiers
  BY <1>1, <1>2, HolderIsATier, ScannedKey DEF EngineTypes
<1>4. Scanning(scan') /\ AllWanted(verdicts', told)
  BY <1>1, TablesNow, LookupGoesOn
<1>5. pending' \in [Tiers -> [Reqs -> Seq(Promise)]]
  BY BooksPromoted
<1>6. EngineTypesNext
  BY <1>1, <1>2, <1>4, <1>5 DEF EngineTypes, EngineTypesNext, RequestsStay, Scanning
<1>7. ScanIsSound'
  <2>1. Chunks(scan.req)' = Chunks(scan'.req) /\ TailKey(scan.req)' = TailKey(scan'.req)
    BY <1>1 DEF RequestsStay, Chunks, Prompt, TailKey
  <2> QED  BY <1>1, <1>3, <1>4, <2>1 DEF ScanIsSound, Scanning, RequestsStay
<1>8. Tiers' = Tiers
  BY <1>1 DEF RequestsStay, Tiers
<1>9. ASSUME NEW x \in Reqs PROVE LifeOf(x)'
  <2>1. LifeOf(x) /\ Chunks(x)' = Chunks(x)
    BY <1>1, <1>2 DEF Lives, RequestsStay, Chunks, Prompt
  <2>2. ASSUME NEW u \in Tiers, pending'[u][x] # <<>>
        PROVE  stage' = "schedule" /\ phase'[x] \notin {"new", "gone"}
    <3>1. CASE u = t /\ x = r
      BY <1>1, <1>3, <3>1 DEF RequestsStay
    <3>2. CASE ~(u = t /\ x = r)
      <4>1. pending'[u][x] = pending[u][x]
        BY <1>1, <1>2, <3>2 DEF EngineTypes
      <4> QED  BY <1>1, <2>1, <2>2, <4>1 DEF RequestsStay, LifeOf
    <3> QED  BY <3>1, <3>2
  <2> QED  BY <1>1, <1>8, <2>1, <2>2 DEF LifeOf, RequestsStay
<1> QED  BY <1>1, <1>4, <1>6, <1>7, <1>9, EngineNext DEF RequestsStay

-----------------------------------------------------------------------------
(***************************************************************************)
(* The life of a request.                                                  *)
(***************************************************************************)

\* When no scan is under way there is none after the step either.
LEMMA NoScanStays ==
    ASSUME Inv, scan' = scan, stage # "schedule" \/ scan = NoScan
    PROVE  scan' \in Scans /\ scan'.part = "none" /\ ScanIsSound'
<1>1. scan' = NoScan
  BY DEF Inv, Engine, ScanIsSound
<1> QED  BY <1>1 DEF NoScan, Scans, ScanIsSound

\* A request comes.
LEMMA EngineArrives ==
    ASSUME Inv, NEW r \in Reqs, Arrive(r)
    PROVE  Engine'
<1>1. /\ stage = "outputs" /\ phase[r] = "new" /\ r \in DOMAIN workload.prompt
      /\ phase' = [phase EXCEPT ![r] = "waiting"]
      /\ reqState' = [x \in DOMAIN reqState \cup {r} |->
                        IF x = r THEN [stores |-> 0, finished |-> FALSE] ELSE reqState[x]]
      /\ workload' = workload /\ computed' = computed /\ offered' = offered
      /\ gpuLoads' = gpuLoads /\ gpuStores' = gpuStores /\ told' = told
      /\ pending' = pending /\ verdicts' = verdicts /\ scan' = scan /\ stage' = stage
  BY Zenon DEF Arrive, mgrVars, lookupVars, gpuVars, boundVars, engineVars
<1>2. EngineTypes /\ Lives
  BY DEF Inv, Engine
<1>3. ScanIsSound' /\ scan' \in Scans
  BY <1>1, NoScanStays
<1>4. /\ reqState' \in [DOMAIN reqState' -> [stores : Nat, finished : BOOLEAN]]
      /\ DOMAIN reqState' = DOMAIN reqState \cup {r} /\ DOMAIN reqState' \subseteq Reqs
      /\ reqState'[r] = [stores |-> 0, finished |-> FALSE]
      /\ \A x \in DOMAIN reqState : x # r => reqState'[x] = reqState[x]
  BY <1>1, <1>2 DEF EngineTypes
<1>5. phase' \in [Reqs -> Phases]
  BY <1>1, <1>2 DEF EngineTypes, Phases
<1>6. EngineTypesNext
  BY <1>1, <1>2, <1>3, <1>4, <1>5 DEF EngineTypes, EngineTypesNext
<1>7. Tiers' = Tiers
  BY <1>1 DEF Tiers
<1>8. ASSUME NEW x \in Reqs PROVE LifeOf(x)'
  <2>1. LifeOf(x) /\ Chunks(x)' = Chunks(x)
    BY <1>1, <1>2 DEF Lives, Chunks, Prompt
  <2>2. CASE x # r
    <3>1. phase'[x] = phase[x] /\ (x \in DOMAIN reqState' <=> x \in DOMAIN reqState)
          /\ (x \in DOMAIN reqState => reqState'[x] = reqState[x])
      BY <1>1, <1>2, <1>4, <2>2 DEF EngineTypes
    <3> QED  BY <1>1, <1>7, <2>1, <3>1 DEF LifeOf
  <2>3. CASE x = r
    <3>1. /\ gpuStores[x] = {} /\ gpuLoads[x] = {} /\ offered[x] = 0
          /\ \A t \in Tiers : told[t][x] = 0 /\ pending[t][x] = <<>>
      BY <1>1, <2>1, <2>3 DEF LifeOf
    <3>2. IsFiniteSet(gpuStores[x]) /\ Cardinality(gpuStores[x]) = 0
      BY <3>1, FS_EmptySet
    <3>3. phase'[x] = "waiting" /\ x \in DOMAIN reqState' /\ reqState'[x].stores = 0
          /\ reqState'[x].finished = FALSE
      BY <1>1, <1>2, <1>4, <2>3 DEF EngineTypes
    <3>4. computed[x] = 0 /\ Chunks(x) \in Nat
      BY <1>1, <1>2, <2>1, <2>3, WorkloadFacts DEF LifeOf, EngineTypes
    <3>5. computed'[x] <= Chunks(x)'
      BY <1>1, <2>1, <3>4
    <3>6. /\ gpuStores'[x] = {} /\ gpuLoads'[x] = {} /\ offered'[x] = 0 /\ computed'[x] = 0
          /\ x \in DOMAIN workload'.prompt
          /\ \A t \in Tiers : told'[t][x] = 0 /\ pending'[t][x] = <<>>
      BY <1>1, <2>3, <3>1, <3>4
    <3>7. IsFiniteSet(gpuStores'[x]) /\ Cardinality(gpuStores'[x]) = 0
      BY <1>1, <3>2
    <3> QED  BY <1>7, <3>3, <3>5, <3>6, <3>7 DEF LifeOf
  <2> QED  BY <2>2, <2>3
<1> QED  BY <1>1, <1>3, <1>6, <1>8, TablesNow, EngineNext

\* A request ends.
LEMMA EngineFinishes ==
    ASSUME Inv, NEW r \in Reqs, Finish(r)
    PROVE  Engine'
<1>1. /\ stage = "outputs" /\ phase[r] \in {"waiting", "loading", "running"}
      /\ phase' = [phase EXCEPT ![r] = "finished"]
      /\ reqState' = reqState
      /\ workload' = workload /\ computed' = computed /\ offered' = offered
      /\ gpuLoads' = gpuLoads /\ gpuStores' = gpuStores /\ told' = told
      /\ pending' = pending /\ verdicts' = verdicts /\ scan' = scan /\ stage' = stage
  BY Zenon DEF Finish, mgrVars, lookupVars, gpuVars, boundVars, engineVars, reqVars
<1>2. EngineTypes /\ Lives
  BY DEF Inv, Engine
<1>3. ScanIsSound' /\ scan' \in Scans
  BY <1>1, NoScanStays
<1>4. phase' \in [Reqs -> Phases]
  BY <1>1, <1>2 DEF EngineTypes, Phases
<1>5. EngineTypesNext
  BY <1>1, <1>2, <1>3, <1>4 DEF EngineTypes, EngineTypesNext
<1>6. Tiers' = Tiers
  BY <1>1 DEF Tiers
<1>7. ASSUME NEW x \in Reqs PROVE LifeOf(x)'
  <2>1. LifeOf(x) /\ Chunks(x)' = Chunks(x)
    BY <1>1, <1>2 DEF Lives, Chunks, Prompt
  <2>2. CASE x # r
    <3>1. phase'[x] = phase[x]
      BY <1>1, <1>2, <2>2 DEF EngineTypes
    <3> QED  BY <1>1, <1>6, <2>1, <3>1 DEF LifeOf
  <2>3. CASE x = r
    <3>1. phase'[x] = "finished"
      BY <1>1, <1>2, <2>3 DEF EngineTypes
    <3> QED  BY <1>1, <1>6, <2>1, <2>3, <3>1 DEF LifeOf
  <2> QED  BY <2>2, <2>3
<1> QED  BY <1>1, <1>3, <1>5, <1>7, TablesNow, EngineNext

\* A GPU load ends.
LEMMA EngineLoads ==
    ASSUME Inv, NEW r \in Reqs, CompleteLoad(r)
    PROVE  Engine'
<1>1. /\ stage = "outputs"
      /\ phase' = [phase EXCEPT ![r] = IF @ = "loading" THEN "running" ELSE @]
      /\ gpuLoads' = [gpuLoads EXCEPT ![r] = {}]
      /\ reqState' = reqState
      /\ workload' = workload /\ computed' = computed /\ offered' = offered
      /\ gpuStores' = gpuStores /\ told' = told
      /\ pending' = pending /\ verdicts' = verdicts /\ scan' = scan /\ stage' = stage
  BY Zenon DEF CompleteLoad, lookupVars, boundVars, engineVars, reqVars
<1>2. EngineTypes /\ Lives
  BY DEF Inv, Engine
<1>3. ScanIsSound' /\ scan' \in Scans
  BY <1>1, NoScanStays
<1>4. phase' \in [Reqs -> Phases] /\ gpuLoads' \in [Reqs -> SUBSET Keys]
  BY <1>1, <1>2 DEF EngineTypes, Phases
<1>5. EngineTypesNext
  BY <1>1, <1>2, <1>3, <1>4 DEF EngineTypes, EngineTypesNext
<1>6. Tiers' = Tiers
  BY <1>1 DEF Tiers
<1>7. ASSUME NEW x \in Reqs PROVE LifeOf(x)'
  <2>1. LifeOf(x) /\ Chunks(x)' = Chunks(x)
    BY <1>1, <1>2 DEF Lives, Chunks, Prompt
  <2>2. CASE x # r
    <3>1. phase'[x] = phase[x] /\ gpuLoads'[x] = gpuLoads[x]
      BY <1>1, <1>2, <2>2 DEF EngineTypes
    <3> QED  BY <1>1, <1>6, <2>1, <3>1 DEF LifeOf
  <2>3. CASE x = r
    <3>1. /\ \/ phase[x] = "loading" /\ phase'[x] = "running"
             \/ phase'[x] = phase[x]
          /\ gpuLoads'[x] = {}
      BY <1>1, <1>2, <2>3 DEF EngineTypes
    <3> QED  BY <1>1, <1>6, <2>1, <2>3, <3>1 DEF LifeOf
  <2> QED  BY <2>2, <2>3
<1> QED  BY <1>1, <1>3, <1>5, <1>7, TablesNow, EngineNext

\* A request is admitted with the chunks that were hits.
LEMMA EngineAdmits ==
    ASSUME Inv, Admit
    PROVE  Engine'
<1>1. PICK r, m, H :
         /\ r = scan.req /\ m = IF scan.hits <= Chunks(r) THEN scan.hits ELSE Chunks(r)
         /\ H = HitKeys /\ ScanOver /\ \A k \in H : Ready(primary, k)
         /\ phase' = [phase EXCEPT ![r] = IF H = {} THEN "running" ELSE "loading"]
         /\ gpuLoads' = [gpuLoads EXCEPT ![r] = H]
         /\ computed' = [computed EXCEPT ![r] = m]
         /\ offered' = [offered EXCEPT ![r] = m]
         /\ reqState' = reqState /\ workload' = workload
         /\ gpuStores' = gpuStores /\ told' = told
         /\ pending' = pending /\ verdicts' = verdicts /\ scan' = NoScan /\ stage' = stage
  BY Zenon DEF Admit, lookupVars, boundVars, reqVars
<1>2. EngineTypes /\ Lives /\ ScanIsSound
  BY DEF Inv, Engine
<1>3. /\ r \in Reqs /\ phase[r] = "waiting" /\ stage = "schedule" /\ scan \in Scans
  BY <1>1, <1>2 DEF ScanOver, ScanIsSound, EngineTypes
<1>4. LifeOf(r) /\ r \in DOMAIN workload.prompt /\ Chunks(r) \in Nat
  <2>1. LifeOf(r)
    BY <1>2, <1>3 DEF Lives
  <2>2. r \in DOMAIN workload.prompt
    BY <1>3, <2>1 DEF LifeOf
  <2> QED  BY <1>2, <2>1, <2>2, WorkloadFacts DEF EngineTypes
<1>5. m \in Nat /\ m <= Chunks(r)
  BY <1>1, <1>3, <1>4 DEF Scans
<1>6. H \subseteq Keys
  BY <1>1 DEF Ready, Inv, Books, IsPrimary
<1>7. /\ phase' \in [Reqs -> Phases] /\ gpuLoads' \in [Reqs -> SUBSET Keys]
      /\ computed' \in [Reqs -> Nat] /\ offered' \in [Reqs -> Nat]
  BY <1>1, <1>2, <1>5, <1>6 DEF EngineTypes, Phases
<1>8. scan' \in Scans /\ ScanIsSound'
  BY <1>1 DEF NoScan, Scans, ScanIsSound
<1>9. EngineTypesNext
  BY <1>1, <1>2, <1>7, <1>8 DEF EngineTypes, EngineTypesNext
<1>10. Tiers' = Tiers
  BY <1>1 DEF Tiers
<1>11. ASSUME NEW x \in Reqs PROVE LifeOf(x)'
  <2>1. LifeOf(x) /\ Chunks(x)' = Chunks(x)
    BY <1>1, <1>2 DEF Lives, Chunks, Prompt
  <2>2. CASE x # r
    <3>1. phase'[x] = phase[x] /\ gpuLoads'[x] = gpuLoads[x]
          /\ computed'[x] = computed[x] /\ offered'[x] = offered[x]
      BY <1>1, <1>2, <2>2 DEF EngineTypes
    <3> QED  BY <1>1, <1>10, <2>1, <3>1 DEF LifeOf
  <2>3. CASE x = r
    <3>1. phase'[x] \in {"running", "loading"} /\ computed'[x] <= Chunks(x)'
      BY <1>1, <1>2, <1>3, <1>5, <2>1, <2>3 DEF EngineTypes
    <3> QED  BY <1>1, <1>3, <1>4, <1>10, <2>1, <2>3, <3>1 DEF LifeOf
  <2> QED  BY <2>2, <2>3
<1> QED  BY <1>1, <1>8, <1>9, <1>11, TablesNow, EngineNext

-----------------------------------------------------------------------------
(***************************************************************************)
(* Stores, and telling the tiers.                                          *)
(***************************************************************************)

\* Telling the tiers that some requests are over.
LEMMA Finalized ==
    ASSUME told \in [Tiers -> [Reqs -> Nat]], NEW rs, NEW v, AllWanted(v, told), Finalize(rs, v)
    PROVE  /\ AllWanted(verdicts', told') /\ told' \in [Tiers -> [Reqs -> Nat]]
           /\ \A t \in Tiers, r \in Reqs : told'[t][r] = IF r \in rs THEN told[t][r] + 1 ELSE told[t][r]
<1>1. /\ told' = [t \in Tiers |-> [r \in Reqs |-> told[t][r] + IF r \in rs THEN 1 ELSE 0]]
      /\ verdicts' = [t \in Tiers |-> Lookup!Cleanup(rs, v[t])]
  BY DEF Finalize
<1>2. \A t \in Tiers, r \in Reqs : told[t][r] \in Nat
  OBVIOUS
<1>3. \A t \in Tiers, r \in Reqs : told'[t][r] = IF r \in rs THEN told[t][r] + 1 ELSE told[t][r]
  BY <1>1, <1>2
<1>4. \A t \in Tiers, r \in Reqs : (told[t][r] + IF r \in rs THEN 1 ELSE 0) \in Nat
  BY <1>2
<1>5. told' \in [Tiers -> [Reqs -> Nat]]
  BY <1>1, <1>4
<1>6. \A t \in Tiers : Wanted(verdicts'[t], told'[t])
  <2> SUFFICES ASSUME NEW t \in Tiers PROVE Wanted(verdicts'[t], told'[t])
    OBVIOUS
  <2>1. Wanted(v[t], told[t])
    BY DEF AllWanted
  <2>2. PICK n : n = told'[t]
    OBVIOUS
  <2>3. \A r \in Reqs : r \notin rs => n[r] = told[t][r]
    BY <1>3, <2>2
  <2>4. Wanted(Lookup!Cleanup(rs, v[t]), n)
    BY <2>1, <2>3, CleanTables
  <2> QED  BY <1>1, <2>2, <2>4
<1> QED  BY <1>1, <1>3, <1>5, <1>6 DEF AllWanted

\* A store completes: its request is over with its last one.
LEMMA EngineStores ==
    ASSUME Inv, NEW r \in Reqs, NEW keys \in gpuStores[r], NEW order, CompleteStore(r, keys, order)
    PROVE  Engine'
<1>1. /\ stage = "outputs"
      /\ gpuStores' = [gpuStores EXCEPT ![r] = @ \ {keys}]
      /\ reqState' = [x \in DOMAIN reqState \ StoreDone(r) |->
                        IF x = r THEN [reqState[r] EXCEPT !.stores = @ - 1] ELSE reqState[x]]
      /\ Finalize(StoreDone(r), verdicts)
      /\ phase' = phase /\ gpuLoads' = gpuLoads
      /\ workload' = workload /\ computed' = computed /\ offered' = offered
      /\ pending' = pending /\ scan' = scan /\ stage' = stage
  BY Zenon DEF CompleteStore, progressVars, boundVars, engineVars
<1>2. EngineTypes /\ Lives
  BY DEF Inv, Engine
<1>3. ScanIsSound' /\ scan' \in Scans
  BY <1>1, NoScanStays
<1>4. /\ LifeOf(r) /\ r \in DOMAIN reqState /\ IsFiniteSet(gpuStores[r])
      /\ reqState[r].stores = Cardinality(gpuStores[r])
      /\ reqState[r].finished <=> phase[r] = "gone"
      /\ reqState[r].stores \in Nat
  BY <1>2 DEF Lives, LifeOf, EngineTypes
<1>5. /\ IsFiniteSet(gpuStores[r] \ {keys})
      /\ Cardinality(gpuStores[r] \ {keys}) = reqState[r].stores - 1
      /\ Cardinality(gpuStores[r] \ {keys}) \in Nat
  BY <1>4, FS_RemoveElement, FS_CardinalityType
<1>6. PICK D : D = StoreDone(r)
  OBVIOUS
<1>7. \/ D = {r} /\ phase[r] = "gone" /\ reqState[r].stores = 1
      \/ D = {} /\ ~(phase[r] = "gone" /\ reqState[r].stores = 1)
  <2>1. D = IF reqState[r].finished /\ reqState[r].stores = 1 THEN {r} ELSE {}
    BY <1>6 DEF StoreDone
  <2> QED  BY <1>4, <2>1
<1>8. AllWanted(verdicts', told') /\ told' \in [Tiers -> [Reqs -> Nat]]
      /\ \A t \in Tiers, x \in Reqs : told'[t][x] = IF x \in D THEN told[t][x] + 1 ELSE told[t][x]
  <2>1. AllWanted(verdicts, told) /\ told \in [Tiers -> [Reqs -> Nat]]
    BY <1>2, TablesNow DEF EngineTypes
  <2>2. Finalize(D, verdicts)
    BY <1>1, <1>6
  <2> QED  BY <2>1, <2>2, Finalized
<1>9. /\ DOMAIN reqState' = DOMAIN reqState \ D
      /\ reqState' \in [DOMAIN reqState' -> [stores : Nat, finished : BOOLEAN]]
      /\ \A x \in DOMAIN reqState \ D : x # r => reqState'[x] = reqState[x]
      /\ r \notin D => /\ reqState'[r].stores = reqState[r].stores - 1
                       /\ reqState'[r].finished = reqState[r].finished
  <2> DEFINE e == [reqState[r] EXCEPT !.stores = @ - 1]
  <2>1. reqState[r] \in [stores : Nat, finished : BOOLEAN] /\ reqState[r].stores - 1 \in Nat
    BY <1>2, <1>4, <1>5 DEF EngineTypes
  <2>2. e \in [stores : Nat, finished : BOOLEAN] /\ e.stores = reqState[r].stores - 1
        /\ e.finished = reqState[r].finished
    BY <2>1
  <2>3. reqState' = [x \in DOMAIN reqState \ D |-> IF x = r THEN e ELSE reqState[x]]
    BY <1>1, <1>6
  <2> HIDE DEF e
  <2> QED  BY <1>2, <1>4, <2>2, <2>3 DEF EngineTypes
<1>10. gpuStores' \in [Reqs -> SUBSET SUBSET Keys] /\ gpuStores'[r] = gpuStores[r] \ {keys}
  BY <1>1, <1>2 DEF EngineTypes
<1>11. EngineTypesNext
  BY <1>1, <1>2, <1>3, <1>8, <1>9, <1>10 DEF EngineTypes, EngineTypesNext
<1>12. Tiers' = Tiers
  BY <1>1 DEF Tiers
<1>13. ASSUME NEW x \in Reqs PROVE LifeOf(x)'
  <2>1. LifeOf(x) /\ Chunks(x)' = Chunks(x)
    BY <1>1, <1>2 DEF Lives, Chunks, Prompt
  <2>2. CASE x # r
    <3>1. x \notin D /\ gpuStores'[x] = gpuStores[x] /\ \A t \in Tiers : told'[t][x] = told[t][x]
      BY <1>1, <1>2, <1>7, <1>8, <2>2 DEF EngineTypes
    <3> QED  BY <1>1, <1>9, <1>12, <2>1, <2>2, <3>1 DEF LifeOf
  <2>3. CASE x = r /\ D = {r}
    <3>1. phase[r] = "gone" /\ gpuStores'[r] = {} /\ r \notin DOMAIN reqState'
      BY <1>5, <1>7, <1>9, <1>10, <2>3, FS_EmptySet
    <3>2. \A t \in Tiers : told'[t][r] = 1
      BY <1>4, <1>7, <1>8, <2>1, <2>3 DEF LifeOf
    <3> QED  BY <1>1, <1>12, <2>1, <2>3, <3>1, <3>2 DEF LifeOf
  <2>4. CASE x = r /\ D = {}
    <3>1. /\ r \in DOMAIN reqState' /\ IsFiniteSet(gpuStores'[r])
          /\ reqState'[r].stores = Cardinality(gpuStores'[r])
          /\ reqState'[r].finished <=> phase[r] = "gone"
      BY <1>4, <1>5, <1>9, <1>10, <2>4
    <3>2. phase[r] = "gone" => gpuStores'[r] # {}
      BY <1>4, <1>5, <1>7, <1>10, <2>4, FS_EmptySet
    <3>3. \A t \in Tiers : told'[t][r] = 0
      BY <1>4, <1>8, <2>1, <2>4 DEF LifeOf
    <3>4. phase[r] \notin {"new", "waiting"}
      BY <1>4 DEF LifeOf
    <3> QED  BY <1>1, <1>4, <1>12, <2>1, <2>4, <3>1, <3>2, <3>3, <3>4 DEF LifeOf
  <2> QED  BY <1>7, <2>2, <2>3, <2>4
<1> QED  BY <1>3, <1>8, <1>11, <1>13, EngineNext

\* A request that computes on and stores nothing.
LEMMA BuildsNothing ==
    ASSUME Inv, NEW r \in Reqs, NEW upto, BuildNoStore(r, upto)
    PROVE  Engine' /\ Books'
<1>1. /\ InMeta(r) /\ upto \in computed[r]..(IF phase[r] = "running" THEN Chunks(r) ELSE computed[r])
      /\ computed' = [computed EXCEPT ![r] = upto]
      /\ workload' = workload /\ phase' = phase /\ offered' = offered
      /\ gpuLoads' = gpuLoads /\ gpuStores' = gpuStores /\ reqState' = reqState /\ told' = told
      /\ scan' = scan /\ stage' = stage
      /\ loadQ' = loadQ /\ storeQ' = storeQ /\ running' = running /\ data' = data /\ disk' = disk
      /\ \/ /\ primary' = primary /\ jobs' = jobs /\ pending' = pending
            /\ verdicts' = verdicts /\ finished' = finished
         \/ /\ primary' = PolledPrimary /\ Poll /\ pending' = pending
            /\ verdicts' = [t \in Tiers |-> PolledVerdicts(t)]
  BY Zenon DEF BuildNoStore, mgrVars, reqVars, storageVars, gpuVars, boundVars
<1>2. EngineTypes /\ Lives
  BY DEF Inv, Engine
<1>3. stage = "meta" /\ phase[r] \in {"running", "finished"}
  BY <1>1 DEF InMeta
<1>4. ScanIsSound' /\ scan' \in Scans
  BY <1>1, <1>3, NoScanStays
<1>5. upto \in Nat /\ upto <= Chunks(r)
  BY <1>1, NextChunks
<1>6. EngineTypesNext
  BY <1>1, <1>2, <1>4, <1>5 DEF EngineTypes, EngineTypesNext
<1>7. Tiers' = Tiers
  BY <1>1 DEF Tiers
<1>8. ASSUME NEW x \in Reqs PROVE LifeOf(x)'
  <2>1. LifeOf(x) /\ Chunks(x)' = Chunks(x)
    BY <1>1, <1>2 DEF Lives, Chunks, Prompt
  <2>2. CASE x # r
    <3>1. computed'[x] = computed[x]
      BY <1>1, <1>2, <2>2 DEF EngineTypes
    <3> QED  BY <1>1, <1>7, <2>1, <3>1 DEF LifeOf
  <2>3. CASE x = r
    <3>1. computed'[x] <= Chunks(x)'
      BY <1>1, <1>2, <1>5, <2>1, <2>3 DEF EngineTypes
    <3> QED  BY <1>1, <1>3, <1>7, <2>1, <2>3, <3>1 DEF LifeOf
  <2> QED  BY <2>2, <2>3
<1>9. AllWanted(verdicts', told')
  BY <1>1, TablesNow
<1>10. Engine'
  BY <1>4, <1>6, <1>8, <1>9, EngineNext
<1>11. Books'
  BY <1>1, BooksStay, BooksPolled
<1> QED  BY <1>10, <1>11

\* A step that may have given the request a store.
StoreCounted(r) ==
    /\ gpuStores' \in [Reqs -> SUBSET SUBSET Keys] /\ DOMAIN reqState' = DOMAIN reqState
    /\ reqState' \in [DOMAIN reqState' -> [stores : Nat, finished : BOOLEAN]]
    /\ \A x \in Reqs : x # r => gpuStores'[x] = gpuStores[x]
    /\ \A x \in DOMAIN reqState : x # r => reqState'[x] = reqState[x]
    /\ IsFiniteSet(gpuStores'[r])
    /\ reqState'[r].stores = Cardinality(gpuStores'[r])
    /\ reqState'[r].finished = reqState[r].finished

\* A request that offers new chunks.
LEMMA EngineOffers ==
    ASSUME Inv, NEW r \in Reqs, NEW upto, NEW evicted \in SUBSET Keys, BuildStore(r, upto, evicted)
    PROVE  Engine'
<1>1. /\ InMeta(r) /\ upto \in computed[r]..(IF phase[r] = "running" THEN Chunks(r) ELSE computed[r])
      /\ computed' = [computed EXCEPT ![r] = upto]
      /\ offered' = [offered EXCEPT ![r] = upto]
      /\ verdicts' = [t \in Tiers |-> PolledVerdicts(t)]
      /\ workload' = workload /\ phase' = phase
      /\ gpuLoads' = gpuLoads /\ told' = told /\ pending' = pending
      /\ scan' = scan /\ stage' = stage
  BY Zenon DEF BuildStore, storageVars, boundVars
<1>2. EngineTypes /\ Lives
  BY DEF Inv, Engine
<1>3. stage = "meta" /\ phase[r] \in {"running", "finished"}
  BY <1>1 DEF InMeta
<1>4. ScanIsSound' /\ scan' \in Scans
  BY <1>1, <1>3, NoScanStays
<1>5. upto \in Nat /\ upto <= Chunks(r)
  BY <1>1, NextChunks
<1>6. /\ LifeOf(r) /\ r \in DOMAIN reqState /\ IsFiniteSet(gpuStores[r])
      /\ reqState[r].stores = Cardinality(gpuStores[r])
      /\ reqState[r] \in [stores : Nat, finished : BOOLEAN]
  BY <1>2, <1>3 DEF Lives, LifeOf, EngineTypes
<1>7. StoreCounted(r)
  <2>1. CASE gpuStores' = gpuStores /\ reqState' = reqState
    BY <1>2, <1>6, <2>1 DEF EngineTypes, StoreCounted
  <2>2. ASSUME NEW b \in SUBSET Keys, b \notin gpuStores[r],
               gpuStores' = [gpuStores EXCEPT ![r] = @ \cup {b}],
               reqState' = [reqState EXCEPT ![r].stores = @ + 1]
        PROVE  StoreCounted(r)
    <3>1. PICK g : g = gpuStores[r] \cup {b}
      OBVIOUS
    <3>2. gpuStores' = [gpuStores EXCEPT ![r] = g]
      BY <2>2, <3>1
    <3>3. IsFiniteSet(g) /\ Cardinality(g) = reqState[r].stores + 1
      BY <1>6, <2>2, <3>1, FS_AddElement
    <3>4. g \in SUBSET SUBSET Keys
      BY <1>2, <3>1 DEF EngineTypes
    <3> DEFINE e == [reqState[r] EXCEPT !.stores = @ + 1]
    <3>5. e \in [stores : Nat, finished : BOOLEAN] /\ e.stores = reqState[r].stores + 1
          /\ e.finished = reqState[r].finished
      BY <1>6
    <3>6. reqState' = [reqState EXCEPT ![r] = e]
      BY <2>2
    <3> HIDE DEF e
    <3>7. /\ DOMAIN reqState' = DOMAIN reqState /\ reqState'[r] = e
          /\ reqState' \in [DOMAIN reqState' -> [stores : Nat, finished : BOOLEAN]]
          /\ \A x \in DOMAIN reqState : x # r => reqState'[x] = reqState[x]
      BY <1>2, <1>6, <3>5, <3>6 DEF EngineTypes
    <3>8. /\ gpuStores' \in [Reqs -> SUBSET SUBSET Keys] /\ gpuStores'[r] = g
          /\ \A x \in Reqs : x # r => gpuStores'[x] = gpuStores[x]
      BY <1>2, <3>2, <3>4 DEF EngineTypes
    <3> QED  BY <3>3, <3>5, <3>7, <3>8 DEF StoreCounted
  <2> QED  BY <2>1, <2>2, BooksOffered
<1>8. EngineTypesNext
  BY <1>1, <1>2, <1>4, <1>5, <1>7 DEF EngineTypes, EngineTypesNext, StoreCounted
<1>9. Tiers' = Tiers
  BY <1>1 DEF Tiers
<1>10. ASSUME NEW x \in Reqs PROVE LifeOf(x)'
  <2>1. LifeOf(x) /\ Chunks(x)' = Chunks(x)
    BY <1>1, <1>2 DEF Lives, Chunks, Prompt
  <2>2. CASE x # r
    <3>1. computed'[x] = computed[x] /\ offered'[x] = offered[x]
      BY <1>1, <1>2, <2>2 DEF EngineTypes
    <3> QED  BY <1>1, <1>7, <1>9, <2>1, <2>2, <3>1 DEF LifeOf, StoreCounted
  <2>3. CASE x = r
    <3>1. computed'[x] <= Chunks(x)'
      BY <1>1, <1>2, <1>5, <2>1, <2>3 DEF EngineTypes
    <3>2. r \in DOMAIN reqState'
      BY <1>6, <1>7 DEF StoreCounted
    <3> QED  BY <1>1, <1>3, <1>6, <1>7, <1>9, <2>1, <2>3, <3>1, <3>2 DEF LifeOf, StoreCounted
  <2> QED  BY <2>2, <2>3
<1>11. AllWanted(verdicts', told')
  BY <1>1, TablesNow
<1> QED  BY <1>4, <1>8, <1>10, <1>11, EngineNext

\* The schedule ends: nothing is promised any more.
LEMMA EngineFlushes ==
    ASSUME Inv, OnScheduleEnd
    PROVE  Engine'
<1>1. /\ scan = NoScan /\ scan' = scan /\ stage' = "meta"
      /\ pending' = [t \in Tiers |-> [r \in Reqs |-> <<>>]]
      /\ verdicts' = [t \in Tiers |-> PolledVerdicts(t)]
      /\ workload' = workload /\ phase' = phase /\ computed' = computed /\ offered' = offered
      /\ gpuLoads' = gpuLoads /\ gpuStores' = gpuStores /\ reqState' = reqState /\ told' = told
  BY Zenon DEF OnScheduleEnd, reqVars, progressVars, gpuVars, boundVars
<1>2. EngineTypes /\ Lives
  BY DEF Inv, Engine
<1>3. ScanIsSound' /\ scan' \in Scans
  BY <1>1, NoScanStays
<1>4. pending' \in [Tiers -> [Reqs -> Seq(Promise)]]
  BY <1>1
<1>5. EngineTypesNext
  BY <1>1, <1>2, <1>3, <1>4 DEF EngineTypes, EngineTypesNext
<1>6. Tiers' = Tiers
  BY <1>1 DEF Tiers
<1>7. ASSUME NEW x \in Reqs PROVE LifeOf(x)'
  <2>1. LifeOf(x) /\ Chunks(x)' = Chunks(x)
    BY <1>1, <1>2 DEF Lives, Chunks, Prompt
  <2>2. \A t \in Tiers : pending'[t][x] = <<>>
    BY <1>1
  <2> QED  BY <1>1, <1>6, <2>1, <2>2 DEF LifeOf
<1>8. AllWanted(verdicts', told')
  BY <1>1, TablesNow
<1> QED  BY <1>3, <1>5, <1>7, <1>8, EngineNext

\* The connector is told which requests ended.
LEMMA EngineTells ==
    ASSUME Inv, FinishMeta
    PROVE  Engine'
<1>1. PICK ended, over :
         /\ ended = {r \in Reqs : phase[r] = "finished"}
         /\ over = {r \in ended : reqState[r].stores = 0}
         /\ stage = "meta" /\ stage' = "outputs"
         /\ reqState' = [r \in DOMAIN reqState \ over |->
                           IF r \in ended THEN [reqState[r] EXCEPT !.finished = TRUE] ELSE reqState[r]]
         /\ Finalize(over, verdicts)
         /\ phase' = [r \in Reqs |-> IF r \in ended THEN "gone" ELSE phase[r]]
         /\ workload' = workload /\ computed' = computed /\ offered' = offered
         /\ gpuLoads' = gpuLoads /\ gpuStores' = gpuStores /\ pending' = pending /\ scan' = scan
  BY Zenon DEF FinishMeta, mgrVars, gpuVars, boundVars
<1>2. EngineTypes /\ Lives
  BY DEF Inv, Engine
<1>3. ScanIsSound' /\ scan' \in Scans
  BY <1>1, NoScanStays
<1>4. AllWanted(verdicts', told') /\ told' \in [Tiers -> [Reqs -> Nat]]
      /\ \A t \in Tiers, x \in Reqs : told'[t][x] = IF x \in over THEN told[t][x] + 1 ELSE told[t][x]
  <2>1. AllWanted(verdicts, told) /\ told \in [Tiers -> [Reqs -> Nat]]
    BY <1>2, TablesNow DEF EngineTypes
  <2> QED  BY <1>1, <2>1, Finalized
<1>5. /\ DOMAIN reqState' = DOMAIN reqState \ over
      /\ \A x \in DOMAIN reqState' :
            /\ reqState'[x] \in [stores : Nat, finished : BOOLEAN]
            /\ reqState'[x].stores = reqState[x].stores
            /\ reqState'[x].finished = IF x \in ended THEN TRUE ELSE reqState[x].finished
      /\ reqState' = [x \in DOMAIN reqState' |-> reqState'[x]]
  <2>1. \A x \in DOMAIN reqState : reqState[x] \in [stores : Nat, finished : BOOLEAN]
    BY <1>2 DEF EngineTypes
  <2>2. DOMAIN reqState' = DOMAIN reqState \ over
        /\ reqState' = [x \in DOMAIN reqState' |-> reqState'[x]]
    BY <1>1
  <2>3. ASSUME NEW x \in DOMAIN reqState'
        PROVE  reqState'[x] = IF x \in ended THEN [reqState[x] EXCEPT !.finished = TRUE] ELSE reqState[x]
    BY <1>1
  <2> QED  BY <2>1, <2>2, <2>3
<1>6. phase' \in [Reqs -> Phases]
  BY <1>1, <1>2 DEF EngineTypes, Phases
<1>7. reqState' \in [DOMAIN reqState' -> [stores : Nat, finished : BOOLEAN]]
  BY <1>5, Zenon
<1>8. EngineTypesNext
  BY <1>1, <1>2, <1>3, <1>4, <1>5, <1>6, <1>7 DEF EngineTypes, EngineTypesNext
<1>9. Tiers' = Tiers
  BY <1>1 DEF Tiers
<1>10. ASSUME NEW x \in Reqs PROVE LifeOf(x)'
  <2>1. LifeOf(x) /\ Chunks(x)' = Chunks(x)
    BY <1>1, <1>2 DEF Lives, Chunks, Prompt
  <2>2. CASE x \notin ended
    <3>1. /\ x \notin over /\ phase'[x] = phase[x]
          /\ x \in DOMAIN reqState' <=> x \in DOMAIN reqState
          /\ \A t \in Tiers : told'[t][x] = told[t][x] /\ pending[t][x] = <<>>
      BY <1>1, <1>4, <1>5, <2>1, <2>2 DEF LifeOf
    <3>2. x \in DOMAIN reqState => /\ reqState'[x].stores = reqState[x].stores
                                   /\ reqState'[x].finished = reqState[x].finished
      BY <1>5, <2>2, <3>1
    <3> QED  BY <1>1, <1>9, <2>1, <3>1, <3>2 DEF LifeOf
  <2>3. CASE x \in ended
    <3>1. /\ phase[x] = "finished" /\ phase'[x] = "gone" /\ x \in DOMAIN reqState
          /\ IsFiniteSet(gpuStores[x]) /\ reqState[x].stores = Cardinality(gpuStores[x])
          /\ \A t \in Tiers : told[t][x] = 0 /\ pending[t][x] = <<>>
      BY <1>1, <2>1, <2>3 DEF LifeOf
    <3>2. CASE x \in over
      <4>1. gpuStores[x] = {}
        BY <1>1, <3>1, <3>2, FS_EmptySet
      <4>2. x \notin DOMAIN reqState' /\ \A t \in Tiers : told'[t][x] = 1
        BY <1>4, <1>5, <3>1, <3>2
      <4> QED  BY <1>1, <1>9, <2>1, <3>1, <4>1, <4>2 DEF LifeOf
    <3>3. CASE x \notin over
      <4>1. gpuStores[x] # {}
        BY <1>1, <2>3, <3>1, <3>3, FS_EmptySet
      <4>2. x \in DOMAIN reqState' /\ \A t \in Tiers : told'[t][x] = 0
        BY <1>4, <1>5, <3>1, <3>3
      <4>3. reqState'[x].stores = reqState[x].stores /\ reqState'[x].finished = TRUE
        BY <1>5, <2>3, <4>2
      <4> QED  BY <1>1, <1>9, <2>1, <3>1, <4>1, <4>2, <4>3 DEF LifeOf
    <3> QED  BY <3>2, <3>3
  <2> QED  BY <2>2, <2>3
<1> QED  BY <1>3, <1>4, <1>8, <1>10, EngineNext

\* After a reset no request has anything in flight.
LEMMA EngineResets ==
    ASSUME Inv, ResetCache
    PROVE  Engine'
<1>1. PICK over, v :
         /\ over = {r \in DOMAIN reqState : reqState[r].finished \/ phase[r] = "finished"}
         /\ v = [t \in Tiers |-> Lookup!MarkMiss(UNION {LostKeys(f) : f \in finished[t]}, verdicts[t])]
         /\ stage = "draining" /\ stage' = "outputs"
         /\ reqState' = [r \in DOMAIN reqState \ over |-> [reqState[r] EXCEPT !.stores = 0]]
         /\ Finalize(over, v)
         /\ phase' = [r \in Reqs |-> IF phase[r] = "finished" THEN "gone" ELSE phase[r]]
         /\ offered' = [r \in Reqs |-> 0]
         /\ gpuLoads' = [r \in Reqs |-> {}] /\ gpuStores' = [r \in Reqs |-> {}]
         /\ pending' = [t \in Tiers |-> [r \in Reqs |-> <<>>]]
         /\ workload' = workload /\ computed' = computed /\ scan' = scan
  BY Zenon DEF ResetCache, boundVars
<1>2. EngineTypes /\ Lives
  BY DEF Inv, Engine
<1>3. ScanIsSound' /\ scan' \in Scans
  BY <1>1, NoScanStays
<1>4. AllWanted(verdicts', told') /\ told' \in [Tiers -> [Reqs -> Nat]]
      /\ \A t \in Tiers, x \in Reqs : told'[t][x] = IF x \in over THEN told[t][x] + 1 ELSE told[t][x]
  <2>1. AllWanted(verdicts, told) /\ told \in [Tiers -> [Reqs -> Nat]]
    BY <1>2, TablesNow DEF EngineTypes
  <2>2. \A t \in Tiers : Wanted(v[t], told[t])
    BY <1>1, <2>1, DecidedTables DEF AllWanted
  <2>3. AllWanted(v, told)
    BY <1>1, <2>2 DEF AllWanted
  <2> QED  BY <1>1, <2>1, <2>3, Finalized
<1>5. /\ DOMAIN reqState' = DOMAIN reqState \ over
      /\ \A x \in DOMAIN reqState' :
            /\ reqState'[x] \in [stores : Nat, finished : BOOLEAN]
            /\ reqState'[x].stores = 0
            /\ reqState'[x].finished = reqState[x].finished
      /\ reqState' = [x \in DOMAIN reqState' |-> reqState'[x]]
  <2>1. \A x \in DOMAIN reqState : reqState[x] \in [stores : Nat, finished : BOOLEAN]
    BY <1>2 DEF EngineTypes
  <2>2. DOMAIN reqState' = DOMAIN reqState \ over
        /\ reqState' = [x \in DOMAIN reqState' |-> reqState'[x]]
    BY <1>1
  <2>3. ASSUME NEW x \in DOMAIN reqState'
        PROVE  reqState'[x] = [reqState[x] EXCEPT !.stores = 0]
    BY <1>1
  <2> QED  BY <2>1, <2>2, <2>3
<1>6. phase' \in [Reqs -> Phases]
  BY <1>1, <1>2 DEF EngineTypes, Phases
<1>7. reqState' \in [DOMAIN reqState' -> [stores : Nat, finished : BOOLEAN]]
  BY <1>5, Zenon
<1>8. /\ offered' \in [Reqs -> Nat] /\ gpuLoads' \in [Reqs -> SUBSET Keys]
      /\ gpuStores' \in [Reqs -> SUBSET SUBSET Keys] /\ pending' \in [Tiers -> [Reqs -> Seq(Promise)]]
  BY <1>1
<1>9. EngineTypesNext
  BY <1>1, <1>2, <1>3, <1>4, <1>5, <1>6, <1>7, <1>8 DEF EngineTypes, EngineTypesNext
<1>10. Tiers' = Tiers
  BY <1>1 DEF Tiers
<1>11. ASSUME NEW x \in Reqs PROVE LifeOf(x)'
  <2>1. LifeOf(x) /\ Chunks(x)' = Chunks(x)
    BY <1>1, <1>2 DEF Lives, Chunks, Prompt
  <2>2. /\ gpuStores'[x] = {} /\ gpuLoads'[x] = {} /\ offered'[x] = 0
        /\ IsFiniteSet(gpuStores'[x]) /\ Cardinality(gpuStores'[x]) = 0
        /\ \A t \in Tiers : pending'[t][x] = <<>>
    BY <1>1, FS_EmptySet
  <2>3. CASE x \notin DOMAIN reqState
    <3>1. x \notin over /\ x \notin DOMAIN reqState' /\ phase[x] \in {"new", "gone"}
      BY <1>1, <1>2, <1>5, <2>1, <2>3 DEF LifeOf, EngineTypes, Phases
    <3>2. phase'[x] = phase[x] /\ \A t \in Tiers : told'[t][x] = told[t][x]
      BY <1>1, <1>4, <3>1
    <3> QED  BY <1>1, <1>10, <2>1, <2>2, <2>3, <3>1, <3>2 DEF LifeOf
  <2>4. CASE x \in over
    <3>1. /\ x \in DOMAIN reqState /\ phase[x] \in {"finished", "gone"}
          /\ \A t \in Tiers : told[t][x] = 0
      BY <1>1, <2>1, <2>4 DEF LifeOf
    <3>2. phase'[x] = "gone"
      BY <1>1, <3>1
    <3>3. x \notin DOMAIN reqState'
      BY <1>5, <2>4
    <3>4. \A t \in Tiers : told'[t][x] = 1
      BY <1>4, <2>4, <3>1
    <3> QED  BY <1>1, <1>10, <2>1, <2>2, <3>1, <3>2, <3>3, <3>4 DEF LifeOf
  <2>5. CASE x \in DOMAIN reqState \ over
    <3>1. /\ phase[x] \in {"waiting", "loading", "running"} /\ ~reqState[x].finished
          /\ \A t \in Tiers : told[t][x] = 0
      BY <1>1, <2>1, <2>5 DEF LifeOf
    <3>2. /\ phase'[x] = phase[x] /\ x \in DOMAIN reqState' /\ \A t \in Tiers : told'[t][x] = 0
          /\ reqState'[x].stores = 0 /\ reqState'[x].finished = reqState[x].finished
      BY <1>1, <1>4, <1>5, <2>5, <3>1
    <3> QED  BY <1>1, <1>10, <2>1, <2>2, <3>1, <3>2 DEF LifeOf
  <2> QED  BY <2>3, <2>4, <2>5
<1> QED  BY <1>3, <1>4, <1>9, <1>11, EngineNext

-----------------------------------------------------------------------------
(***************************************************************************)
(* The invariant holds at the start, and every step keeps it.               *)
(***************************************************************************)

\* The invariant holds at the start.
LEMMA InitIsSound ==
    ASSUME Init
    PROVE  Inv
<1>1. /\ workload \in Workloads
      /\ verdicts = [t \in Tiers |-> Lookup!NoVerdicts]
      /\ loadQ = [t \in Tiers |-> <<>>] /\ storeQ = [t \in Tiers |-> <<>>]
      /\ running = [t \in Tiers |-> {}] /\ finished = [t \in Tiers |-> {}]
      /\ data = [s \in Slots |-> Garbage]
      /\ disk = [t \in Tiers |-> [k \in Keys |-> IF k \in workload.onDisk[t] THEN k ELSE NoKey]]
      /\ primary = [k \in {} |-> [ref |-> 0, slot |-> 0]]
      /\ jobs = {}
      /\ pending = [t \in Tiers |-> [r \in Reqs |-> <<>>]]
      /\ reqState = [r \in {} |-> [stores |-> 0, finished |-> FALSE]]
      /\ told = [t \in Tiers |-> [r \in Reqs |-> 0]]
      /\ stage = "outputs" /\ scan = NoScan
      /\ phase = [r \in Reqs |-> "new"]
      /\ computed = [r \in Reqs |-> 0] /\ offered = [r \in Reqs |-> 0]
      /\ gpuLoads = [r \in Reqs |-> {}] /\ gpuStores = [r \in Reqs |-> {}]
  BY DEF Init, Lookup!LookupInit, Pool!PoolInit
<1>2. \A t \in Tiers : IsTable(verdicts[t]) /\ DOMAIN verdicts[t] = {}
  BY <1>1 DEF Lookup!NoVerdicts, IsTable
<1>3. EngineTypes
  BY <1>1, <1>2 DEF EngineTypes, NoScan, Scans, Phases
<1>4. Lives /\ ScanIsSound /\ VerdictsAreWanted
  BY <1>1, <1>2 DEF Lives, LifeOf, ScanIsSound, VerdictsAreWanted, NoScan
<1>5. IsPrimary(primary, Slots) /\ ReadyHold(primary, data) /\ DOMAIN primary = {}
  BY <1>1 DEF IsPrimary, ReadyHold
<1>6. JobsAreSound(jobs, Tiers)
  BY <1>1, FS_EmptySet DEF JobsAreSound
<1>7. Accounts(primary, gpuLoads, gpuStores, jobs, Tiers, pending)
  <2>1. ASSUME NEW k \in Keys
        PROVE  /\ Loading(gpuLoads, k) = {} /\ Reading(jobs, k) = {} /\ Storing(gpuStores, k) = {}
               /\ Filling(jobs, k) = {} /\ Promised(Tiers, pending, k) = {}
    BY <1>1 DEF Loading, Reading, Storing, Filling, Promised
  <2>2. Counted(primary, gpuLoads, gpuStores, jobs, Tiers, pending)
    BY <1>5, <2>1 DEF Counted, Exact
  <2>3. SlotsDiffer(primary) /\ LocatedJobs(primary, jobs)
    BY <1>1, <1>5 DEF SlotsDiffer, LocatedJobs
  <2>4. \A t \in Tiers, r \in Reqs : DOMAIN pending[t][r] = {}
    BY <1>1
  <2>5. LocatedPromises(primary, Tiers, pending) /\ PromisesDiffer(Tiers, pending)
    BY <2>4 DEF LocatedPromises, PromisesDiffer
  <2>6. StoresDiffer(gpuStores)
    BY <1>1 DEF StoresDiffer
  <2> QED  BY <2>2, <2>3, <2>5, <2>6 DEF Accounts
<1>8. Offers(jobs, gpuStores, offered, workload.prompt)
  BY <1>1 DEF Offers
<1>9. Placed(jobs, loadQ, storeQ, running, finished, Tiers)
  <2>1. ASSUME NEW t \in Tiers
        PROVE  PlacedIn(JobsOf(jobs, t), loadQ[t], storeQ[t], running[t], finished[t], Tiers)
    <3>1. loadQ[t] = <<>> /\ storeQ[t] = <<>> /\ running[t] = {} /\ finished[t] = {}
      BY <1>1
    <3>2. Range(loadQ[t]) = {} /\ Range(storeQ[t]) = {} /\ IsInjective(loadQ[t]) /\ IsInjective(storeQ[t])
      BY <3>1 DEF Range, IsInjective
    <3>3. Working(running[t]) = {} /\ Over(finished[t]) = {} /\ JobsOf(jobs, t) = {}
      BY <1>1, <3>1 DEF Working, Over, JobsOf
    <3>4. loadQ[t] \in Seq(Job(Tiers)) /\ storeQ[t] \in Seq(Job(Tiers))
      BY <3>1
    <3> QED  BY <3>1, <3>2, <3>3, <3>4, FS_EmptySet DEF PlacedIn
  <2> QED  BY <1>1, <2>1 DEF Placed
<1>10. Copies(primary, data, disk, running, finished, Tiers, Slots)
  <2>1. \A t \in Tiers : workload.onDisk[t] \subseteq Keys
    BY <1>1, WorkloadFacts
  <2>2. DiskHolds(disk, Tiers)
    BY <1>1, <2>1 DEF DiskHolds
  <2>3. Progress(data, running, finished, Tiers)
    BY <1>1 DEF Progress
  <2> QED  BY <1>1, <1>5, <2>2, <2>3 DEF Copies
<1> QED  BY <1>3, <1>4, <1>5, <1>6, <1>7, <1>8, <1>9, <1>10 DEF Inv, Engine, Books

\* The scheduler's steps keep it.
LEMMA StepKeeps ==
    ASSUME Inv, Step
    PROVE  Inv'
<1>1. CASE BeginStep \/ StayWaiting \/ LookupCrashes \/ AdmitCrashes
  BY <1>1, EngineQuiet DEF Inv
<1>2. CASE \E r \in Reqs : StartScan(r)
  <2>1. PICK r \in Reqs : StartScan(r)
    BY <1>2
  <2>2. /\ workload' = workload /\ primary' = primary /\ jobs' = jobs /\ pending' = pending
        /\ gpuLoads' = gpuLoads /\ gpuStores' = gpuStores /\ offered' = offered
        /\ loadQ' = loadQ /\ storeQ' = storeQ /\ running' = running /\ finished' = finished
        /\ data' = data /\ disk' = disk
    BY <2>1, Zenon DEF StartScan, mgrVars, poolVars, storageVars, progressVars, gpuVars, boundVars
  <2> QED  BY <2>1, <2>2, EngineStarts, BooksStay DEF Inv
<1>3. CASE LookupInPrimary \/ LookupUndecided \/ LookupRefused
  <2>1. /\ workload' = workload /\ primary' = PolledPrimary /\ Poll /\ pending' = pending
        /\ gpuLoads' = gpuLoads /\ gpuStores' = gpuStores /\ offered' = offered
        /\ loadQ' = loadQ /\ storeQ' = storeQ /\ running' = running /\ data' = data /\ disk' = disk
    BY <1>3, Zenon DEF LookupInPrimary, LookupUndecided, LookupRefused, AskSecondary,
                       storageVars, progressVars, gpuVars, boundVars
  <2> QED  BY <1>3, <2>1, EngineLooksUp, BooksPolled DEF Inv
<1>4. CASE \E evicted \in SUBSET Keys : LookupPromotes(evicted)
  BY <1>4, EnginePromises, BooksPromoted DEF Inv
<1>5. CASE Admit
  BY <1>5, EngineAdmits, BooksAdmitted DEF Inv
<1>6. CASE OnScheduleEnd
  BY <1>6, EngineFlushes, BooksFlushed DEF Inv
<1>7. ASSUME NEW r \in Reqs, NEW upto, BuildNoStore(r, upto) PROVE Inv'
  BY <1>7, BuildsNothing DEF Inv
<1>8. ASSUME NEW r \in Reqs, NEW upto, NEW evicted \in SUBSET Keys, BuildStore(r, upto, evicted)
      PROVE  Inv'
  BY <1>8, EngineOffers, BooksOffered DEF Inv
<1>9. CASE FinishMeta
  <2>1. /\ workload' = workload /\ primary' = primary /\ jobs' = jobs /\ pending' = pending
        /\ gpuLoads' = gpuLoads /\ gpuStores' = gpuStores /\ offered' = offered
        /\ loadQ' = loadQ /\ storeQ' = storeQ /\ running' = running /\ finished' = finished
        /\ data' = data /\ disk' = disk
    BY <1>9, Zenon DEF FinishMeta, mgrVars, poolVars, storageVars, gpuVars, boundVars
  <2> QED  BY <1>9, <2>1, EngineTells, BooksStay DEF Inv
<1>10. CASE ResetCache
  BY <1>10, EngineResets, BooksReset DEF Inv
<1> QED
  BY <1>1, <1>2, <1>3, <1>4, <1>5, <1>6, <1>7, <1>8, <1>9, <1>10, Zenon DEF Step

\* So does every step.
LEMMA NextKeeps ==
    ASSUME Inv, [Next]_vars
    PROVE  Inv'
<1>1. CASE Step
  BY <1>1, StepKeeps
<1>2. ASSUME NEW r \in Reqs, Arrive(r) \/ Finish(r) PROVE Inv'
  <2>1. /\ workload' = workload /\ primary' = primary /\ jobs' = jobs /\ pending' = pending
        /\ gpuLoads' = gpuLoads /\ gpuStores' = gpuStores /\ offered' = offered
        /\ loadQ' = loadQ /\ storeQ' = storeQ /\ running' = running /\ finished' = finished
        /\ data' = data /\ disk' = disk
    BY <1>2, Zenon DEF Arrive, Finish, mgrVars, poolVars, storageVars, gpuVars, boundVars
  <2> QED  BY <1>2, <2>1, EngineArrives, EngineFinishes, BooksStay DEF Inv
<1>3. ASSUME NEW r \in Reqs, Report(r) PROVE Inv'
  <2>1. CASE CompleteLoad(r)
    BY <2>1, EngineLoads, BooksLoaded DEF Inv
  <2>2. ASSUME NEW keys \in gpuStores[r], NEW order \in SetToSeqs(keys), CompleteStore(r, keys, order)
        PROVE  Inv'
    BY <2>2, EngineStores, BooksStored DEF Inv
  <2> QED  BY <1>3, <2>1, <2>2, Zenon DEF Report
<1>4. CASE StartReset
  BY <1>4, EngineQuiet DEF Inv
<1>5. ASSUME NEW t \in Tiers, \/ ProbeFiles(t, {}) \/ MoveBlocks(t) \/ Fault(t)
                              \/ \E r \in Reqs : FailingProbe(t, r)
      PROVE  Inv'
  BY <1>5, EngineQuiet DEF Inv
<1>6. CASE UNCHANGED vars
  <2>1. /\ workload' = workload /\ primary' = primary /\ jobs' = jobs /\ pending' = pending
        /\ gpuLoads' = gpuLoads /\ gpuStores' = gpuStores /\ offered' = offered
        /\ loadQ' = loadQ /\ storeQ' = storeQ /\ running' = running /\ finished' = finished
        /\ data' = data /\ disk' = disk
        /\ verdicts' = verdicts /\ scan' = scan /\ stage' = stage /\ RequestsStay
    BY <1>6, Zenon DEF vars, mgrVars, reqVars, lookupVars, poolVars, storageVars, engineVars,
                       progressVars, gpuVars, boundVars, RequestsStay
  <2> QED  BY <2>1, EngineIdles, BooksStay DEF Inv
<1> QED  BY <1>1, <1>2, <1>3, <1>4, <1>5, <1>6, Zenon DEF Next

\* Every reachable state satisfies the invariant.
THEOREM InvHolds == Spec => []Inv
<1>1. Init => Inv
  BY InitIsSound
<1>2. Inv /\ [Next]_vars => Inv'
  BY NextKeeps
<1> QED  BY <1>1, <1>2, PTL DEF Spec

-----------------------------------------------------------------------------
(***************************************************************************)
(* What the invariant says of the properties that the runs check.           *)
(***************************************************************************)

\* What the slots and the files hold.
LEMMA DataIsRight ==
    ASSUME Inv
    PROVE  ReadyKeysHoldTheirData /\ FilesHoldTheirData
<1>1. ReadyHold(primary, data) /\ DiskHolds(disk, Tiers)
  BY DEF Inv, Books, Copies
<1> QED  BY <1>1 DEF ReadyHold, DiskHolds, ReadyKeysHoldTheirData, FilesHoldTheirData, Ready

\* The slots of the jobs in flight.
LEMMA SlotsAreOwned ==
    ASSUME Inv
    PROVE  TransfersOwnTheirSlots
<1> SUFFICES ASSUME NEW t \in Tiers, NEW j \in InFlight(t), NEW i \in DOMAIN j.keys
             PROVE  /\ j.keys[i] \in DOMAIN primary
                    /\ primary[j.keys[i]].slot = j.slots[i]
                    /\ IF j.promotion THEN primary[j.keys[i]].ref = -1 ELSE primary[j.keys[i]].ref > 0
  BY DEF TransfersOwnTheirSlots
<1>1. PlacedIn(JobsOf(jobs, t), loadQ[t], storeQ[t], running[t], finished[t], Tiers)
  BY DEF Inv, Books, Placed
<1>2. j \in jobs
  BY <1>1 DEF PlacedIn, JobsOf, InFlight, Working
<1>3. /\ LocatedJobs(primary, jobs) /\ Counted(primary, gpuLoads, gpuStores, jobs, Tiers, pending)
      /\ JobsAreSound(jobs, Tiers)
  BY DEF Inv, Books, Accounts
<1>4. PICK k : k = j.keys[i]
  OBVIOUS
<1>5. k \in DOMAIN primary /\ primary[k].slot = j.slots[i] /\ k \in Range(j.keys)
  BY <1>2, <1>3, <1>4 DEF LocatedJobs, Range
<1>6. k \in Keys
  BY <1>5 DEF Inv, Books, IsPrimary
<1>7. Exact(primary, k, Loading(gpuLoads, k), Reading(jobs, k), Storing(gpuStores, k),
            Filling(jobs, k), Promised(Tiers, pending, k))
  BY <1>3, <1>6 DEF Counted
<1>8. CASE j.promotion
  <2>1. j \in Filling(jobs, k)
    BY <1>2, <1>5, <1>8 DEF Filling
  <2> QED  BY <1>4, <1>5, <1>7, <1>8, <2>1 DEF Exact
<1>9. CASE ~j.promotion
  <2>1. PICK L, R : L = Loading(gpuLoads, k) /\ R = Reading(jobs, k)
    OBVIOUS
  <2>2. IsFiniteSet(L) /\ IsFiniteSet(R)
    BY <1>3, <2>1, ClaimsAreFinite DEF JobsAreSound
  <2>3. R # {}
    BY <1>2, <1>5, <1>9, <2>1 DEF Reading
  <2>4. Cardinality(L) \in Nat /\ Cardinality(R) \in Nat /\ Cardinality(R) # 0
    BY <2>2, <2>3, FS_CardinalityType, FS_EmptySet
  <2>5. primary[k].ref = Cardinality(L) + Cardinality(R)
    BY <1>5, <1>7, <2>1, <2>3 DEF Exact
  <2> QED  BY <1>4, <1>5, <1>9, <2>4, <2>5
<1> QED  BY <1>8, <1>9

\* One claim counts one.
LEMMA OneIsOne ==
    ASSUME NEW A, One(A)
    PROVE  IsFiniteSet(A) /\ Cardinality(A) = 1
BY FS_Singleton DEF One

\* The counts that the claims come to.
LEMMA CountsAreExact ==
    ASSUME Inv
    PROVE  RefCountsAreExact
<1> SUFFICES ASSUME NEW k \in DOMAIN primary
             PROVE  IF primary[k].ref = -1 THEN Writers(k) = 1 /\ Readers(k) = 0
                    ELSE Writers(k) = 0 /\ Readers(k) = primary[k].ref
  BY DEF RefCountsAreExact
<1>1. PICK L, R, S, F, P :
         /\ L = Loading(gpuLoads, k) /\ R = Reading(jobs, k) /\ S = Storing(gpuStores, k)
         /\ F = Filling(jobs, k) /\ P = Promised(Tiers, pending, k)
  OBVIOUS
<1>2. k \in Keys
  BY DEF Inv, Books, IsPrimary
<1>3. Exact(primary, k, L, R, S, F, P)
  BY <1>1, <1>2 DEF Inv, Books, Accounts, Counted
<1>4. Readers(k) = Cardinality(L) + Cardinality(R)
  BY <1>1 DEF Readers, Loading, Reading
<1>5. Writers(k) = (Cardinality(S) + Cardinality(F)) + Cardinality(P)
  BY <1>1 DEF Writers, Storing, Filling, Promised
<1>6. Cardinality({}) = 0
  BY FS_EmptySet
<1>7. CASE primary[k].ref = -1
  <2>1. L = {} /\ R = {} /\ OneWriter(S, F, P)
    BY <1>3, <1>7 DEF Exact
  <2>2. \/ Cardinality(S) = 1 /\ Cardinality(F) = 0 /\ Cardinality(P) = 0
        \/ Cardinality(S) = 0 /\ Cardinality(F) = 1 /\ Cardinality(P) = 0
        \/ Cardinality(S) = 0 /\ Cardinality(F) = 0 /\ Cardinality(P) = 1
    BY <1>6, <2>1, OneIsOne DEF OneWriter
  <2> QED  BY <1>4, <1>5, <1>6, <1>7, <2>1, <2>2
<1>8. CASE primary[k].ref # -1
  BY <1>3, <1>4, <1>5, <1>6, <1>8 DEF Exact
<1> QED  BY <1>7, <1>8

\* The places of the jobs, and how many there are.
LEMMA JobsAreWhereTheyAre ==
    ASSUME Inv
    PROVE  JobsAreTracked
<1> SUFFICES ASSUME NEW t \in Tiers
             PROVE  /\ JobsOf(jobs, t) = InFlight(t) \cup {f.job : f \in finished[t]}
                    /\ Cardinality(JobsOf(jobs, t))
                         = Len(loadQ[t]) + Len(storeQ[t]) + Cardinality(running[t]) + Cardinality(finished[t])
  BY DEF JobsAreTracked, JobsOf
<1>1. PICK lq, sq, ru, fi : lq = loadQ[t] /\ sq = storeQ[t] /\ ru = running[t] /\ fi = finished[t]
  OBVIOUS
<1>2. PlacedIn(JobsOf(jobs, t), lq, sq, ru, fi, Tiers)
  BY <1>1 DEF Inv, Books, Placed
<1>3. PICK A, B, C, D : A = Range(lq) /\ B = Range(sq) /\ C = Working(ru) /\ D = Over(fi)
  OBVIOUS
<1>4. /\ JobsOf(jobs, t) = ((A \cup B) \cup C) \cup D
      /\ A \cap B = {} /\ (A \cup B) \cap C = {} /\ ((A \cup B) \cup C) \cap D = {}
  BY <1>2, <1>3 DEF PlacedIn
<1>5. IsFiniteSet(A) /\ Cardinality(A) = Len(lq) /\ IsFiniteSet(B) /\ Cardinality(B) = Len(sq)
  BY <1>2, <1>3, LengthIsCount DEF PlacedIn
<1>6. IsFiniteSet(C) /\ Cardinality(C) = Cardinality(ru)
  <2> DEFINE f == [w \in ru |-> w.job]
             J == {w.job : w \in ru}
  <2>1. IsFiniteSet(ru) /\ f \in [ru -> J] /\ \A v, w \in ru : f[v] = f[w] => v = w
    BY <1>2 DEF PlacedIn
  <2>2. {f[w] : w \in ru} = C
    BY <1>3 DEF Working
  <2> HIDE DEF f, J
  <2> QED  BY <2>1, <2>2, CountImage
<1>7. IsFiniteSet(D) /\ Cardinality(D) = Cardinality(fi)
  <2> DEFINE f == [w \in fi |-> w.job]
             J == {w.job : w \in fi}
  <2>1. IsFiniteSet(fi) /\ f \in [fi -> J] /\ \A v, w \in fi : f[v] = f[w] => v = w
    BY <1>2 DEF PlacedIn
  <2>2. {f[w] : w \in fi} = D
    BY <1>3 DEF Over
  <2> HIDE DEF f, J
  <2> QED  BY <2>1, <2>2, CountImage
<1>8. IsFiniteSet(A \cup B) /\ Cardinality(A \cup B) = Cardinality(A) + Cardinality(B)
  BY <1>4, <1>5, CountParts
<1>9. /\ IsFiniteSet((A \cup B) \cup C)
      /\ Cardinality((A \cup B) \cup C) = Cardinality(A \cup B) + Cardinality(C)
  <2>1. PICK E : E = A \cup B
    OBVIOUS
  <2>2. IsFiniteSet(E) /\ E \cap C = {}
    BY <1>4, <1>8, <2>1
  <2>3. IsFiniteSet(E \cup C) /\ Cardinality(E \cup C) = Cardinality(E) + Cardinality(C)
    BY <1>6, <2>2, CountParts
  <2> QED  BY <2>1, <2>3
<1>10. Cardinality(((A \cup B) \cup C) \cup D) = Cardinality((A \cup B) \cup C) + Cardinality(D)
  <2>1. PICK E : E = (A \cup B) \cup C
    OBVIOUS
  <2>2. IsFiniteSet(E) /\ E \cap D = {}
    BY <1>4, <1>9, <2>1
  <2>3. Cardinality(E \cup D) = Cardinality(E) + Cardinality(D)
    BY <1>7, <2>2, CountParts
  <2> QED  BY <2>1, <2>3
<1>11. Cardinality(JobsOf(jobs, t)) = ((Len(lq) + Len(sq)) + Cardinality(ru)) + Cardinality(fi)
  BY <1>4, <1>5, <1>6, <1>7, <1>8, <1>9, <1>10
<1>12. InFlight(t) = (A \cup B) \cup C /\ {f.job : f \in finished[t]} = D
  BY <1>1, <1>3 DEF InFlight, Working, Over
<1> QED  BY <1>1, <1>4, <1>11, <1>12

\* Where new jobs come from: requests that no tier was told about.
LEMMA NewJobs ==
    ASSUME Inv, Next, NEW j \in jobs' \ jobs
    PROVE  j.req \in Reqs /\ \A t \in Tiers : told[t][j.req] = 0
<1>1. EngineTypes /\ Lives
  BY DEF Inv, Engine
<1>2. ASSUME NEW r \in Reqs, \/ r \in DOMAIN reqState
                             \/ phase[r] # "gone"
      PROVE  \A t \in Tiers : told[t][r] = 0
  BY <1>1, <1>2 DEF Lives, LifeOf
<1>3. ASSUME NEW r \in Reqs, NEW keys \in gpuStores[r], NEW order, CompleteStore(r, keys, order)
      PROVE  j.req = r /\ r \in DOMAIN reqState
  <2>1. j \in {Transfer(t, r, FALSE, order, SlotsOf(Written(primary, keys), order)) : t \in Tiers}
    BY <1>3, Zenon DEF CompleteStore
  <2> QED  BY <1>1, <2>1 DEF Transfer, Lives, LifeOf
<1>4. ASSUME OnScheduleEnd
      PROVE  j.req \in Reqs /\ phase[j.req] # "gone"
  <2>1. jobs' = (jobs \ CollectedJobs) \cup (UNION {PromotionsOf(t) : t \in Tiers})
    BY <1>4, Zenon DEF OnScheduleEnd
  <2>2. PICK t \in Tiers : j \in PromotionsOf(t)
    BY <2>1
  <2>3. j.req \in Reqs /\ pending[t][j.req] # <<>>
    BY <2>2 DEF PromotionsOf, Transfer
  <2> QED  BY <1>1, <2>3 DEF Lives, LifeOf
<1>5. ASSUME NEW r \in Reqs, NEW upto, NEW evicted, BuildStore(r, upto, evicted)
      PROVE  j.req = r /\ phase[r] # "gone"
  <2> DEFINE keys == ToOffer(r, upto)
             p == Reserve(Evicted(PolledPrimary, evicted), Without(keys, DOMAIN PolledPrimary))
             old == Within(keys, {k \in DOMAIN p : Ready(p, k)})
             tiers == IF old = <<>> THEN {} ELSE RequestLevel[r] \cap Tiers
             slots == SlotsOf(p, old)
  <2>1. /\ jobs' = (jobs \ CollectedJobs) \cup {Transfer(t, r, FALSE, old, slots) : t \in tiers}
        /\ InMeta(r)
    BY <1>5, Zenon DEF BuildStore
  <2> HIDE DEF keys, p, old, tiers, slots
  <2>2. j \in {Transfer(t, r, FALSE, old, slots) : t \in tiers}
    BY <2>1
  <2> QED  BY <2>1, <2>2 DEF Transfer, InMeta
<1>6. ASSUME jobs' = jobs \/ Poll PROVE FALSE
  BY <1>6 DEF Poll
<1>7. CASE Step
  <2>1. ASSUME \/ BeginStep \/ StayWaiting \/ LookupCrashes \/ AdmitCrashes \/ Admit \/ FinishMeta
               \/ \E r \in Reqs : StartScan(r)
        PROVE  jobs' = jobs
    BY <2>1, Zenon DEF BeginStep, StayWaiting, LookupCrashes, AdmitCrashes, Admit, FinishMeta,
                       StartScan, mgrVars
  <2>2. ASSUME \/ LookupInPrimary \/ LookupUndecided \/ LookupRefused
               \/ \E evicted \in SUBSET Keys : LookupPromotes(evicted)
        PROVE  Poll
    BY <2>2, Zenon DEF LookupInPrimary, LookupUndecided, LookupRefused, LookupPromotes, AskSecondary
  <2>3. ASSUME NEW r \in Reqs, NEW upto, BuildNoStore(r, upto)
        PROVE  jobs' = jobs \/ Poll
    BY <2>3, Zenon DEF BuildNoStore, mgrVars
  <2>4. ASSUME ResetCache PROVE FALSE
    <3>1. jobs' = jobs \ (UNION {{f.job : f \in finished[t]} : t \in Tiers})
      BY <2>4, Zenon DEF ResetCache
    <3> QED  BY <3>1
  <2> QED  BY <1>2, <1>4, <1>5, <1>6, <1>7, <2>1, <2>2, <2>3, <2>4, Zenon DEF Step
<1>8. ASSUME NEW r \in Reqs, Arrive(r) \/ Finish(r) \/ CompleteLoad(r) PROVE jobs' = jobs
  BY <1>8, Zenon DEF Arrive, Finish, CompleteLoad, mgrVars
<1>9. ASSUME StartReset PROVE jobs' = jobs
  BY <1>9, Zenon DEF StartReset, mgrVars
<1>10. ASSUME NEW t \in Tiers, \/ ProbeFiles(t, {}) \/ MoveBlocks(t) \/ Fault(t)
                               \/ \E r \in Reqs : FailingProbe(t, r)
       PROVE  jobs' = jobs
  BY <1>10, Zenon DEF ProbeFiles, MoveBlocks, Fault, FailingProbe, mgrVars
<1>11. CASE \E r \in Reqs : Arrive(r) \/ Finish(r) \/ Report(r)
  BY <1>2, <1>3, <1>6, <1>8, <1>11, Zenon DEF Report
<1> QED  BY <1>6, <1>7, <1>9, <1>10, <1>11, Zenon DEF Next

\* What may happen is chosen once.
LEMMA WorkloadStays ==
    ASSUME Next
    PROVE  workload' = workload
<1>1. CASE Step
  <2>1. ASSUME NEW r \in Reqs, NEW upto, NEW evicted, BuildStore(r, upto, evicted)
        PROVE  workload' = workload
    BY <2>1, Zenon DEF BuildStore, boundVars
  <2>2. ASSUME NEW r \in Reqs, NEW upto, BuildNoStore(r, upto)
        PROVE  workload' = workload
    BY <2>2, Zenon DEF BuildNoStore, boundVars
  <2>3. ASSUME ResetCache \/ FinishMeta \/ OnScheduleEnd \/ Admit PROVE workload' = workload
    BY <2>3, Zenon DEF ResetCache, FinishMeta, OnScheduleEnd, Admit, boundVars
  <2>4. ASSUME NEW evicted, LookupPromotes(evicted) PROVE workload' = workload
    BY <2>4, Zenon DEF LookupPromotes, AskSecondary, boundVars
  <2>5. ASSUME LookupInPrimary \/ LookupUndecided \/ LookupRefused PROVE workload' = workload
    BY <2>5, Zenon DEF LookupInPrimary, LookupUndecided, LookupRefused, AskSecondary, boundVars
  <2>6. ASSUME \/ BeginStep \/ StayWaiting \/ LookupCrashes \/ AdmitCrashes
               \/ \E r \in Reqs : StartScan(r)
        PROVE  workload' = workload
    BY <2>6, Zenon DEF BeginStep, StayWaiting, LookupCrashes, AdmitCrashes, StartScan, boundVars
  <2> QED  BY <1>1, <2>1, <2>2, <2>3, <2>4, <2>5, <2>6, Zenon DEF Step
<1>2. ASSUME NEW r \in Reqs, Arrive(r) \/ Finish(r) \/ Report(r)
      PROVE  workload' = workload
  <2>1. ASSUME NEW keys, NEW order, CompleteStore(r, keys, order) PROVE workload' = workload
    BY <2>1, Zenon DEF CompleteStore, boundVars
  <2>2. ASSUME Arrive(r) \/ Finish(r) \/ CompleteLoad(r) PROVE workload' = workload
    BY <2>2, Zenon DEF Arrive, Finish, CompleteLoad, boundVars
  <2> QED  BY <1>2, <2>1, <2>2, Zenon DEF Report
<1>3. ASSUME StartReset PROVE workload' = workload
  BY <1>3, Zenon DEF StartReset
<1>4. ASSUME NEW t \in Tiers, \/ ProbeFiles(t, {}) \/ MoveBlocks(t) \/ Fault(t)
                              \/ \E r \in Reqs : FailingProbe(t, r)
      PROVE  workload' = workload
  BY <1>4, Zenon DEF ProbeFiles, MoveBlocks, Fault, FailingProbe, boundVars
<1> QED  BY <1>1, <1>2, <1>3, <1>4, Zenon DEF Next

\* A step tells no tier twice, and gives it no job of a request it was told about.
NoJobAfter(t, r) == /\ told'[t][r] <= 1
                    /\ told[t][r] = 1 => \A j \in jobs' \ jobs : ~(j.tier = t /\ j.req = r)

\* So a step tells a tier at most once, and last.
LEMMA TellsOnce ==
    ASSUME Inv, Next
    PROVE  \A t \in Tiers, r \in Reqs : NoJobAfter(t, r)
<1> SUFFICES ASSUME NEW t \in Tiers, NEW r \in Reqs PROVE NoJobAfter(t, r)
  OBVIOUS
<1>1. Inv'
  BY NextKeeps
<1>2. Tiers' = Tiers
  BY WorkloadStays DEF Tiers
<1>3. told'[t][r] = 0 \/ told'[t][r] = 1
  <2>1. LifeOf(r)'
    BY <1>1 DEF Inv, Engine, Lives
  <2> QED  BY <1>2, <2>1 DEF LifeOf
<1>4. told[t][r] = 1 => \A j \in jobs' \ jobs : ~(j.tier = t /\ j.req = r)
  BY NewJobs
<1> QED  BY <1>3, <1>4 DEF NoJobAfter

-----------------------------------------------------------------------------
(***************************************************************************)
(* The theorems.                                                           *)
(***************************************************************************)

\* A promotion that fails half-way, an eviction or a reset never leaves a ready
\* key over other data: at every moment a key that can be loaded names a slot
\* with its own KV, however the tiers' threads and the scheduler interleave.
THEOREM ReadyKeysAreRight == Spec => []ReadyKeysHoldTheirData
<1>1. Inv => ReadyKeysHoldTheirData
  BY DataIsRight
<1> QED  BY <1>1, InvHolds, PTL

\* A cascade never writes another key's KV to a file, though the slot it reads
\* can be reused as soon as it is unpinned.
THEOREM FilesAreRight == Spec => []FilesHoldTheirData
<1>1. Inv => FilesHoldTheirData
  BY DataIsRight
<1> QED  BY <1>1, InvHolds, PTL

\* The slots of a job in a tier's queues or threads stay its keys' slots, pinned
\* for a cascade and write-pending for a promotion.
THEOREM TransfersKeepTheirSlots == Spec => []TransfersOwnTheirSlots
<1>1. Inv => TransfersOwnTheirSlots
  BY SlotsAreOwned
<1> QED  BY <1>1, InvHolds, PTL

\* The reference count of a block is the number of GPU loads and cascades that
\* read it, and -1 exactly while one store or promotion fills it.
THEOREM TierCountsAreExact == Spec => []RefCountsAreExact
<1>1. Inv => RefCountsAreExact
  BY CountsAreExact
<1> QED  BY <1>1, InvHolds, PTL

\* Every job that the manager waits for is in one place of its tier's pool, and
\* every job that a pool will report is one the manager waits for.
THEOREM EveryJobIsTracked == Spec => []JobsAreTracked
<1>1. Inv => JobsAreTracked
  BY JobsAreWhereTheyAre
<1> QED  BY <1>1, InvHolds, PTL

\* A verdict is kept only for requests whose end its tier was not told of.
THEOREM NoVerdictIsLeftOver == Spec => []VerdictsAreWanted
<1>1. Inv => VerdictsAreWanted
  BY DEF Inv, Engine
<1> QED  BY <1>1, InvHolds, PTL

\* A tier is told once that a request is over, and gets no job of it later.
THEOREM TiersAreToldLast == Spec => ToldOnceAndLast
<1>1. ASSUME Inv, [Next]_vars
      PROVE  [\A t \in Tiers, r \in Reqs :
                /\ told'[t][r] <= 1
                /\ told[t][r] = 1 => \A j \in jobs' \ jobs : ~(j.tier = t /\ j.req = r)]_vars
  BY <1>1, TellsOnce DEF NoJobAfter
<1> QED  BY <1>1, InvHolds, PTL DEF Spec, ToldOnceAndLast

=============================================================================

----------------------------- MODULE PrefixCache -----------------------------
(***************************************************************************)
(* Prefix hits of a hybrid model in mamba "align" mode: how a prefill is cut  *)
(* into chunks (Scheduler._mamba_block_aligned_split), which attention and    *)
(* mamba blocks a chunk registers (single_type_kv_cache_manager.py), and what  *)
(* a request finds (HybridKVCacheCoordinator.find_longest_cache_hit).          *)
(*                                                                         *)
(* One attention group and one mamba group.  Attention KV is append-only: of   *)
(* that group only the set of registered hashes is kept.  A mamba block holds  *)
(* one recurrent state, overwritten in place as the request advances, so the   *)
(* mamba group is modelled block by block, with the states the runner writes.  *)
(*                                                                         *)
(* A step schedules some requests (Continue, Admit) and then runs the model    *)
(* (Execute).  A decode step computes one token; no speculative blocks.        *)
(***************************************************************************)
EXTENDS Integers, SequencesExt, FiniteSetsExt

CONSTANTS
    Reqs,
    NoKey,      \* no block hash
    Garbage,    \* a state that is the state of no prefix
    HashSize,   \* hash_block_size
    AttnSize,   \* block size of the attention group
    MambaSize,  \* block size of the mamba group, given by --mamba-block-size
    NumBlocks,  \* mamba blocks in the pool
    MaxOutputs, \* bound on the tokens a request generates
    Workloads   \* see workload

ASSUME ReqsAssumption == IsFiniteSet(Reqs)
ASSUME NumBlocksAssumption == NumBlocks \in Nat
ASSUME SizesAssumption ==
    /\ {HashSize, AttnSize, MambaSize} \subseteq Nat \ {0}
    /\ HashSize < AttnSize /\ AttnSize < MambaSize
    /\ AttnSize % HashSize = 0 /\ MambaSize % AttnSize = 0
ASSUME WorkloadsAssumption ==
    \A w \in Workloads :
       /\ DOMAIN w.text \subseteq Reqs /\ DOMAIN w.prompt = DOMAIN w.text
       /\ \A r \in DOMAIN w.text : w.prompt[r] \in Nat \ {0}
       /\ {w.common, w.dropUnits, w.preempts, w.evictions} \subseteq Nat
       /\ w.eagle \in BOOLEAN
       /\ w.maxTokens \in Nat \ {0} /\ w.budgets \subseteq Nat

\* The prefixes: what is shared by all texts, prompts, and what a request generated.
PrefixKeys == ({"common"} \cup (UNION {Range(w.text) : w \in Workloads}) \cup Reqs) \X Nat
ASSUME NoKeyAssumption == NoKey \notin PrefixKeys

VARIABLES
    workload,  \* text: request -> its prompt's text; prompt: its length; common:
               \* length of the prefix all texts share; eagle; dropUnits;
               \* maxTokens: of a step; budgets: what a step may leave a request;
               \* preempts, evictions: bounds
    status, computed, outputs, junction,  \* Request
    table,     \* req_to_blocks of the mamba group
    numCached, \* num_cached_block
    partial,   \* _partial_hit_reqs: block index to copy on write, or -1
    allocated, \* _allocated_block_reqs
    hash,      \* mamba block -> the prefix it is registered for
    state,     \* mamba block -> the prefix whose state it holds
    attention, \* hashes registered in the attention group
    newKeys,   \* cached_blocks_this_step
    copies,    \* _pending_cow_copies
    batch,     \* requests scheduled in this step -> end of their chunk
    evicted,   \* some registered block was given to somebody else
    used       \* preemptions and evictions so far

reqVars == <<status, computed, outputs, junction>>
mambaVars == <<table, numCached, partial, allocated, hash, newKeys, copies>>
vars == <<reqVars, mambaVars, workload, state, attention, batch, evicted, used>>

Blocks == 1..NumBlocks
NullBlock == 0

Prompt(r) == workload.prompt[r]
NumTokens(r) == Prompt(r) + outputs[r]

\* The first n tokens of request r; requests share what their texts share.
Key(r, n) == IF n <= workload.common THEN <<"common", n>>
             ELSE IF n <= Prompt(r) THEN <<workload.text[r], n>> ELSE <<r, n>>

Cdiv(n, size) == (n + size - 1) \div size
Floor(n, size) == n - (n % size)
Slot(n) == Cdiv(n, MambaSize)  \* where the state after n tokens is

Init ==
    /\ workload \in Workloads
    /\ status = [r \in Reqs |-> IF r \in DOMAIN workload.text THEN "waiting" ELSE "finished"]
    /\ computed = [r \in Reqs |-> 0]
    /\ outputs = [r \in Reqs |-> 0]
    /\ junction = [r \in Reqs |-> 0]
    /\ table = [r \in Reqs |-> <<>>]
    /\ numCached = [r \in Reqs |-> 0]
    /\ partial = [r \in Reqs |-> -1]
    /\ allocated = {}
    /\ hash = [b \in Blocks |-> NoKey]
    /\ state = [b \in Blocks |-> Garbage]
    /\ attention = {}
    /\ newKeys = {}
    /\ copies = {}
    /\ batch = [r \in {} |-> 0]
    /\ evicted = FALSE
    /\ used = [preempts |-> 0, evictions |-> 0]

-----------------------------------------------------------------------------
(***************************************************************************)
(* Chunks.                                                                 *)
(***************************************************************************)

\* Mutant: chunks end at attention blocks.
SplitBlockUpstream == AttnSize

\* The block size chunk ends are aligned to.
SplitBlock == MambaSize

\* Mutant: the stop is the last hash boundary, whatever the attention group drops.
TailStopAtHash(r) == Floor(Prompt(r), HashSize)

\* The partial-tail stop: the last hash boundary of the prompt, with EAGLE as
\* much earlier as attention hits are cut.
TailStop(r) ==
    LET boundary == Floor(Prompt(r), HashSize)
        backed == boundary - HashSize * workload.dropUnits
    IN IF ~workload.eagle THEN boundary
       ELSE IF backed <= 0 \/ backed % MambaSize = 0 THEN 0 ELSE backed

\* Mutant: a chunk is aligned though no chunk can be as wide as a block.
AlignedAlways(start, end) == Floor(end, SplitBlock)

Aligned(start, end) ==
    LET down == Floor(end, SplitBlock)
    IN IF down > start \/ SplitBlock <= workload.maxTokens THEN down ELSE end

\* _mamba_block_aligned_split: the end of a chunk of at most n tokens.
ChunkEnd(r, start, n) ==
    LET prefillEnd == Max({Prompt(r), NumTokens(r) - 1})
        whole == Floor(NumTokens(r), SplitBlock)
        last == IF workload.eagle THEN Max({whole - SplitBlock, 0}) ELSE whole
        end == IF start + n < prefillEnd THEN Aligned(start, start + n) ELSE start + n
        stops == (IF start % SplitBlock # 0 THEN {Floor(start, SplitBlock) + SplitBlock} ELSE {})
                 \cup {last}
                 \cup {s \in {TailStop(r)} : last < s /\ s < Prompt(r)}
                 \cup (IF start < junction[r] /\ junction[r] < end
                       THEN {start + Floor(junction[r] - start, SplitBlock)} ELSE {})
        ahead == {s \in stops : start < s /\ s < end}
    IN IF start >= prefillEnd THEN start + n
       ELSE IF ahead # {} THEN Min(ahead)
       ELSE Max({end, start})

-----------------------------------------------------------------------------
(***************************************************************************)
(* Lookups.                                                                *)
(***************************************************************************)

\* FullAttentionManager.find_longest_cache_hit: full blocks from the start,
\* then the longest registered boundary inside the next block.
AttentionRun(r, max) ==
    LET full == Max({0} \cup {k \in 1..(max \div AttnSize) :
                                \A i \in 1..k : Key(r, i * AttnSize) \in attention}) * AttnSize
        tails == {e \in (full + HashSize)..(full + AttnSize - HashSize) :
                    e % HashSize = 0 /\ e <= max /\ Key(r, e) \in attention}
    IN Max({full} \cup tails)

AttentionHit(r, max) ==
    LET run == AttentionRun(r, max)
    IN IF workload.eagle /\ run > 0
       THEN run - Min({HashSize * workload.dropUnits, AttnSize}) ELSE run

\* MambaManager.find_longest_cache_hit: the last boundary with a state.
MambaHit(r, max) ==
    Max({0} \cup {e \in 1..max : e % HashSize = 0 /\ \E b \in Blocks : hash[b] = Key(r, e)})

\* HybridKVCacheCoordinator.find_longest_cache_hit of the first n tokens less
\* one; the longer hit of the attention group is where the request leaves others.
Lookup(r, n) ==
    LET longest == AttentionHit(r, n - 1)
        hit == MambaHit(r, longest)
    IN [hit |-> hit, junction |-> IF longest > hit THEN longest ELSE 0]

-----------------------------------------------------------------------------
(***************************************************************************)
(* MambaManager: blocks of a chunk and their registration.                   *)
(***************************************************************************)

Held(tables) == (UNION {Range(tables[r]) : r \in Reqs}) \cup (UNION {{c[1], c[2]} : c \in copies})
Free == Blocks \ Held(table)

\* What the free queue may hand out, n blocks: unregistered blocks are alike.
Pool(n, kept) ==
    LET free == Free \ Range(kept)
        blank == {b \in free : hash[b] = NoKey}
    IN IF n > 1 \/ blank = {} THEN free ELSE (free \ blank) \cup {Min(blank)}

\* add_local_computed_blocks: block found for a hit of n tokens, or no hit.
HitTable(n, found) ==
    IF n = 0 THEN <<>> ELSE [i \in 1..Slot(n) |-> IF i = Slot(n) THEN found ELSE NullBlock]

\* remove_skipped_blocks: only the block of the running state is kept.
Trimmed(t, n) == [i \in DOMAIN t |-> IF i < Slot(n) THEN NullBlock ELSE t[i]]

Padded(t, end) == t \o [i \in 1..Max({0, Slot(end) - 1 - Len(t)}) |-> NullBlock]

\* How many blocks a chunk that ends at end takes from the pool.
Needed(t, copyIdx, end) ==
    Max({0, Slot(end) - Len(Padded(t, end))}) + (IF copyIdx >= 0 THEN 1 ELSE 0)

\* Mutant: a partial hit runs on in the shared block.
TableInPlace(t, copyIdx, running, end, new) ==
    IF copyIdx < 0 THEN Padded(t, end) \o new ELSE Padded(t, end) \o Tail(new)

\* allocate_new_blocks.  The block of a partial hit is replaced by a copy; a
\* request that registered its own tail stays on its block, and the copy takes
\* the registration (see Moved).
TableAfter(t, copyIdx, running, end, new) ==
    IF copyIdx < 0 THEN Padded(t, end) \o new
    ELSE IF running THEN Padded(t, end) \o Tail(new)
    ELSE [Padded(t, end) EXCEPT ![copyIdx + 1] = new[1]] \o Tail(new)

\* Blocks taken from the pool lose their hash; move_block_hashes.
Moved(h, source, running, new) ==
    [b \in Blocks |->
        IF source # NullBlock /\ running /\ b = new[1] THEN h[source]
        ELSE IF b \in Range(new) \/ (source # NullBlock /\ running /\ b = source) THEN NoKey
        ELSE h[b]]

\* _cache_partial_tail_block: the boundary it registers.
TailBoundary(r) ==
    LET boundary == Floor(Prompt(r), HashSize)
    IN IF workload.eagle THEN boundary - HashSize * workload.dropUnits ELSE boundary

RegistersTail(r, t, h, end) ==
    /\ end = TailBoundary(r) /\ end > 0 /\ end % MambaSize # 0
    /\ Slot(end) <= Len(t) /\ t[Slot(end)] # NullBlock
    /\ h[t[Slot(end)]] = NoKey

\* cache_blocks: full blocks, then the tail.
Registered(r, t, h, first, end) ==
    [b \in Blocks |->
        IF \E p \in (first + 1)..(end \div MambaSize) : t[p] = b
        THEN Key(r, (CHOOSE p \in (first + 1)..(end \div MambaSize) : t[p] = b) * MambaSize)
        ELSE IF RegistersTail(r, t, h, end) /\ b = t[Slot(end)] THEN Key(r, end)
        ELSE h[b]]

\* FullAttentionManager.cache_blocks.
AttentionKeys(r, end) ==
    LET tail == Floor(Prompt(r), HashSize)
    IN {Key(r, k * AttnSize) : k \in 1..(end \div AttnSize)}
       \cup {Key(r, e) : e \in {tail} \cap 1..end}

\* allocate_slots for a chunk from start to end: t, first and copyIdx are the
\* request's table, cached blocks and partial hit before it.
Allocate(r, start, end, t, first, copyIdx) ==
    LET kept == Trimmed(t, start)
        source == IF copyIdx >= 0 THEN kept[copyIdx + 1] ELSE NullBlock
        running == r \in allocated
        n == Needed(kept, copyIdx, end)
    IN \E new \in [1..n -> Pool(n, kept)] :
        LET t1 == TableAfter(kept, copyIdx, running, end, new)
            h1 == Moved(hash, source, running, new)
            h2 == Registered(r, t1, h1, first, end)
        IN /\ IsInjective(new)
           /\ table' = [table EXCEPT ![r] = t1]
           /\ hash' = h2
           /\ numCached' = [numCached EXCEPT ![r] = Max({first, end \div MambaSize})]
           /\ partial' = [partial EXCEPT ![r] = IF RegistersTail(r, t1, h1, end)
                                                THEN end \div MambaSize ELSE -1]
           /\ allocated' = allocated \cup {r}
           /\ copies' = IF copyIdx >= 0 THEN copies \cup {<<source, new[1]>>} ELSE copies
           /\ newKeys' = newKeys \cup ({h2[b] : b \in {b \in Blocks : h2[b] # h1[b] \/ b \in Range(new)}}
                                       \ {NoKey})
           /\ attention' = attention \cup AttentionKeys(r, end)
           /\ evicted' = (evicted \/ \E b \in Range(new) : hash[b] # NoKey)

-----------------------------------------------------------------------------
(***************************************************************************)
(* The engine.                                                             *)
(***************************************************************************)

\* What is left of the step's tokens.
Left == workload.maxTokens - MapThenSumSet(LAMBDA r : batch[r] - computed[r], DOMAIN batch)

\* The end of r's chunk from start, when others leave it budget tokens.
Chunk(r, start, budget) == ChunkEnd(r, start, Min({NumTokens(r) - start, budget, Left}))

Scheduled(r, end) == batch' = [x \in DOMAIN batch \cup {r} |-> IF x = r THEN end ELSE batch[x]]

\* schedule(), a running request.
Continue(r, budget) ==
    LET end == Chunk(r, computed[r], budget)
    IN /\ status[r] = "running" /\ r \notin DOMAIN batch
       /\ outputs[r] < MaxOutputs
       /\ Left > 0 /\ end > computed[r]
       /\ Allocate(r, computed[r], end, table[r], numCached[r], partial[r])
       /\ Scheduled(r, end)
       /\ UNCHANGED <<reqVars, workload, state, used>>

\* schedule(), a waiting request.  A hit on a state that is registered in this
\* very step has to wait for the next (get_num_blocks_to_allocate).
Admit(r, budget) ==
    LET found == Lookup(r, NumTokens(r))
        hit == found.hit
    IN /\ status[r] = "waiting" /\ Left > 0
       /\ hit > 0 => Key(r, hit) \notin newKeys
       /\ \E b \in Blocks \cup {NullBlock} :
            /\ IF hit = 0 THEN b = NullBlock ELSE b # NullBlock /\ hash[b] = Key(r, hit)
            /\ junction' = [junction EXCEPT ![r] = found.junction]
            /\ computed' = [computed EXCEPT ![r] = hit]
            /\ LET end == ChunkEnd(r, hit, Min({NumTokens(r) - hit, budget, Left}))
               IN /\ end > hit
                  /\ Allocate(r, hit, end, HitTable(hit, b), hit \div MambaSize,
                              IF hit % MambaSize # 0 THEN hit \div MambaSize ELSE -1)
                  /\ Scheduled(r, end)
       /\ status' = [status EXCEPT ![r] = "running"]
       /\ UNCHANGED <<outputs, workload, state, used>>

\* The runner: copies on write; then each request's state is taken from the
\* column of its last token and brought to the end of its chunk
\* (preprocess_mamba_align_fused_kernel and the forward pass).
Execute ==
    LET copied == [b \in Blocks |-> IF \E c \in copies : c[2] = b
                                    THEN state[(CHOOSE c \in copies : c[2] = b)[1]] ELSE state[b]]
        From(r) == IF computed[r] = 0 THEN NullBlock ELSE table[r][Slot(computed[r])]
        Right(r) == computed[r] = 0 \/ (From(r) # NullBlock /\ copied[From(r)] = Key(r, computed[r]))
        writers(b) == {r \in DOMAIN batch : table[r][Slot(batch[r])] = b}
    IN /\ DOMAIN batch # {}
       /\ state' = [b \in Blocks |->
                      IF writers(b) = {} THEN copied[b]
                      ELSE LET r == CHOOSE r \in writers(b) : TRUE
                           IN IF Right(r) THEN Key(r, batch[r]) ELSE Garbage]
       /\ computed' = [r \in Reqs |-> IF r \in DOMAIN batch THEN batch[r] ELSE computed[r]]
       /\ outputs' = [r \in Reqs |-> IF r \in DOMAIN batch /\ batch[r] = NumTokens(r)
                                     THEN outputs[r] + 1 ELSE outputs[r]]
       /\ batch' = [r \in {} |-> 0]
       /\ copies' = {}
       /\ newKeys' = {}
       /\ UNCHANGED <<status, junction, table, numCached, partial, allocated, hash, attention,
                      workload, evicted, used>>

\* pop_blocks_for_free.
Freed(r) ==
    /\ table' = [table EXCEPT ![r] = <<>>]
    /\ numCached' = [numCached EXCEPT ![r] = 0]
    /\ partial' = [partial EXCEPT ![r] = -1]
    /\ allocated' = allocated \ {r}
    /\ UNCHANGED <<hash, newKeys, copies>>

\* _preempt_request, of a request that is not in this step yet.
Preempt(r) ==
    /\ status[r] = "running" /\ r \notin DOMAIN batch
    /\ used.preempts < workload.preempts
    /\ used' = [used EXCEPT !.preempts = @ + 1]
    /\ status' = [status EXCEPT ![r] = "waiting"]
    /\ computed' = [computed EXCEPT ![r] = 0]
    /\ Freed(r)
    /\ UNCHANGED <<outputs, junction, workload, state, attention, batch, evicted>>

\* The request is done, or aborted between two steps.
Finish(r) ==
    /\ status[r] # "finished" /\ DOMAIN batch = {}
    /\ status' = [status EXCEPT ![r] = "finished"]
    /\ Freed(r)
    /\ UNCHANGED <<computed, outputs, junction, workload, state, attention, batch, evicted, used>>

\* A free attention block is given to somebody else.
Evict(key) ==
    /\ \A r \in Reqs : status[r] = "running" =>
         key \notin AttentionKeys(r, IF r \in DOMAIN batch THEN batch[r] ELSE computed[r])
    /\ used.evictions < workload.evictions
    /\ used' = [used EXCEPT !.evictions = @ + 1]
    /\ attention' = attention \ {key}
    /\ evicted' = TRUE
    /\ UNCHANGED <<reqVars, mambaVars, workload, state, batch>>

Next ==
    \/ \E r \in Reqs, budget \in workload.budgets : Continue(r, budget)
    \/ \E r \in Reqs, budget \in workload.budgets : Admit(r, budget)
    \/ Execute
    \/ \E r \in Reqs : Preempt(r) \/ Finish(r)
    \/ \E key \in attention : Evict(key)

Spec == Init /\ [][Next]_vars

-----------------------------------------------------------------------------
(***************************************************************************)
(* Properties.                                                             *)
(***************************************************************************)

\* A registered mamba block holds the state of exactly the prefix it is
\* registered for; what this step registers is filled when the step has run.
StatesMatchTheirKeys ==
    \A b \in Blocks : hash[b] # NoKey /\ hash[b] \notin newKeys => state[b] = hash[b]

\* Between two steps a request's running state is that of the tokens it has
\* computed: nobody who shares its prefix writes into its block.
RunningStatesAreRight ==
    \A r \in Reqs : status[r] = "running" /\ r \notin DOMAIN batch =>
        /\ table[r][Slot(computed[r])] # NullBlock
        /\ state[table[r][Slot(computed[r])]] = Key(r, computed[r])

\* Where a whole mamba block ends at the tail boundary of an EAGLE prompt, and
\* chunks are wide enough to run over it, no state is registered there.
RunsOverTheTail(r) ==
    workload.eagle /\ TailBoundary(r) % MambaSize = 0 /\ workload.maxTokens >= MambaSize

Prefilled(r) == outputs[r] > 0 /\ ~evicted /\ DOMAIN batch = {} /\ ~RunsOverTheTail(r)

\* Once a prompt is prefilled, and while nothing was evicted, any longer prompt
\* that begins with it hits its tail boundary: the scheduler stopped there, the
\* mamba manager registered it, and the attention group's cut does not pass it.
TailServesItsPrompt ==
    \A r \in Reqs : Prefilled(r) => Lookup(r, Prompt(r) + 1).hit >= TailBoundary(r)

\* The same for the prompt itself, sent again, wherever its tail is short of its
\* last token, which a lookup leaves out.  The code does not keep this: of a prompt
\* that is a multiple of the hash unit the attention group cannot use the last
\* hash, and with EAGLE it is then cut below the tail.
TailServesTheSamePrompt ==
    \A r \in Reqs : Prefilled(r) /\ TailBoundary(r) < Prompt(r)
                      => Lookup(r, Prompt(r)).hit >= TailBoundary(r)

\* No request is ever at a position, its own or that of its hit, from which the
\* whole budget of a step would not take it further.
FullBudgetAdvances ==
    \A r \in Reqs : status[r] # "finished" /\ DOMAIN batch = {} =>
        LET start == IF status[r] = "running" THEN computed[r] ELSE Lookup(r, NumTokens(r)).hit
        IN ChunkEnd(r, start, Min({NumTokens(r) - start, workload.maxTokens})) > start

=============================================================================

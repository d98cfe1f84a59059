--------------------------- MODULE PrefixCacheProofs ---------------------------
(***************************************************************************)
(* Proofs about PrefixCache, for any number of requests and blocks, any block  *)
(* sizes and any workloads: a registered mamba block holds the state of the     *)
(* prefix it is registered for, a running request's state is its own, and the   *)
(* chunks of a prefill always advance.                                      *)
(***************************************************************************)
EXTENDS PrefixCache, DataProofs

-----------------------------------------------------------------------------
(***************************************************************************)
(* Numbers.                                                                *)
(***************************************************************************)

\* Quotient and remainder.
LEMMA Division ==
    ASSUME NEW n \in Nat, NEW m \in Nat \ {0}
    PROVE  /\ n \div m \in Nat /\ n % m \in 0..(m - 1)
           /\ n = (m * (n \div m)) + (n % m)
OBVIOUS

\* A multiple that is positive is as large as the number it is a multiple of.
LEMMA Multiple ==
    ASSUME NEW q \in Int, NEW m \in Nat \ {0}, q >= 1
    PROVE  m * q >= m
OBVIOUS

\* There is one quotient and one remainder.
LEMMA DivisionIsUnique ==
    ASSUME NEW m \in Nat \ {0}, NEW p \in Int, NEW q \in Int, NEW s \in 0..(m - 1), NEW t \in 0..(m - 1),
           m * p + s = m * q + t
    PROVE  p = q /\ s = t
<1>1. m * (p - q) = t - s /\ m * (q - p) = s - t
  OBVIOUS
<1>2. CASE p > q
  <2>1. m * (p - q) >= m
    BY <1>2, Multiple
  <2> QED  BY <1>1, <2>1
<1>3. CASE q > p
  <2>1. m * (q - p) >= m
    BY <1>3, Multiple
  <2> QED  BY <1>1, <2>1
<1>4. CASE p = q
  BY <1>4
<1> QED  BY <1>2, <1>3, <1>4

\* The mamba block size is a positive number.
LEMMA MambaSizeType == MambaSize \in Nat \ {0} /\ HashSize \in Nat \ {0} /\ AttnSize \in Nat \ {0}
BY SizesAssumption

\* In which block the state after n tokens is.
LEMMA BlockOf ==
    ASSUME NEW n \in Nat
    PROVE  /\ n \div MambaSize \in Nat /\ n % MambaSize \in 0..(MambaSize - 1)
           /\ n = (MambaSize * (n \div MambaSize)) + (n % MambaSize)
           /\ Floor(n, MambaSize) = MambaSize * (n \div MambaSize)
           /\ Floor(n, MambaSize) \in Nat /\ Floor(n, MambaSize) <= n
           /\ n < Floor(n, MambaSize) + MambaSize
           /\ Slot(n) = (IF n % MambaSize = 0 THEN n \div MambaSize ELSE n \div MambaSize + 1)
           /\ Slot(n) \in Nat /\ (n > 0 => Slot(n) >= 1)
<1> DEFINE q == n \div MambaSize
           s == n % MambaSize
           m == n + MambaSize - 1
<1>1. /\ MambaSize \in Nat \ {0} /\ q \in Nat /\ s \in 0..(MambaSize - 1)
      /\ n = (MambaSize * q) + s
  BY MambaSizeType, Division
<1>2. m \in Nat /\ m \div MambaSize \in Nat /\ m % MambaSize \in 0..(MambaSize - 1)
      /\ m = (MambaSize * (m \div MambaSize)) + (m % MambaSize)
  <2>1. m \in Nat
    BY <1>1
  <2> HIDE DEF m
  <2> QED  BY <1>1, <2>1, Division
<1>3. Floor(n, MambaSize) = n - s /\ Slot(n) = m \div MambaSize
  BY DEF Floor, Slot, Cdiv
<1> HIDE DEF q, s
<1>m. m = n + MambaSize - 1
  OBVIOUS
<1> HIDE DEF m
<1>4. Slot(n) = IF s = 0 THEN q ELSE q + 1
  <2>1. CASE s = 0
    <3>1. (MambaSize * (m \div MambaSize)) + (m % MambaSize) = (MambaSize * q) + (MambaSize - 1)
      BY <1>1, <1>2, <1>m, <2>1
    <3>2. MambaSize - 1 \in 0..(MambaSize - 1)
      BY <1>1
    <3>3. m \div MambaSize = q
      BY <1>1, <1>2, <3>1, <3>2, DivisionIsUnique
    <3> QED  BY <1>3, <2>1, <3>3
  <2>2. CASE s # 0
    <3>1. (MambaSize * (m \div MambaSize)) + (m % MambaSize) = (MambaSize * (q + 1)) + (s - 1)
      BY <1>1, <1>2, <1>m, <2>2
    <3>2. s - 1 \in 0..(MambaSize - 1) /\ q + 1 \in Int
      BY <1>1, <2>2
    <3>3. m \div MambaSize = q + 1
      BY <1>1, <1>2, <3>1, <3>2, DivisionIsUnique
    <3> QED  BY <1>3, <2>2, <3>3
  <2> QED  BY <2>1, <2>2
<1>5. MambaSize * q \in Nat /\ (q = 0 => MambaSize * q = 0)
  BY <1>1
<1>6. Floor(n, MambaSize) = MambaSize * q
  BY <1>1, <1>3, <1>5
<1>7. n > 0 => Slot(n) >= 1
  BY <1>1, <1>4, <1>5
<1>8. Slot(n) \in Nat
  BY <1>1, <1>4
<1> QED  BY <1>1, <1>4, <1>5, <1>6, <1>7, <1>8 DEF q, s

\* A chunk that starts inside a block and does not leave it.
LEMMA SameBlock ==
    ASSUME NEW start \in Nat, NEW end \in Nat, start % MambaSize # 0,
           start < end, end <= Floor(start, MambaSize) + MambaSize
    PROVE  /\ Slot(end) = Slot(start)
           /\ end % MambaSize # 0 => end \div MambaSize = start \div MambaSize
           /\ end % MambaSize = 0 => end \div MambaSize = Slot(start)
<1> DEFINE q == start \div MambaSize
           p == end \div MambaSize
           s == end % MambaSize
           a == start % MambaSize
           base == Floor(start, MambaSize)
<1>1. /\ q \in Nat /\ a \in 0..(MambaSize - 1) /\ start = (MambaSize * q) + a
      /\ base = MambaSize * q
      /\ Slot(start) = q + 1 /\ a # 0
  BY BlockOf
<1>2. /\ p \in Nat /\ s \in 0..(MambaSize - 1) /\ end = (MambaSize * p) + s
      /\ Slot(end) = (IF s = 0 THEN p ELSE p + 1)
  BY BlockOf
<1>g. start < end /\ end <= base + MambaSize
  OBVIOUS
<1> HIDE DEF q, p, s, a, base
<1>3. MambaSize \in Nat \ {0} /\ MambaSize * q \in Nat /\ MambaSize * (q + 1) = (MambaSize * q) + MambaSize
  BY <1>1, MambaSizeType
<1>4. CASE end < base + MambaSize
  <2>1. (MambaSize * p) + s = (MambaSize * q) + (end - base) /\ end - base \in 0..(MambaSize - 1)
        /\ end - base # 0
    BY <1>1, <1>2, <1>g, <1>3, <1>4
  <2>2. p = q /\ s = end - base
    BY <1>1, <1>2, <1>3, <2>1, DivisionIsUnique
  <2> QED  BY <1>1, <1>2, <2>1, <2>2 DEF p, q, s
<1>5. CASE end = base + MambaSize
  <2>1. (MambaSize * p) + s = (MambaSize * (q + 1)) + 0 /\ 0 \in 0..(MambaSize - 1) /\ q + 1 \in Int
    BY <1>1, <1>2, <1>3, <1>5
  <2>2. p = q + 1 /\ s = 0
    BY <1>2, <1>3, <2>1, DivisionIsUnique
  <2> QED  BY <1>1, <1>2, <2>2 DEF p, q, s
<1>6. end < base + MambaSize \/ end = base + MambaSize
  <2>1. base \in Int /\ MambaSize \in Int
    BY <1>1, <1>3
  <2> QED  BY <1>g, <2>1
<1> QED  BY <1>4, <1>5, <1>6

\* A chunk that starts between two blocks ends in a later one.
LEMMA LaterBlock ==
    ASSUME NEW start \in Nat, NEW end \in Nat, start % MambaSize = 0, start < end
    PROVE  /\ Slot(start) = start \div MambaSize /\ Slot(start) < Slot(end)
           /\ start \div MambaSize <= end \div MambaSize
<1> DEFINE q == start \div MambaSize
           p == end \div MambaSize
           s == end % MambaSize
<1>1. /\ q \in Nat /\ start = (MambaSize * q) + 0 /\ Slot(start) = q
  BY BlockOf
<1>2. /\ p \in Nat /\ s \in 0..(MambaSize - 1) /\ end = (MambaSize * p) + s
      /\ Slot(end) = (IF s = 0 THEN p ELSE p + 1)
  BY BlockOf
<1> HIDE DEF q, p, s
<1>3. MambaSize \in Nat \ {0}
  BY MambaSizeType
<1>4. q <= p
  <2>1. SUFFICES ASSUME q > p PROVE FALSE
    BY <1>1, <1>2
  <2>2. MambaSize * (q - p) >= MambaSize
    BY <1>1, <1>2, <1>3, <2>1, Multiple
  <2>3. MambaSize * (q - p) = (MambaSize * q) - (MambaSize * p)
    BY <1>1, <1>2, <1>3
  <2>4. MambaSize * q \in Int /\ MambaSize * p \in Int
    BY <1>1, <1>2, <1>3
  <2> QED  BY <1>1, <1>2, <1>3, <2>2, <2>3, <2>4
<1>5. s = 0 => q # p
  BY <1>1, <1>2
<1> QED  BY <1>1, <1>2, <1>4, <1>5 DEF q, p

-----------------------------------------------------------------------------
(***************************************************************************)
(* The invariant.                                                          *)
(***************************************************************************)

Running == {r \in Reqs : status[r] = "running"}

\* How far a request is when the step has run, and the block of its state then.
Pos(r) == IF r \in DOMAIN batch THEN batch[r] ELSE computed[r]
Home(r) == table[r][Slot(Pos(r))]

\* Blocks that the runner copies into, and blocks that chunks write.
Dests == {c[2] : c \in copies}
Written == {Home(r) : r \in DOMAIN batch}

Types ==
    /\ workload \in Workloads
    /\ status \in [Reqs -> {"waiting", "running", "finished"}]
    /\ \A r \in Reqs : status[r] # "finished" => r \in DOMAIN workload.text
    /\ computed \in [Reqs -> Nat] /\ outputs \in [Reqs -> Nat] /\ junction \in [Reqs -> Nat]
    /\ table \in [Reqs -> Seq(0..NumBlocks)]
    /\ numCached \in [Reqs -> Nat] /\ partial \in [Reqs -> Int]
    /\ hash \in [Blocks -> PrefixKeys \cup {NoKey}]
    /\ DOMAIN state = Blocks
    /\ copies \subseteq Blocks \X Blocks
    /\ DOMAIN batch \subseteq Running
    /\ \A r \in DOMAIN batch : batch[r] \in Nat /\ computed[r] < batch[r]
    /\ allocated = Running

\* A request never gets past its tokens, and between two steps not to their end.
Progress ==
    \A r \in Running :
       /\ Pos(r) > 0 /\ Pos(r) <= NumTokens(r)
       /\ r \notin DOMAIN batch => Pos(r) < NumTokens(r)

\* A table ends with the block of the running state; a partial hit or tail to be
\* copied is in that block.
Tables ==
    /\ \A r \in Reqs : r \notin Running => table[r] = <<>>
    /\ \A r \in Running :
         /\ Len(table[r]) = Slot(Pos(r)) /\ Home(r) \in Blocks
         /\ numCached[r] = Pos(r) \div MambaSize
         /\ partial[r] = -1 \/ (partial[r] = Pos(r) \div MambaSize /\ Pos(r) % MambaSize # 0)

\* A request that writes, or will write, in its block has it for itself.
Writes(r) == r \in DOMAIN batch \/ Pos(r) % MambaSize # 0

\* The block of a running state is registered for that state or not at all, and
\* when the request will write on in it, it knows that it has to copy it first.
Homes ==
    \A r \in Running :
       /\ hash[Home(r)] \in {NoKey, Key(r, Pos(r))}
       /\ hash[Home(r)] # NoKey /\ Pos(r) % MambaSize # 0 => partial[r] # -1
       /\ r \in DOMAIN batch => hash[Home(r)] \in newKeys \cup {NoKey}
       /\ Writes(r) => \A x \in Reqs \ {r} : Home(r) \notin Range(table[x])

\* A block that is copied into gets one copy, of the state it is registered for
\* unless a chunk writes over it, and no other request has it.
Copies ==
    /\ \A c, d \in copies : c[2] = d[2] => c = d
    /\ \A c \in copies :
         /\ hash[c[2]] \in newKeys \cup {NoKey}
         /\ hash[c[2]] # NoKey /\ c[2] \notin Written => state[c[1]] = hash[c[2]]
         /\ \A r \in Reqs : c[2] \in Range(table[r]) => r \in DOMAIN batch /\ c[2] = Home(r)

\* The state a scheduled chunk starts from, before or after the copies.
StartState(r) ==
    LET b == table[r][Slot(computed[r])]
    IN \/ b \notin Dests /\ state[b] = Key(r, computed[r])
       \/ \E c \in copies : c[2] = b /\ state[c[1]] = Key(r, computed[r])

\* Blocks that the step does not touch hold what they are registered for, and
\* requests have the states they go on from.
States ==
    /\ \A b \in Blocks : hash[b] # NoKey /\ b \notin Dests \cup Written => state[b] = hash[b]
    /\ \A r \in Running \ DOMAIN batch : state[Home(r)] = Key(r, Pos(r))
    /\ \A r \in DOMAIN batch : computed[r] > 0 =>
         /\ Slot(computed[r]) \in DOMAIN table[r] /\ table[r][Slot(computed[r])] \in Blocks
         /\ StartState(r)

PInv == Types /\ Progress /\ Tables /\ Homes /\ Copies /\ States

-----------------------------------------------------------------------------
(***************************************************************************)
(* Chunks.                                                                 *)
(***************************************************************************)

\* The numbers of a request and of its workload.
LEMMA Numbers ==
    ASSUME Types, NEW r \in Reqs, status[r] # "finished"
    PROVE  /\ Prompt(r) \in Nat \ {0} /\ NumTokens(r) \in Nat /\ Prompt(r) <= NumTokens(r)
           /\ outputs[r] \in Nat
           /\ workload.common \in Nat /\ workload.dropUnits \in Nat /\ workload.eagle \in BOOLEAN
           /\ workload.maxTokens \in Nat \ {0} /\ workload.budgets \subseteq Nat
<1>1. r \in DOMAIN workload.text /\ outputs[r] \in Nat /\ workload \in Workloads
  BY DEF Types
<1>2. /\ workload.prompt[r] \in Nat \ {0}
      /\ workload.common \in Nat /\ workload.dropUnits \in Nat /\ workload.eagle \in BOOLEAN
      /\ workload.maxTokens \in Nat \ {0} /\ workload.budgets \subseteq Nat
  BY <1>1, WorkloadsAssumption
<1> QED  BY <1>1, <1>2 DEF Prompt, NumTokens

\* The tail stop is a number.
LEMMA TailStopType ==
    ASSUME Types, NEW r \in Reqs, status[r] # "finished"
    PROVE  TailStop(r) \in Int
<1>1. Prompt(r) \in Nat /\ workload.dropUnits \in Nat /\ HashSize \in Nat \ {0}
  BY Numbers, MambaSizeType
<1>2. Prompt(r) % HashSize \in Int
  BY <1>1, Division
<1>3. HashSize * workload.dropUnits \in Int
  BY <1>1
<1> QED  BY <1>1, <1>2, <1>3 DEF TailStop, Floor

\* Where a chunk of at most n tokens ends: not past the tokens, not past the
\* block it starts in unless it starts between two, and further on when n is
\* all the step can do.
LEMMA ChunkEnds ==
    ASSUME Types, NEW r \in Reqs, status[r] # "finished",
           NEW start \in Nat, NEW n \in Int, n <= NumTokens(r) - start,
           start <= NumTokens(r) => n >= 0
    PROVE  /\ ChunkEnd(r, start, n) \in Int
           /\ ChunkEnd(r, start, n) <= NumTokens(r) \/ ChunkEnd(r, start, n) <= start
           /\ start % MambaSize # 0 => ChunkEnd(r, start, n) <= Floor(start, MambaSize) + MambaSize
           /\ n = NumTokens(r) - start \/ n = workload.maxTokens
              => (start < NumTokens(r) => ChunkEnd(r, start, n) > start)
<1> DEFINE prefillEnd == Max({Prompt(r), NumTokens(r) - 1})
           whole == Floor(NumTokens(r), SplitBlock)
           last == IF workload.eagle THEN Max({whole - SplitBlock, 0}) ELSE whole
           end == IF start + n < prefillEnd THEN Aligned(start, start + n) ELSE start + n
           boundary == Floor(start, SplitBlock) + SplitBlock
           stops == (IF start % SplitBlock # 0 THEN {boundary} ELSE {})
                    \cup {last}
                    \cup {s \in {TailStop(r)} : last < s /\ s < Prompt(r)}
                    \cup (IF start < junction[r] /\ junction[r] < end
                          THEN {start + Floor(junction[r] - start, SplitBlock)} ELSE {})
           ahead == {s \in stops : start < s /\ s < end}
           result == ChunkEnd(r, start, n)
<1>1. result = IF start >= prefillEnd THEN start + n
               ELSE IF ahead # {} THEN Min(ahead) ELSE Max({end, start})
  BY DEF ChunkEnd
<1>2. /\ Prompt(r) \in Nat \ {0} /\ NumTokens(r) \in Nat /\ Prompt(r) <= NumTokens(r)
      /\ workload.maxTokens \in Nat \ {0} /\ MambaSize \in Nat \ {0} /\ SplitBlock = MambaSize
  BY Numbers, MambaSizeType DEF SplitBlock
<1>3. /\ prefillEnd \in Nat /\ NumTokens(r) - 1 <= prefillEnd /\ prefillEnd <= NumTokens(r)
  <2>1. Prompt(r) \in Int /\ NumTokens(r) - 1 \in Int
    BY <1>2
  <2>2. /\ prefillEnd \in {Prompt(r), NumTokens(r) - 1}
        /\ prefillEnd >= Prompt(r) /\ prefillEnd >= NumTokens(r) - 1
    BY <2>1, MinMaxOfTwo
  <2> HIDE DEF prefillEnd
  <2> QED  BY <1>2, <2>2
<1>b. /\ boundary \in Nat /\ boundary = Floor(start, MambaSize) + MambaSize /\ boundary > start
  <2>1. /\ Floor(start, MambaSize) \in Nat /\ start < Floor(start, MambaSize) + MambaSize
        /\ boundary = Floor(start, MambaSize) + MambaSize
    BY <1>2, BlockOf
  <2> HIDE DEF boundary
  <2> QED  BY <1>2, <2>1
<1>e. end = IF start + n < prefillEnd THEN Aligned(start, start + n) ELSE start + n
  OBVIOUS
<1>s. /\ start % MambaSize # 0 => boundary \in stops
      /\ \A s \in stops : \/ s = boundary \/ s = last \/ s = TailStop(r)
                          \/ start < junction[r] /\ s = start + Floor(junction[r] - start, MambaSize)
  BY <1>2
<1>l. last \in Int
  <2>1. whole \in Int
    BY <1>2, BlockOf
  <2>2. Max({whole - MambaSize, 0}) \in Int
    <3> HIDE DEF whole
    <3>1. whole - MambaSize \in Int /\ 0 \in Int
      BY <1>2, <2>1
    <3>2. Max({whole - MambaSize, 0}) \in {whole - MambaSize, 0}
      BY <3>1, MinMaxOfTwo
    <3> QED  BY <3>1, <3>2
  <2> QED  BY <1>2, <2>1, <2>2
<1>a. ahead = {s \in stops : start < s /\ s < end}
  OBVIOUS
<1> HIDE DEF prefillEnd, whole, last, end, boundary, stops, ahead, result
<1>4. \A s \in stops : s \in Int
  <2>1. TailStop(r) \in Int
    BY TailStopType
  <2>2. start < junction[r] => Floor(junction[r] - start, MambaSize) \in Nat
    <3>1. junction[r] \in Nat
      BY DEF Types
    <3>2. start < junction[r] => junction[r] - start \in Nat
      BY <3>1
    <3> QED  BY <3>2, BlockOf
  <2> QED  BY <1>b, <1>l, <1>s, <2>1, <2>2
<1>5. CASE start >= prefillEnd
  <2>1. result = start + n
    BY <1>1, <1>5
  <2>2. start % MambaSize # 0 => result <= boundary
    BY <1>2, <1>3, <1>5, <1>b, <2>1
  <2> QED  BY <1>2, <1>3, <1>b, <2>1, <2>2 DEF result
<1>6. CASE start < prefillEnd
  <2>1. start + n \in Nat /\ start + n <= NumTokens(r)
    BY <1>2, <1>3, <1>6
  <2>2. /\ Floor(start + n, MambaSize) \in Nat /\ Floor(start + n, MambaSize) <= start + n
        /\ start + n < Floor(start + n, MambaSize) + MambaSize
    BY <2>1, BlockOf
  <2>3. Aligned(start, start + n) = IF Floor(start + n, MambaSize) > start \/ MambaSize <= workload.maxTokens
                                    THEN Floor(start + n, MambaSize) ELSE start + n
    BY <1>2 DEF Aligned
  <2>4. end \in Nat /\ end <= NumTokens(r)
    <3>1. Floor(start + n, MambaSize) <= NumTokens(r)
      BY <1>2, <2>1, <2>2
    <3> QED  BY <1>e, <2>1, <2>2, <2>3, <3>1
  <2>5. /\ (n = NumTokens(r) - start \/ n = workload.maxTokens) => end > start
    BY <1>2, <1>3, <1>6, <1>e, <2>1, <2>2, <2>3
  <2>6. CASE ahead # {}
    <3>1. ahead \in (SUBSET Nat) \ {{}}
      BY <1>4, <1>a, <2>6
    <3>2. Min(ahead) \in ahead /\ \A s \in ahead : Min(ahead) <= s
      BY <3>1, MinIsLeast
    <3>3. result = Min(ahead) /\ result \in Nat /\ start < result /\ result < end
      BY <1>1, <1>3, <1>6, <1>a, <2>6, <3>1, <3>2
    <3>4. start % MambaSize # 0 => result <= boundary
      BY <1>b, <1>s, <1>a, <2>4, <3>2, <3>3
    <3> QED  BY <1>2, <1>b, <2>4, <3>3, <3>4 DEF result
  <2>7. CASE ahead = {}
    <3>1. result = Max({end, start})
      BY <1>1, <1>3, <1>6, <2>7
    <3>2. result \in {end, start} /\ result >= end /\ result >= start
      <4>1. end \in Int /\ start \in Int
        BY <2>4
      <4>2. /\ Max({end, start}) \in {end, start}
            /\ Max({end, start}) >= end /\ Max({end, start}) >= start
        BY <4>1, MinMaxOfTwo
      <4> QED  BY <3>1, <4>2
    <3>3. start % MambaSize # 0 => end <= boundary
      BY <1>b, <1>s, <1>a, <2>4, <2>7
    <3> QED  BY <1>2, <1>b, <2>4, <2>5, <3>2, <3>3 DEF result
  <2> QED  BY <2>6, <2>7
<1> QED  BY <1>3, <1>5, <1>6


\* What is left of a step's tokens is a number: it is a fold of sums.
LEMMA LeftIsNumber ==
    ASSUME Types
    PROVE  Left \in Int
<1> DEFINE D == DOMAIN batch
           One(s) == CHOOSE x \in s : TRUE
           pick == [s \in (SUBSET D) \ {{}} |-> One(s)]
           step == [r \in D |-> [k \in Int |-> (batch[r] - computed[r]) + k]]
           Is(f) == f = [s \in SUBSET D |->
                           IF s = {} THEN 0
                           ELSE (batch[One(s)] - computed[One(s)])
                                + f[s \ {One(s)}]]
           fold == CHOOSE f : Is(f)
<1>1. Left = workload.maxTokens - fold[D]
  BY DEF Left, MapThenSumSet, MapThenFoldSet
<1>2. IsFiniteSet(D) /\ \A r \in D : batch[r] - computed[r] \in Int
  <2>1. D \subseteq Reqs /\ \A r \in D : batch[r] \in Nat /\ computed[r] \in Nat
    BY DEF Types, Running
  <2> QED  BY <2>1, ReqsAssumption, FS_Subset
<1>3. \A s \in (SUBSET D) \ {{}} : One(s) \in s
  OBVIOUS
<1>4. Picks(pick, D)
  BY <1>3 DEF Picks
<1>5. step \in Steps(D, Int)
  <2>1. \A r \in D : \A k \in Int : (batch[r] - computed[r]) + k \in Int
    BY <1>2
  <2> QED  BY <2>1 DEF Steps
<1>6. PICK f : FoldsBy(f, D, 0, step, pick, Int)
  <2> HIDE DEF D, step, pick
  <2> QED  BY <1>2, <1>4, <1>5, SetRecursion
<1>7. /\ f \in [SUBSET D -> Int] /\ f[{}] = 0
      /\ \A s \in (SUBSET D) \ {{}} : f[s] = step[pick[s]][f[s \ {pick[s]}]]
  BY <1>6 DEF FoldsBy
<1>8. Is(f)
  <2>1. \A s \in (SUBSET D) \ {{}} : /\ pick[s] = One(s) /\ pick[s] \in D
                                     /\ f[s \ {pick[s]}] \in Int
    BY <1>3, <1>7
  <2>2. \A r \in D : \A k \in Int : step[r][k] = (batch[r] - computed[r]) + k
    OBVIOUS
  <2> HIDE DEF pick, step
  <2>3. \A s \in (SUBSET D) \ {{}} : f[s] = (batch[pick[s]] - computed[pick[s]]) + f[s \ {pick[s]}]
    <3> SUFFICES ASSUME NEW s \in (SUBSET D) \ {{}}
                 PROVE  f[s] = (batch[pick[s]] - computed[pick[s]]) + f[s \ {pick[s]}]
      OBVIOUS
    <3>1. pick[s] \in D /\ f[s \ {pick[s]}] \in Int /\ f[s] = step[pick[s]][f[s \ {pick[s]}]]
      BY <1>7, <2>1
    <3>2. step[pick[s]][f[s \ {pick[s]}]] = (batch[pick[s]] - computed[pick[s]]) + f[s \ {pick[s]}]
      BY <2>2, <3>1, Zenon
    <3> QED  BY <3>1, <3>2, Zenon
  <2>4. \A s \in (SUBSET D) \ {{}} :
           f[s] = (batch[One(s)] - computed[One(s)])
                  + f[s \ {One(s)}]
    BY <2>1, <2>3
  <2> HIDE DEF D, One
  <2>5. f = [s \in SUBSET D |-> f[s]]
    BY <1>7
  <2>6. \A s \in SUBSET D : f[s] = IF s = {} THEN 0
                                   ELSE (batch[One(s)] - computed[One(s)]) + f[s \ {One(s)}]
    <3> DEFINE a(s) == (batch[One(s)] - computed[One(s)]) + f[s \ {One(s)}]
    <3>1. f[{}] = 0 /\ \A s \in (SUBSET D) \ {{}} : f[s] = a(s)
      BY <1>7, <2>4
    <3> HIDE DEF a
    <3>2. \A s \in SUBSET D : f[s] = IF s = {} THEN 0 ELSE a(s)
      BY <3>1
    <3> QED  BY <3>2 DEF a
  <2>7. f = [s \in SUBSET D |-> IF s = {} THEN 0
                                ELSE (batch[One(s)] - computed[One(s)]) + f[s \ {One(s)}]]
    BY <2>5, <2>6, Zenon
  <2> QED  BY <2>7
<1>9. Is(fold)
  <2> HIDE DEF Is
  <2> QED  BY <1>8
<1> HIDE DEF fold
<1>10. /\ fold[{}] = 0
       /\ \A s \in (SUBSET D) \ {{}} :
             fold[s] = (batch[One(s)] - computed[One(s)])
                       + fold[s \ {One(s)}]
  BY <1>9
<1> HIDE DEF Is
<1>11. \A s \in (SUBSET D) \ {{}} : fold[s \ {pick[s]}] \in Int => fold[s] \in Int
  <2>1. \A s \in (SUBSET D) \ {{}} : pick[s] = One(s) /\ pick[s] \in D
    BY <1>3
  <2> HIDE DEF pick, D, One
  <2>2. \A s \in (SUBSET D) \ {{}} : fold[s] = (batch[pick[s]] - computed[pick[s]]) + fold[s \ {pick[s]}]
    BY <1>10, <2>1
  <2> HIDE DEF fold
  <2>3. ASSUME NEW s \in (SUBSET D) \ {{}}, fold[s \ {pick[s]}] \in Int
        PROVE  fold[s] \in Int
    <3>1. pick[s] \in D /\ fold[s] = (batch[pick[s]] - computed[pick[s]]) + fold[s \ {pick[s]}]
      BY <2>1, <2>2
    <3>2. batch[pick[s]] - computed[pick[s]] \in Int
      BY <1>2, <3>1
    <3> QED  BY <2>3, <3>1, <3>2
  <2> QED  BY <2>3
<1>12. fold[D] \in Int
  <2> HIDE DEF pick, D
  <2>1. fold[{}] \in Int
    BY <1>10
  <2>2. \A s \in SUBSET D : fold[s] \in Int
    BY <1>2, <1>4, <1>11, <2>1, SetRecursionStaysIn
  <2> QED  BY <2>2
<1>13. workload.maxTokens \in Nat
  BY WorkloadsAssumption DEF Types
<1> QED  BY <1>1, <1>12, <1>13

-----------------------------------------------------------------------------
(***************************************************************************)
(* Lookups.                                                                *)
(***************************************************************************)

\* The attention group finds no more than it is asked for.
LEMMA AttentionRunIsBounded ==
    ASSUME NEW r, NEW max \in Nat
    PROVE  AttentionRun(r, max) \in 0..max
<1> DEFINE runs == {0} \cup {k \in 1..(max \div AttnSize) :
                                \A i \in 1..k : Key(r, i * AttnSize) \in attention}
           full == Max(runs) * AttnSize
           tails == {e \in (full + HashSize)..(full + AttnSize - HashSize) :
                       e % HashSize = 0 /\ e <= max /\ Key(r, e) \in attention}
<1>1. /\ AttnSize \in Nat \ {0} /\ max \div AttnSize \in Nat
      /\ max = (AttnSize * (max \div AttnSize)) + (max % AttnSize) /\ max % AttnSize \in Nat
      /\ HashSize \in Nat
  BY MambaSizeType, Division
<1>2. Max(runs) \in 0..(max \div AttnSize)
  <2>1. runs \in (SUBSET (0..(max \div AttnSize))) \ {{}}
    BY <1>1
  <2> HIDE DEF runs
  <2> QED  BY <1>1, <2>1, MaxIsGreatest
<1>r. AttentionRun(r, max) = Max({full} \cup tails)
  BY DEF AttentionRun
<1> DEFINE k == Max(runs)
           q == max \div AttnSize
<1>3. full \in 0..max
  <2>1. k \in Nat /\ q \in Nat /\ q - k \in Nat /\ full = k * AttnSize
    BY <1>1, <1>2
  <2> HIDE DEF k, full, runs
  <2>2. AttnSize * (q - k) \in Nat /\ AttnSize * (q - k) = (AttnSize * q) - (k * AttnSize)
    BY <1>1, <2>1
  <2>3. k * AttnSize \in Nat
    BY <1>1, <2>1
  <2>4. max = (AttnSize * q) + (max % AttnSize) /\ AttnSize * q \in Nat
    BY <1>1
  <2> HIDE DEF q
  <2> QED  BY <1>1, <2>1, <2>2, <2>3, <2>4
<1> HIDE DEF full, runs, k
<1>4. tails \subseteq 0..max
  BY <1>1, <1>3
<1> HIDE DEF tails
<1>5. {full} \cup tails \in (SUBSET (0..max)) \ {{}}
  BY <1>3, <1>4
<1> QED  BY <1>r, <1>5, MaxIsGreatest

\* A hit leaves at least the last token to compute, and is on a registered block.
LEMMA HitIsBounded ==
    ASSUME Types, NEW r \in Reqs, NEW n \in Nat \ {0}
    PROVE  /\ Lookup(r, n).hit \in 0..(n - 1)
           /\ Lookup(r, n).junction \in Nat
           /\ Lookup(r, n).hit # 0 => \E b \in Blocks : hash[b] = Key(r, Lookup(r, n).hit)
<1> DEFINE longest == AttentionHit(r, n - 1)
           hits == {e \in 1..longest : e % HashSize = 0 /\ \E b \in Blocks : hash[b] = Key(r, e)}
           hit == MambaHit(r, longest)
<1>1. Lookup(r, n).hit = hit /\ Lookup(r, n).junction = IF longest > hit THEN longest ELSE 0
  BY DEF Lookup
<1>2. longest \in Int /\ longest <= n - 1
  <2>1. AttentionRun(r, n - 1) \in 0..(n - 1)
    BY AttentionRunIsBounded
  <2>2. HashSize * workload.dropUnits \in Nat /\ AttnSize \in Nat
    <3>1. workload.dropUnits \in Nat /\ HashSize \in Nat
      BY WorkloadsAssumption, MambaSizeType DEF Types
    <3> QED  BY <3>1, MambaSizeType
  <2> DEFINE cut == Min({HashSize * workload.dropUnits, AttnSize})
  <2>3. cut \in Nat
    <3> DEFINE units == HashSize * workload.dropUnits
    <3> HIDE DEF units
    <3>1. units \in Int /\ AttnSize \in Int /\ units \in Nat /\ AttnSize \in Nat
      BY <2>2 DEF units
    <3>2. Min({units, AttnSize}) \in {units, AttnSize}
      BY <3>1, MinMaxOfTwo
    <3>3. Min({units, AttnSize}) \in Nat
      BY <3>1, <3>2
    <3> QED  BY <3>3 DEF units
  <2>4. longest = IF workload.eagle /\ AttentionRun(r, n - 1) > 0
                  THEN AttentionRun(r, n - 1) - cut ELSE AttentionRun(r, n - 1)
    BY DEF AttentionHit
  <2> HIDE DEF cut, longest
  <2> QED  BY <2>1, <2>3, <2>4
<1>3. hit = Max({0} \cup hits)
  BY DEF MambaHit
<1>4. hits \subseteq 0..(n - 1)
  <2> HIDE DEF longest
  <2> QED  BY <1>2
<1>5. hit \in {0} \cup hits
  <2> HIDE DEF hits, hit
  <2>1. {0} \cup hits \in (SUBSET (0..(n - 1))) \ {{}} /\ n - 1 \in Nat
    BY <1>4
  <2> QED  BY <1>3, <2>1, MaxIsGreatest
<1>6. hit \in 0..(n - 1) /\ (hit # 0 => \E b \in Blocks : hash[b] = Key(r, hit))
  <2> HIDE DEF longest, hit
  <2> QED  BY <1>4, <1>5
<1> HIDE DEF hit, longest, hits
<1>7. (IF longest > hit THEN longest ELSE 0) \in Nat
  BY <1>2, <1>6
<1> QED  BY <1>1, <1>6, <1>7

-----------------------------------------------------------------------------
(***************************************************************************)
(* What allocate_slots does to a table and to the registered hashes.          *)
(***************************************************************************)

\* The blocks before the running state's are given up.
LEMMA TrimmedTable ==
    ASSUME NEW t \in Seq(0..NumBlocks), NEW start \in Nat, Len(t) = Slot(start),
           NEW old, start > 0 => t[Slot(start)] = old
    PROVE  /\ Trimmed(t, start) \in Seq(0..NumBlocks)
           /\ Len(Trimmed(t, start)) = Slot(start)
           /\ start > 0 => Trimmed(t, start)[Slot(start)] = old
           /\ Range(Trimmed(t, start)) \subseteq {NullBlock, old}
<1> DEFINE kept == Trimmed(t, start)
           n == Slot(start)
<1>1. /\ n \in Nat /\ (start > 0 => n >= 1) /\ DOMAIN t = 1..n /\ \A i \in 1..n : t[i] \in 0..NumBlocks
      /\ (start = 0 => n = 0)
  <2>1. start = 0 => n = 0
    BY BlockOf, MambaSizeType, Division
  <2>2. n \in Nat /\ (start > 0 => n >= 1)
    BY BlockOf
  <2>3. DOMAIN t = 1..Len(t) /\ \A i \in 1..Len(t) : t[i] \in 0..NumBlocks
    BY ListPositions
  <2> QED  BY <2>1, <2>2, <2>3
<1>2. kept = [i \in 1..n |-> IF i < n THEN NullBlock ELSE t[i]] /\ NullBlock \in 0..NumBlocks
  BY <1>1, NumBlocksAssumption DEF Trimmed, NullBlock
<1> HIDE DEF n, kept
<1>3. kept \in [1..n -> 0..NumBlocks]
  BY <1>1, <1>2
<1>4. kept \in Seq(0..NumBlocks) /\ Len(kept) = n
  BY <1>1, <1>3, FunctionIsList
<1>5. \A i \in 1..n : kept[i] \in {NullBlock, old} /\ (i = n => kept[i] = old)
  BY <1>1, <1>2 DEF n
<1>6. Range(kept) \subseteq {NullBlock, old}
  BY <1>3, <1>5 DEF Range
<1> QED  BY <1>1, <1>4, <1>5, <1>6 DEF n, kept

\* The columns that a chunk skips are filled with null blocks.
LEMMA PaddedTable ==
    ASSUME NEW t \in Seq(0..NumBlocks), NEW end \in Nat
    PROVE  /\ Len(t) = Slot(end) => Padded(t, end) = t
           /\ Len(t) < Slot(end) =>
                /\ Padded(t, end) \in Seq(0..NumBlocks) /\ Len(Padded(t, end)) = Slot(end) - 1
                /\ \A i \in 1..(Slot(end) - 1) : Padded(t, end)[i] = IF i <= Len(t) THEN t[i] ELSE NullBlock
<1> DEFINE more == Slot(end) - 1 - Len(t)
           d == Max({0, more})
           pad == [i \in 1..d |-> NullBlock]
<1>1. Padded(t, end) = t \o pad
  BY DEF Padded
<1>2. more \in Int /\ 0 \in Int /\ Len(t) \in Nat /\ Slot(end) \in Nat
  <2>1. Slot(end) \in Nat
    BY BlockOf
  <2>2. Len(t) \in Nat
    BY ListPositions
  <2> QED  BY <2>1, <2>2
<1>3. d \in {0, more} /\ d >= 0 /\ d >= more
  <2> HIDE DEF more
  <2> QED  BY <1>2, MinMaxOfTwo
<1>m. more = Slot(end) - 1 - Len(t)
  OBVIOUS
<1> HIDE DEF more, d
<1>4. d \in Nat /\ (Len(t) = Slot(end) => d = 0) /\ (Len(t) < Slot(end) => Len(t) + d = Slot(end) - 1)
  BY <1>2, <1>3, <1>m
<1>5. pad \in [1..d -> 0..NumBlocks] /\ \A i \in 1..d : pad[i] = NullBlock
  BY NumBlocksAssumption DEF NullBlock
<1> HIDE DEF pad
<1>6. pad \in Seq(0..NumBlocks) /\ Len(pad) = d
  BY <1>4, <1>5, FunctionIsList
<1>7. /\ t \o pad \in Seq(0..NumBlocks) /\ Len(t \o pad) = Len(t) + d
      /\ \A i \in 1..(Len(t) + d) : (t \o pad)[i] = IF i <= Len(t) THEN t[i] ELSE pad[i - Len(t)]
  BY <1>2, <1>4, <1>6
<1>8. ASSUME Len(t) = Slot(end)
      PROVE  Padded(t, end) = t
  <2>1. d = 0
    BY <1>4, <1>8
  <2>2. pad = <<>>
    BY <1>6, <2>1
  <2> QED  BY <1>1, <2>2
<1>9. ASSUME Len(t) < Slot(end), NEW i \in 1..(Slot(end) - 1)
      PROVE  Padded(t, end)[i] = IF i <= Len(t) THEN t[i] ELSE NullBlock
  <2>1. i \in 1..(Len(t) + d) /\ (i > Len(t) => i - Len(t) \in 1..d)
    BY <1>2, <1>4, <1>9
  <2> QED  BY <1>1, <1>2, <1>5, <1>7, <2>1
<1> QED  BY <1>1, <1>4, <1>7, <1>8, <1>9

\* The hashes h with, if anything, the block of the running state registered.
RegistersHome(r, t, h, first, end, k) ==
    /\ Registered(r, t, h, first, end) = [b \in Blocks |-> IF b = t[Slot(end)] THEN k ELSE h[b]]
    /\ k # NoKey /\ end % MambaSize # 0 => RegistersTail(r, t, h, end)

\* That is all that is registered, at a block boundary or at the tail's.
LEMMA Registration ==
    ASSUME NEW r, NEW t \in Seq(0..NumBlocks), NEW h, NEW first \in Nat, NEW end \in Nat,
           Len(t) = Slot(end), t[Slot(end)] \in Blocks, h[t[Slot(end)]] = NoKey,
           first < Slot(end), \A p \in (first + 1)..(Slot(end) - 1) : t[p] = NullBlock
    PROVE  \E k \in {NoKey, Key(r, end)} : RegistersHome(r, t, h, first, end, k)
<1> DEFINE n == Slot(end)
           home == t[n]
           q == end \div MambaSize
           full == (first + 1)..q
           At(b) == CHOOSE p \in full : t[p] = b
<1>1. /\ n \in Nat /\ q \in Nat /\ n = (IF end % MambaSize = 0 THEN q ELSE q + 1)
      /\ end % MambaSize = 0 => q * MambaSize = end
  <2>1. /\ q \in Nat /\ n \in Nat /\ n = (IF end % MambaSize = 0 THEN q ELSE q + 1)
        /\ end = (MambaSize * q) + (end % MambaSize)
    BY BlockOf
  <2> HIDE DEF q
  <2>2. MambaSize * q \in Nat /\ MambaSize * q = q * MambaSize
    BY <2>1, MambaSizeType
  <2> QED  BY <2>1, <2>2
<1>2. \A b \in Blocks : b # NullBlock
  BY DEF Blocks, NullBlock
<1>3. Registered(r, t, h, first, end) =
        [b \in Blocks |-> IF \E p \in full : t[p] = b THEN Key(r, At(b) * MambaSize)
                          ELSE IF RegistersTail(r, t, h, end) /\ b = home THEN Key(r, end) ELSE h[b]]
  BY DEF Registered
<1>4. CASE end % MambaSize = 0
  <2>1. n \in full /\ \A p \in full : p # n => t[p] = NullBlock
    BY <1>1, <1>4
  <2>2. ~RegistersTail(r, t, h, end)
    BY <1>4 DEF RegistersTail
  <2>3. At(home) = n
    BY <1>2, <2>1
  <2>4. \A b \in Blocks : (\E p \in full : t[p] = b) <=> b = home
    BY <1>2, <2>1
  <2>5. Key(r, At(home) * MambaSize) = Key(r, end)
    BY <1>1, <1>4, <2>3
  <2> HIDE DEF full, At, home
  <2>6. Registered(r, t, h, first, end) = [b \in Blocks |-> IF b = home THEN Key(r, end) ELSE h[b]]
    BY <1>3, <2>2, <2>4, <2>5
  <2> QED  BY <1>4, <2>6 DEF home, RegistersHome
<1>5. CASE end % MambaSize # 0
  <2>1. \A b \in Blocks : ~\E p \in full : t[p] = b
    BY <1>1, <1>2, <1>5
  <2> DEFINE k == IF RegistersTail(r, t, h, end) THEN Key(r, end) ELSE NoKey
  <2>2. h[home] = NoKey
    OBVIOUS
  <2> HIDE DEF full, At, home
  <2>3. Registered(r, t, h, first, end) = [b \in Blocks |-> IF b = home THEN k ELSE h[b]]
    BY <1>3, <2>1, <2>2
  <2> QED  BY <2>3 DEF home, RegistersHome
<1> QED  BY <1>4, <1>5

\* The pool hands out free blocks that the request does not keep.
LEMMA PoolIsFree ==
    ASSUME NEW n, NEW kept
    PROVE  Pool(n, kept) \subseteq Free \ Range(kept)
<1> DEFINE free == Free \ Range(kept)
           blank == {b \in free : hash[b] = NoKey}
<1>1. Pool(n, kept) = IF n > 1 \/ blank = {} THEN free ELSE (free \ blank) \cup {Min(blank)}
  BY DEF Pool
<1>2. blank # {} => Min(blank) \in free
  <2>1. blank \in SUBSET Nat
    BY NumBlocksAssumption DEF Free, Blocks
  <2>2. blank # {} => Min(blank) \in blank
    <3> HIDE DEF blank
    <3> QED  BY <2>1, MinIsLeast
  <2> QED  BY <2>2
<1> HIDE DEF blank
<1> QED  BY <1>1, <1>2

\* The table, the registered hashes and the counters after a chunk up to end:
\* t1 and h1 are the table and the hashes before anything is registered.
Ended(r, end, t1, h1) ==
    /\ t1 \in Seq(0..NumBlocks) /\ Len(t1) = Slot(end) /\ t1[Slot(end)] \in Blocks
    /\ h1[t1[Slot(end)]] = NoKey
    /\ table' = [table EXCEPT ![r] = t1]
    /\ \E k \in {NoKey, Key(r, end)} :
          /\ hash' = [b \in Blocks |-> IF b = t1[Slot(end)] THEN k ELSE h1[b]]
          /\ k \in newKeys' \cup {NoKey}
          /\ k # NoKey /\ end % MambaSize # 0 => partial'[r] # -1
    /\ numCached' = [numCached EXCEPT ![r] = end \div MambaSize]
    /\ \E idx \in Int : /\ partial' = [partial EXCEPT ![r] = idx]
                        /\ idx = -1 \/ (idx = end \div MambaSize /\ end % MambaSize # 0)
    /\ allocated' = allocated \cup {r}
    /\ newKeys \subseteq newKeys'

\* Its four forms.  The chunk goes on in a new block, after a block boundary.
OnNewBlock(start, end, old, t1, h1) ==
    /\ start % MambaSize = 0
    /\ t1[Slot(end)] \in Free \ {old}
    /\ h1 = [hash EXCEPT ![t1[Slot(end)]] = NoKey]
    /\ copies' = copies
    /\ Range(t1) \subseteq {NullBlock, old, t1[Slot(end)]}
    /\ start > 0 => Slot(start) \in DOMAIN t1 /\ t1[Slot(start)] = old

\* Or in the block it is in, which is not registered.
InPlace(start, end, old, copyIdx, t1, h1) ==
    /\ start % MambaSize # 0 /\ Slot(end) = Slot(start) /\ copyIdx = -1
    /\ t1[Slot(end)] = old
    /\ h1 = hash
    /\ copies' = copies
    /\ Range(t1) \subseteq {NullBlock, old}

\* Or in the block it is in, of which a copy keeps the state and the hash.
OnOwnBlock(r, start, end, old, t1, h1) ==
    /\ start % MambaSize # 0 /\ Slot(end) = Slot(start) /\ r \in allocated
    /\ t1[Slot(end)] = old
    /\ \E f \in Free \ {old} :
          /\ h1 = [b \in Blocks |-> IF b = f THEN hash[old] ELSE IF b = old THEN NoKey ELSE hash[b]]
          /\ copies' = copies \cup {<<old, f>>}
          /\ hash[old] \in newKeys' \cup {NoKey}
    /\ Range(t1) \subseteq {NullBlock, old}

\* Or in a copy of the block it hit.
OnCopy(r, start, end, old, t1, h1) ==
    /\ start % MambaSize # 0 /\ Slot(end) = Slot(start) /\ r \notin allocated
    /\ t1[Slot(end)] \in Free \ {old}
    /\ h1 = [hash EXCEPT ![t1[Slot(end)]] = NoKey]
    /\ copies' = copies \cup {<<old, t1[Slot(end)]>>}
    /\ Range(t1) \subseteq {NullBlock, t1[Slot(end)]}

\* Whatever the form, what cache_blocks registers is the block of the running state.
LEMMA AllocationEnds ==
    ASSUME Types, NEW r \in Reqs, NEW start \in Nat, NEW end \in Nat, start < end,
           start % MambaSize # 0 => end <= Floor(start, MambaSize) + MambaSize,
           NEW t1 \in Seq(0..NumBlocks), Len(t1) = Slot(end), t1[Slot(end)] \in Blocks,
           NEW h1, h1[t1[Slot(end)]] = NoKey,
           \A p \in (Slot(start) + 1)..(Slot(end) - 1) : t1[p] = NullBlock,
           NEW new,
           table' = [table EXCEPT ![r] = t1],
           hash' = Registered(r, t1, h1, start \div MambaSize, end),
           numCached' = [numCached EXCEPT ![r] = Max({start \div MambaSize, end \div MambaSize})],
           partial' = [partial EXCEPT ![r] = IF RegistersTail(r, t1, h1, end)
                                             THEN end \div MambaSize ELSE -1],
           allocated' = allocated \cup {r},
           newKeys' = newKeys \cup ({hash'[b] : b \in {b \in Blocks : hash'[b] # h1[b] \/ b \in Range(new)}}
                                    \ {NoKey})
    PROVE  Ended(r, end, t1, h1)
<1> DEFINE first == start \div MambaSize
           q == end \div MambaSize
           home == t1[Slot(end)]
<1>1. first \in Nat /\ q \in Nat /\ first < Slot(end) /\ first <= q
      /\ \A p \in (first + 1)..(Slot(end) - 1) : p \in (Slot(start) + 1)..(Slot(end) - 1)
  <2>1. first \in Nat /\ q \in Nat /\ Slot(start) \in Nat /\ Slot(end) \in Nat
        /\ Slot(start) = (IF start % MambaSize = 0 THEN first ELSE first + 1)
    BY BlockOf
  <2>2. CASE start % MambaSize = 0
    <3>1. Slot(start) < Slot(end) /\ first <= q
      BY <2>2, LaterBlock
    <3> HIDE DEF first, q
    <3> QED  BY <2>1, <2>2, <3>1
  <2>3. CASE start % MambaSize # 0
    <3>1. /\ Slot(end) = Slot(start)
          /\ end % MambaSize # 0 => q = first
          /\ end % MambaSize = 0 => q = Slot(start)
      BY <2>3, SameBlock
    <3> HIDE DEF first, q
    <3> QED  BY <2>1, <2>3, <3>1
  <2> QED  BY <2>2, <2>3
<1>2. PICK k \in {NoKey, Key(r, end)} :
         /\ hash' = [b \in Blocks |-> IF b = home THEN k ELSE h1[b]]
         /\ k # NoKey /\ end % MambaSize # 0 => RegistersTail(r, t1, h1, end)
  <2>1. \A p \in (first + 1)..(Slot(end) - 1) : t1[p] = NullBlock
    BY <1>1
  <2> HIDE DEF first
  <2>2. PICK k \in {NoKey, Key(r, end)} : RegistersHome(r, t1, h1, first, end, k)
    BY <1>1, <2>1, Registration
  <2> QED  BY <2>2 DEF RegistersHome, first
<1>3. Max({first, q}) = q
  <2> HIDE DEF first, q
  <2>1. first \in Int /\ q \in Int /\ first <= q
    BY <1>1
  <2>2. Max({first, q}) \in {first, q} /\ Max({first, q}) >= q
    BY <2>1, MinMaxOfTwo
  <2> QED  BY <2>1, <2>2
<1>4. k \in newKeys' \cup {NoKey}
  <2>1. CASE k # NoKey
    <3>1. home \in Blocks /\ hash'[home] = k /\ h1[home] = NoKey
      BY <1>2
    <3>2. k \in {hash'[b] : b \in {b \in Blocks : hash'[b] # h1[b] \/ b \in Range(new)}} \ {NoKey}
      BY <2>1, <3>1
    <3> QED  BY <3>2
  <2> QED  BY <2>1
<1>5. DEFINE idx == IF RegistersTail(r, t1, h1, end) THEN q ELSE -1
<1>6. /\ idx \in Int /\ partial' = [partial EXCEPT ![r] = idx] /\ partial'[r] = idx
      /\ RegistersTail(r, t1, h1, end) => end % MambaSize # 0
      /\ idx = -1 \/ (idx = q /\ end % MambaSize # 0)
  <2>1. partial \in [Reqs -> Int]
    BY DEF Types
  <2> QED  BY <1>1, <2>1 DEF RegistersTail
<1>7. k # NoKey /\ end % MambaSize # 0 => partial'[r] # -1
  <2>1. k # NoKey /\ end % MambaSize # 0 => partial'[r] = q
    BY <1>2, <1>6
  <2> QED  BY <1>1, <2>1
<1>8. numCached' = [numCached EXCEPT ![r] = q]
  BY <1>3
<1>9. newKeys \subseteq newKeys'
  OBVIOUS
<1> QED  BY <1>2, <1>4, <1>6, <1>7, <1>8, <1>9 DEF Ended

\* What allocate_slots gives a chunk.
LEMMA Allocation ==
    ASSUME Types, NEW r \in Reqs, NEW start \in Nat, NEW end \in Nat, start < end,
           start % MambaSize # 0 => end <= Floor(start, MambaSize) + MambaSize,
           NEW t \in Seq(0..NumBlocks), Len(t) = Slot(start),
           NEW old \in 0..NumBlocks, start > 0 => t[Slot(start)] = old, (start = 0) <=> (old = NullBlock),
           NEW copyIdx, copyIdx = -1 \/ (copyIdx = start \div MambaSize /\ start % MambaSize # 0),
           copyIdx = -1 /\ start % MambaSize # 0 => hash[old] = NoKey,
           Allocate(r, start, end, t, start \div MambaSize, copyIdx)
    PROVE  \E t1, h1 :
              /\ Ended(r, end, t1, h1)
              /\ \/ OnNewBlock(start, end, old, t1, h1)
                 \/ InPlace(start, end, old, copyIdx, t1, h1)
                 \/ OnOwnBlock(r, start, end, old, t1, h1)
                 \/ OnCopy(r, start, end, old, t1, h1)
<1> DEFINE kept == Trimmed(t, start)
           source == IF copyIdx >= 0 THEN kept[copyIdx + 1] ELSE NullBlock
           running == r \in allocated
           n == Needed(kept, copyIdx, end)
           t1(new) == TableAfter(kept, copyIdx, running, end, new)
           h1(new) == Moved(hash, source, running, new)
           h2(new) == Registered(r, t1(new), h1(new), start \div MambaSize, end)
<1>1. PICK new \in [1..n -> Pool(n, kept)] :
         /\ table' = [table EXCEPT ![r] = t1(new)]
         /\ hash' = h2(new)
         /\ numCached' = [numCached EXCEPT ![r] = Max({start \div MambaSize, end \div MambaSize})]
         /\ partial' = [partial EXCEPT ![r] = IF RegistersTail(r, t1(new), h1(new), end)
                                              THEN end \div MambaSize ELSE -1]
         /\ allocated' = allocated \cup {r}
         /\ copies' = IF copyIdx >= 0 THEN copies \cup {<<source, new[1]>>} ELSE copies
         /\ newKeys' = newKeys \cup ({h2(new)[b] : b \in {b \in Blocks : h2(new)[b] # h1(new)[b]
                                                                         \/ b \in Range(new)}} \ {NoKey})
  BY Zenon DEF Allocate
<1>2. /\ kept \in Seq(0..NumBlocks) /\ Len(kept) = Slot(start)
      /\ start > 0 => kept[Slot(start)] = old
      /\ Range(kept) \subseteq {NullBlock, old}
  BY TrimmedTable
<1>3. Pool(n, kept) \subseteq Free \ Range(kept) /\ Free \subseteq Blocks /\ Blocks \subseteq 0..NumBlocks
      /\ NullBlock \notin Blocks
  BY PoolIsFree, NumBlocksAssumption DEF Free, Blocks, NullBlock
<1>4. hash \in [Blocks -> PrefixKeys \cup {NoKey}]
  BY DEF Types
<1>5. Slot(start) \in Nat /\ Slot(end) \in Nat /\ (start > 0 => Slot(start) >= 1)
      /\ (start = 0 => start % MambaSize = 0)
  BY BlockOf, MambaSizeType, SMTT(60)
<1>n. n = Needed(kept, copyIdx, end)
  OBVIOUS
<1> HIDE DEF kept, source, running, n, t1, h1, h2
<1>6. CASE start % MambaSize = 0
  <2> DEFINE padded == Padded(kept, end)
             m == Slot(end)
             u == t1(new)
             g == h1(new)
  <2>1. /\ Slot(start) < m /\ copyIdx = -1
        /\ padded \in Seq(0..NumBlocks) /\ Len(padded) = m - 1
        /\ \A i \in 1..(m - 1) : padded[i] = IF i <= Slot(start) THEN kept[i] ELSE NullBlock
    <3>1. Slot(start) < m
      BY <1>6, LaterBlock
    <3> QED  BY <1>2, <1>6, <3>1, PaddedTable
  <2>2. n = 1
    <3>1. Needed(kept, copyIdx, end) = Max({0, m - Len(padded)}) + 0
      BY <2>1 DEF Needed
    <3>2. m - Len(padded) = 1
      BY <1>5, <2>1
    <3>3. 0 \in Int /\ 1 \in Int
      OBVIOUS
    <3>4. Max({0, 1}) \in {0, 1} /\ Max({0, 1}) >= 1
      BY <3>3, MinMaxOfTwo
    <3>5. Max({0, m - Len(padded)}) = Max({0, 1})
      BY <3>2
    <3> QED  BY <1>n, <3>1, <3>4, <3>5
  <2>3. /\ new \in [1..1 -> Free \ Range(kept)] /\ new[1] \in Free \ Range(kept)
        /\ Range(new) = {new[1]}
    <3>1. new \in [1..1 -> Free \ Range(kept)]
      BY <1>1, <1>3, <2>2
    <3> QED  BY <3>1, OneEntry
  <2>4. new[1] \in Free \ {old} /\ new[1] \in Blocks /\ new[1] # NullBlock
    <3>1. start > 0 => old \in Range(kept)
      BY <1>2, <1>5, ListPositions
    <3>2. start = 0 => old = NullBlock
      OBVIOUS
    <3>3. new[1] \in Blocks /\ new[1] # NullBlock
      BY <1>3, <2>3
    <3>4. start > 0 \/ start = 0
      OBVIOUS
    <3> QED  BY <2>3, <3>1, <3>2, <3>3, <3>4, Zenon
  <2>5. new \in Seq(0..NumBlocks) /\ Len(new) = 1
    <3>1. new \in [1..1 -> 0..NumBlocks]
      <4>1. Free \ Range(kept) \subseteq 0..NumBlocks
        BY <1>3
      <4> QED  BY <2>3, <4>1
    <3> QED  BY <3>1, OneEntry
  <2>6. u = padded \o new
    BY <2>1 DEF TableAfter, t1
  <2> HIDE DEF padded, m, u
  <2>m. m \in Nat
    BY <1>5 DEF m
  <2>7. /\ u \in Seq(0..NumBlocks) /\ Len(u) = m /\ u[m] = new[1]
        /\ \A i \in 1..(m - 1) : u[i] = padded[i]
    <3>1. Len(padded) = m - 1 /\ Len(padded) + 1 = m
      BY <2>1, <2>m
    <3>2. /\ u \in Seq(0..NumBlocks) /\ Len(u) = Len(padded) + 1
          /\ u[Len(padded) + 1] = new[1]
          /\ \A i \in 1..Len(padded) : u[i] = padded[i]
      BY <2>1, <2>5, <2>6, OneMore
    <3> QED  BY <3>1, <3>2
  <2>8. Range(u) \subseteq {NullBlock, old, new[1]}
    <3>1. \A i \in 1..m : i = m \/ i \in 1..(m - 1)
      BY <2>m
    <3>2. \A i \in 1..Slot(start) : kept[i] \in {NullBlock, old}
      BY <1>2, ListPositions
    <3>3. \A i \in 1..(m - 1) : i <= Slot(start) => i \in 1..Slot(start)
      BY <1>5
    <3>4. \A i \in 1..m : u[i] \in {NullBlock, old, new[1]}
      BY <2>1, <2>7, <3>1, <3>2, <3>3
    <3>5. \A x \in Range(u) : \E i \in 1..m : u[i] = x
      BY <2>7, ListPositions
    <3> QED  BY <3>4, <3>5
  <2>9. start > 0 => Slot(start) \in DOMAIN u /\ u[Slot(start)] = old
    <3>1. start > 0 => Slot(start) \in 1..(m - 1) /\ Slot(start) \in 1..m
      BY <1>5, <2>1, <2>m
    <3>2. DOMAIN u = 1..m
      BY <2>7, ListPositions
    <3> QED  BY <1>2, <1>5, <2>1, <2>7, <3>1, <3>2
  <2>10. g = [b \in Blocks |-> IF b = new[1] THEN NoKey ELSE hash[b]]
    BY <2>1, <2>3 DEF Moved, h1, source
  <2> HIDE DEF g
  <2>11. g = [hash EXCEPT ![new[1]] = NoKey] /\ g[new[1]] = NoKey
    BY <1>4, <2>4, <2>10
  <2>12. \A p \in (Slot(start) + 1)..(m - 1) : u[p] = NullBlock
    BY <1>5, <2>1, <2>7, <2>m
  <2>13. Ended(r, end, u, g)
    <3>1. newKeys' = newKeys \cup ({hash'[b] : b \in {b \in Blocks : hash'[b] # g[b]
                                                                  \/ b \in Range(new)}} \ {NoKey})
      <4> DEFINE W(h) == newKeys \cup ({h[b] : b \in {b \in Blocks : h[b] # h1(new)[b]
                                                             \/ b \in Range(new)}} \ {NoKey})
      <4>1. newKeys' = W(h2(new)) /\ hash' = h2(new)
        BY <1>1
      <4>2. newKeys' = W(hash')
        <5> HIDE DEF W
        <5> QED  BY <4>1
      <4> QED  BY <4>2 DEF g
    <3>2. /\ table' = [table EXCEPT ![r] = u]
          /\ hash' = Registered(r, u, g, start \div MambaSize, end)
          /\ numCached' = [numCached EXCEPT ![r] = Max({start \div MambaSize, end \div MambaSize})]
          /\ partial' = [partial EXCEPT ![r] = IF RegistersTail(r, u, g, end)
                                               THEN end \div MambaSize ELSE -1]
          /\ allocated' = allocated \cup {r}
      BY <1>1 DEF g, u, h2
    <3>3. Len(u) = Slot(end) /\ u[Slot(end)] \in Blocks /\ g[u[Slot(end)]] = NoKey
      BY <2>4, <2>7, <2>11 DEF m
    <3>4. \A p \in (Slot(start) + 1)..(Slot(end) - 1) : u[p] = NullBlock
      BY <2>12 DEF m
    <3> QED  BY <1>6, <2>7, <3>1, <3>2, <3>3, <3>4, AllocationEnds
  <2>14. copies' = copies
    BY <1>1, <2>1
  <2>15. OnNewBlock(start, end, old, u, g)
    BY <1>6, <2>4, <2>7, <2>8, <2>9, <2>11, <2>14 DEF OnNewBlock, m
  <2> QED  BY <2>13, <2>15
<1>7. CASE start % MambaSize # 0
  <2> DEFINE m == Slot(end)
             u == t1(new)
             g == h1(new)
             first == start \div MambaSize
  <2>1. /\ Slot(start) = m /\ m = first + 1 /\ first \in Nat /\ m \in Nat
        /\ start > 0 /\ old \in Blocks /\ kept[m] = old /\ Padded(kept, end) = kept
    <3>1. Slot(end) = Slot(start)
      BY <1>7, SameBlock
    <3>2. first \in Nat /\ Slot(start) = first + 1
      BY <1>7, BlockOf
    <3>3. start > 0 /\ old \in Blocks
      BY <1>5, <1>7 DEF Blocks, NullBlock
    <3>4. Padded(kept, end) = kept
      BY <1>2, <3>1, PaddedTable
    <3> QED  BY <1>2, <1>5, <3>1, <3>2, <3>3, <3>4
  <2>2. n = IF copyIdx >= 0 THEN 1 ELSE 0
    <3>1. Needed(kept, copyIdx, end) = Max({0, m - Len(kept)}) + (IF copyIdx >= 0 THEN 1 ELSE 0)
      BY <2>1 DEF Needed
    <3>2. m - Len(kept) = 0
      BY <1>2, <2>1
    <3>3. 0 \in Int
      OBVIOUS
    <3>4. Max({0, 0}) \in {0, 0}
      BY <3>3, MinMaxOfTwo
    <3>5. Max({0, m - Len(kept)}) = Max({0, 0})
      BY <3>2
    <3> QED  BY <1>n, <3>1, <3>4, <3>5
  <2>3. /\ DOMAIN kept = 1..m /\ m \in 1..m /\ kept \in [1..m -> 0..NumBlocks] /\ old \in Range(kept)
    <3>1. DOMAIN kept = 1..m /\ \A i \in 1..m : kept[i] \in 0..NumBlocks /\ kept[i] \in Range(kept)
      BY <1>2, <2>1, ListPositions
    <3>2. m \in 1..m
      BY <2>1
    <3> QED  BY <1>2, <2>1, <3>1, <3>2
  <2>4. ASSUME u \in Seq(0..NumBlocks), Len(u) = m, u[m] \in Blocks, g[u[m]] = NoKey
        PROVE  Ended(r, end, u, g)
    <3>1. newKeys' = newKeys \cup ({hash'[b] : b \in {b \in Blocks : hash'[b] # g[b]
                                                                  \/ b \in Range(new)}} \ {NoKey})
      <4> DEFINE W(h) == newKeys \cup ({h[b] : b \in {b \in Blocks : h[b] # h1(new)[b]
                                                             \/ b \in Range(new)}} \ {NoKey})
      <4>1. newKeys' = W(h2(new)) /\ hash' = h2(new)
        BY <1>1
      <4>2. newKeys' = W(hash')
        <5> HIDE DEF W
        <5> QED  BY <4>1
      <4> QED  BY <4>2 DEF g
    <3>2. /\ table' = [table EXCEPT ![r] = u]
          /\ hash' = Registered(r, u, g, start \div MambaSize, end)
          /\ numCached' = [numCached EXCEPT ![r] = Max({start \div MambaSize, end \div MambaSize})]
          /\ partial' = [partial EXCEPT ![r] = IF RegistersTail(r, u, g, end)
                                               THEN end \div MambaSize ELSE -1]
          /\ allocated' = allocated \cup {r}
      BY <1>1 DEF g, u, h2
    <3>3. Len(u) = Slot(end) /\ u[Slot(end)] \in Blocks /\ g[u[Slot(end)]] = NoKey
      BY <2>4 DEF m
    <3>4. \A p \in (Slot(start) + 1)..(Slot(end) - 1) : u[p] = NullBlock
      BY <2>1
    <3> HIDE DEF m, u, g, first
    <3> QED  BY <1>7, <2>4, <3>1, <3>2, <3>3, <3>4, AllocationEnds
  <2>5. CASE copyIdx = -1
    <3>1. new \in Seq(0..NumBlocks) /\ Len(new) = 0 /\ Range(new) = {}
      <4>1. new \in [1..0 -> 0..NumBlocks]
        BY <1>1, <1>3, <2>2, <2>5
      <4>2. DOMAIN new = {}
        BY <4>1
      <4> DEFINE zero == 0
      <4>3. new \in [1..zero -> 0..NumBlocks] /\ zero \in Nat
        BY <4>1
      <4>4. new \in Seq(0..NumBlocks) /\ Len(new) = zero
        <5> HIDE DEF zero
        <5> QED  BY <4>3, FunctionIsList
      <4> QED  BY <4>2, <4>4 DEF Range
    <3>2. u = kept
      <4>1. u = kept \o new
        BY <2>1, <2>5 DEF TableAfter, t1
      <4> QED  BY <1>2, <3>1, <4>1, NothingMore
    <3>3. g = hash
      <4>1. source = NullBlock
        BY <2>5 DEF source
      <4>2. g = [b \in Blocks |-> hash[b]]
        BY <3>1, <4>1 DEF Moved, h1
      <4> HIDE DEF g
      <4> QED  BY <1>4, <4>2
    <3> HIDE DEF u, g, m, first
    <3>4. Ended(r, end, u, g)
      BY <1>2, <1>7, <2>1, <2>4, <2>5, <3>2, <3>3
    <3>5. copies' = copies
      BY <1>1, <2>5
    <3>6. InPlace(start, end, old, copyIdx, u, g)
      BY <1>2, <1>7, <2>1, <2>5, <3>2, <3>3, <3>5 DEF InPlace, m
    <3> QED  BY <3>4, <3>6
  <2>6. CASE copyIdx = first
    <3>1. copyIdx >= 0 /\ n = 1 /\ source = old /\ source # NullBlock
      BY <1>3, <2>1, <2>2, <2>6 DEF source
    <3> HIDE DEF first
    <3>2. /\ new \in [1..1 -> Free \ Range(kept)] /\ new[1] \in Free \ Range(kept)
          /\ Range(new) = {new[1]}
      <4>1. new \in [1..1 -> Free \ Range(kept)]
        BY <1>1, <1>3, <3>1
      <4> QED  BY <4>1, OneEntry
    <3>3. new[1] \in Free \ {old} /\ new[1] \in Blocks /\ new[1] \in 0..NumBlocks
      BY <1>3, <2>3, <3>2
    <3>4. new \in Seq(0..NumBlocks) /\ Len(new) = 1
      <4>1. Free \ Range(kept) \subseteq 0..NumBlocks
        BY <1>3
      <4>2. new \in [1..1 -> 0..NumBlocks]
        BY <3>2, <4>1
      <4> QED  BY <4>2, OneEntry
    <3>5. copies' = copies \cup {<<old, new[1]>>}
      BY <1>1, <3>1
    <3>6. CASE running
      <4>1. u = kept
        <5>1. u = kept \o Tail(new)
          BY <2>1, <2>6, <3>1, <3>6 DEF TableAfter, t1
        <5> QED  BY <1>2, <3>4, <5>1, NothingMore
      <4>2. g = [b \in Blocks |-> IF b = new[1] THEN hash[old] ELSE IF b = old THEN NoKey ELSE hash[b]]
        BY <3>1, <3>2, <3>6 DEF Moved, h1
      <4> HIDE DEF u, g, m
      <4>3. g[old] = NoKey /\ g[new[1]] = hash[old]
        BY <2>1, <3>3, <4>2
      <4>4. Ended(r, end, u, g)
        BY <1>2, <2>1, <2>4, <4>1, <4>3
      <4>5. hash[old] \in newKeys' \cup {NoKey}
        <5>1. hash'[new[1]] = hash[old]
          <6>1. PICK k \in {NoKey, Key(r, end)} :
                   hash' = [b \in Blocks |-> IF b = u[Slot(end)] THEN k ELSE g[b]]
            BY <4>4 DEF Ended
          <6>2. u[Slot(end)] = old
            BY <2>1, <4>1 DEF m
          <6> QED  BY <3>3, <4>3, <6>1, <6>2
        <5>2. h2(new)[new[1]] \in newKeys' \cup {NoKey}
          BY <1>1, <3>2, <3>3
        <5> QED  BY <1>1, <5>1, <5>2
      <4>6. r \in allocated
        BY <3>6 DEF running
      <4>7. OnOwnBlock(r, start, end, old, u, g)
        <5>1. u[Slot(end)] = old /\ Slot(end) = Slot(start) /\ Range(u) \subseteq {NullBlock, old}
          BY <1>2, <2>1, <4>1 DEF m
        <5> QED  BY <1>7, <3>3, <3>5, <4>2, <4>5, <4>6, <5>1 DEF OnOwnBlock
      <4> QED  BY <4>4, <4>7
    <3>7. CASE ~running
      <4>1. u = [kept EXCEPT ![m] = new[1]]
        <5> DEFINE w == [kept EXCEPT ![m] = new[1]]
        <5>1. u = w \o Tail(new)
          BY <2>1, <2>6, <3>1, <3>7 DEF TableAfter, t1
        <5>2. w \in [1..m -> 0..NumBlocks]
          BY <2>3, <3>3
        <5>3. w \in Seq(0..NumBlocks)
          <6> HIDE DEF w, m
          <6> QED  BY <2>1, <5>2, FunctionIsList
        <5> HIDE DEF w, u
        <5>4. u = w
          BY <3>4, <5>1, <5>3, NothingMore
        <5> QED  BY <5>4 DEF w
      <4>2. g = [b \in Blocks |-> IF b = new[1] THEN NoKey ELSE hash[b]]
        BY <3>1, <3>2, <3>7 DEF Moved, h1
      <4> HIDE DEF u, g, m
      <4>3. g = [hash EXCEPT ![new[1]] = NoKey] /\ g[new[1]] = NoKey
        BY <1>4, <3>3, <4>2
      <4>4. u \in Seq(0..NumBlocks) /\ Len(u) = m /\ u[m] = new[1] /\ Range(u) \subseteq {NullBlock, new[1]}
        <5>1. u \in [1..m -> 0..NumBlocks] /\ u[m] = new[1]
              /\ \A i \in 1..m : i # m => u[i] = kept[i]
          BY <2>3, <3>3, <4>1
        <5>2. u \in Seq(0..NumBlocks) /\ Len(u) = m
          BY <2>1, <5>1, FunctionIsList
        <5>3. \A i \in 1..m : i # m => kept[i] = NullBlock
          BY <1>2, <2>1 DEF kept, Trimmed
        <5>4. \A x \in Range(u) : \E i \in 1..m : u[i] = x
          BY <5>2, ListPositions
        <5> QED  BY <5>1, <5>2, <5>3, <5>4
      <4>5. Ended(r, end, u, g)
        BY <2>4, <3>3, <4>3, <4>4
      <4>6. r \notin allocated
        BY <3>7 DEF running
      <4>7. OnCopy(r, start, end, old, u, g)
        <5>1. u[Slot(end)] = new[1] /\ Slot(end) = Slot(start)
          BY <2>1, <4>4 DEF m
        <5> QED  BY <1>7, <3>3, <3>5, <4>3, <4>4, <4>6, <5>1 DEF OnCopy
      <4> QED  BY <4>5, <4>7
    <3> QED  BY <3>6, <3>7
  <2> QED  BY <2>5, <2>6
<1> QED  BY <1>6, <1>7

-----------------------------------------------------------------------------
(***************************************************************************)
(* A request is scheduled.                                                 *)
(***************************************************************************)

\* A prefix's key.
LEMMA KeyType ==
    ASSUME Types, NEW r \in Reqs, status[r] # "finished", NEW n \in Nat
    PROVE  Key(r, n) \in PrefixKeys /\ Key(r, n) # NoKey /\ Key(r, n)[2] = n
<1>1. workload.text[r] \in Range(workload.text)
  BY DEF Types, Range
<1>2. workload.text[r] \in UNION {Range(w.text) : w \in Workloads}
  BY <1>1 DEF Types
<1> DEFINE texts == UNION {Range(w.text) : w \in Workloads}
           names == {"common"} \cup texts \cup Reqs
<1>3. Key(r, n) \in PrefixKeys
  <2>1. "common" \in names /\ workload.text[r] \in names /\ r \in names
    <3> HIDE DEF texts
    <3> QED  BY <1>2 DEF texts
  <2> HIDE DEF names
  <2>2. \A name \in names : <<name, n>> \in names \X Nat
    OBVIOUS
  <2>3. Key(r, n) \in names \X Nat
    BY <2>1, <2>2 DEF Key
  <2>4. PrefixKeys = names \X Nat
    BY DEF PrefixKeys, names, texts
  <2> QED  BY <2>3, <2>4
<1> QED  BY <1>3, NoKeyAssumption DEF Key

\* The step schedules r, from start, in block old, to end.
Schedules(r, start, end, old, copyIdx, t1, h1) ==
    /\ status[r] # "finished" /\ r \notin DOMAIN batch
    /\ start < end /\ end <= NumTokens(r)
    /\ (start = 0) <=> (old = NullBlock)
    /\ old # NullBlock => /\ old \notin Dests /\ state[old] = Key(r, start)
                          /\ hash[old] \in {NoKey, Key(r, start)}
    /\ r \in Running => Pos(r) = start /\ Home(r) = old
    /\ start % MambaSize # 0 /\ copyIdx = -1 => r \in Running
    /\ \A x \in Running \ {r} : Writes(x) /\ start % MambaSize = 0 => Home(x) # old
    /\ Ended(r, end, t1, h1)
    /\ \/ OnNewBlock(start, end, old, t1, h1)
       \/ InPlace(start, end, old, copyIdx, t1, h1)
       \/ OnOwnBlock(r, start, end, old, t1, h1)
       \/ OnCopy(r, start, end, old, t1, h1)
    /\ status' = [status EXCEPT ![r] = "running"]
    /\ computed' = [computed EXCEPT ![r] = start]
    /\ junction' \in [Reqs -> Nat]
    /\ Scheduled(r, end)
    /\ UNCHANGED <<outputs, workload, state, used>>

\* A copy that the step orders: of the block it starts in, to a free block.
NewCopy(r, start, old, home, t1, c) ==
    /\ c[1] = old /\ c[2] \in Free \ {old}
    /\ hash'[c[2]] \in newKeys' \cup {NoKey}
    /\ c[2] # home => hash'[c[2]] = hash[old]
    /\ c[2] \in Range(t1) => c[2] = home

\* What the step does to blocks, whatever its form.
Effects(r, start, end, old, t1) ==
    LET home == t1[Slot(end)]
    IN /\ home \in Blocks /\ home \notin Dests
       /\ \A x \in Reqs \ {r} : home \notin Range(table[x])
       /\ \A b \in Blocks \ {home} : b \in Held(table) \/ b \notin Dests' => hash'[b] = hash[b]
       /\ copies \subseteq copies' /\ copies' \subseteq Blocks \X Blocks
       /\ \A c \in copies' \ copies : NewCopy(r, start, old, home, t1, c)
       /\ \A c, d \in copies' \ copies : c = d
       /\ Range(t1) \subseteq {NullBlock, old, home}
       /\ old \in Range(t1) /\ old # home => start % MambaSize = 0
       /\ start > 0 => /\ Slot(start) \in DOMAIN t1 /\ t1[Slot(start)] \in Blocks
                       /\ \/ t1[Slot(start)] = old /\ old \notin Dests'
                          \/ <<old, t1[Slot(start)]>> \in copies'

\* A free block is in no table and in no copy.
LEMMA FreeBlock ==
    ASSUME Types, NEW f \in Free
    PROVE  /\ f \in Blocks /\ f \notin Dests
           /\ \A x \in Reqs : f \notin Range(table[x])
           /\ f \notin Held(table)
<1>1. f \in Blocks /\ f \notin Held(table)
  BY DEF Free
<1>2. \A x \in Reqs : f \notin Range(table[x])
  BY <1>1 DEF Held
<1>3. f \notin Dests
  <2> SUFFICES ASSUME NEW c \in copies, c[2] = f
               PROVE  f \in Held(table)
    BY <1>1 DEF Dests
  <2> DEFINE ends == UNION {{d[1], d[2]} : d \in copies}
             held == UNION {Range(table[x]) : x \in Reqs}
  <2>1. f \in ends
    BY Zenon
  <2>2. Held(table) = held \cup ends
    BY DEF Held
  <2> HIDE DEF ends, held
  <2> QED  BY <2>1, <2>2
<1> QED  BY <1>1, <1>2, <1>3

\* Blocks that the step starts in and that are in use.
LEMMA OwnBlock ==
    ASSUME PInv, NEW r \in Running, r \notin DOMAIN batch, NEW start \in Nat,
           Pos(r) = start, start % MambaSize # 0
    PROVE  \A x \in Reqs \ {r} : Home(r) \notin Range(table[x])
BY DEF PInv, Homes, Writes

\* The four forms have these effects.
LEMMA EffectsOfForms ==
    ASSUME PInv, NEW r \in Reqs, NEW start \in Nat, NEW end \in Nat, NEW old \in 0..NumBlocks,
           NEW copyIdx, NEW t1, NEW h1, Schedules(r, start, end, old, copyIdx, t1, h1)
    PROVE  Effects(r, start, end, old, t1)
<1> DEFINE home == t1[Slot(end)]
<1>1. /\ Types /\ copies \subseteq Blocks \X Blocks /\ Running = allocated /\ NumBlocks \in Nat
      /\ NullBlock \notin Blocks /\ Blocks = 0..NumBlocks \ {NullBlock}
  BY NumBlocksAssumption DEF PInv, Types, Blocks, NullBlock
<1>2. PICK k \in {NoKey, Key(r, end)} :
         /\ hash' = [b \in Blocks |-> IF b = home THEN k ELSE h1[b]]
         /\ k \in newKeys' \cup {NoKey}
         /\ t1 \in Seq(0..NumBlocks) /\ Len(t1) = Slot(end) /\ home \in Blocks
  BY DEF Schedules, Ended
<1>3. /\ old # NullBlock => old \notin Dests
      /\ (start = 0) <=> (old = NullBlock)
      /\ r \in Running => Pos(r) = start /\ Home(r) = old
      /\ start % MambaSize # 0 /\ copyIdx = -1 => r \in Running
      /\ r \notin DOMAIN batch
  BY DEF Schedules
<1>4. \A i \in 1..Len(t1) : t1[i] \in Range(t1) /\ t1[i] \in 0..NumBlocks
  BY <1>2, ListPositions
<1>5. hash \in [Blocks -> PrefixKeys \cup {NoKey}]
  BY <1>1 DEF Types
<1>6. start % MambaSize # 0 => start > 0
  BY MambaSizeType
<1>7. DOMAIN t1 = 1..Len(t1) /\ Slot(start) \in Nat /\ (start > 0 => Slot(start) >= 1)
  BY <1>2, ListPositions, BlockOf
<1>8. start > 0 => old \in Blocks
  BY <1>1, <1>3
<1>9. CASE OnNewBlock(start, end, old, t1, h1)
  <2>1. /\ start % MambaSize = 0 /\ home \in Free \ {old}
        /\ h1 = [hash EXCEPT ![home] = NoKey] /\ copies' = copies
        /\ Range(t1) \subseteq {NullBlock, old, home}
        /\ start > 0 => Slot(start) \in DOMAIN t1 /\ t1[Slot(start)] = old
    BY <1>9 DEF OnNewBlock
  <2>2. /\ home \notin Dests /\ \A x \in Reqs \ {r} : home \notin Range(table[x])
    BY <1>1, <2>1, FreeBlock
  <2>3. Dests' = Dests
    BY <2>1 DEF Dests
  <2>4. \A b \in Blocks \ {home} : hash'[b] = hash[b]
    BY <1>2, <1>5, <2>1
  <2> HIDE DEF home
  <2> QED  BY <1>1, <1>2, <1>3, <1>8, <2>1, <2>2, <2>3, <2>4 DEF Effects, home
<1>10. CASE InPlace(start, end, old, copyIdx, t1, h1)
  <2>1. /\ start % MambaSize # 0 /\ Slot(end) = Slot(start) /\ copyIdx = -1
        /\ home = old /\ h1 = hash /\ copies' = copies /\ Range(t1) \subseteq {NullBlock, old}
    BY <1>10 DEF InPlace
  <2>2. \A x \in Reqs \ {r} : home \notin Range(table[x])
    BY <1>3, <2>1, OwnBlock
  <2>3. Dests' = Dests /\ home \notin Dests
    BY <1>1, <1>2, <1>3, <2>1 DEF Dests
  <2>4. \A b \in Blocks \ {home} : hash'[b] = hash[b]
    BY <1>2, <1>5, <2>1
  <2>5. Slot(start) \in DOMAIN t1 /\ t1[Slot(start)] = old
    BY <1>2, <1>6, <1>7, <2>1
  <2> HIDE DEF home
  <2> QED  BY <1>1, <1>2, <1>6, <1>8, <2>1, <2>2, <2>3, <2>4, <2>5 DEF Effects, home
<1>11. CASE OnOwnBlock(r, start, end, old, t1, h1)
  <2>1. /\ start % MambaSize # 0 /\ Slot(end) = Slot(start) /\ r \in Running
        /\ home = old /\ Range(t1) \subseteq {NullBlock, old}
    BY <1>1, <1>11 DEF OnOwnBlock
  <2>2. PICK f \in Free \ {old} :
          /\ h1 = [b \in Blocks |-> IF b = f THEN hash[old] ELSE IF b = old THEN NoKey ELSE hash[b]]
          /\ copies' = copies \cup {<<old, f>>}
          /\ hash[old] \in newKeys' \cup {NoKey}
    BY <1>11 DEF OnOwnBlock
  <2>3. \A x \in Reqs \ {r} : home \notin Range(table[x])
    BY <1>3, <2>1, OwnBlock
  <2>4. Dests' = Dests \cup {f} /\ home \notin Dests /\ f \in Blocks /\ f \notin Held(table)
    <3>1. f \in Blocks /\ f \notin Held(table)
      BY <1>1, <2>2, FreeBlock
    <3>2. Dests' = Dests \cup {f}
      <4>1. Dests' = {c[2] : c \in copies \cup {<<old, f>>}}
        BY <2>2 DEF Dests
      <4>2. <<old, f>>[2] = f
        OBVIOUS
      <4> QED  BY <4>1, <4>2 DEF Dests
    <3> QED  BY <1>1, <1>2, <1>3, <2>1, <3>1, <3>2
  <2>5. \A b \in Blocks \ {home} : b \in Held(table) \/ b \notin Dests' => hash'[b] = hash[b]
    BY <1>2, <2>1, <2>2, <2>4
  <2>6. hash'[f] = hash[old] /\ f # home /\ f # NullBlock
    BY <1>1, <1>2, <2>1, <2>2, <2>4
  <2>7. Slot(start) \in DOMAIN t1 /\ t1[Slot(start)] = old
    BY <1>2, <1>6, <1>7, <2>1
  <2>8. old \in Blocks /\ copies' \subseteq Blocks \X Blocks /\ old \notin Dests'
    BY <1>1, <1>2, <2>1, <2>2, <2>4
  <2>9. NewCopy(r, start, old, home, t1, <<old, f>>)
    BY <2>1, <2>2, <2>6 DEF NewCopy
  <2>10. \A c \in copies' \ copies : c = <<old, f>>
    BY <2>2
  <2>11. copies \subseteq copies' /\ \A c \in copies' \ copies : NewCopy(r, start, old, home, t1, c)
    BY <2>2, <2>9, <2>10
  <2> HIDE DEF home
  <2> QED  BY <1>2, <2>1, <2>3, <2>4, <2>5, <2>7, <2>8, <2>10, <2>11 DEF Effects, home
<1>12. CASE OnCopy(r, start, end, old, t1, h1)
  <2>1. /\ start % MambaSize # 0 /\ Slot(end) = Slot(start)
        /\ home \in Free \ {old} /\ h1 = [hash EXCEPT ![home] = NoKey]
        /\ copies' = copies \cup {<<old, home>>} /\ Range(t1) \subseteq {NullBlock, home}
    BY <1>12 DEF OnCopy
  <2>2. /\ home \notin Dests /\ \A x \in Reqs \ {r} : home \notin Range(table[x])
    BY <1>1, <2>1, FreeBlock
  <2>3. \A b \in Blocks \ {home} : hash'[b] = hash[b]
    BY <1>2, <1>5, <2>1
  <2>4. Slot(start) \in DOMAIN t1 /\ t1[Slot(start)] = home
    BY <1>2, <1>6, <1>7, <2>1
  <2>5. old \in Blocks /\ copies' \subseteq Blocks \X Blocks
    BY <1>1, <1>2, <1>6, <1>8, <2>1
  <2>6. hash'[home] \in newKeys' \cup {NoKey}
    BY <1>2
  <2>7. NewCopy(r, start, old, home, t1, <<old, home>>)
    BY <2>1, <2>6 DEF NewCopy
  <2>8. \A c \in copies' \ copies : c = <<old, home>>
    BY <2>1
  <2>9. /\ copies \subseteq copies' /\ <<old, home>> \in copies'
        /\ \A c \in copies' \ copies : NewCopy(r, start, old, home, t1, c)
    BY <2>1, <2>7, <2>8
  <2>10. old \notin Range(t1) \/ old = NullBlock
    BY <2>1
  <2>11. old # NullBlock
    BY <1>1, <2>5
  <2> HIDE DEF home
  <2> QED  BY <1>2, <2>1, <2>2, <2>3, <2>4, <2>5, <2>8, <2>9, <2>10, <2>11 DEF Effects, home
<1> QED  BY <1>9, <1>10, <1>11, <1>12 DEF Schedules

\* Nothing changes for the other requests.
LEMMA OthersStay ==
    ASSUME PInv, NEW r \in Reqs, NEW start \in Nat, NEW end \in Nat, NEW old \in 0..NumBlocks,
           NEW copyIdx, NEW t1, NEW h1, Schedules(r, start, end, old, copyIdx, t1, h1)
    PROVE  /\ Running' = Running \cup {r} /\ DOMAIN batch' = DOMAIN batch \cup {r}
           /\ Pos(r)' = end /\ Home(r)' = t1[Slot(end)] /\ table'[r] = t1
           /\ computed'[r] = start /\ batch'[r] = end
           /\ Written' = Written \cup {t1[Slot(end)]}
           /\ \A x \in Reqs \ {r} :
                 /\ status'[x] = status[x] /\ computed'[x] = computed[x] /\ table'[x] = table[x]
                 /\ numCached'[x] = numCached[x] /\ partial'[x] = partial[x]
                 /\ Pos(x)' = Pos(x) /\ Home(x)' = Home(x) /\ (Writes(x)' <=> Writes(x))
                 /\ x \in Running' <=> x \in Running
                 /\ x \in DOMAIN batch' <=> x \in DOMAIN batch
           /\ \A x \in DOMAIN batch : x \in Reqs \ {r} /\ batch'[x] = batch[x]
           /\ \A x \in Reqs, n \in Int : Key(x, n)' = Key(x, n)
           /\ \A x \in Reqs : NumTokens(x)' = NumTokens(x)
<1>1. /\ status' = [status EXCEPT ![r] = "running"] /\ computed' = [computed EXCEPT ![r] = start]
      /\ batch' = [x \in DOMAIN batch \cup {r} |-> IF x = r THEN end ELSE batch[x]]
      /\ table' = [table EXCEPT ![r] = t1] /\ numCached' = [numCached EXCEPT ![r] = end \div MambaSize]
      /\ \E idx \in Int : partial' = [partial EXCEPT ![r] = idx]
      /\ workload' = workload /\ outputs' = outputs /\ r \notin DOMAIN batch
  BY DEF Schedules, Scheduled, Ended
<1>2. /\ status \in [Reqs -> {"waiting", "running", "finished"}] /\ computed \in [Reqs -> Nat]
      /\ DOMAIN table = Reqs /\ numCached \in [Reqs -> Nat] /\ partial \in [Reqs -> Int]
      /\ DOMAIN batch \subseteq Reqs
  BY DEF PInv, Types, Running
<1>3. /\ status'[r] = "running" /\ computed'[r] = start /\ table'[r] = t1
      /\ DOMAIN batch' = DOMAIN batch \cup {r} /\ batch'[r] = end
      /\ \A x \in DOMAIN batch : x # r /\ batch'[x] = batch[x]
      /\ \A x \in Reqs \ {r} :
            /\ status'[x] = status[x] /\ computed'[x] = computed[x] /\ table'[x] = table[x]
            /\ numCached'[x] = numCached[x] /\ partial'[x] = partial[x]
  BY <1>1, <1>2
<1>4. \A x \in Reqs, n \in Int : Key(x, n)' = Key(x, n)
  BY <1>1 DEF Key, Prompt
<1>5. \A x \in Reqs : NumTokens(x)' = NumTokens(x)
  BY <1>1 DEF NumTokens, Prompt
<1>6. Running' = Running \cup {r}
  BY <1>3 DEF Running
<1>7. ASSUME NEW x \in Reqs \ {r}
      PROVE  /\ Pos(x)' = Pos(x) /\ Home(x)' = Home(x) /\ (Writes(x)' <=> Writes(x))
             /\ x \in Running' <=> x \in Running
             /\ x \in DOMAIN batch' <=> x \in DOMAIN batch
  <2>1. x \in DOMAIN batch' <=> x \in DOMAIN batch
    BY <1>3
  <2>2. Pos(x)' = Pos(x)
    BY <1>3, <2>1 DEF Pos
  <2>3. Home(x)' = Home(x)
    BY <1>3, <2>2 DEF Home
  <2> QED  BY <1>6, <2>1, <2>2, <2>3 DEF Writes
<1>8. Pos(r)' = end /\ Home(r)' = t1[Slot(end)]
  BY <1>3 DEF Pos, Home
<1>9. Written' = Written \cup {t1[Slot(end)]}
  <2>1. Written' = {Home(x)' : x \in DOMAIN batch'}
    BY DEF Written
  <2>2. \A x \in DOMAIN batch : Home(x)' = Home(x)
    BY <1>2, <1>3, <1>7
  <2> QED  BY <1>3, <1>8, <2>1, <2>2 DEF Written
<1> QED  BY <1>2, <1>3, <1>4, <1>5, <1>6, <1>7, <1>8, <1>9

\* Types, positions and tables.
LEMMA ScheduleKeepsTypes ==
    ASSUME PInv, NEW r \in Reqs, NEW start \in Nat, NEW end \in Nat, NEW old \in 0..NumBlocks,
           NEW copyIdx, NEW t1, NEW h1, Schedules(r, start, end, old, copyIdx, t1, h1)
    PROVE  Types' /\ Progress' /\ Tables'
<1>1. Effects(r, start, end, old, t1)
  BY EffectsOfForms
<1>2. PICK k \in {NoKey, Key(r, end)} :
         hash' = [b \in Blocks |-> IF b = t1[Slot(end)] THEN k ELSE h1[b]]
  BY DEF Schedules, Ended
<1>3. /\ t1 \in Seq(0..NumBlocks) /\ Len(t1) = Slot(end) /\ t1[Slot(end)] \in Blocks
      /\ table' = [table EXCEPT ![r] = t1]
      /\ numCached' = [numCached EXCEPT ![r] = end \div MambaSize]
      /\ allocated' = allocated \cup {r}
      /\ status' = [status EXCEPT ![r] = "running"] /\ status[r] # "finished"
      /\ computed' = [computed EXCEPT ![r] = start] /\ start < end /\ end <= NumTokens(r)
      /\ outputs' = outputs /\ workload' = workload /\ state' = state
      /\ junction' \in [Reqs -> Nat]
      /\ batch' = [x \in DOMAIN batch \cup {r} |-> IF x = r THEN end ELSE batch[x]]
  BY DEF Schedules, Ended, Scheduled
<1>4. PICK idx \in Int : /\ partial' = [partial EXCEPT ![r] = idx]
                         /\ idx = -1 \/ (idx = end \div MambaSize /\ end % MambaSize # 0)
  BY DEF Schedules, Ended
<1>5. /\ Types /\ Progress /\ Tables
  BY DEF PInv
<1>6. hash' \in [Blocks -> PrefixKeys \cup {NoKey}]
  <2>1. Key(r, end) \in PrefixKeys
    BY <1>3, <1>5, KeyType
  <2>2. hash \in [Blocks -> PrefixKeys \cup {NoKey}]
    BY <1>5 DEF Types
  <2>3. \A b \in Blocks : b # t1[Slot(end)] => h1[b] \in PrefixKeys \cup {NoKey}
    <3>1. start % MambaSize # 0 => old \in Blocks
      <4>1. start % MambaSize # 0 => start # 0
        BY MambaSizeType
      <4> QED  BY <4>1 DEF Schedules, Blocks, NullBlock
    <3>2. CASE OnOwnBlock(r, start, end, old, t1, h1)
      <4>1. PICK f \in Free \ {old} :
               h1 = [b \in Blocks |-> IF b = f THEN hash[old] ELSE IF b = old THEN NoKey ELSE hash[b]]
        BY <3>2 DEF OnOwnBlock
      <4> QED  BY <2>2, <3>1, <3>2, <4>1 DEF OnOwnBlock
    <3>3. CASE OnNewBlock(start, end, old, t1, h1) \/ OnCopy(r, start, end, old, t1, h1)
      <4>1. h1 = [hash EXCEPT ![t1[Slot(end)]] = NoKey]
        BY <3>3 DEF OnNewBlock, OnCopy
      <4> QED  BY <2>2, <4>1
    <3>4. CASE InPlace(start, end, old, copyIdx, t1, h1)
      BY <2>2, <3>4 DEF InPlace
    <3> QED  BY <3>2, <3>3, <3>4 DEF Schedules
  <2> QED  BY <1>2, <2>1, <2>3
<1>7. Types'
  <2>1. /\ workload' \in Workloads /\ outputs' \in [Reqs -> Nat] /\ DOMAIN state' = Blocks
        /\ status' \in [Reqs -> {"waiting", "running", "finished"}]
        /\ \A x \in Reqs : status'[x] # "finished" => x \in DOMAIN workload'.text
    BY <1>3, <1>5 DEF Types
  <2>2. /\ computed' \in [Reqs -> Nat] /\ junction' \in [Reqs -> Nat]
        /\ table' \in [Reqs -> Seq(0..NumBlocks)] /\ partial' \in [Reqs -> Int]
    BY <1>3, <1>4, <1>5 DEF Types
  <2>3. numCached' \in [Reqs -> Nat]
    <3>1. end \div MambaSize \in Nat
      BY BlockOf
    <3> QED  BY <1>3, <1>5, <3>1 DEF Types
  <2>4. copies' \subseteq Blocks \X Blocks
    BY <1>1 DEF Effects
  <2>5. allocated' = Running' /\ DOMAIN batch' \subseteq Running'
        /\ \A x \in DOMAIN batch' : batch'[x] \in Nat /\ computed'[x] < batch'[x]
    <3>1. /\ Running' = Running \cup {r} /\ DOMAIN batch' = DOMAIN batch \cup {r}
          /\ computed'[r] = start /\ batch'[r] = end
          /\ \A x \in DOMAIN batch : x \in Reqs \ {r} /\ batch'[x] = batch[x]
          /\ \A x \in Reqs \ {r} : computed'[x] = computed[x]
      BY OthersStay
    <3> QED  BY <1>3, <1>5, <3>1 DEF Types
  <2> QED  BY <1>6, <2>1, <2>2, <2>3, <2>4, <2>5 DEF Types
<1>8. /\ Running' = Running \cup {r} /\ DOMAIN batch' = DOMAIN batch \cup {r}
      /\ Pos(r)' = end /\ Home(r)' = t1[Slot(end)] /\ table'[r] = t1
      /\ \A x \in Reqs \ {r} :
            /\ table'[x] = table[x] /\ numCached'[x] = numCached[x] /\ partial'[x] = partial[x]
            /\ Pos(x)' = Pos(x) /\ Home(x)' = Home(x)
            /\ x \in DOMAIN batch' <=> x \in DOMAIN batch
      /\ \A x \in Reqs : NumTokens(x)' = NumTokens(x)
  BY OthersStay
<1>9. Progress'
  <2> SUFFICES ASSUME NEW x \in Running'
               PROVE  /\ Pos(x)' > 0 /\ Pos(x)' <= NumTokens(x)'
                      /\ x \notin DOMAIN batch' => Pos(x)' < NumTokens(x)'
    BY DEF Progress
  <2>1. CASE x = r
    BY <1>3, <1>8, <2>1
  <2>2. CASE x # r
    <3>1. x \in Running /\ x \in Reqs \ {r}
      BY <1>8, <2>2 DEF Running
    <3> QED  BY <1>5, <1>8, <3>1 DEF Progress
  <2> QED  BY <2>1, <2>2
<1>10. Tables'
  <2>1. ASSUME NEW x \in Reqs, x \notin Running'
        PROVE  table'[x] = <<>>
    BY <1>5, <1>8, <2>1 DEF Tables
  <2>2. ASSUME NEW x \in Running'
        PROVE  /\ Len(table'[x]) = Slot(Pos(x)') /\ Home(x)' \in Blocks
               /\ numCached'[x] = Pos(x)' \div MambaSize
               /\ partial'[x] = -1 \/ (partial'[x] = Pos(x)' \div MambaSize /\ Pos(x)' % MambaSize # 0)
    <3>1. CASE x = r
      <4>1. numCached'[r] = end \div MambaSize /\ partial'[r] = idx
        BY <1>3, <1>4, <1>5 DEF Types
      <4> QED  BY <1>3, <1>4, <1>8, <3>1, <4>1
    <3>2. CASE x # r
      <4>1. x \in Running /\ x \in Reqs \ {r}
        BY <1>8, <3>2 DEF Running
      <4> QED  BY <1>5, <1>8, <4>1 DEF Tables
    <3> QED  BY <3>1, <3>2
  <2>3. \A n \in Int : Slot(n)' = Slot(n)
    BY DEF Slot, Cdiv
  <2> QED  BY <2>1, <2>2 DEF Tables, Slot, Cdiv
<1> QED  BY <1>7, <1>9, <1>10

\* The blocks of a table that has any are those of a running request.
LEMMA TablesOfRunning ==
    ASSUME PInv, NEW x \in Reqs
    PROVE  /\ Range(table[x]) \subseteq 0..NumBlocks
           /\ x \notin Running => Range(table[x]) = {}
           /\ x \in Running => /\ Home(x) \in Range(table[x]) /\ Home(x) \in Blocks
                               /\ Home(x) \in Held(table)
           /\ \A i \in DOMAIN table[x] : table[x][i] \in Range(table[x]) /\ table[x][i] \in Held(table)
<1> USE DEF PInv
<1>1. table[x] \in Seq(0..NumBlocks)
  BY DEF Types
<1>2. /\ DOMAIN table[x] = 1..Len(table[x]) /\ Range(table[x]) \subseteq 0..NumBlocks
      /\ \A i \in DOMAIN table[x] : table[x][i] \in Range(table[x])
  <2> DEFINE t == table[x]
  <2> HIDE DEF t
  <2>1. t \in Seq(0..NumBlocks)
    BY <1>1 DEF t
  <2>2. /\ DOMAIN t = 1..Len(t) /\ \A i \in 1..Len(t) : t[i] \in 0..NumBlocks
        /\ \A i \in 1..Len(t) : t[i] \in Range(t)
        /\ \A y \in Range(t) : \E i \in 1..Len(t) : t[i] = y
    BY <2>1, ListPositions
  <2>3. Range(t) \subseteq 0..NumBlocks
    BY <2>2
  <2> QED  BY <2>2, <2>3 DEF t
<1>3. Range(table[x]) \subseteq Held(table)
  <2> DEFINE ends == UNION {{c[1], c[2]} : c \in copies}
             held == UNION {Range(table[r]) : r \in Reqs}
  <2>1. Range(table[x]) \subseteq held
    OBVIOUS
  <2>2. Held(table) = held \cup ends
    BY DEF Held
  <2> HIDE DEF ends, held
  <2> QED  BY <2>1, <2>2
<1>4. x \notin Running => Range(table[x]) = {}
  <2>1. x \notin Running => table[x] = <<>>
    BY DEF Tables
  <2> QED  BY <2>1 DEF Range
<1>5. x \in Running => Home(x) \in Range(table[x]) /\ Home(x) \in Blocks
  <2> HAVE x \in Running
  <2>1. Len(table[x]) = Slot(Pos(x)) /\ Home(x) \in Blocks
    BY DEF Tables
  <2>2. Pos(x) \in Nat /\ Pos(x) > 0
    BY DEF Pos, Types, Running, Progress
  <2>3. Slot(Pos(x)) \in Nat /\ Slot(Pos(x)) >= 1
    BY <2>2, BlockOf
  <2>5. Slot(Pos(x)) \in DOMAIN table[x]
    BY <1>2, <2>1, <2>3
  <2> QED  BY <1>2, <2>1, <2>5 DEF Home
<1> QED  BY <1>2, <1>3, <1>4, <1>5

\* The blocks of running states.
LEMMA ScheduleKeepsHomes ==
    ASSUME PInv, NEW r \in Reqs, NEW start \in Nat, NEW end \in Nat, NEW old \in 0..NumBlocks,
           NEW copyIdx, NEW t1, NEW h1, Schedules(r, start, end, old, copyIdx, t1, h1)
    PROVE  Homes'
<1> DEFINE home == t1[Slot(end)]
<1>1. Effects(r, start, end, old, t1)
  BY EffectsOfForms
<1>2. /\ home \in Blocks /\ home # NullBlock
      /\ \A x \in Reqs \ {r} : home \notin Range(table[x])
      /\ \A b \in Blocks \ {home} : b \in Held(table) \/ b \notin Dests' => hash'[b] = hash[b]
      /\ Range(t1) \subseteq {NullBlock, old, home}
      /\ old \in Range(t1) /\ old # home => start % MambaSize = 0
  BY <1>1 DEF Effects, Blocks, NullBlock
<1>3. PICK k \in {NoKey, Key(r, end)} :
         /\ hash' = [b \in Blocks |-> IF b = home THEN k ELSE h1[b]]
         /\ k \in newKeys' \cup {NoKey}
         /\ k # NoKey /\ end % MambaSize # 0 => partial'[r] # -1
  BY DEF Schedules, Ended
<1>4. /\ newKeys \subseteq newKeys'
      /\ \A x \in Running \ {r} : Writes(x) /\ start % MambaSize = 0 => Home(x) # old
  BY DEF Schedules, Ended
<1>5. /\ Running' = Running \cup {r} /\ DOMAIN batch' = DOMAIN batch \cup {r}
      /\ Pos(r)' = end /\ Home(r)' = home /\ table'[r] = t1
      /\ \A x \in Reqs \ {r} :
            /\ table'[x] = table[x] /\ partial'[x] = partial[x]
            /\ Pos(x)' = Pos(x) /\ Home(x)' = Home(x) /\ (Writes(x)' <=> Writes(x))
            /\ x \in DOMAIN batch' <=> x \in DOMAIN batch
      /\ \A x \in Reqs, n \in Int : Key(x, n)' = Key(x, n)
  BY OthersStay
<1> HIDE DEF home
<1>6. ASSUME NEW x \in Running', x # r
      PROVE  /\ hash'[Home(x)'] \in {NoKey, Key(x, Pos(x))'}
             /\ hash'[Home(x)'] # NoKey /\ Pos(x)' % MambaSize # 0 => partial'[x] # -1
             /\ x \in DOMAIN batch' => hash'[Home(x)'] \in newKeys' \cup {NoKey}
             /\ Writes(x)' => \A y \in Reqs \ {x} : Home(x)' \notin Range(table'[y])
  <2>1. x \in Running /\ x \in Reqs \ {r}
    BY <1>5, <1>6 DEF Running
  <2>2. Home(x) \in Range(table[x]) /\ Home(x) \in Blocks /\ Home(x) \in Held(table)
    BY <2>1, TablesOfRunning
  <2>3. Home(x) # home /\ hash'[Home(x)] = hash[Home(x)]
    BY <1>2, <2>1, <2>2
  <2>4. /\ hash[Home(x)] \in {NoKey, Key(x, Pos(x))}
        /\ hash[Home(x)] # NoKey /\ Pos(x) % MambaSize # 0 => partial[x] # -1
        /\ x \in DOMAIN batch => hash[Home(x)] \in newKeys \cup {NoKey}
        /\ Writes(x) => \A y \in Reqs \ {x} : Home(x) \notin Range(table[y])
    BY <2>1 DEF PInv, Homes
  <2>5. Key(x, Pos(x))' = Key(x, Pos(x))
    <3>1. Pos(x)' = Pos(x) /\ workload' = workload
      BY <1>5, <2>1 DEF Schedules
    <3> QED  BY <3>1 DEF Key, Prompt
  <2>6. Writes(x)' => Home(x) \notin Range(t1)
    <3>1. Writes(x)' => Writes(x)
      BY <1>5, <2>1
    <3>2. Home(x) # NullBlock
      BY <2>2 DEF Blocks, NullBlock
    <3>3. Writes(x) /\ Home(x) \in Range(t1) => Home(x) = old /\ start % MambaSize = 0
      BY <1>2, <2>3, <3>2
    <3> QED  BY <1>4, <2>1, <3>1, <3>3
  <2>7. Writes(x)' => \A y \in Reqs \ {x} : Home(x)' \notin Range(table'[y])
    BY <1>5, <2>1, <2>4, <2>6
  <2>8. Home(x)' = Home(x) /\ Pos(x)' = Pos(x) /\ partial'[x] = partial[x]
        /\ (x \in DOMAIN batch' <=> x \in DOMAIN batch)
    BY <1>5, <2>1
  <2> QED  BY <1>4, <2>3, <2>4, <2>5, <2>7, <2>8
<1>7. /\ hash'[Home(r)'] \in {NoKey, Key(r, Pos(r))'}
      /\ hash'[Home(r)'] # NoKey /\ Pos(r)' % MambaSize # 0 => partial'[r] # -1
      /\ r \in DOMAIN batch' => hash'[Home(r)'] \in newKeys' \cup {NoKey}
      /\ Writes(r)' => \A y \in Reqs \ {r} : Home(r)' \notin Range(table'[y])
  <2>1. hash'[home] = k
    BY <1>2, <1>3
  <2>2. Key(r, Pos(r))' = Key(r, end)
    <3>1. Pos(r)' = end /\ workload' = workload
      BY <1>5 DEF Schedules
    <3> QED  BY <3>1 DEF Key, Prompt
  <2>3. \A y \in Reqs \ {r} : Home(r)' \notin Range(table'[y])
    BY <1>2, <1>5
  <2> QED  BY <1>3, <1>5, <2>1, <2>2, <2>3
<1> QED  BY <1>6, <1>7 DEF Homes

\* Copies.
LEMMA ScheduleKeepsCopies ==
    ASSUME PInv, NEW r \in Reqs, NEW start \in Nat, NEW end \in Nat, NEW old \in 0..NumBlocks,
           NEW copyIdx, NEW t1, NEW h1, Schedules(r, start, end, old, copyIdx, t1, h1)
    PROVE  Copies'
<1> DEFINE home == t1[Slot(end)]
<1>1. Effects(r, start, end, old, t1)
  BY EffectsOfForms
<1>2. /\ home \in Blocks /\ home # NullBlock /\ home \notin Dests
      /\ \A b \in Blocks \ {home} : b \in Held(table) \/ b \notin Dests' => hash'[b] = hash[b]
      /\ copies \subseteq copies' /\ copies' \subseteq Blocks \X Blocks
      /\ \A c \in copies' \ copies : NewCopy(r, start, old, home, t1, c)
      /\ \A c, d \in copies' \ copies : c = d
      /\ Range(t1) \subseteq {NullBlock, old, home}
  BY <1>1 DEF Effects, Blocks, NullBlock
<1>3. /\ newKeys \subseteq newKeys' /\ state' = state /\ r \notin DOMAIN batch
      /\ old # NullBlock => /\ old \notin Dests /\ state[old] = Key(r, start)
                            /\ hash[old] \in {NoKey, Key(r, start)}
  BY DEF Schedules, Ended
<1>5. /\ DOMAIN batch' = DOMAIN batch \cup {r}
      /\ Home(r)' = home /\ table'[r] = t1 /\ Written' = Written \cup {home}
      /\ \A x \in Reqs \ {r} :
            /\ table'[x] = table[x] /\ Home(x)' = Home(x)
            /\ x \in DOMAIN batch' <=> x \in DOMAIN batch
  BY OthersStay
<1>6. \A c \in copies' : c[1] \in Blocks /\ c[2] \in Blocks /\ c[1] # NullBlock /\ c[2] # NullBlock
  BY <1>2 DEF Blocks, NullBlock
<1>7. \A c \in copies : c[2] \in Dests /\ c[2] \in Held(table)
  <2> DEFINE ends == UNION {{c[1], c[2]} : c \in copies}
             held == UNION {Range(table[x]) : x \in Reqs}
  <2>1. \A c \in copies : c[2] \in ends
    OBVIOUS
  <2>2. Held(table) = held \cup ends
    BY DEF Held
  <2>3. \A c \in copies : c[2] \in Dests
    BY DEF Dests
  <2> HIDE DEF ends, held
  <2> QED  BY <2>1, <2>2, <2>3
<1>8. \A c \in copies' \ copies :
         /\ c[1] = old /\ c[2] \notin Dests /\ \A x \in Reqs : c[2] \notin Range(table[x])
         /\ c[2] # old
         /\ hash'[c[2]] \in newKeys' \cup {NoKey}
         /\ c[2] # home => hash'[c[2]] = hash[old]
         /\ c[2] \in Range(t1) => c[2] = home
  BY <1>2, FreeBlock DEF NewCopy, PInv
<1>9. /\ \A c, d \in copies : c[2] = d[2] => c = d
      /\ \A c \in copies :
         /\ hash[c[2]] \in newKeys \cup {NoKey}
         /\ hash[c[2]] # NoKey /\ c[2] \notin Written => state[c[1]] = hash[c[2]]
         /\ \A x \in Reqs : c[2] \in Range(table[x]) => x \in DOMAIN batch /\ c[2] = Home(x)
  BY DEF PInv, Copies
<1> HIDE DEF home
<1>10. ASSUME NEW c \in copies', NEW d \in copies', c[2] = d[2]
       PROVE  c = d
  BY <1>2, <1>7, <1>8, <1>9, <1>10
<1>11. ASSUME NEW c \in copies'
       PROVE  /\ hash'[c[2]] \in newKeys' \cup {NoKey}
              /\ hash'[c[2]] # NoKey /\ c[2] \notin Written' => state'[c[1]] = hash'[c[2]]
              /\ \A x \in Reqs : c[2] \in Range(table'[x]) => x \in DOMAIN batch' /\ c[2] = Home(x)'
  <2>1. CASE c \in copies
    <3>1. c[2] # home /\ hash'[c[2]] = hash[c[2]]
      BY <1>2, <1>6, <1>7, <2>1
    <3>2. c[2] \notin Range(t1)
      <4>1. c[2] # NullBlock /\ c[2] \in Dests
        BY <1>6, <1>7, <2>1
      <4> QED  BY <1>2, <1>3, <3>1, <4>1
    <3>3. \A x \in Reqs : c[2] \in Range(table'[x]) => x \in DOMAIN batch' /\ c[2] = Home(x)'
      BY <1>5, <1>9, <2>1, <3>2
    <3> QED  BY <1>3, <1>5, <1>9, <2>1, <3>1, <3>3
  <2>2. CASE c \notin copies
    <3>1. /\ c[1] = old /\ \A x \in Reqs : c[2] \notin Range(table[x])
          /\ hash'[c[2]] \in newKeys' \cup {NoKey}
          /\ c[2] # home => hash'[c[2]] = hash[old]
          /\ c[2] \in Range(t1) => c[2] = home
      BY <1>8, <2>2
    <3>2. old # NullBlock
      BY <1>6, <3>1
    <3>3. hash'[c[2]] # NoKey /\ c[2] \notin Written' => state'[c[1]] = hash'[c[2]]
      BY <1>3, <1>5, <3>1, <3>2
    <3>4. \A x \in Reqs : c[2] \in Range(table'[x]) => x \in DOMAIN batch' /\ c[2] = Home(x)'
      BY <1>5, <3>1
    <3> QED  BY <3>1, <3>3, <3>4
  <2> QED  BY <2>1, <2>2
<1> QED  BY <1>10, <1>11 DEF Copies

\* States.
LEMMA ScheduleKeepsStates ==
    ASSUME PInv, NEW r \in Reqs, NEW start \in Nat, NEW end \in Nat, NEW old \in 0..NumBlocks,
           NEW copyIdx, NEW t1, NEW h1, Schedules(r, start, end, old, copyIdx, t1, h1)
    PROVE  States'
<1> DEFINE home == t1[Slot(end)]
<1>1. Effects(r, start, end, old, t1)
  BY EffectsOfForms
<1>2. /\ home \in Blocks
      /\ \A b \in Blocks \ {home} : b \in Held(table) \/ b \notin Dests' => hash'[b] = hash[b]
      /\ copies \subseteq copies'
      /\ \A c \in copies' \ copies : NewCopy(r, start, old, home, t1, c)
      /\ start > 0 => /\ Slot(start) \in DOMAIN t1 /\ t1[Slot(start)] \in Blocks
                      /\ \/ t1[Slot(start)] = old /\ old \notin Dests'
                         \/ <<old, t1[Slot(start)]>> \in copies'
  BY <1>1 DEF Effects
<1>3. /\ state' = state /\ r \notin DOMAIN batch /\ workload' = workload
      /\ start > 0 => state[old] = Key(r, start)
  BY DEF Schedules
<1>5. /\ Running' = Running \cup {r} /\ DOMAIN batch' = DOMAIN batch \cup {r}
      /\ Home(r)' = home /\ table'[r] = t1 /\ computed'[r] = start /\ Written' = Written \cup {home}
      /\ \A x \in Reqs \ {r} :
            /\ computed'[x] = computed[x]
            /\ table'[x] = table[x] /\ Home(x)' = Home(x) /\ Pos(x)' = Pos(x)
            /\ x \in DOMAIN batch' <=> x \in DOMAIN batch
      /\ \A x \in DOMAIN batch : x \in Reqs \ {r}
  BY OthersStay
<1>6. /\ \A b \in Blocks : hash[b] # NoKey /\ b \notin Dests \cup Written => state[b] = hash[b]
      /\ \A x \in Running \ DOMAIN batch : state[Home(x)] = Key(x, Pos(x))
      /\ \A x \in DOMAIN batch : computed[x] > 0 =>
            /\ Slot(computed[x]) \in DOMAIN table[x] /\ table[x][Slot(computed[x])] \in Blocks
            /\ StartState(x)
  BY DEF PInv, States
<1>7. Dests \subseteq Dests' /\ \A b \in Held(table) : b \in Dests' => b \in Dests
  <2>1. \A c \in copies' \ copies : c[2] \in Free
    BY <1>2 DEF NewCopy
  <2>2. \A c \in copies' \ copies : c[2] \notin Held(table)
    BY <2>1, FreeBlock DEF PInv
  <2> QED  BY <1>2, <2>2 DEF Dests
<1>8. \A x \in Reqs, n \in Int : Key(x, n)' = Key(x, n)
  BY OthersStay
<1> HIDE DEF home
<1>9. ASSUME NEW b \in Blocks, hash'[b] # NoKey, b \notin Dests' \cup Written'
      PROVE  state'[b] = hash'[b]
  <2>1. b # home /\ b \notin Dests' /\ b \notin Dests /\ b \notin Written
    BY <1>5, <1>7, <1>9
  <2>2. hash'[b] = hash[b]
    BY <1>2, <2>1
  <2> QED  BY <1>3, <1>6, <1>9, <2>1, <2>2
<1>10. ASSUME NEW x \in Running' \ DOMAIN batch'
       PROVE  state'[Home(x)'] = Key(x, Pos(x))'
  <2>1. x \in Running \ DOMAIN batch /\ x \in Reqs \ {r}
    BY <1>5, <1>10 DEF Running
  <2>2. Pos(x)' = Pos(x) /\ Home(x)' = Home(x)
    BY <1>5, <2>1
  <2>3. Key(x, Pos(x))' = Key(x, Pos(x))
    BY <1>3, <2>2 DEF Key, Prompt
  <2> QED  BY <1>3, <1>6, <2>1, <2>2, <2>3
<1>11. ASSUME NEW x \in DOMAIN batch', computed'[x] > 0
       PROVE  /\ Slot(computed'[x]) \in DOMAIN table'[x] /\ table'[x][Slot(computed'[x])] \in Blocks
              /\ LET b == table'[x][Slot(computed'[x])]
                 IN \/ b \notin Dests' /\ state'[b] = Key(x, computed'[x])
                    \/ \E c \in copies' : c[2] = b /\ state'[c[1]] = Key(x, computed'[x])
  <2>1. CASE x = r
    <3> DEFINE b == t1[Slot(start)]
    <3>1. start > 0 /\ table'[x][Slot(computed'[x])] = b /\ computed'[x] = start
      BY <1>5, <1>11, <2>1
    <3>2. b = old /\ old \notin Dests' => b \notin Dests' /\ state'[b] = Key(r, start)
      BY <1>3, <3>1
    <3>3. <<old, b>> \in copies' => \E c \in copies' : c[2] = b /\ state'[c[1]] = Key(r, start)
      <4>1. <<old, b>>[1] = old /\ <<old, b>>[2] = b
        OBVIOUS
      <4> QED  BY <1>3, <3>1, <4>1
    <3> QED  BY <1>2, <1>5, <2>1, <3>1, <3>2, <3>3
  <2>2. CASE x # r
    <3>1. x \in DOMAIN batch /\ x \in Reqs \ {r}
      BY <1>5, <2>2
    <3> DEFINE b == table[x][Slot(computed[x])]
    <3>2. computed'[x] = computed[x] /\ table'[x] = table[x] /\ computed[x] > 0
      BY <1>5, <1>11, <3>1
    <3>3. Slot(computed[x]) \in DOMAIN table[x] /\ b \in Blocks /\ StartState(x)
      BY <1>6, <3>1, <3>2
    <3>4. b \in Held(table)
      BY <3>1, <3>3, TablesOfRunning
    <3>5. \/ b \notin Dests' /\ state'[b] = Key(x, computed[x])
          \/ \E c \in copies' : c[2] = b /\ state'[c[1]] = Key(x, computed[x])
      BY <1>2, <1>3, <1>7, <3>3, <3>4 DEF StartState
    <3> QED  BY <3>2, <3>3, <3>5
  <2> QED  BY <2>1, <2>2
<1>12. ASSUME NEW x \in DOMAIN batch', computed'[x] > 0
       PROVE  StartState(x)'
  <2>1. Key(x, computed[x])' = Key(x, computed'[x])
    BY <1>3 DEF Key, Prompt
  <2> QED  BY <1>11, <1>12, <2>1 DEF StartState, Slot, Cdiv
<1> QED  BY <1>9, <1>10, <1>11, <1>12 DEF States, Slot, Cdiv

\* A chunk that the step's tokens and the budget leave to a request.
LEMMA ChunkInBounds ==
    ASSUME Types, NEW r \in Reqs, status[r] # "finished", NEW start \in Nat, start < NumTokens(r),
           NEW budget \in workload.budgets, Left > 0, Chunk(r, start, budget) > start
    PROVE  /\ Chunk(r, start, budget) \in Nat /\ Chunk(r, start, budget) <= NumTokens(r)
           /\ start % MambaSize # 0 => Chunk(r, start, budget) <= Floor(start, MambaSize) + MambaSize
<1> DEFINE left == NumTokens(r) - start
           n == Min({left, budget, Left})
<1>1. NumTokens(r) \in Nat /\ budget \in Nat /\ Left \in Int
  BY Numbers, LeftIsNumber
<1>2. left \in Int /\ left >= 0 /\ budget \in Int /\ budget >= 0
  BY <1>1
<1>3. n \in {left, budget, Left} /\ n <= left
  <2> HIDE DEF left
  <2> QED  BY <1>1, <1>2, MinOfThree
<1>4. n \in Int /\ n >= 0 /\ n <= left
  <2> HIDE DEF left, n
  <2> QED  BY <1>1, <1>2, <1>3
<1>5. Chunk(r, start, budget) = ChunkEnd(r, start, n)
  BY DEF Chunk
<1> HIDE DEF n
<1>6. /\ ChunkEnd(r, start, n) \in Int
      /\ ChunkEnd(r, start, n) <= NumTokens(r) \/ ChunkEnd(r, start, n) <= start
      /\ start % MambaSize # 0 => ChunkEnd(r, start, n) <= Floor(start, MambaSize) + MambaSize
  BY <1>4, ChunkEnds
<1> QED  BY <1>1, <1>5, <1>6

\* A step that schedules keeps the invariant.
LEMMA SchedulesKeepsPInv ==
    ASSUME PInv, NEW r \in Reqs, NEW start \in Nat, NEW end \in Nat, NEW old \in 0..NumBlocks,
           NEW copyIdx, NEW t1, NEW h1, Schedules(r, start, end, old, copyIdx, t1, h1)
    PROVE  PInv'
BY ScheduleKeepsTypes, ScheduleKeepsHomes, ScheduleKeepsCopies, ScheduleKeepsStates DEF PInv

\* A running request is scheduled.
LEMMA ContinueKeepsPInv ==
    ASSUME PInv, NEW r \in Reqs, NEW budget \in workload.budgets, Continue(r, budget)
    PROVE  PInv'
<1> DEFINE start == computed[r]
           end == Chunk(r, start, budget)
           old == Home(r)
           t == table[r]
           copyIdx == partial[r]
<1>1. /\ status[r] = "running" /\ r \in Running /\ r \notin DOMAIN batch /\ Pos(r) = start
      /\ Left > 0 /\ end > start
      /\ Allocate(r, start, end, t, numCached[r], copyIdx)
  BY DEF Continue, Running, Pos
<1>2. /\ start \in Nat /\ start > 0 /\ start < NumTokens(r)
      /\ t \in Seq(0..NumBlocks) /\ Len(t) = Slot(start) /\ t[Slot(start)] = old /\ old \in Blocks
      /\ numCached[r] = start \div MambaSize
      /\ copyIdx = -1 \/ (copyIdx = start \div MambaSize /\ start % MambaSize # 0)
  BY <1>1 DEF PInv, Types, Progress, Tables, Home
<1>3. /\ hash[old] \in {NoKey, Key(r, start)}
      /\ hash[old] # NoKey /\ start % MambaSize # 0 => copyIdx # -1
      /\ state[old] = Key(r, start)
  BY <1>1 DEF PInv, Homes, States
<1>4. end \in Nat /\ end <= NumTokens(r)
      /\ (start % MambaSize # 0 => end <= Floor(start, MambaSize) + MambaSize)
  BY <1>1, <1>2, ChunkInBounds DEF PInv
<1>5. old \in 0..NumBlocks /\ old # NullBlock /\ old \in Range(table[r])
  BY <1>1, <1>2, TablesOfRunning, NumBlocksAssumption DEF Blocks, NullBlock
<1>6. old \notin Dests
  BY <1>1, <1>5 DEF PInv, Copies, Dests
<1>7. \A x \in Running \ {r} : Writes(x) => Home(x) # old
  BY <1>5 DEF PInv, Homes, Running
<1>8. /\ status' = [status EXCEPT ![r] = "running"] /\ computed' = [computed EXCEPT ![r] = start]
      /\ junction' \in [Reqs -> Nat] /\ Scheduled(r, end)
      /\ UNCHANGED <<outputs, workload, state, used>>
  BY <1>1 DEF Continue, reqVars, PInv, Types
<1> HIDE DEF start, end, old, t, copyIdx
<1>9. PICK t1, h1 :
         /\ Ended(r, end, t1, h1)
         /\ \/ OnNewBlock(start, end, old, t1, h1)
            \/ InPlace(start, end, old, copyIdx, t1, h1)
            \/ OnOwnBlock(r, start, end, old, t1, h1)
            \/ OnCopy(r, start, end, old, t1, h1)
  <2>1. Types /\ start < end /\ (start > 0 => t[Slot(start)] = old) /\ ((start = 0) <=> (old = NullBlock))
        /\ (copyIdx = -1 /\ start % MambaSize # 0 => hash[old] = NoKey)
        /\ Allocate(r, start, end, t, start \div MambaSize, copyIdx)
    BY <1>1, <1>2, <1>3, <1>4, <1>5 DEF PInv
  <2> QED  BY <1>2, <1>4, <1>5, <2>1, Allocation
<1>10. Schedules(r, start, end, old, copyIdx, t1, h1)
  <2>1. start < end /\ ((start = 0) <=> (old = NullBlock)) /\ status[r] # "finished" /\ Home(r) = old
    BY <1>1, <1>2, <1>4, <1>5 DEF old
  <2> QED  BY <1>1, <1>3, <1>4, <1>6, <1>7, <1>8, <1>9, <2>1 DEF Schedules
<1> QED  BY <1>2, <1>4, <1>5, <1>10, SchedulesKeepsPInv

\* The table of a hit.
LEMMA HitTableIsTable ==
    ASSUME NEW n \in Nat, NEW b \in 0..NumBlocks
    PROVE  /\ HitTable(n, b) \in Seq(0..NumBlocks) /\ Len(HitTable(n, b)) = Slot(n)
           /\ n > 0 => HitTable(n, b)[Slot(n)] = b
<1>1. Slot(n) \in Nat /\ (n > 0 => Slot(n) >= 1) /\ (n = 0 => Slot(n) = 0)
  <2>1. n = 0 => n \div MambaSize = 0 /\ n % MambaSize = 0
    BY MambaSizeType
  <2> QED  BY <2>1, BlockOf
<1>2. CASE n = 0
  BY <1>1, <1>2, EmptySeq DEF HitTable
<1>3. CASE n > 0
  <2> DEFINE m == Slot(n)
             t == [i \in 1..m |-> IF i = m THEN b ELSE NullBlock]
  <2>1. HitTable(n, b) = t
    BY <1>3 DEF HitTable
  <2>2. m \in Nat /\ m \in 1..m
    BY <1>1, <1>3
  <2> HIDE DEF m
  <2>3. t \in [1..m -> 0..NumBlocks] /\ t[m] = b
    BY <2>2, NumBlocksAssumption DEF NullBlock
  <2> HIDE DEF t
  <2>4. t \in Seq(0..NumBlocks) /\ Len(t) = m
    BY <2>2, <2>3, FunctionIsList
  <2> QED  BY <2>1, <2>3, <2>4 DEF m
<1> QED  BY <1>2, <1>3

\* A waiting request is scheduled.
LEMMA AdmitKeepsPInv ==
    ASSUME PInv, NEW r \in Reqs, NEW budget \in workload.budgets, Admit(r, budget)
    PROVE  PInv'
<1> DEFINE found == Lookup(r, NumTokens(r))
           start == found.hit
           end == Chunk(r, start, budget)
           copyIdx == IF start % MambaSize # 0 THEN start \div MambaSize ELSE -1
<1>1. /\ status[r] = "waiting" /\ Left > 0 /\ (start > 0 => Key(r, start) \notin newKeys)
      /\ status' = [status EXCEPT ![r] = "running"] /\ UNCHANGED <<outputs, workload, state, used>>
      /\ junction' = [junction EXCEPT ![r] = found.junction]
  BY DEF Admit
<1>2. PICK old \in Blocks \cup {NullBlock} :
         /\ IF start = 0 THEN old = NullBlock ELSE old # NullBlock /\ hash[old] = Key(r, start)
         /\ computed' = [computed EXCEPT ![r] = start]
         /\ end > start
         /\ Allocate(r, start, end, HitTable(start, old), start \div MambaSize, copyIdx)
         /\ Scheduled(r, end)
  BY DEF Admit, Chunk
<1>3. Types /\ status[r] # "finished" /\ r \notin Running /\ r \notin DOMAIN batch
  BY <1>1 DEF PInv, Types, Running
<1>4. start \in Nat /\ start < NumTokens(r) /\ found.junction \in Nat
  <2>1. NumTokens(r) \in Nat \ {0}
    BY <1>3, Numbers
  <2>2. start \in 0..(NumTokens(r) - 1) /\ found.junction \in Nat
    BY <1>3, <2>1, HitIsBounded
  <2> HIDE DEF found
  <2> QED  BY <2>1, <2>2
<1>5. junction' \in [Reqs -> Nat]
  <2> HIDE DEF found
  <2> QED  BY <1>1, <1>3, <1>4 DEF Types
<1> HIDE DEF found, start, end
<1>6. /\ end \in Nat /\ end <= NumTokens(r)
      /\ (start % MambaSize # 0 => end <= Floor(start, MambaSize) + MambaSize)
  <2>1. Chunk(r, start, budget) > start
    BY <1>2 DEF end
  <2> QED  BY <1>1, <1>3, <1>4, <2>1, ChunkInBounds DEF end
<1>7. old \in 0..NumBlocks /\ ((start = 0) <=> (old = NullBlock)) /\ (old # NullBlock => old \in Blocks)
  BY <1>2, NumBlocksAssumption DEF Blocks, NullBlock
<1>8. old # NullBlock =>
         /\ hash[old] = Key(r, start) /\ hash[old] # NoKey /\ hash[old] \notin newKeys
         /\ Key(r, start)[2] = start
  BY <1>1, <1>2, <1>3, <1>4, <1>7, KeyType
<1>9. old # NullBlock => old \notin Dests /\ old \notin Written
  <2>1. \A b \in Dests : hash[b] \in newKeys \cup {NoKey}
    BY DEF PInv, Copies, Dests
  <2>2. \A b \in Written : hash[b] \in newKeys \cup {NoKey}
    BY DEF PInv, Homes, Written, Types
  <2> QED  BY <1>8, <2>1, <2>2
<1>10. old # NullBlock => state[old] = Key(r, start)
  BY <1>7, <1>8, <1>9 DEF PInv, States
<1>11. ASSUME NEW x \in Running, Writes(x), start % MambaSize = 0
       PROVE  Home(x) # old
  <2>1. Home(x) \in Blocks /\ Home(x) # NullBlock
    BY TablesOfRunning DEF Running, Blocks, NullBlock
  <2>2. SUFFICES ASSUME Home(x) = old, old # NullBlock
                 PROVE  FALSE
    BY <2>1
  <2>3. x \notin DOMAIN batch
    BY <1>9, <2>2 DEF Written
  <2>4. Pos(x) % MambaSize # 0
    BY <1>11, <2>3 DEF Writes
  <2>5. hash[old] = Key(x, Pos(x))
    BY <1>8, <2>2 DEF PInv, Homes
  <2>6. Key(x, Pos(x))[2] = Pos(x)
    <3>1. Pos(x) \in Nat /\ status[x] # "finished" /\ x \in Reqs
      BY <1>3 DEF Pos, Types, Running
    <3> QED  BY <1>3, <3>1, KeyType
  <2> QED  BY <1>8, <1>11, <2>2, <2>4, <2>5, <2>6
<1>12. copyIdx = -1 \/ (copyIdx = start \div MambaSize /\ start % MambaSize # 0)
  OBVIOUS
<1>13. copyIdx = -1 => start % MambaSize = 0
  <2>1. start \div MambaSize \in Nat
    BY <1>4, BlockOf
  <2> QED  BY <2>1
<1> HIDE DEF copyIdx
<1>14. PICK t1, h1 :
         /\ Ended(r, end, t1, h1)
         /\ \/ OnNewBlock(start, end, old, t1, h1)
            \/ InPlace(start, end, old, copyIdx, t1, h1)
            \/ OnOwnBlock(r, start, end, old, t1, h1)
            \/ OnCopy(r, start, end, old, t1, h1)
  <2> DEFINE t == HitTable(start, old)
  <2>1. t \in Seq(0..NumBlocks) /\ Len(t) = Slot(start) /\ (start > 0 => t[Slot(start)] = old)
    BY <1>4, <1>7, HitTableIsTable
  <2>2. start < end /\ Allocate(r, start, end, t, start \div MambaSize, copyIdx)
    BY <1>2, <1>4, <1>6
  <2> HIDE DEF t
  <2> QED  BY <1>3, <1>4, <1>6, <1>7, <1>12, <1>13, <2>1, <2>2, Allocation
<1>15. Schedules(r, start, end, old, copyIdx, t1, h1)
  <2>1. start < end /\ Scheduled(r, end)
    BY <1>2, <1>4, <1>6
  <2> QED  BY <1>1, <1>2, <1>3, <1>5, <1>6, <1>7, <1>8, <1>9, <1>10, <1>11, <1>13, <1>14, <2>1 DEF Schedules
<1> QED  BY <1>4, <1>6, <1>7, <1>15, SchedulesKeepsPInv

-----------------------------------------------------------------------------
(***************************************************************************)
(* The other steps.                                                        *)
(***************************************************************************)

\* The invariant holds at the start.
LEMMA InitPInv ==
    ASSUME Init
    PROVE  PInv
<1>1. Running = {} /\ Dests = {} /\ Written = {} /\ DOMAIN batch = {}
  BY DEF Init, Running, Dests, Written
<1>2. /\ \A r \in Reqs : table[r] = <<>> /\ status[r] \in {"waiting", "finished"}
      /\ copies = {} /\ allocated = {} /\ \A b \in Blocks : hash[b] = NoKey
  BY DEF Init
<1>3. Types
  <2>1. table \in [Reqs -> Seq(0..NumBlocks)]
    BY EmptySeq DEF Init
  <2> QED  BY <1>1, <1>2, <2>1 DEF Types, Init
<1>4. Progress /\ Tables /\ Homes /\ Copies /\ States
  BY <1>1, <1>2 DEF Progress, Tables, Homes, Copies, States
<1> QED  BY <1>3, <1>4 DEF PInv

\* A request that is not in the step gives up its blocks.
LEMMA LeavingKeepsPInv ==
    ASSUME PInv, NEW r \in Reqs, r \notin DOMAIN batch, Freed(r),
           status' \in [Reqs -> {"waiting", "running", "finished"}],
           status'[r] # "running", \A x \in Reqs \ {r} : status'[x] = status[x],
           status'[r] # "finished" => status[r] # "finished",
           computed' \in [Reqs -> Nat], \A x \in Reqs \ {r} : computed'[x] = computed[x],
           UNCHANGED <<outputs, junction, workload, state, batch>>
    PROVE  PInv'
<1>1. /\ Types /\ Progress /\ Tables /\ Homes /\ Copies /\ States
  BY DEF PInv
<1>2. /\ table' = [table EXCEPT ![r] = <<>>] /\ numCached' = [numCached EXCEPT ![r] = 0]
      /\ partial' = [partial EXCEPT ![r] = -1] /\ allocated' = allocated \ {r}
      /\ hash' = hash /\ newKeys' = newKeys /\ copies' = copies
      /\ workload' = workload /\ state' = state /\ batch' = batch /\ outputs' = outputs
  BY DEF Freed
<1>3. Running' = Running \ {r} /\ DOMAIN batch' = DOMAIN batch /\ Dests' = Dests
  BY <1>2 DEF Running, Dests
<1>4. /\ table'[r] = <<>> /\ Range(table'[r]) = {}
      /\ \A x \in Reqs \ {r} : /\ table'[x] = table[x] /\ numCached'[x] = numCached[x]
                               /\ partial'[x] = partial[x] /\ computed'[x] = computed[x]
  <2>1. DOMAIN table = Reqs /\ DOMAIN numCached = Reqs /\ DOMAIN partial = Reqs
    BY <1>1 DEF Types
  <2>2. Range(<<>>) = {}
    BY DEF Range
  <2> QED  BY <1>2, <2>1, <2>2
<1>5. \A x \in Reqs \ {r} : /\ Pos(x)' = Pos(x) /\ Home(x)' = Home(x)
                            /\ (Writes(x)' <=> Writes(x)) /\ Key(x, Pos(x))' = Key(x, Pos(x))
                            /\ NumTokens(x)' = NumTokens(x)
  <2> SUFFICES ASSUME NEW x \in Reqs \ {r}
               PROVE  /\ Pos(x)' = Pos(x) /\ Home(x)' = Home(x)
                      /\ (Writes(x)' <=> Writes(x)) /\ Key(x, Pos(x))' = Key(x, Pos(x))
                      /\ NumTokens(x)' = NumTokens(x)
    OBVIOUS
  <2>1. Pos(x)' = Pos(x)
    BY <1>2, <1>4 DEF Pos
  <2>2. Home(x)' = Home(x)
    BY <1>4, <2>1 DEF Home
  <2> QED  BY <1>2, <2>1, <2>2 DEF Writes, Key, Prompt, NumTokens
<1>6. Written' = Written /\ \A x \in DOMAIN batch : x \in Reqs \ {r}
  <2>1. \A x \in DOMAIN batch : x \in Reqs \ {r}
    BY <1>1 DEF Types, Running
  <2>2. Written' = {Home(x)' : x \in DOMAIN batch}
    BY <1>3 DEF Written
  <2>3. \A x \in DOMAIN batch : Home(x)' = Home(x)
    BY <1>5, <2>1
  <2> QED  BY <2>1, <2>2, <2>3 DEF Written
<1>7. Types'
  <2>1. /\ table' \in [Reqs -> Seq(0..NumBlocks)]
    BY <1>1, <1>2, EmptySeq DEF Types
  <2>2. numCached' \in [Reqs -> Nat] /\ partial' \in [Reqs -> Int]
    BY <1>1, <1>2 DEF Types
  <2>3. allocated' = Running' /\ DOMAIN batch' \subseteq Running'
    BY <1>1, <1>2, <1>3 DEF Types
  <2>4. \A x \in DOMAIN batch' : batch'[x] \in Nat /\ computed'[x] < batch'[x]
    BY <1>1, <1>2, <1>4, <1>6 DEF Types
  <2>5. \A x \in Reqs : status'[x] # "finished" => x \in DOMAIN workload'.text
    BY <1>1, <1>2 DEF Types
  <2> QED  BY <1>1, <1>2, <2>1, <2>2, <2>3, <2>4, <2>5 DEF Types
<1>8. \A x \in Running' : x \in Running /\ x \in Reqs \ {r}
  BY <1>3 DEF Running
<1>9. Progress'
  BY <1>1, <1>2, <1>5, <1>8 DEF Progress
<1>10. Tables'
  <2>1. \A x \in Reqs : x \notin Running' => table'[x] = <<>>
    BY <1>1, <1>3, <1>4 DEF Tables
  <2>2. \A x \in Running' :
         /\ Len(table'[x]) = Slot(Pos(x)') /\ Home(x)' \in Blocks
         /\ numCached'[x] = Pos(x)' \div MambaSize
         /\ partial'[x] = -1 \/ (partial'[x] = Pos(x)' \div MambaSize /\ Pos(x)' % MambaSize # 0)
    BY <1>1, <1>4, <1>5, <1>8 DEF Tables
  <2> QED  BY <2>1, <2>2 DEF Tables, Slot, Cdiv
<1>11. Homes'
  <2> SUFFICES ASSUME NEW x \in Running'
               PROVE  /\ hash'[Home(x)'] \in {NoKey, Key(x, Pos(x))'}
                      /\ hash'[Home(x)'] # NoKey /\ Pos(x)' % MambaSize # 0 => partial'[x] # -1
                      /\ x \in DOMAIN batch' => hash'[Home(x)'] \in newKeys' \cup {NoKey}
                      /\ Writes(x)' => \A y \in Reqs \ {x} : Home(x)' \notin Range(table'[y])
    BY DEF Homes
  <2>1. x \in Running /\ x \in Reqs \ {r}
    BY <1>8
  <2>2. /\ hash[Home(x)] \in {NoKey, Key(x, Pos(x))}
        /\ hash[Home(x)] # NoKey /\ Pos(x) % MambaSize # 0 => partial[x] # -1
        /\ x \in DOMAIN batch => hash[Home(x)] \in newKeys \cup {NoKey}
        /\ Writes(x) => \A y \in Reqs \ {x} : Home(x) \notin Range(table[y])
    BY <1>1, <2>1 DEF Homes
  <2>3. Writes(x) => \A y \in Reqs \ {x} : Home(x) \notin Range(table'[y])
    BY <1>4, <2>2
  <2> QED  BY <1>2, <1>3, <1>4, <1>5, <2>1, <2>2, <2>3
<1>12. Copies'
  <2>1. \A c \in copies : \A x \in Reqs : c[2] \in Range(table'[x]) => x \in DOMAIN batch' /\ c[2] = Home(x)'
    BY <1>1, <1>3, <1>4, <1>5 DEF Copies
  <2> QED  BY <1>1, <1>2, <1>6, <2>1 DEF Copies
<1>13. States'
  <2>1. \A b \in Blocks : hash'[b] # NoKey /\ b \notin Dests' \cup Written' => state'[b] = hash'[b]
    BY <1>1, <1>2, <1>3, <1>6 DEF States
  <2>2. \A x \in Running' \ DOMAIN batch' : state'[Home(x)'] = Key(x, Pos(x))'
    BY <1>1, <1>2, <1>3, <1>5, <1>8 DEF States
  <2>3. ASSUME NEW x \in DOMAIN batch', computed'[x] > 0
        PROVE  /\ Slot(computed'[x]) \in DOMAIN table'[x] /\ table'[x][Slot(computed'[x])] \in Blocks
               /\ StartState(x)'
    <3>1. x \in DOMAIN batch /\ table'[x] = table[x] /\ computed'[x] = computed[x]
      BY <1>3, <1>4, <1>6, <2>3
    <3>2. /\ Slot(computed[x]) \in DOMAIN table[x] /\ table[x][Slot(computed[x])] \in Blocks
          /\ StartState(x)
      BY <1>1, <2>3, <3>1 DEF States
    <3> DEFINE b == table[x][Slot(computed[x])]
    <3>3. \/ b \notin Dests' /\ state'[b] = Key(x, computed[x])
          \/ \E c \in copies' : c[2] = b /\ state'[c[1]] = Key(x, computed[x])
      BY <1>2, <1>3, <3>2 DEF StartState
    <3>4. Key(x, computed[x])' = Key(x, computed[x])
      BY <1>2, <3>1 DEF Key, Prompt
    <3>5. b = table'[x][Slot(computed'[x])]
      BY <3>1
    <3>6. StartState(x)' = LET d == table'[x][Slot(computed'[x])]
                           IN \/ d \notin Dests' /\ state'[d] = Key(x, computed[x])'
                              \/ \E c \in copies' : c[2] = d /\ state'[c[1]] = Key(x, computed[x])'
      BY DEF StartState, Slot, Cdiv
    <3> HIDE DEF b
    <3>7. StartState(x)'
      BY <3>3, <3>4, <3>5, <3>6
    <3> QED  BY <3>1, <3>2, <3>7
  <2> QED  BY <2>1, <2>2, <2>3 DEF States, Slot, Cdiv
<1> QED  BY <1>7, <1>9, <1>10, <1>11, <1>12, <1>13 DEF PInv

\* A request is preempted, or done.
LEMMA PreemptKeepsPInv ==
    ASSUME PInv, NEW r \in Reqs, Preempt(r)
    PROVE  PInv'
<1>1. /\ status[r] = "running" /\ r \notin DOMAIN batch /\ Freed(r)
      /\ status' = [status EXCEPT ![r] = "waiting"] /\ computed' = [computed EXCEPT ![r] = 0]
      /\ UNCHANGED <<outputs, junction, workload, state, batch>>
  BY DEF Preempt
<1>2. /\ status \in [Reqs -> {"waiting", "running", "finished"}] /\ computed \in [Reqs -> Nat]
  BY DEF PInv, Types
<1>3. /\ status' \in [Reqs -> {"waiting", "running", "finished"}] /\ status'[r] = "waiting"
      /\ computed' \in [Reqs -> Nat]
      /\ \A x \in Reqs \ {r} : status'[x] = status[x] /\ computed'[x] = computed[x]
  BY <1>1, <1>2
<1> QED  BY <1>1, <1>3, LeavingKeepsPInv

LEMMA FinishKeepsPInv ==
    ASSUME PInv, NEW r \in Reqs, Finish(r)
    PROVE  PInv'
<1>1. /\ r \notin DOMAIN batch /\ Freed(r)
      /\ status' = [status EXCEPT ![r] = "finished"] /\ computed' = computed
      /\ UNCHANGED <<outputs, junction, workload, state, batch>>
  BY DEF Finish
<1>2. /\ status \in [Reqs -> {"waiting", "running", "finished"}] /\ computed \in [Reqs -> Nat]
  BY DEF PInv, Types
<1>3. /\ status' \in [Reqs -> {"waiting", "running", "finished"}] /\ status'[r] = "finished"
      /\ computed' \in [Reqs -> Nat]
      /\ \A x \in Reqs \ {r} : status'[x] = status[x] /\ computed'[x] = computed[x]
  BY <1>1, <1>2
<1> QED  BY <1>1, <1>3, LeavingKeepsPInv

\* The step runs: every chunk starts from the right state and nobody else writes
\* in its block, so that blocks and requests have the states they should.
LEMMA ExecuteKeepsPInv ==
    ASSUME PInv, Execute
    PROVE  PInv'
<1> DEFINE copied == [b \in Blocks |-> IF \E c \in copies : c[2] = b
                                       THEN state[(CHOOSE c \in copies : c[2] = b)[1]] ELSE state[b]]
           From(r) == IF computed[r] = 0 THEN NullBlock ELSE table[r][Slot(computed[r])]
           Right(r) == computed[r] = 0 \/ (From(r) # NullBlock /\ copied[From(r)] = Key(r, computed[r]))
           writers(b) == {r \in DOMAIN batch : table[r][Slot(batch[r])] = b}
<1>1. /\ state' = [b \in Blocks |->
                     IF writers(b) = {} THEN copied[b]
                     ELSE LET r == CHOOSE r \in writers(b) : TRUE
                          IN IF Right(r) THEN Key(r, batch[r]) ELSE Garbage]
      /\ computed' = [r \in Reqs |-> IF r \in DOMAIN batch THEN batch[r] ELSE computed[r]]
      /\ outputs' = [r \in Reqs |-> IF r \in DOMAIN batch /\ batch[r] = NumTokens(r)
                                    THEN outputs[r] + 1 ELSE outputs[r]]
      /\ batch' = [r \in {} |-> 0] /\ copies' = {} /\ newKeys' = {}
      /\ UNCHANGED <<status, junction, table, numCached, partial, allocated, hash, attention, workload>>
  BY Zenon DEF Execute
<1>2. Types /\ Progress /\ Tables /\ Homes /\ Copies /\ States
  BY DEF PInv
<1>3. DOMAIN batch' = {} /\ Dests' = {} /\ Written' = {} /\ Running' = Running
  BY <1>1 DEF Dests, Written, Running
<1>4. \A x \in Reqs : /\ Pos(x)' = Pos(x) /\ computed'[x] = Pos(x)
                      /\ Home(x)' = Home(x) /\ Key(x, Pos(x))' = Key(x, Pos(x))
  <2> SUFFICES ASSUME NEW x \in Reqs
               PROVE  /\ Pos(x)' = Pos(x) /\ computed'[x] = Pos(x)
                      /\ Home(x)' = Home(x) /\ Key(x, Pos(x))' = Key(x, Pos(x))
    OBVIOUS
  <2>1. Pos(x)' = Pos(x) /\ computed'[x] = Pos(x)
    BY <1>1, <1>3 DEF Pos
  <2> QED  BY <1>1, <2>1 DEF Home, Key, Prompt, Slot, Cdiv
<1>5. \A x \in DOMAIN batch : /\ x \in Running /\ x \in Reqs /\ Pos(x) = batch[x]
                              /\ table[x][Slot(batch[x])] = Home(x) /\ Home(x) \in Blocks
  BY <1>2 DEF Types, Running, Pos, Home, Tables
<1>6. \A x \in Running : Home(x) \in Range(table[x])
  BY TablesOfRunning DEF Running
<1>7. \A x \in Running : \A y \in DOMAIN batch : Home(y) = Home(x) => y = x
  <2> SUFFICES ASSUME NEW x \in Running, NEW y \in DOMAIN batch, Home(y) = Home(x), y # x
               PROVE  FALSE
    OBVIOUS
  <2>1. y \in Running /\ Writes(y) /\ x \in Reqs \ {y}
    BY <1>5 DEF Writes, Running
  <2> QED  BY <1>2, <1>6, <2>1 DEF Homes
<1>8. ASSUME NEW b \in Blocks, NEW c \in copies, c[2] = b
      PROVE  copied[b] = state[c[1]]
  <2>1. (CHOOSE d \in copies : d[2] = b) = c
    <3>1. \A d \in copies : d[2] = b => d = c
      BY <1>2, <1>8 DEF Copies
    <3> QED  BY <1>8, <3>1
  <2> QED  BY <1>8, <2>1
<1>9. \A b \in Blocks : b \notin Dests => copied[b] = state[b]
  BY DEF Dests
<1>10. ASSUME NEW x \in DOMAIN batch
       PROVE  Right(x)
  <2> SUFFICES ASSUME computed[x] > 0
               PROVE  From(x) # NullBlock /\ copied[From(x)] = Key(x, computed[x])
    BY <1>2, <1>5 DEF Types
  <2> DEFINE b == table[x][Slot(computed[x])]
  <2>1. From(x) = b
    OBVIOUS
  <2>2. b \in Blocks /\ StartState(x)
    BY <1>2 DEF States
  <2>3. b # NullBlock
    BY <2>2 DEF Blocks, NullBlock
  <2>4. CASE b \notin Dests /\ state[b] = Key(x, computed[x])
    BY <1>9, <2>1, <2>2, <2>3, <2>4
  <2>5. CASE \E c \in copies : c[2] = b /\ state[c[1]] = Key(x, computed[x])
    <3>1. PICK c \in copies : c[2] = b /\ state[c[1]] = Key(x, computed[x])
      BY <2>5
    <3>2. copied[b] = state[c[1]]
      BY <1>8, <2>2, <3>1
    <3> QED  BY <2>1, <2>3, <3>1, <3>2
  <2> QED  BY <2>2, <2>4, <2>5 DEF StartState
<1>11. ASSUME NEW x \in DOMAIN batch
       PROVE  state'[Home(x)] = Key(x, Pos(x))
  <2>1. writers(Home(x)) = {x}
    BY <1>5, <1>7
  <2>2. (CHOOSE r \in writers(Home(x)) : TRUE) = x /\ writers(Home(x)) # {}
    BY <2>1
  <2>3. state'[Home(x)] = IF Right(x) THEN Key(x, batch[x]) ELSE Garbage
    <3> HIDE DEF Right, copied, writers
    <3> QED  BY <1>1, <1>5, <2>2
  <2> HIDE DEF Right
  <2> QED  BY <1>5, <1>10, <2>3
<1>12. ASSUME NEW b \in Blocks, b \notin Written
       PROVE  state'[b] = copied[b]
  <2>1. writers(b) = {}
    BY <1>5, <1>12 DEF Written
  <2> HIDE DEF Right, copied, writers
  <2> QED  BY <1>1, <2>1
<1> HIDE DEF copied, From, Right, writers
<1>13. States'
  <2>1. ASSUME NEW b \in Blocks, hash[b] # NoKey
        PROVE  state'[b] = hash[b]
    <3>1. CASE b \in Written
      <4>1. PICK x \in DOMAIN batch : b = Home(x)
        BY <3>1 DEF Written
      <4>2. hash[b] = Key(x, Pos(x))
        BY <1>2, <1>5, <2>1, <4>1 DEF Homes
      <4> QED  BY <1>11, <4>1, <4>2
    <3>2. CASE b \notin Written /\ b \in Dests
      <4>1. PICK c \in copies : c[2] = b
        BY <3>2 DEF Dests
      <4>2. state[c[1]] = hash[b]
        BY <1>2, <2>1, <3>2, <4>1 DEF Copies
      <4> QED  BY <1>8, <1>12, <3>2, <4>1, <4>2
    <3>3. CASE b \notin Written /\ b \notin Dests
      BY <1>2, <1>9, <1>12, <2>1, <3>3 DEF States
    <3> QED  BY <3>1, <3>2, <3>3
  <2>2. ASSUME NEW x \in Running
        PROVE  state'[Home(x)] = Key(x, Pos(x))
    <3>1. CASE x \in DOMAIN batch
      BY <1>11, <3>1
    <3>2. CASE x \notin DOMAIN batch
      <4>1. Home(x) \notin Written
        BY <1>7, <3>2 DEF Written
      <4>2. Home(x) \notin Dests
        BY <1>2, <1>6, <3>2 DEF Copies, Dests, Running
      <4>3. Home(x) \in Blocks /\ state[Home(x)] = Key(x, Pos(x))
        BY <1>2, <3>2 DEF States, Tables
      <4> QED  BY <1>9, <1>12, <4>1, <4>2, <4>3
    <3> QED  BY <3>1, <3>2
  <2>3. \A x \in Running : state'[Home(x)'] = Key(x, Pos(x))'
    BY <1>4, <2>2 DEF Running
  <2>4. hash' = hash
    BY <1>1
  <2> QED  BY <1>3, <2>1, <2>3, <2>4 DEF States
<1>14. Types'
  <2>1. outputs' \in [Reqs -> Nat] /\ computed' \in [Reqs -> Nat]
    <3>1. \A x \in DOMAIN batch : batch[x] \in Nat
      BY <1>2 DEF Types
    <3> QED  BY <1>1, <1>2, <3>1 DEF Types
  <2>2. DOMAIN state' = Blocks /\ copies' \subseteq Blocks \X Blocks
    BY <1>1
  <2>3. allocated' = Running'
    BY <1>1, <1>2, <1>3 DEF Types
  <2>4. Blocks' = Blocks
    BY DEF Blocks
  <2> QED  BY <1>1, <1>2, <1>3, <2>1, <2>2, <2>3, <2>4 DEF Types
<1>15. Progress'
  <2> SUFFICES ASSUME NEW x \in Running
               PROVE  Pos(x)' > 0 /\ Pos(x)' < NumTokens(x)' /\ Pos(x)' <= NumTokens(x)'
    BY <1>3 DEF Progress
  <2>1. x \in Reqs /\ Pos(x)' = Pos(x) /\ Pos(x) \in Nat /\ NumTokens(x) \in Nat
    <3>1. x \in Reqs /\ status[x] # "finished"
      BY DEF Running
    <3> QED  BY <1>2, <1>4, <1>5, <3>1, Numbers DEF Types, Pos
  <2>2. /\ Pos(x) > 0 /\ Pos(x) <= NumTokens(x)
        /\ x \notin DOMAIN batch => Pos(x) < NumTokens(x)
    BY <1>2 DEF Progress
  <2>3. NumTokens(x)' = IF x \in DOMAIN batch /\ batch[x] = NumTokens(x)
                        THEN NumTokens(x) + 1 ELSE NumTokens(x)
    <3>1. /\ Prompt(x)' = Prompt(x) /\ Prompt(x) \in Nat /\ outputs[x] \in Nat
      <4>1. status[x] # "finished"
        BY DEF Running
      <4> QED  BY <1>1, <1>2, <2>1, <4>1, Numbers DEF Prompt
    <3>2. outputs'[x] = IF x \in DOMAIN batch /\ batch[x] = NumTokens(x)
                        THEN outputs[x] + 1 ELSE outputs[x]
      BY <1>1, <2>1
    <3> QED  BY <3>1, <3>2 DEF NumTokens
  <2> QED  BY <1>5, <2>1, <2>2, <2>3
<1>16. Tables'
  <2>1. table' = table /\ numCached' = numCached /\ partial' = partial
    BY <1>1
  <2> SUFFICES ASSUME NEW x \in Running
               PROVE  /\ Len(table[x]) = Slot(Pos(x)') /\ Home(x)' \in Blocks
                      /\ numCached[x] = Pos(x)' \div MambaSize
                      /\ partial[x] = -1 \/ (partial[x] = Pos(x)' \div MambaSize /\ Pos(x)' % MambaSize # 0)
    BY <1>2, <1>3, <2>1 DEF Tables, Slot, Cdiv, Blocks
  <2>2. Pos(x)' = Pos(x) /\ Home(x)' = Home(x)
    BY <1>4 DEF Running
  <2> QED  BY <1>2, <2>2 DEF Tables
<1>17. Homes'
  <2> SUFFICES ASSUME NEW x \in Running
               PROVE  /\ hash'[Home(x)'] \in {NoKey, Key(x, Pos(x))'}
                      /\ hash'[Home(x)'] # NoKey /\ Pos(x)' % MambaSize # 0 => partial'[x] # -1
                      /\ x \notin DOMAIN batch'
                      /\ Writes(x)' => \A y \in Reqs \ {x} : Home(x)' \notin Range(table'[y])
    BY <1>3 DEF Homes
  <2>1. x \in Reqs
    BY DEF Running
  <2>2. Writes(x)' => Writes(x)
    BY <1>3, <1>4, <2>1 DEF Writes
  <2> QED  BY <1>1, <1>2, <1>3, <1>4, <2>1, <2>2 DEF Homes
<1>18. Copies'
  BY <1>1 DEF Copies
<1> QED  BY <1>13, <1>14, <1>15, <1>16, <1>17, <1>18 DEF PInv

\* Steps that change nothing of what the invariant is about.
LEMMA OthersKeepPInv ==
    ASSUME PInv, UNCHANGED <<reqVars, mambaVars, workload, state, batch>>
    PROVE  PInv'
<1>1. /\ UNCHANGED <<status, computed, outputs, junction, table, numCached, partial, allocated, hash>>
      /\ UNCHANGED <<newKeys, copies, workload, state, batch>>
  BY DEF reqVars, mambaVars
<1>2. Running' = Running /\ Dests' = Dests
  BY <1>1 DEF Running, Dests
<1>3. \A x \in Reqs : Pos(x)' = Pos(x) /\ Home(x)' = Home(x) /\ (Writes(x)' <=> Writes(x))
  BY <1>1 DEF Pos, Home, Writes, Slot, Cdiv
<1>4. \A x \in Reqs, n \in Int : Key(x, n)' = Key(x, n)
  BY <1>1 DEF Key, Prompt
<1>5. \A x \in Reqs : NumTokens(x)' = NumTokens(x) /\ Key(x, Pos(x))' = Key(x, Pos(x))
  BY <1>1 DEF NumTokens, Key, Prompt, Pos
<1>6. DOMAIN batch \subseteq Reqs
  BY DEF PInv, Types, Running
<1>7. Written' = Written
  <2>1. \A x \in DOMAIN batch : Home(x)' = Home(x)
    BY <1>3, <1>6
  <2> QED  BY <1>1, <2>1 DEF Written
<1>8. Types'
  BY <1>1, <1>2 DEF PInv, Types, Blocks
<1>9. Progress'
  BY <1>1, <1>2, <1>3, <1>5 DEF PInv, Progress, Running
<1>10. Tables'
  BY <1>1, <1>2, <1>3 DEF PInv, Tables, Running, Slot, Cdiv, Blocks
<1>11. Homes'
  BY <1>1, <1>2, <1>3, <1>5 DEF PInv, Homes, Running
<1>12. Copies'
  BY <1>1, <1>3, <1>6, <1>7 DEF PInv, Copies
<1>13. States'
  <2>1. \A x \in DOMAIN batch : StartState(x)' <=> StartState(x)
    BY <1>1, <1>2 DEF StartState, Slot, Cdiv, Key, Prompt
  <2> QED  BY <1>1, <1>2, <1>3, <1>5, <1>7, <2>1 DEF PInv, States, Running, Slot, Cdiv, Blocks
<1> QED  BY <1>8, <1>9, <1>10, <1>11, <1>12, <1>13 DEF PInv

-----------------------------------------------------------------------------
(***************************************************************************)
(* The theorems.                                                           *)
(***************************************************************************)

\* Every step keeps the invariant.
LEMMA NextKeepsPInv ==
    ASSUME PInv, [Next]_vars
    PROVE  PInv'
<1>1. ASSUME NEW r \in Reqs, NEW budget \in workload.budgets, Continue(r, budget)
      PROVE  PInv'
  BY <1>1, ContinueKeepsPInv
<1>2. ASSUME NEW r \in Reqs, NEW budget \in workload.budgets, Admit(r, budget)
      PROVE  PInv'
  BY <1>2, AdmitKeepsPInv
<1>3. CASE Execute
  BY <1>3, ExecuteKeepsPInv
<1>4. ASSUME NEW r \in Reqs, Preempt(r)
      PROVE  PInv'
  BY <1>4, PreemptKeepsPInv
<1>5. ASSUME NEW r \in Reqs, Finish(r)
      PROVE  PInv'
  BY <1>5, FinishKeepsPInv
<1>6. ASSUME NEW key \in attention, Evict(key)
      PROVE  PInv'
  BY <1>6, OthersKeepPInv DEF Evict
<1>7. CASE UNCHANGED vars
  BY <1>7, OthersKeepPInv DEF vars
<1> QED  BY <1>1, <1>2, <1>3, <1>4, <1>5, <1>6, <1>7 DEF Next

\* The blocks, their registrations and the states in them are consistent: the
\* inductive invariant of MambaManager, the scheduler's split and the runner.
THEOREM BlocksAreConsistent == Spec => []PInv
<1>1. Init => PInv
  BY InitPInv
<1>2. PInv /\ [Next]_vars => PInv'
  BY NextKeepsPInv
<1> QED  BY <1>1, <1>2, PTL DEF Spec

\* A block that is registered for a prefix, other than in this very step, holds
\* the state of that prefix (cache_blocks, move_block_hashes, copies on write).
THEOREM RegisteredStatesMatch == Spec => []StatesMatchTheirKeys
<1>1. PInv => StatesMatchTheirKeys
  <2> SUFFICES ASSUME PInv, NEW b \in Blocks, hash[b] # NoKey, hash[b] \notin newKeys
               PROVE  state[b] = hash[b]
    BY DEF StatesMatchTheirKeys
  <2>1. b \notin Dests
    BY DEF PInv, Copies, Dests
  <2>2. b \notin Written
    <3> SUFFICES ASSUME NEW r \in DOMAIN batch, b = Home(r)
                 PROVE  FALSE
      BY DEF Written
    <3>1. r \in Running
      BY DEF PInv, Types
    <3> QED  BY <3>1 DEF PInv, Homes
  <2> QED  BY <2>1, <2>2 DEF PInv, States
<1> QED  BY <1>1, BlocksAreConsistent, PTL

\* Between two steps a running request's block holds the state it goes on from,
\* whoever shares its prefix and is copied, preempted or finished meanwhile.
THEOREM RunningStatesAreTheirs == Spec => []RunningStatesAreRight
<1>1. PInv => RunningStatesAreRight
  <2> SUFFICES ASSUME PInv, NEW r \in Reqs, status[r] = "running", r \notin DOMAIN batch
               PROVE  /\ table[r][Slot(computed[r])] # NullBlock
                      /\ state[table[r][Slot(computed[r])]] = Key(r, computed[r])
    BY DEF RunningStatesAreRight
  <2>1. r \in Running \ DOMAIN batch
    BY DEF Running
  <2>2. Pos(r) = computed[r] /\ Home(r) = table[r][Slot(computed[r])]
    BY DEF Pos, Home
  <2>3. Home(r) \in Blocks /\ state[Home(r)] = Key(r, Pos(r))
    BY <2>1 DEF PInv, Tables, States
  <2> QED  BY <2>2, <2>3 DEF Blocks, NullBlock
<1> QED  BY <1>1, BlocksAreConsistent, PTL

\* No alignment, stop or junction ever holds a request back for good: with the
\* whole budget of a step to itself its chunk is not empty.
THEOREM NoChunkIsStuck == Spec => []FullBudgetAdvances
<1>1. PInv => FullBudgetAdvances
  <2> SUFFICES ASSUME PInv, NEW r \in Reqs, status[r] # "finished", DOMAIN batch = {},
                      NEW start,
                      start = IF status[r] = "running" THEN computed[r]
                              ELSE Lookup(r, NumTokens(r)).hit
               PROVE  ChunkEnd(r, start, Min({NumTokens(r) - start, workload.maxTokens})) > start
    BY DEF FullBudgetAdvances
  <2>1. Types
    BY DEF PInv
  <2>2. NumTokens(r) \in Nat \ {0} /\ workload.maxTokens \in Nat \ {0}
    BY <2>1, Numbers DEF NumTokens
  <2>3. start \in Nat /\ start < NumTokens(r)
    <3>1. CASE status[r] = "running"
      <4>1. r \in Running /\ Pos(r) = computed[r] /\ r \notin DOMAIN batch
        BY <3>1 DEF Running, Pos
      <4> QED  BY <2>1, <3>1, <4>1 DEF PInv, Progress, Types
    <3>2. CASE status[r] # "running"
      <4>1. Lookup(r, NumTokens(r)).hit \in 0..(NumTokens(r) - 1)
        BY <2>1, <2>2, HitIsBounded
      <4> QED  BY <2>2, <3>2, <4>1
    <3> QED  BY <3>1, <3>2
  <2> DEFINE left == NumTokens(r) - start
             n == Min({left, workload.maxTokens})
  <2>4. left \in Int /\ left > 0 /\ workload.maxTokens \in Int
    BY <2>2, <2>3
  <2>5. n \in {left, workload.maxTokens} /\ n <= left
    <3> HIDE DEF left
    <3> QED  BY <2>4, MinMaxOfTwo
  <2>6. n \in Int /\ n <= left /\ n >= 0 /\ (n = left \/ n = workload.maxTokens)
    <3> HIDE DEF left, n
    <3> QED  BY <2>2, <2>4, <2>5
  <2> HIDE DEF n
  <2>7. ChunkEnd(r, start, n) > start
    BY <2>1, <2>2, <2>3, <2>6, ChunkEnds
  <2> QED  BY <2>7 DEF n
<1> QED  BY <1>1, BlocksAreConsistent, PTL

=============================================================================

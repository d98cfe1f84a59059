------------------------------ MODULE DataProofs ------------------------------
(***************************************************************************)
(* Lemmas about data that the proofs of the components share: induction and    *)
(* recursion over numbers and finite sets, and ordered lists of keys.          *)
(*                                                                         *)
(* The induction theorems of the library take the predicate as a parameter.    *)
(* Here it is a set: the numbers that satisfy it.                            *)
(***************************************************************************)
EXTENDS OrderedKeys, FiniteSetTheorems, SequenceTheorems, WellFoundedInduction, TLAPS

-----------------------------------------------------------------------------
(***************************************************************************)
(* Induction and recursion.                                                *)
(***************************************************************************)

\* A set of naturals that holds 0 and with each number the next holds them all:
\* the least number it lacks would be 0 or follow one it holds.
LEMMA Induction ==
    ASSUME NEW S, 0 \in S, \A n \in Nat : n \in S => n + 1 \in S
    PROVE  Nat \subseteq S
<1> DEFINE lacking == {n \in Nat : n \notin S}
<1>1. SUFFICES ASSUME lacking # {} PROVE FALSE
  OBVIOUS
<1>2. PICK n \in lacking : \A m \in lacking : ~(<<m, n>> \in OpToRel(<, Nat))
  <2> HIDE DEF lacking
  <2>1. lacking \subseteq Nat
    BY DEF lacking
  <2> QED  BY <1>1, <2>1, NatLessThanWellFounded, WFMin
<1>3. \A m \in Nat : m < n => m \in S
  BY <1>2 DEF OpToRel
<1>4. n # 0 /\ n \in Nat
  BY <1>2
<1>5. n - 1 \in Nat /\ n - 1 < n /\ (n - 1) + 1 = n
  BY <1>4
<1>6. n \in S
  BY <1>3, <1>5
<1> QED  BY <1>2, <1>6

\* f starts with base and goes on by the steps, within A.
Iterates(f, n, base, step, A) ==
    f \in [0..n -> A] /\ f[0] = base /\ \A i \in 1..n : f[i] = step[i][f[i - 1]]

Steps(D, A) == [D -> [A -> A]]

\* A function on 0..n defined from its previous value exists.
LEMMA Recursion ==
    ASSUME NEW n \in Nat, NEW A, NEW base \in A, NEW step \in Steps(1..n, A)
    PROVE  \E f : Iterates(f, n, base, step, A)
<1> USE DEF Steps
<1> DEFINE Upto(m, f) == /\ f \in [0..m -> A] /\ f[0] = base
                         /\ \A i \in 1..m : f[i] = step[i][f[i - 1]]
           S == {m \in Nat : m <= n => \E f : Upto(m, f)}
<1>1. 0 \in S
  <2>1. Upto(0, [i \in 0..0 |-> base])
    OBVIOUS
  <2> QED  BY <2>1
<1>2. ASSUME NEW m \in Nat, m \in S PROVE m + 1 \in S
  <2> HIDE DEF Upto
  <2>1. SUFFICES ASSUME m + 1 <= n PROVE \E f : Upto(m + 1, f)
    OBVIOUS
  <2>2. PICK f : Upto(m, f)
    BY <1>2, <2>1
  <2> DEFINE g == [i \in 0..(m + 1) |-> IF i = m + 1 THEN step[m + 1][f[m]] ELSE f[i]]
  <2>3. /\ f \in [0..m -> A] /\ f[0] = base
        /\ \A i \in 1..m : f[i] = step[i][f[i - 1]]
    BY <2>2 DEF Upto
  <2> HIDE DEF S
  <2>4. /\ m + 1 \in 1..n /\ m \in 0..m /\ (m + 1) - 1 = m
        /\ \A i \in 1..(m + 1) : i \in 1..m \/ i = m + 1
        /\ \A i \in 1..m : i \in 0..m /\ i - 1 \in 0..m
        /\ \A i \in 0..m : i \in 0..(m + 1) /\ i # m + 1
        /\ m + 1 \in 0..(m + 1)
    BY <2>1
  <2>5. g[m + 1] = step[m + 1][f[m]] /\ \A i \in 0..m : g[i] = f[i]
    BY <2>4
  <2>6. step[m + 1][f[m]] \in A
    <3>1. m + 1 \in 1..n /\ f[m] \in A
      BY <2>3, <2>4
    <3> QED  BY <3>1
  <2>7. g \in [0..(m + 1) -> A] /\ g[0] = base
    <3>1. \A i \in 0..(m + 1) : i \in 0..m \/ i = m + 1
      OBVIOUS
    <3>2. \A i \in 0..(m + 1) : g[i] \in A
      BY <2>3, <2>5, <2>6, <3>1
    <3>3. 0 \in 0..m
      OBVIOUS
    <3> QED  BY <2>3, <2>5, <3>2, <3>3
  <2> HIDE DEF g
  <2>8. \A i \in 1..(m + 1) : g[i] = step[i][g[i - 1]]
    BY <2>3, <2>4, <2>5
  <2> QED  BY <2>7, <2>8 DEF Upto
<1>3. n \in S
  <2> HIDE DEF S
  <2> QED  BY <1>1, <1>2, Induction
<1>4. \E f : Upto(n, f)
  <2> HIDE DEF Upto
  <2> QED  BY <1>3
<1>5. PICK f : Upto(n, f)
  BY <1>4
<1> QED  BY <1>5 DEF Iterates

\* pick chooses a member of every subset of D but the empty one.
Picks(pick, D) == /\ pick \in [(SUBSET D) \ {{}} -> D]
                  /\ \A s \in (SUBSET D) \ {{}} : pick[s] \in s

FoldsBy(f, D, base, step, pick, A) ==
    /\ f \in [SUBSET D -> A] /\ f[{}] = base
    /\ \A s \in (SUBSET D) \ {{}} : f[s] = step[pick[s]][f[s \ {pick[s]}]]

\* So does one on the subsets of a finite set, defined from its value for the
\* subset without one element: the form the folds of the community modules have.
LEMMA SetRecursion ==
    ASSUME NEW D, IsFiniteSet(D), NEW A, NEW base \in A, NEW step \in Steps(D, A),
           NEW pick, Picks(pick, D)
    PROVE  \E f : FoldsBy(f, D, base, step, pick, A)
<1> USE DEF Steps, Picks
<1> DEFINE Small(m) == {s \in SUBSET D : Cardinality(s) <= m}
           Upto(m, f) == /\ f \in [Small(m) -> A] /\ f[{}] = base
                         /\ \A s \in Small(m) \ {{}} : f[s] = step[pick[s]][f[s \ {pick[s]}]]
           S == {m \in Nat : \E f : Upto(m, f)}
<1>0. \A s \in SUBSET D : IsFiniteSet(s) /\ Cardinality(s) \in Nat /\ Cardinality(s) <= Cardinality(D)
  BY FS_Subset, FS_CardinalityType
<1>e. Cardinality({}) = 0 /\ \A s \in SUBSET D : Cardinality(s) = 0 => s = {}
  BY <1>0, FS_EmptySet
<1>d. \A s \in (SUBSET D) \ {{}} : Cardinality(s \ {pick[s]}) = Cardinality(s) - 1
  BY <1>0, FS_RemoveElement
<1>1. 0 \in S
  <2>1. Small(0) = {{}}
    <3>1. {} \in SUBSET D /\ Cardinality({}) <= 0
      BY <1>e
    <3>2. \A s \in SUBSET D : Cardinality(s) <= 0 => s = {}
      BY <1>0, <1>e
    <3> QED  BY <3>1, <3>2
  <2>2. Upto(0, [s \in {{}} |-> base])
    BY <2>1
  <2> QED  BY <2>2
<1>2. ASSUME NEW m \in Nat, m \in S PROVE m + 1 \in S
  <2>1. PICK f : Upto(m, f)
    BY <1>2
  <2> DEFINE g == [s \in Small(m + 1) |-> IF s \in Small(m) THEN f[s]
                                          ELSE step[pick[s]][f[s \ {pick[s]}]]]
  <2>2. \A s \in Small(m + 1) \ {{}} : s \in (SUBSET D) \ {{}} /\ s \ {pick[s]} \in Small(m)
    <3>1. \A s \in Small(m + 1) \ {{}} : /\ s \in (SUBSET D) \ {{}} /\ s \ {pick[s]} \in SUBSET D
                                         /\ Cardinality(s) <= m + 1
      OBVIOUS
    <3>2. \A s \in Small(m + 1) \ {{}} : Cardinality(s \ {pick[s]}) <= m
      BY <1>0, <1>d, <3>1
    <3> QED  BY <3>1, <3>2
  <2>3. Small(m) \subseteq Small(m + 1) /\ {} \in Small(m)
    BY <1>0, <1>e
  <2>9. /\ f \in [Small(m) -> A] /\ f[{}] = base
         /\ \A s \in Small(m) \ {{}} : f[s] = step[pick[s]][f[s \ {pick[s]}]]
    BY <2>1
  <2> HIDE DEF Small, Upto, S
  <2>4. \A s \in Small(m + 1) \ {{}} : /\ pick[s] \in D /\ f[s \ {pick[s]}] \in A
                                       /\ step[pick[s]][f[s \ {pick[s]}]] \in A
    <3>1. \A s \in Small(m + 1) \ {{}} : pick[s] \in D /\ f[s \ {pick[s]}] \in A
      BY <2>2, <2>9
    <3>2. \A x \in D, y \in A : step[x][y] \in A
      OBVIOUS
    <3> QED  BY <3>1, <3>2
  <2>5. g \in [Small(m + 1) -> A] /\ g[{}] = base
    BY <2>3, <2>9, <2>4
  <2>6. \A s \in Small(m + 1) \ {{}} : g[s] = step[pick[s]][g[s \ {pick[s]}]]
    BY <2>2, <2>3, <2>9
  <2> HIDE DEF g
  <2>7. Upto(m + 1, g)
    BY <2>5, <2>6 DEF Upto
  <2> QED  BY <2>7 DEF S
<1>3. Cardinality(D) \in S
  <2>1. Nat \subseteq S
    <3> HIDE DEF S
    <3> QED  BY <1>1, <1>2, Induction
  <2> QED  BY <2>1, FS_CardinalityType
<1>4. PICK f : Upto(Cardinality(D), f)
  BY <1>3
<1>5. Small(Cardinality(D)) = SUBSET D
  BY <1>0
<1>6. /\ f \in [Small(Cardinality(D)) -> A] /\ f[{}] = base
      /\ \A s \in Small(Cardinality(D)) \ {{}} : f[s] = step[pick[s]][f[s \ {pick[s]}]]
  BY <1>4
<1> HIDE DEF Small
<1> QED  BY <1>5, <1>6 DEF FoldsBy

\* What is defined that way stays in a set if each of its steps does.
LEMMA SetRecursionStaysIn ==
    ASSUME NEW D, IsFiniteSet(D), NEW A, NEW f, f[{}] \in A,
           NEW pick, Picks(pick, D),
           \A s \in (SUBSET D) \ {{}} : f[s \ {pick[s]}] \in A => f[s] \in A
    PROVE  \A s \in SUBSET D : f[s] \in A
<1> USE DEF Picks
<1> DEFINE S == {m \in Nat : \A s \in SUBSET D : Cardinality(s) = m => f[s] \in A}
<1>1. \A s \in SUBSET D : /\ IsFiniteSet(s) /\ Cardinality(s) \in Nat
                          /\ Cardinality(s) = 0 => s = {}
  BY FS_Subset, FS_CardinalityType, FS_EmptySet
<1>2. 0 \in S
  BY <1>1
<1>3. ASSUME NEW m \in Nat, m \in S PROVE m + 1 \in S
  <2>1. SUFFICES ASSUME NEW s \in SUBSET D, Cardinality(s) = m + 1 PROVE f[s] \in A
    OBVIOUS
  <2>2. s # {}
    BY <2>1, FS_EmptySet
  <2>3. s \ {pick[s]} \in SUBSET D /\ Cardinality(s \ {pick[s]}) = m
    <3>1. pick[s] \in s /\ IsFiniteSet(s)
      BY <1>1, <2>2
    <3>2. \A x \in s : Cardinality(s \ {x}) = Cardinality(s) - 1
      BY <1>1, FS_RemoveElement
    <3> QED  BY <2>1, <3>1, <3>2
  <2>4. f[s \ {pick[s]}] \in A
    BY <1>3, <2>3
  <2> QED  BY <2>2, <2>4
<1>4. Nat \subseteq S
  <2> HIDE DEF S
  <2> QED  BY <1>2, <1>3, Induction
<1> QED  BY <1>1, <1>4

\* A set of numbers that is not empty has a least one.
LEMMA LeastPosition ==
    ASSUME NEW s \in (SUBSET Nat) \ {{}}
    PROVE  \E i \in s : \A m \in s : i <= m
<1>1. IsWellFoundedOn(OpToRel(<, Nat), Nat)
  BY NatLessThanWellFounded
<1>2. PICK i \in s : \A m \in s : ~(<<m, i>> \in OpToRel(<, Nat))
  BY <1>1, WFMin
<1>3. \A m \in s : ~(m < i)
  BY <1>2 DEF OpToRel
<1> QED  BY <1>3

\* The least number of a set is one of it, and least.
LEMMA MinIsLeast ==
    ASSUME NEW s \in (SUBSET Nat) \ {{}}
    PROVE  Min(s) \in s /\ \A m \in s : Min(s) <= m
BY LeastPosition DEF Min

\* The greatest number of a bounded set is one of it, and greatest.
LEMMA MaxIsGreatest ==
    ASSUME NEW n \in Nat, NEW s \in (SUBSET (0..n)) \ {{}}
    PROVE  Max(s) \in s /\ \A m \in s : m <= Max(s)
<1> DEFINE below == {n - m : m \in s}
<1>1. below \in (SUBSET Nat) \ {{}}
  OBVIOUS
<1>2. PICK i \in below : \A m \in below : i <= m
  <2> HIDE DEF below
  <2> QED  BY <1>1, LeastPosition
<1>3. PICK x \in s : i = n - x
  BY <1>2
<1>4. \A m \in s : m <= x
  BY <1>2, <1>3
<1> QED  BY <1>4 DEF Max

\* The lesser and the greater of two numbers.
LEMMA MinMaxOfTwo ==
    ASSUME NEW a \in Int, NEW b \in Int
    PROVE  /\ Min({a, b}) \in {a, b} /\ Min({a, b}) <= a /\ Min({a, b}) <= b
           /\ Max({a, b}) \in {a, b} /\ Max({a, b}) >= a /\ Max({a, b}) >= b
<1>1. \E x \in {a, b} : \A y \in {a, b} : x <= y
  OBVIOUS
<1>2. \E x \in {a, b} : \A y \in {a, b} : x >= y
  OBVIOUS
<1>4. Min({a, b}) \in {a, b} /\ \A y \in {a, b} : Min({a, b}) <= y
  BY <1>1 DEF Min
<1>5. Max({a, b}) \in {a, b} /\ \A y \in {a, b} : Max({a, b}) >= y
  BY <1>2 DEF Max
<1> QED  BY <1>4, <1>5

\* The least of three numbers.
LEMMA MinOfThree ==
    ASSUME NEW a \in Int, NEW b \in Int, NEW c \in Int
    PROVE  /\ Min({a, b, c}) \in {a, b, c}
           /\ Min({a, b, c}) <= a /\ Min({a, b, c}) <= b /\ Min({a, b, c}) <= c
<1>3. \E x \in {a, b, c} : \A y \in {a, b, c} : x <= y
  OBVIOUS
<1>6. Min({a, b, c}) \in {a, b, c} /\ \A y \in {a, b, c} : Min({a, b, c}) <= y
  BY <1>3 DEF Min
<1> QED  BY <1>6

-----------------------------------------------------------------------------
(***************************************************************************)
(* Ordered lists of keys.                                                  *)
(***************************************************************************)

\* The members of a finite set of positions can be counted off, each once.
LEMMA NthPosition ==
    ASSUME NEW len \in Nat, NEW positions \in SUBSET (1..len)
    PROVE  /\ IsFiniteSet(positions) /\ Cardinality(positions) \in Nat
           /\ \A n \in 1..Cardinality(positions) : Nth(positions, n) \in positions
           /\ \A m, n \in 1..Cardinality(positions) :
                Nth(positions, m) = Nth(positions, n) => m = n
           /\ \A i \in positions : \E n \in 1..Cardinality(positions) : Nth(positions, n) = i
<1> DEFINE upTo(i) == {m \in positions : m <= i}
           count == Cardinality(positions)
           rank == [i \in positions |-> Cardinality(upTo(i))]
<1>1. IsFiniteSet(positions) /\ count \in Nat
  <2>1. IsFiniteSet(1..len)
    BY FS_Interval
  <2> QED  BY <2>1, FS_Subset, FS_CardinalityType
<1>2. \A i \in positions : /\ upTo(i) \subseteq positions /\ i \in upTo(i)
                           /\ IsFiniteSet(upTo(i)) /\ Cardinality(upTo(i)) \in 1..count
  <2>1. SUFFICES ASSUME NEW i \in positions
                 PROVE  /\ upTo(i) \subseteq positions /\ i \in upTo(i)
                        /\ IsFiniteSet(upTo(i)) /\ Cardinality(upTo(i)) \in 1..count
    OBVIOUS
  <2>2. upTo(i) \subseteq positions /\ i \in upTo(i)
    OBVIOUS
  <2>3. /\ IsFiniteSet(upTo(i)) /\ Cardinality(upTo(i)) \in Nat
        /\ Cardinality(upTo(i)) <= count /\ Cardinality(upTo(i)) # 0
    <3> HIDE DEF upTo
    <3> QED  BY <1>1, <2>2, FS_Subset, FS_CardinalityType, FS_EmptySet
  <2> QED  BY <1>1, <2>2, <2>3
<1>3. ASSUME NEW i \in positions, NEW m \in positions, i < m
      PROVE  rank[i] # rank[m]
  <2>1. upTo(i) \subseteq upTo(m) /\ m \in upTo(m) /\ m \notin upTo(i)
    <3>1. i \in Int /\ m \in Int /\ \A x \in positions : x \in Int
      OBVIOUS
    <3>2. \A x \in positions : x <= i => x <= m
      BY <1>3, <3>1
    <3>3. ~(m <= i) /\ m <= m
      BY <1>3, <3>1
    <3> QED  BY <3>2, <3>3
  <2>2. IsFiniteSet(upTo(m)) /\ upTo(i) # upTo(m)
    BY <1>2, <2>1
  <2>3. Cardinality(upTo(i)) # Cardinality(upTo(m))
    <3> HIDE DEF upTo
    <3> QED  BY <2>1, <2>2, FS_Subset
  <2> QED  BY <2>3
<1>4. rank \in Injection(positions, 1..count)
  <2>1. rank \in [positions -> 1..count]
    BY <1>2
  <2>2. \A i, m \in positions : rank[i] = rank[m] => i = m
    <3> HIDE DEF rank
    <3>1. \A i, m \in positions : i # m => i < m \/ m < i
      OBVIOUS
    <3> QED  BY <1>3, <3>1
  <2> HIDE DEF rank
  <2> QED  BY <2>1, <2>2 DEF Injection, IsInjective
<1>5. rank \in Surjection(positions, 1..count)
  <2> HIDE DEF rank
  <2> QED  BY <1>1, <1>4, FS_Interval, FS_Injection
<1>6. \A n \in 1..count : \E i \in positions : rank[i] = n
  BY <1>5 DEF Surjection
<1>7. \A n \in 1..count : Nth(positions, n) \in positions /\ rank[Nth(positions, n)] = n
  BY <1>6 DEF Nth
<1>8. \A i \in positions : rank[i] \in 1..count /\ Nth(positions, rank[i]) = i
  <2>1. \A i, m \in positions : rank[i] = rank[m] => i = m
    BY <1>4 DEF Injection, IsInjective
  <2>2. \A i \in positions : rank[i] \in 1..count
    BY <1>2
  <2> HIDE DEF rank
  <2> QED  BY <1>7, <2>1, <2>2
<1> HIDE DEF rank
<1> QED  BY <1>1, <1>7, <1>8

\* The members of S in a list are listed in it as they were, and nothing else is.
LEMMA WithinKeys ==
    ASSUME NEW T, NEW s \in Seq(T), NEW S
    PROVE  /\ Within(s, S) \in Seq(T)
           /\ Range(Within(s, S)) = Range(s) \cap S
           /\ IsInjective(s) => IsInjective(Within(s, S))
           /\ Len(Within(s, S)) <= Len(s)
<1> DEFINE positions == {i \in DOMAIN s : s[i] \in S}
           count == Cardinality(positions)
<1>1. Len(s) \in Nat /\ DOMAIN s = 1..Len(s) /\ positions \in SUBSET (1..Len(s))
  OBVIOUS
<1>2. /\ IsFiniteSet(positions) /\ count \in Nat
      /\ \A n \in 1..count : Nth(positions, n) \in positions
      /\ \A m, n \in 1..count : Nth(positions, m) = Nth(positions, n) => m = n
      /\ \A i \in positions : \E n \in 1..count : Nth(positions, n) = i
  BY <1>1, NthPosition
<1>3. Within(s, S) = [n \in 1..count |-> s[Nth(positions, n)]]
  BY DEF Within
<1>4. \A i \in positions : i \in 1..Len(s) /\ s[i] \in T /\ s[i] \in S
  BY <1>1
<1>5. \A i \in 1..Len(s) : s[i] \in S => i \in positions
  BY <1>1
<1>6. count <= Len(s)
  <2>1. Len(s) \in Nat
    OBVIOUS
  <2>2. IsFiniteSet(1..Len(s)) /\ Cardinality(1..Len(s)) = Len(s)
    <3> HIDE DEF positions, count
    <3> QED  BY <2>1, FS_Interval, SMTT(60)
  <2> QED  BY <1>1, <2>2, FS_Subset
<1> HIDE DEF positions, count
<1>7. Within(s, S) \in Seq(T) /\ Len(Within(s, S)) = count /\ DOMAIN Within(s, S) = 1..count
  BY <1>2, <1>3, <1>4
<1>8. Range(Within(s, S)) = Range(s) \cap S
  <2>1. \A n \in 1..count : Within(s, S)[n] \in Range(s) \cap S
    <3>1. \A i \in positions : s[i] \in Range(s) \cap S
      BY <1>1, <1>4 DEF Range
    <3> QED  BY <1>2, <1>3, <3>1
  <2>3. Range(Within(s, S)) = {Within(s, S)[n] : n \in 1..count}
    BY <1>7 DEF Range
  <2>4. Range(s) = {s[i] : i \in 1..Len(s)}
    BY <1>1 DEF Range
  <2>2. \A i \in 1..Len(s) : s[i] \in S => \E n \in 1..count : Within(s, S)[n] = s[i]
    BY <1>2, <1>3, <1>5
  <2> QED  BY <2>1, <2>3, <2>4, <2>2
<1>9. IsInjective(s) => IsInjective(Within(s, S))
  <2>1. SUFFICES ASSUME IsInjective(s), NEW m \in 1..count, NEW n \in 1..count,
                        Within(s, S)[m] = Within(s, S)[n]
                 PROVE  m = n
    BY <1>7 DEF IsInjective
  <2>2. s[Nth(positions, m)] = s[Nth(positions, n)]
    BY <1>3, <2>1
  <2>3. Nth(positions, m) = Nth(positions, n)
    BY <1>1, <1>2, <1>4, <2>1, <2>2 DEF IsInjective
  <2> QED  BY <1>2, <2>3
<1> QED  BY <1>6, <1>7, <1>8, <1>9

\* Deleting keys from a list deletes those and no others.
LEMMA WithoutKeys ==
    ASSUME NEW T, NEW s \in Seq(T), NEW S
    PROVE  /\ Without(s, S) \in Seq(T)
           /\ Range(Without(s, S)) = Range(s) \ S
           /\ IsInjective(s) => IsInjective(Without(s, S))
           /\ Len(Without(s, S)) <= Len(s)
<1>1. Range(s) \cap (Range(s) \ S) = Range(s) \ S
  OBVIOUS
<1> QED  BY <1>1, WithinKeys DEF Without

\* A list that names no key twice is as long as the set of its keys.
LEMMA LengthIsCount ==
    ASSUME NEW T, NEW s \in Seq(T), IsInjective(s)
    PROVE  /\ IsFiniteSet(Range(s))
           /\ Len(s) = Cardinality(Range(s))
           /\ Len(s) \in Nat
<1>1. Len(s) \in Nat /\ DOMAIN s = 1..Len(s)
  OBVIOUS
<1>2. s \in Bijection(1..Len(s), Range(s))
  BY <1>1 DEF Bijection, Injection, Surjection, IsInjective, Range
<1>3. IsFiniteSet(1..Len(s)) /\ Cardinality(1..Len(s)) = Len(s)
  BY <1>1, FS_Interval
<1>4. IsFiniteSet(Range(s)) /\ Cardinality(Range(s)) = Cardinality(1..Len(s))
  <2>1. ExistsBijection(1..Len(s), Range(s))
    BY <1>2 DEF ExistsBijection
  <2> QED  BY <1>3, <2>1, FS_Bijection
<1> QED  BY <1>1, <1>3, <1>4

\* A list that names no key twice is one of the arrangements of its keys.
LEMMA ListIsArrangement ==
    ASSUME NEW T, NEW s \in Seq(T), IsInjective(s)
    PROVE  s \in SetToSeqs(Range(s))
<1>1. Len(s) = Cardinality(Range(s)) /\ DOMAIN s = 1..Len(s)
  BY LengthIsCount
<1>2. s \in [1..Cardinality(Range(s)) -> Range(s)]
  <2>1. s = [i \in 1..Len(s) |-> s[i]]
    BY <1>1
  <2>2. \A i \in 1..Len(s) : s[i] \in Range(s)
    BY <1>1 DEF Range
  <2> QED  BY <1>1, <2>1, <2>2
<1> QED  BY <1>1, <1>2 DEF SetToSeqs, IsInjective

\* A function on the first n positions is a list of length n.
LEMMA FunctionIsList ==
    ASSUME NEW T, NEW n \in Nat, NEW f \in [1..n -> T]
    PROVE  f \in Seq(T) /\ Len(f) = n /\ DOMAIN f = 1..n
<1>1. f \in Seq(T)
  OBVIOUS
<1>2. DOMAIN f = 1..n /\ DOMAIN f = 1..Len(f) /\ Len(f) \in Nat
  BY <1>1
<1> QED  BY <1>1, <1>2

\* A list has a length, and a member at each position up to it.
LEMMA ListPositions ==
    ASSUME NEW T, NEW s \in Seq(T)
    PROVE  /\ Len(s) \in Nat /\ DOMAIN s = 1..Len(s) /\ \A i \in 1..Len(s) : s[i] \in T
           /\ \A i \in 1..Len(s) : s[i] \in Range(s)
           /\ \A x \in Range(s) : \E i \in 1..Len(s) : s[i] = x
<1>1. Len(s) \in Nat /\ DOMAIN s = 1..Len(s) /\ \A i \in 1..Len(s) : s[i] \in T
  OBVIOUS
<1> QED  BY <1>1 DEF Range

\* A function on one position is a list of one member.
LEMMA OneEntry ==
    ASSUME NEW T, NEW f \in [1..1 -> T]
    PROVE  f \in Seq(T) /\ Len(f) = 1 /\ f[1] \in T /\ Range(f) = {f[1]}
<1> DEFINE n == 1
<1>1. f \in [1..n -> T] /\ n \in Nat
  OBVIOUS
<1>2. \A i : i \in 1..n <=> i = 1
  OBVIOUS
<1>3. f \in Seq(T) /\ Len(f) = n /\ DOMAIN f = 1..n
  <2> HIDE DEF n
  <2> QED  BY <1>1, FunctionIsList
<1>4. f[1] \in T
  BY <1>1, <1>2
<1>5. Range(f) = {f[1]}
  BY <1>2, <1>3 DEF Range
<1> QED  BY <1>3, <1>4, <1>5

\* Nothing follows the one member of such a list, or the members of an empty one.
LEMMA NothingMore ==
    ASSUME NEW T, NEW s \in Seq(T), NEW u \in Seq(T)
    PROVE  /\ Len(u) = 0 => s \o u = s
           /\ Len(u) = 1 => s \o Tail(u) = s
<1>1. \A e \in Seq(T) : Len(e) = 0 => e = <<>>
  OBVIOUS
<1>2. s \o <<>> = s
  BY ConcatEmptySeq
<1>3. Len(u) = 1 => Tail(u) \in Seq(T) /\ Len(Tail(u)) = 0
  <2>1. Len(u) = 1 => u # <<>>
    BY EmptySeq
  <2> QED  BY <2>1, HeadTailProperties
<1> QED  BY <1>1, <1>2, <1>3

\* A list, and one more member.
LEMMA OneMore ==
    ASSUME NEW T, NEW s \in Seq(T), NEW one \in Seq(T), Len(one) = 1
    PROVE  /\ s \o one \in Seq(T) /\ Len(s \o one) = Len(s) + 1
           /\ (s \o one)[Len(s) + 1] = one[1]
           /\ \A i \in 1..Len(s) : (s \o one)[i] = s[i]
<1>1. /\ s \o one \in Seq(T) /\ Len(s \o one) = Len(s) + Len(one)
      /\ \A i \in 1..(Len(s) + Len(one)) :
            (s \o one)[i] = IF i <= Len(s) THEN s[i] ELSE one[i - Len(s)]
  BY ConcatProperties
<1>2. Len(s) \in Nat
  BY ListPositions
<1>3. Len(s) + 1 \in 1..(Len(s) + 1) /\ (Len(s) + 1) - Len(s) = 1
      /\ \A i \in 1..Len(s) : i \in 1..(Len(s) + 1) /\ i <= Len(s)
  BY <1>2
<1> QED  BY <1>1, <1>2, <1>3

\* Two lists that share no key, one after the other, name no key twice.
LEMMA JoinedKeys ==
    ASSUME NEW T, NEW s \in Seq(T), NEW u \in Seq(T)
    PROVE  /\ s \o u \in Seq(T)
           /\ Len(s \o u) = Len(s) + Len(u)
           /\ Range(s \o u) = Range(s) \cup Range(u)
           /\ IsInjective(s \o u) <=> /\ IsInjective(s) /\ IsInjective(u)
                                      /\ Range(s) \cap Range(u) = {}
<1>1. /\ s \o u \in Seq(T) /\ Len(s \o u) = Len(s) + Len(u)
      /\ Len(s) \in Nat /\ Len(u) \in Nat
      /\ DOMAIN s = 1..Len(s) /\ DOMAIN u = 1..Len(u)
      /\ DOMAIN (s \o u) = 1..(Len(s) + Len(u))
  OBVIOUS
<1>2. \A i \in 1..Len(s) : (s \o u)[i] = s[i] /\ i \in 1..(Len(s) + Len(u))
  BY <1>1
<1>3. \A i \in 1..Len(u) : (s \o u)[Len(s) + i] = u[i] /\ Len(s) + i \in 1..(Len(s) + Len(u))
  BY <1>1
<1>4. \A i \in 1..(Len(s) + Len(u)) :
         i \in 1..Len(s) \/ (i - Len(s) \in 1..Len(u) /\ i = Len(s) + (i - Len(s)))
  BY <1>1
<1>5. Range(s \o u) = Range(s) \cup Range(u)
  BY <1>1, <1>2, <1>3, <1>4 DEF Range
<1>6. ASSUME IsInjective(s \o u)
      PROVE  IsInjective(s) /\ IsInjective(u) /\ Range(s) \cap Range(u) = {}
  <2>1. IsInjective(s)
    BY <1>1, <1>2, <1>6 DEF IsInjective
  <2>2. IsInjective(u)
    <3>1. ASSUME NEW i \in 1..Len(u), NEW m \in 1..Len(u), u[i] = u[m] PROVE i = m
      <4>1. Len(s) + i = Len(s) + m
        BY <1>1, <1>3, <1>6, <3>1 DEF IsInjective
      <4> QED  BY <1>1, <4>1
    <3> QED  BY <1>1, <3>1 DEF IsInjective
  <2>3. ASSUME NEW i \in 1..Len(s), NEW m \in 1..Len(u), s[i] = u[m] PROVE FALSE
    <3>1. i = Len(s) + m
      BY <1>1, <1>2, <1>3, <1>6, <2>3 DEF IsInjective
    <3> QED  BY <1>1, <3>1
  <2> QED  BY <1>1, <2>1, <2>2, <2>3 DEF Range
<1>7. ASSUME IsInjective(s), IsInjective(u), Range(s) \cap Range(u) = {},
             NEW i \in 1..(Len(s) + Len(u)), NEW m \in 1..(Len(s) + Len(u)),
             (s \o u)[i] = (s \o u)[m]
      PROVE  i = m
  <2>1. \A x \in 1..Len(s), y \in 1..Len(u) : s[x] # u[y]
    BY <1>1, <1>7 DEF Range
  <2>2. CASE i \in 1..Len(s) /\ m \in 1..Len(s)
    BY <1>1, <1>2, <1>7, <2>2 DEF IsInjective
  <2>3. CASE i - Len(s) \in 1..Len(u) /\ m - Len(s) \in 1..Len(u)
    <3>1. u[i - Len(s)] = u[m - Len(s)]
      BY <1>1, <1>7, <2>3
    <3>2. i - Len(s) = m - Len(s)
      BY <1>1, <1>7, <2>3, <3>1 DEF IsInjective
    <3> QED  BY <1>1, <3>2
  <2>4. CASE i \in 1..Len(s) /\ m - Len(s) \in 1..Len(u)
    BY <1>1, <1>7, <2>1, <2>4
  <2>5. CASE i - Len(s) \in 1..Len(u) /\ m \in 1..Len(s)
    BY <1>1, <1>7, <2>1, <2>5
  <2> QED  BY <1>4, <2>2, <2>3, <2>4, <2>5
<1>8. IsInjective(s) /\ IsInjective(u) /\ Range(s) \cap Range(u) = {} => IsInjective(s \o u)
  BY <1>1, <1>7 DEF IsInjective
<1> QED  BY <1>1, <1>5, <1>6, <1>8

\* A key that a list does not have can be added at its end.
LEMMA AddedKey ==
    ASSUME NEW T, NEW s \in Seq(T), NEW k \in T, k \notin Range(s), IsInjective(s)
    PROVE  /\ Append(s, k) \in Seq(T)
           /\ Len(Append(s, k)) = Len(s) + 1
           /\ Range(Append(s, k)) = Range(s) \cup {k}
           /\ IsInjective(Append(s, k))
<1>1. /\ Append(s, k) \in Seq(T) /\ Len(Append(s, k)) = Len(s) + 1 /\ Len(s) \in Nat
      /\ DOMAIN Append(s, k) = 1..(Len(s) + 1) /\ DOMAIN s = 1..Len(s)
      /\ \A i \in 1..Len(s) : Append(s, k)[i] = s[i]
      /\ Append(s, k)[Len(s) + 1] = k
  OBVIOUS
<1>2. \A i \in 1..(Len(s) + 1) : i \in 1..Len(s) \/ i = Len(s) + 1
  BY <1>1
<1>3. \A i \in 1..Len(s) : s[i] # k
  BY <1>1 DEF Range
<1>4. IsInjective(Append(s, k))
  BY <1>1, <1>2, <1>3 DEF IsInjective
<1>5. Range(Append(s, k)) = Range(s) \cup {k}
  <2>1. \A i \in 1..Len(s) : i \in 1..(Len(s) + 1)
    BY <1>1
  <2>2. Len(s) + 1 \in 1..(Len(s) + 1)
    BY <1>1
  <2> QED  BY <1>1, <1>2, <2>1, <2>2 DEF Range
<1> QED  BY <1>1, <1>4, <1>5

\* move_to_end: the same keys, as many of them.
LEMMA MovedToEnd ==
    ASSUME NEW T, NEW s \in Seq(T), IsInjective(s), NEW k \in Range(s)
    PROVE  /\ Append(Without(s, {k}), k) \in Seq(T)
           /\ Len(Append(Without(s, {k}), k)) = Len(s)
           /\ Range(Append(Without(s, {k}), k)) = Range(s)
           /\ IsInjective(Append(Without(s, {k}), k))
<1> DEFINE u == Without(s, {k})
<1>1. u \in Seq(T) /\ IsInjective(u) /\ Range(u) = Range(s) \ {k}
  BY WithoutKeys
<1>2. k \in T
  <2>1. \A i \in DOMAIN s : s[i] \in T
    OBVIOUS
  <2> QED  BY <2>1 DEF Range
<1>3. k \notin Range(u)
  BY <1>1
<1> HIDE DEF u
<1>4. /\ Append(u, k) \in Seq(T) /\ Range(Append(u, k)) = Range(u) \cup {k}
      /\ IsInjective(Append(u, k))
  BY <1>1, <1>2, <1>3, AddedKey
<1>5. Range(Append(u, k)) = Range(s)
  BY <1>1, <1>4
<1>6. Len(Append(u, k)) = Len(s)
  <2>1. Len(Append(u, k)) = Cardinality(Range(s))
    BY <1>4, <1>5, LengthIsCount
  <2>2. Len(s) = Cardinality(Range(s))
    BY LengthIsCount
  <2> QED  BY <2>1, <2>2
<1> QED  BY <1>4, <1>5, <1>6 DEF u

\* A list reversed has the same keys.
LEMMA ReversedKeys ==
    ASSUME NEW T, NEW s \in Seq(T)
    PROVE  /\ Reverse(s) \in Seq(T)
           /\ Range(Reverse(s)) = Range(s)
           /\ IsInjective(s) => IsInjective(Reverse(s))
<1>1. Len(s) \in Nat /\ DOMAIN s = 1..Len(s) /\ \A i \in 1..Len(s) : s[i] \in T
  OBVIOUS
<1>2. \A i \in 1..Len(s) : /\ (Len(s) - i) + 1 \in 1..Len(s)
                            /\ (Len(s) - ((Len(s) - i) + 1)) + 1 = i
  BY <1>1
<1>3. Reverse(s) = [i \in 1..Len(s) |-> s[(Len(s) - i) + 1]]
  BY DEF Reverse
<1>4. Reverse(s) \in Seq(T) /\ DOMAIN Reverse(s) = 1..Len(s)
  BY <1>1, <1>2, <1>3
<1>5. Range(Reverse(s)) = Range(s)
  <2>1. \A i \in 1..Len(s) : Reverse(s)[i] \in Range(s)
    BY <1>1, <1>2, <1>3 DEF Range
  <2>2. \A i \in 1..Len(s) : s[i] = Reverse(s)[(Len(s) - i) + 1]
    BY <1>1, <1>2, <1>3
  <2> QED  BY <1>1, <1>2, <1>4, <2>1, <2>2 DEF Range
<1>6. ASSUME IsInjective(s), NEW i \in 1..Len(s), NEW m \in 1..Len(s),
             Reverse(s)[i] = Reverse(s)[m]
      PROVE  i = m
  <2>1. s[(Len(s) - i) + 1] = s[(Len(s) - m) + 1]
    BY <1>3, <1>6
  <2>2. (Len(s) - i) + 1 = (Len(s) - m) + 1
    BY <1>1, <1>2, <1>6, <2>1 DEF IsInjective
  <2> QED  BY <1>1, <2>2
<1> QED  BY <1>4, <1>5, <1>6 DEF IsInjective

\* The first n keys of a list are keys of it, each named as often.
LEMMA FirstKeys ==
    ASSUME NEW T, NEW s \in Seq(T), NEW n \in 0..Len(s)
    PROVE  /\ SubSeq(s, 1, n) \in Seq(T)
           /\ Len(SubSeq(s, 1, n)) = n
           /\ Range(SubSeq(s, 1, n)) \subseteq Range(s)
           /\ IsInjective(s) => IsInjective(SubSeq(s, 1, n))
<1>1. /\ SubSeq(s, 1, n) \in Seq(T) /\ Len(SubSeq(s, 1, n)) = n
      /\ DOMAIN SubSeq(s, 1, n) = 1..n /\ DOMAIN s = 1..Len(s) /\ Len(s) \in Nat
      /\ \A i \in 1..n : SubSeq(s, 1, n)[i] = s[i] /\ i \in 1..Len(s)
  OBVIOUS
<1> QED  BY <1>1 DEF Range, IsInjective
=============================================================================

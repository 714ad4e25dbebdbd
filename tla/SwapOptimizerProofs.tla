------------------------- MODULE SwapOptimizerProofs -------------------------
(***************************************************************************)
(* For any vehicles, hours and thresholds: the potentials of _hungarian    *)
(* certify its matching between two rows; hence the finished plan costs no *)
(* more than any assignment, and is a best one, since no weight can be     *)
(* outweighed by those below it; its groups partition the changed trips    *)
(* into cycles of the plan, and each group pays on its own.                *)
(***************************************************************************)
EXTENDS SwapOptimizer, FiniteSetTheorems, WellFoundedInduction, TLAPS

(* Induction over the numbers, for a property given as a set. *)
LEMMA Induction ==
  ASSUME NEW P \in SUBSET Nat, 0 \in P, \A n \in P : n + 1 \in P
  PROVE  P = Nat
<1> SUFFICES ASSUME Nat \ P # {} PROVE FALSE
  OBVIOUS
<1>1. PICK least \in Nat \ P : \A n \in Nat \ P : ~(<<n, least>> \in OpToRel(<, Nat))
  BY NatLessThanWellFounded, WFMin
<1>2. \A n \in Nat \ P : ~(n < least)
  BY <1>1 DEF OpToRel
<1>3. least # 0
  OBVIOUS
<1>4. least - 1 \in P
  BY <1>2, <1>3
<1>5. (least - 1) + 1 \in P
  BY <1>4
<1> QED
  BY <1>5

(* A non-empty set of numbers has a least one, which Min finds. *)
LEMMA MinOfNaturals ==
  ASSUME NEW S \in SUBSET Nat, S # {}
  PROVE  Min(S) \in S /\ \A n \in S : Min(S) <= n
<1>1. PICK least \in S : \A n \in S : ~(<<n, least>> \in OpToRel(<, Nat))
  BY NatLessThanWellFounded, WFMin
<1>2. \A n \in S : ~(n < least)
  BY <1>1 DEF OpToRel
<1>3. least \in Nat /\ \A n \in S : n \in Nat /\ least <= n
  BY <1>2
<1> QED
  BY <1>3 DEF Min

(* A number is least among the values of a function on finitely many lines.*)
LEMMA LeastValue ==
  ASSUME NEW size \in Nat, NEW f, \A j \in 1..size : f[j] \in Int,
         NEW S \in SUBSET (1..size), S # {}
  PROVE  \E j \in S : \A k \in S : f[j] <= f[k]
<1> DEFINE Least(n) == \A T \in SUBSET (1..n) :
             n <= size /\ T # {} => \E j \in T : \A k \in T : f[j] <= f[k]
           P == {n \in Nat : Least(n)}
<1>1. 0 \in P
  <2>1. \A T \in SUBSET (1..0) : T = {}
    OBVIOUS
  <2> QED
    BY <2>1
<1>2. ASSUME NEW n \in P PROVE n + 1 \in P
  <2> SUFFICES ASSUME NEW T \in SUBSET (1..(n + 1)), n + 1 <= size, T # {}
               PROVE  \E j \in T : \A k \in T : f[j] <= f[k]
    OBVIOUS
  <2>1. CASE T = {n + 1}
    BY <2>1
  <2>2. CASE T # {n + 1}
    <3>1. T \ {n + 1} \in SUBSET (1..n) /\ T \ {n + 1} # {} /\ n <= size
      BY <2>2
    <3>2. PICK j \in T \ {n + 1} : \A k \in T \ {n + 1} : f[j] <= f[k]
      BY <3>1
    <3>3. f[j] \in Int /\ f[n + 1] \in Int /\ \A k \in T : f[k] \in Int
      OBVIOUS
    <3> QED
      BY <3>2, <3>3
  <2> QED
    BY <2>1, <2>2
<1>3. P = Nat
  <2> HIDE DEF Least
  <2> QED
    BY <1>1, <1>2, Induction
<1> QED
  BY <1>3

-----------------------------------------------------------------------------
(* Induction over the subsets of a finite set, likewise. *)
LEMMA SetInduction ==
  ASSUME NEW S, IsFiniteSet(S), NEW P \in SUBSET SUBSET S, {} \in P,
         \A T \in SUBSET S : T # {} /\ (\A x \in T : T \ {x} \in P) => T \in P
  PROVE  P = SUBSET S
<1> DEFINE N == {n \in Nat : \A T \in SUBSET S : Cardinality(T) = n => T \in P}
<1>1. 0 \in N
  <2>1. \A T \in SUBSET S : Cardinality(T) = 0 => T = {}
    BY FS_Subset, FS_EmptySet
  <2> QED
    BY <2>1
<1>2. ASSUME NEW n \in N PROVE n + 1 \in N
  <2> SUFFICES ASSUME NEW T \in SUBSET S, Cardinality(T) = n + 1 PROVE T \in P
    OBVIOUS
  <2>1. IsFiniteSet(T)
    BY FS_Subset
  <2>2. T # {}
    BY <2>1, FS_EmptySet
  <2>3. ASSUME NEW x \in T PROVE T \ {x} \in P
    <3>1. Cardinality(T \ {x}) = Cardinality(T) - 1
      BY <2>1, FS_RemoveElement
    <3>2. Cardinality(T \ {x}) = n
      BY <3>1
    <3> QED
      BY <3>2
  <2> QED
    BY <2>2, <2>3
<1>3. N = Nat
  <2>1. N \in SUBSET Nat
    OBVIOUS
  <2> HIDE DEF N
  <2> QED
    BY <1>1, <1>2, <2>1, Induction
<1>4. \A T \in SUBSET S : Cardinality(T) \in N
  <2>1. \A T \in SUBSET S : Cardinality(T) \in Nat
    BY FS_Subset, FS_CardinalityType
  <2> QED
    BY <1>3, <2>1
<1> QED
  BY <1>4

(* The sum over the subsets of S, as the library's fold computes it: some  *)
(* element, then the others.                                               *)
Summing(f, S, g) ==
  g = [s \in SUBSET S |-> IF s = {} THEN 0
                          ELSE f[CHOOSE x \in s : TRUE] + g[s \ {CHOOSE x \in s : TRUE}]]

LEMMA SummingUnique ==
  ASSUME NEW S, IsFiniteSet(S), NEW f, NEW g, NEW h, Summing(f, S, g), Summing(f, S, h)
  PROVE  g = h
<1> DEFINE P == {T \in SUBSET S : g[T] = h[T]}
<1>1. {} \in P
  BY DEF Summing
<1>2. ASSUME NEW T \in SUBSET S, T # {}, \A x \in T : T \ {x} \in P PROVE T \in P
  <2> DEFINE c == CHOOSE x \in T : TRUE
  <2>1. c \in T
    BY <1>2
  <2>2. g[T] = f[c] + g[T \ {c}] /\ h[T] = f[c] + h[T \ {c}]
    BY <1>2 DEF Summing
  <2>3. g[T \ {c}] = h[T \ {c}]
    BY <1>2, <2>1
  <2> QED
    BY <2>2, <2>3
<1>3. P = SUBSET S
  <2>1. P \in SUBSET SUBSET S
    OBVIOUS
  <2> HIDE DEF P
  <2> QED
    BY <1>1, <1>2, <2>1, SetInduction
<1>4. \A T \in SUBSET S : g[T] = h[T]
  BY <1>3
<1> QED
  BY <1>4 DEF Summing

LEMMA SummingExists ==
  ASSUME NEW S, IsFiniteSet(S), NEW f, \A x \in S : f[x] \in Int
  PROVE  \E g \in [SUBSET S -> Int] : Summing(f, S, g)
<1> DEFINE Small(n) == {s \in SUBSET S : Cardinality(s) <= n}
           Partial(n, g) ==
             \A s \in Small(n) :
               g[s] = IF s = {} THEN 0
                      ELSE f[CHOOSE x \in s : TRUE] + g[s \ {CHOOSE x \in s : TRUE}]
           N == {n \in Nat : \E g \in [Small(n) -> Int] : Partial(n, g)}
<1>1. \A s \in SUBSET S :
        /\ Cardinality(s) \in Nat
        /\ s = {} <=> Cardinality(s) = 0
        /\ \A x \in s : Cardinality(s \ {x}) = Cardinality(s) - 1
  BY FS_Subset, FS_CardinalityType, FS_EmptySet, FS_RemoveElement
<1>2. 0 \in N
  <2> DEFINE g == [s \in Small(0) |-> 0]
  <2>1. \A s \in Small(0) : s = {}
    BY <1>1
  <2>2. g \in [Small(0) -> Int] /\ Partial(0, g)
    BY <2>1
  <2> HIDE DEF g, Small, Partial
  <2> QED
    BY <2>2
<1>3. ASSUME NEW n \in N PROVE n + 1 \in N
  <2>1. PICK g \in [Small(n) -> Int] : Partial(n, g)
    OBVIOUS
  <2> DEFINE c(s) == CHOOSE x \in s : TRUE
             h == [s \in Small(n + 1) |-> IF s \in Small(n) THEN g[s] ELSE f[c(s)] + g[s \ {c(s)}]]
  <2>2. \A s \in Small(n + 1) : s # {} => c(s) \in s /\ c(s) \in S
    OBVIOUS
  <2>3. \A s \in Small(n + 1) : s # {} => s \ {c(s)} \in Small(n)
    <3> SUFFICES ASSUME NEW s \in Small(n + 1), s # {} PROVE s \ {c(s)} \in Small(n)
      OBVIOUS
    <3>1. Cardinality(s \ {c(s)}) = Cardinality(s) - 1
      BY <1>1, <2>2
    <3> QED
      BY <1>1, <3>1
  <2>4. {} \in Small(n) /\ Small(n) \subseteq Small(n + 1)
    BY <1>1
  <2> HIDE DEF Small
  <2>5. h \in [Small(n + 1) -> Int]
    <3>1. ASSUME NEW s \in Small(n + 1)
          PROVE  (IF s \in Small(n) THEN g[s] ELSE f[c(s)] + g[s \ {c(s)}]) \in Int
      <4>1. CASE s \in Small(n)
        BY <4>1
      <4>2. CASE s \notin Small(n)
        <5>1. f[c(s)] \in Int /\ s \ {c(s)} \in Small(n)
          BY <2>2, <2>3, <2>4, <4>2
        <5> HIDE DEF c
        <5>2. g[s \ {c(s)}] \in Int
          BY <5>1
        <5> QED
          BY <4>2, <5>1, <5>2
      <4> QED
        BY <4>1, <4>2
    <3> HIDE DEF c
    <3> QED
      BY <3>1
  <2>6. ASSUME NEW s \in Small(n + 1)
        PROVE  h[s] = IF s = {} THEN 0 ELSE f[c(s)] + h[s \ {c(s)}]
    <3>1. CASE s = {}
      <4>1. g[s] = 0
        BY <2>1, <2>4, <3>1
      <4> QED
        BY <2>4, <3>1, <4>1
    <3>2. CASE s # {} /\ s \in Small(n)
      <4>1. g[s] = f[c(s)] + g[s \ {c(s)}]
        BY <2>1, <3>2
      <4>2. s \ {c(s)} \in Small(n) /\ s \ {c(s)} \in Small(n + 1)
        BY <2>3, <2>4, <3>2
      <4> HIDE DEF c
      <4> QED
        BY <3>2, <4>1, <4>2
    <3>3. CASE s # {} /\ s \notin Small(n)
      <4>2. s \ {c(s)} \in Small(n) /\ s \ {c(s)} \in Small(n + 1)
        BY <2>3, <2>4, <3>3
      <4> HIDE DEF c
      <4> QED
        BY <3>3, <4>2
    <3> QED
      BY <3>1, <3>2, <3>3
  <2>7. Partial(n + 1, h)
    <3> HIDE DEF h
    <3> QED
      BY <2>6
  <2> HIDE DEF h, Partial
  <2> QED
    BY <2>5, <2>7
<1>4. N = Nat
  <2>1. N \in SUBSET Nat
    OBVIOUS
  <2> HIDE DEF N
  <2> QED
    BY <1>2, <1>3, <2>1, Induction
<1>5. Cardinality(S) \in N
  BY <1>4, FS_CardinalityType
<1>6. PICK g \in [Small(Cardinality(S)) -> Int] : Partial(Cardinality(S), g)
  BY <1>5
<1>7. Small(Cardinality(S)) = SUBSET S
  BY FS_Subset
<1>8. g = [s \in SUBSET S |-> g[s]]
  BY <1>6, <1>7
<1>9. Summing(f, S, g)
  BY <1>6, <1>7, <1>8 DEF Summing
<1> QED
  BY <1>6, <1>7, <1>9

LEMMA SumIsSumming ==
  ASSUME NEW S, IsFiniteSet(S), NEW f, NEW g, Summing(f, S, g)
  PROVE  SumFunctionOnSet(f, S) = g[S]
<1>1. \A h : Summing(f, S, h) => h = g
  BY SummingUnique
<1> QED
  BY <1>1 DEF SumFunctionOnSet, FoldFunctionOnSet, MapThenFoldSet, Summing

(* What the sum is: nothing for the empty set, else any element and the    *)
(* others.                                                                 *)
LEMMA SumFacts ==
  ASSUME NEW S, IsFiniteSet(S), NEW f, \A x \in S : f[x] \in Int
  PROVE  /\ SumFunctionOnSet(f, {}) = 0
         /\ \A T \in SUBSET S : SumFunctionOnSet(f, T) \in Int
         /\ \A T \in SUBSET S : \A x \in T :
              SumFunctionOnSet(f, T) = f[x] + SumFunctionOnSet(f, T \ {x})
<1> DEFINE sum(T) == SumFunctionOnSet(f, T)
<1>1. PICK g \in [SUBSET S -> Int] : Summing(f, S, g)
  BY SummingExists
<1>2. ASSUME NEW T \in SUBSET S PROVE sum(T) = g[T]
  <2> DEFINE h == [s \in SUBSET T |-> g[s]]
  <2>1. \A s \in SUBSET T : s \in SUBSET S /\ s \ {CHOOSE x \in s : TRUE} \in SUBSET T
    OBVIOUS
  <2>2. \A s \in SUBSET T : h[s] = IF s = {} THEN 0
          ELSE f[CHOOSE x \in s : TRUE] + h[s \ {CHOOSE x \in s : TRUE}]
    BY <1>1, <2>1 DEF Summing
  <2>3. Summing(f, T, h)
    BY <2>2 DEF Summing
  <2>4. IsFiniteSet(T)
    BY FS_Subset
  <2> HIDE DEF h
  <2>5. sum(T) = h[T]
    BY <2>3, <2>4, SumIsSumming
  <2> QED
    BY <2>5 DEF h
<1>3. sum({}) = 0
  BY <1>1, <1>2 DEF Summing
<1>4. ASSUME NEW T \in SUBSET S, T # {}
      PROVE  sum(T) = f[CHOOSE x \in T : TRUE] + sum(T \ {CHOOSE x \in T : TRUE})
  <2>1. T \ {CHOOSE x \in T : TRUE} \in SUBSET S
    OBVIOUS
  <2>2. g[T] = f[CHOOSE x \in T : TRUE] + g[T \ {CHOOSE x \in T : TRUE}]
    BY <1>1, <1>4 DEF Summing
  <2> QED
    BY <1>2, <2>1, <2>2
<1>5. \A T \in SUBSET S : sum(T) \in Int
  BY <1>1, <1>2
<1> HIDE DEF sum
<1> DEFINE P == {T \in SUBSET S : \A x \in T : sum(T) = f[x] + sum(T \ {x})}
<1>6. {} \in P
  OBVIOUS
<1>7. ASSUME NEW T \in SUBSET S, T # {}, \A x \in T : T \ {x} \in P PROVE T \in P
  <2> DEFINE c == CHOOSE y \in T : TRUE
  <2> SUFFICES ASSUME NEW x \in T PROVE sum(T) = f[x] + sum(T \ {x})
    OBVIOUS
  <2>1. c \in T /\ sum(T) = f[c] + sum(T \ {c})
    BY <1>4, <1>7
  <2> HIDE DEF c
  <2>2. CASE x = c
    BY <2>1, <2>2
  <2>3. CASE x # c
    <3>1. x \in T \ {c} /\ c \in T \ {x}
      BY <2>1, <2>3
    <3>2. sum(T \ {c}) = f[x] + sum((T \ {c}) \ {x})
      BY <1>7, <2>1, <3>1
    <3>3. sum(T \ {x}) = f[c] + sum((T \ {x}) \ {c})
      BY <1>7, <3>1
    <3> DEFINE rest == sum((T \ {x}) \ {c})
    <3>4. (T \ {c}) \ {x} = (T \ {x}) \ {c}
      OBVIOUS
    <3>5. f[x] \in Int /\ f[c] \in Int /\ rest \in Int
      BY <1>5, <2>1
    <3>6. sum(T \ {c}) = f[x] + rest
      BY <3>2, <3>4, Zenon
    <3>7. sum(T \ {x}) = f[c] + rest
      BY <3>3
    <3> HIDE DEF rest
    <3> QED
      BY <2>1, <3>5, <3>6, <3>7
  <2> QED
    BY <2>2, <2>3
<1>8. P = SUBSET S
  <2>1. P \in SUBSET SUBSET S
    OBVIOUS
  <2> HIDE DEF P
  <2> QED
    BY <1>6, <1>7, <2>1, SetInduction
<1>9. \A T \in SUBSET S : \A x \in T : sum(T) = f[x] + sum(T \ {x})
  BY <1>8
<1> QED
  BY <1>3, <1>5, <1>9 DEF sum

LEMMA SumPlus ==
  ASSUME NEW S, IsFiniteSet(S), NEW f, NEW g, NEW h,
         \A x \in S : f[x] \in Int /\ g[x] \in Int /\ h[x] = f[x] + g[x]
  PROVE  SumFunctionOnSet(h, S) = SumFunctionOnSet(f, S) + SumFunctionOnSet(g, S)
<1> DEFINE sum(e, T) == SumFunctionOnSet(e, T)
           P == {T \in SUBSET S : sum(h, T) = sum(f, T) + sum(g, T)}
<1>1. \A x \in S : h[x] \in Int
  OBVIOUS
<1>2. /\ sum(f, {}) = 0 /\ sum(g, {}) = 0 /\ sum(h, {}) = 0
      /\ \A T \in SUBSET S :
           /\ sum(f, T) \in Int /\ sum(g, T) \in Int
           /\ \A x \in T : /\ sum(f, T) = f[x] + sum(f, T \ {x})
                           /\ sum(g, T) = g[x] + sum(g, T \ {x})
                           /\ sum(h, T) = h[x] + sum(h, T \ {x})
  BY <1>1, SumFacts
<1> HIDE DEF sum
<1>3. {} \in P
  BY <1>2
<1>4. ASSUME NEW T \in SUBSET S, T # {}, \A x \in T : T \ {x} \in P PROVE T \in P
  <2>1. PICK x \in T : TRUE
    BY <1>4
  <2>2. sum(h, T \ {x}) = sum(f, T \ {x}) + sum(g, T \ {x})
    BY <1>4
  <2>3. sum(f, T \ {x}) \in Int /\ sum(g, T \ {x}) \in Int
    BY <1>2
  <2>4. /\ sum(f, T) = f[x] + sum(f, T \ {x}) /\ sum(g, T) = g[x] + sum(g, T \ {x})
        /\ sum(h, T) = f[x] + g[x] + sum(h, T \ {x})
    BY <1>2
  <2>5. f[x] \in Int /\ g[x] \in Int
    OBVIOUS
  <2>6. sum(h, T) = sum(f, T) + sum(g, T)
    BY <2>2, <2>3, <2>4, <2>5
  <2> QED
    BY <2>6
<1>5. P = SUBSET S
  <2>1. P \in SUBSET SUBSET S
    OBVIOUS
  <2> HIDE DEF P
  <2> QED
    BY <1>3, <1>4, <2>1, SetInduction
<1> QED
  BY <1>5 DEF sum

Scaled(k, f, h, S) == \A x \in S : h[x] = k * f[x]

LEMMA SumTimes ==
  ASSUME NEW S, IsFiniteSet(S), NEW k \in Int, NEW f, NEW h,
         \A x \in S : f[x] \in Int, Scaled(k, f, h, S)
  PROVE  SumFunctionOnSet(h, S) = k * SumFunctionOnSet(f, S)
<1> DEFINE sum(e, T) == SumFunctionOnSet(e, T)
           P == {T \in SUBSET S : sum(h, T) = k * sum(f, T)}
<1>1. \A x \in S : h[x] \in Int
  BY DEF Scaled
<1>2. /\ sum(f, {}) = 0 /\ sum(h, {}) = 0
      /\ \A T \in SUBSET S :
           /\ sum(f, T) \in Int
           /\ \A x \in T : /\ sum(f, T) = f[x] + sum(f, T \ {x})
                           /\ sum(h, T) = h[x] + sum(h, T \ {x})
  <2>1. /\ sum(f, {}) = 0
        /\ \A T \in SUBSET S : sum(f, T) \in Int
        /\ \A T \in SUBSET S : \A x \in T : sum(f, T) = f[x] + sum(f, T \ {x})
    BY SumFacts
  <2>2. /\ sum(h, {}) = 0
        /\ \A T \in SUBSET S : \A x \in T : sum(h, T) = h[x] + sum(h, T \ {x})
    BY <1>1, SumFacts
  <2> QED
    BY <2>1, <2>2
<1> HIDE DEF sum
<1>3. {} \in P
  BY <1>2
<1>4. ASSUME NEW T \in SUBSET S, T # {}, \A x \in T : T \ {x} \in P PROVE T \in P
  <2>1. PICK x \in T : TRUE
    BY <1>4
  <2> DEFINE rest == sum(f, T \ {x})
  <2>2. sum(h, T \ {x}) = k * rest
    BY <1>4
  <2>3. rest \in Int /\ f[x] \in Int
    BY <1>2
  <2>4. sum(f, T) = f[x] + rest /\ sum(h, T) = h[x] + sum(h, T \ {x})
    BY <1>2
  <2>7. h[x] = k * f[x]
    BY DEF Scaled
  <2> HIDE DEF rest
  <2>5. k * f[x] + k * rest = k * (f[x] + rest)
    BY <2>3
  <2>6. sum(h, T) = k * sum(f, T)
    BY <2>2, <2>4, <2>5, <2>7
  <2> QED
    BY <2>6
<1>5. P = SUBSET S
  <2>1. P \in SUBSET SUBSET S
    OBVIOUS
  <2> HIDE DEF P
  <2> QED
    BY <1>3, <1>4, <2>1, SetInduction
<1> QED
  BY <1>5 DEF sum

LEMMA SumMonotone ==
  ASSUME NEW S, IsFiniteSet(S), NEW f, NEW g,
         \A x \in S : f[x] \in Int /\ g[x] \in Int /\ f[x] <= g[x]
  PROVE  SumFunctionOnSet(f, S) <= SumFunctionOnSet(g, S)
<1> DEFINE sum(e, T) == SumFunctionOnSet(e, T)
           P == {T \in SUBSET S : sum(f, T) <= sum(g, T)}
<1>1. /\ sum(f, {}) = 0 /\ sum(g, {}) = 0
      /\ \A T \in SUBSET S :
           /\ sum(f, T) \in Int /\ sum(g, T) \in Int
           /\ \A x \in T : /\ sum(f, T) = f[x] + sum(f, T \ {x})
                           /\ sum(g, T) = g[x] + sum(g, T \ {x})
  BY SumFacts
<1> HIDE DEF sum
<1>2. {} \in P
  BY <1>1
<1>3. ASSUME NEW T \in SUBSET S, T # {}, \A x \in T : T \ {x} \in P PROVE T \in P
  <2>1. PICK x \in T : TRUE
    BY <1>3
  <2>2. sum(f, T \ {x}) <= sum(g, T \ {x}) /\ f[x] <= g[x]
    BY <1>3
  <2>3. /\ sum(f, T \ {x}) \in Int /\ sum(g, T \ {x}) \in Int
        /\ f[x] \in Int /\ g[x] \in Int
    BY <1>1
  <2>4. sum(f, T) = f[x] + sum(f, T \ {x}) /\ sum(g, T) = g[x] + sum(g, T \ {x})
    BY <1>1
  <2>5. sum(f, T) <= sum(g, T)
    BY <2>2, <2>3, <2>4
  <2> QED
    BY <2>5
<1>4. P = SUBSET S
  <2>1. P \in SUBSET SUBSET S
    OBVIOUS
  <2> HIDE DEF P
  <2> QED
    BY <1>2, <1>3, <2>1, SetInduction
<1> QED
  BY <1>4 DEF sum

LEMMA SumEqual ==
  ASSUME NEW S, IsFiniteSet(S), NEW f, NEW g, \A x \in S : f[x] \in Int /\ g[x] = f[x]
  PROVE  SumFunctionOnSet(f, S) = SumFunctionOnSet(g, S)
<1>1. \A x \in S : f[x] \in Int /\ g[x] \in Int /\ f[x] <= g[x] /\ g[x] <= f[x]
  OBVIOUS
<1>2. SumFunctionOnSet(f, S) <= SumFunctionOnSet(g, S)
  BY <1>1, SumMonotone
<1>3. SumFunctionOnSet(g, S) <= SumFunctionOnSet(f, S)
  BY <1>1, SumMonotone
<1>4. SumFunctionOnSet(f, S) \in Int /\ SumFunctionOnSet(g, S) \in Int
  BY <1>1, SumFacts
<1> QED
  BY <1>2, <1>3, <1>4

LEMMA SumCount ==
  ASSUME NEW S, IsFiniteSet(S), NEW U \in SUBSET S, NEW k \in Int, NEW f,
         \A x \in S : f[x] = IF x \in U THEN k ELSE 0
  PROVE  SumFunctionOnSet(f, S) = k * Cardinality(U)
<1> DEFINE sum(T) == SumFunctionOnSet(f, T)
           P == {T \in SUBSET S : sum(T) = k * Cardinality(T \cap U)}
<1>1. \A x \in S : f[x] \in Int
  OBVIOUS
<1>2. /\ sum({}) = 0
      /\ \A T \in SUBSET S :
           sum(T) \in Int /\ \A x \in T : sum(T) = f[x] + sum(T \ {x})
  BY <1>1, SumFacts
<1>3. \A T \in SUBSET S : IsFiniteSet(T \cap U) /\ Cardinality(T \cap U) \in Nat
  BY FS_Subset, FS_CardinalityType
<1> HIDE DEF sum
<1>4. {} \in P
  <2>1. {} \cap U = {}
    OBVIOUS
  <2>2. Cardinality({} \cap U) = 0
    BY <2>1, FS_EmptySet
  <2> QED
    BY <1>2, <2>2
<1>5. ASSUME NEW T \in SUBSET S, T # {}, \A x \in T : T \ {x} \in P PROVE T \in P
  <2>1. PICK x \in T : TRUE
    BY <1>5
  <2> DEFINE n == Cardinality((T \ {x}) \cap U)
  <2>2. sum(T) = f[x] + k * n
    BY <1>2, <1>5
  <2>3. n \in Nat
    BY <1>3
  <2>4. CASE x \in U
    <3>1. (T \cap U) \ {x} = (T \ {x}) \cap U
      OBVIOUS
    <3>2. Cardinality((T \cap U) \ {x}) = Cardinality(T \cap U) - 1
      BY <1>3, <2>4, FS_RemoveElement
    <3>6. n = Cardinality(T \cap U) - 1
      BY <3>1, <3>2, Zenon
    <3>7. Cardinality(T \cap U) \in Nat
      BY <1>3
    <3>3. Cardinality(T \cap U) = n + 1
      BY <3>6, <3>7
    <3>4. f[x] = k
      BY <2>4
    <3> HIDE DEF n
    <3>5. k + k * n = k * (n + 1)
      BY <2>3
    <3>8. sum(T) = k * Cardinality(T \cap U)
      BY <2>2, <3>3, <3>4, <3>5
    <3> QED
      BY <3>8
  <2>5. CASE x \notin U
    <3>1. T \cap U = (T \ {x}) \cap U
      BY <2>5
    <3>2. f[x] = 0 /\ k * n \in Int
      BY <2>3, <2>5
    <3>4. sum(T) = k * n
      BY <2>2, <3>2
    <3>3. sum(T) = k * Cardinality(T \cap U)
      BY <3>1, <3>4, Zenon
    <3> QED
      BY <3>3
  <2> QED
    BY <2>4, <2>5
<1>6. P = SUBSET S
  <2>1. P \in SUBSET SUBSET S
    OBVIOUS
  <2> HIDE DEF P
  <2> QED
    BY <1>4, <1>5, <2>1, SetInduction
<1>7. S \in P /\ S \cap U = U
  BY <1>6
<1> QED
  BY <1>7 DEF sum

LEMMA SumUnion ==
  ASSUME NEW S, IsFiniteSet(S), NEW f, \A x \in S : f[x] \in Int,
         NEW A \in SUBSET S, NEW B \in SUBSET S, A \cap B = {}
  PROVE  SumFunctionOnSet(f, A \cup B) = SumFunctionOnSet(f, A) + SumFunctionOnSet(f, B)
<1> DEFINE sum(T) == SumFunctionOnSet(f, T)
           P == {T \in SUBSET B : sum(A \cup T) = sum(A) + sum(T)}
<1>1. /\ sum({}) = 0
      /\ \A T \in SUBSET S :
           sum(T) \in Int /\ \A x \in T : sum(T) = f[x] + sum(T \ {x})
  BY SumFacts
<1> HIDE DEF sum
<1>2. {} \in P
  <2>1. A \cup {} = A /\ sum(A) \in Int
    BY <1>1
  <2>2. sum(A \cup {}) = sum(A) + sum({})
    BY <1>1, <2>1
  <2> QED
    BY <2>2
<1>3. ASSUME NEW T \in SUBSET B, T # {}, \A x \in T : T \ {x} \in P PROVE T \in P
  <2>1. PICK x \in T : TRUE
    BY <1>3
  <2>2. (A \cup T) \ {x} = A \cup (T \ {x})
    OBVIOUS
  <2>3. sum(A \cup (T \ {x})) = sum(A) + sum(T \ {x})
    BY <1>3
  <2>4. sum(A \cup T) = f[x] + sum((A \cup T) \ {x}) /\ sum(T) = f[x] + sum(T \ {x})
    BY <1>1
  <2>5. sum(A) \in Int /\ sum(T \ {x}) \in Int /\ f[x] \in Int
    BY <1>1
  <2>6. sum(A \cup T) = f[x] + sum(A \cup (T \ {x}))
    BY <2>2, <2>4, Zenon
  <2>7. sum(A \cup T) = sum(A) + sum(T)
    BY <2>3, <2>4, <2>5, <2>6
  <2> QED
    BY <2>7
<1>4. P = SUBSET B
  <2>1. IsFiniteSet(B)
    BY FS_Subset
  <2>2. P \in SUBSET SUBSET B
    OBVIOUS
  <2> HIDE DEF P
  <2> QED
    BY <1>2, <1>3, <2>1, <2>2, SetInduction
<1> QED
  BY <1>4 DEF sum

LEMMA SumNatural ==
  ASSUME NEW S, IsFiniteSet(S), NEW f, \A x \in S : f[x] \in Nat
  PROVE  SumFunctionOnSet(f, S) \in Nat
<1> DEFINE none == [x \in S |-> 0]
<1>1. {} \in SUBSET S /\ \A x \in S : none[x] = IF x \in {} THEN 0 ELSE 0
  OBVIOUS
<1>2. \A x \in S : none[x] \in Int /\ f[x] \in Int /\ none[x] <= f[x]
  OBVIOUS
<1> HIDE DEF none
<1>3. SumFunctionOnSet(none, S) = 0 * Cardinality({})
  BY <1>1, SumCount
<1>4. 0 * Cardinality({}) = 0
  BY FS_EmptySet
<1>5. SumFunctionOnSet(none, S) <= SumFunctionOnSet(f, S)
  BY <1>2, SumMonotone
<1>6. SumFunctionOnSet(f, S) \in Int
  BY <1>2, SumFacts
<1> QED
  BY <1>3, <1>4, <1>5, <1>6

LEMMA SumBounded ==
  ASSUME NEW S, IsFiniteSet(S), NEW most \in Nat, NEW f, \A x \in S : f[x] \in 0..most
  PROVE  SumFunctionOnSet(f, S) \in 0..(Cardinality(S) * most)
<1> DEFINE all == [x \in S |-> most]
<1>1. S \in SUBSET S /\ \A x \in S : all[x] = IF x \in S THEN most ELSE 0
  OBVIOUS
<1>2. \A x \in S : f[x] \in Nat /\ f[x] \in Int /\ all[x] \in Int /\ f[x] <= all[x]
  OBVIOUS
<1> HIDE DEF all
<1>3. SumFunctionOnSet(all, S) = most * Cardinality(S)
  BY <1>1, SumCount
<1>4. SumFunctionOnSet(f, S) <= SumFunctionOnSet(all, S)
  BY <1>2, SumMonotone
<1>5. SumFunctionOnSet(f, S) \in Nat
  BY <1>2, SumNatural
<1>6. Cardinality(S) \in Nat
  BY FS_CardinalityType
<1>7. most * Cardinality(S) = Cardinality(S) * most /\ Cardinality(S) * most \in Nat
  BY <1>6
<1> QED
  BY <1>3, <1>4, <1>5, <1>7

(* A sum does not depend on the order of its terms. *)
LEMMA SumReordered ==
  ASSUME NEW S, IsFiniteSet(S), NEW R, IsFiniteSet(R), NEW p \in [S -> R],
         \A x, y \in S : p[x] = p[y] => x = y,
         NEW f, NEW h, \A x \in S : h[x] = f[p[x]], \A y \in R : f[y] \in Int
  PROVE  SumFunctionOnSet(h, S) = SumFunctionOnSet(f, {p[x] : x \in S})
<1> DEFINE sum(e, T) == SumFunctionOnSet(e, T)
           Image(T) == {p[x] : x \in T}
           P == {T \in SUBSET S : sum(h, T) = sum(f, Image(T))}
<1>1. \A x \in S : h[x] \in Int
  OBVIOUS
<1>2. /\ sum(h, {}) = 0
      /\ \A T \in SUBSET S : \A x \in T : sum(h, T) = h[x] + sum(h, T \ {x})
  BY <1>1, SumFacts
<1>3. /\ sum(f, {}) = 0
      /\ \A T \in SUBSET R : \A x \in T : sum(f, T) = f[x] + sum(f, T \ {x})
  BY SumFacts
<1> HIDE DEF sum
<1>4. {} \in P
  <2>1. Image({}) = {}
    OBVIOUS
  <2> HIDE DEF Image
  <2>2. sum(h, {}) = sum(f, Image({}))
    BY <1>2, <1>3, <2>1
  <2> QED
    BY <2>2
<1>5. ASSUME NEW T \in SUBSET S, T # {}, \A x \in T : T \ {x} \in P PROVE T \in P
  <2>1. PICK x \in T : TRUE
    BY <1>5
  <2>2. Image(T) \ {p[x]} = Image(T \ {x})
    OBVIOUS
  <2>3. p[x] \in Image(T) /\ Image(T) \in SUBSET R
    OBVIOUS
  <2> HIDE DEF Image
  <2>4. sum(h, T \ {x}) = sum(f, Image(T \ {x}))
    BY <1>5
  <2>5. sum(h, T) = f[p[x]] + sum(h, T \ {x})
    BY <1>2
  <2>6. sum(f, Image(T)) = f[p[x]] + sum(f, Image(T) \ {p[x]})
    BY <1>3, <2>3
  <2>7. sum(h, T) = sum(f, Image(T))
    BY <2>2, <2>4, <2>5, <2>6, Zenon
  <2> QED
    BY <2>7
<1>6. P = SUBSET S
  <2>1. P \in SUBSET SUBSET S
    OBVIOUS
  <2> HIDE DEF P
  <2>2. \A T \in SUBSET S : T # {} /\ (\A x \in T : T \ {x} \in P) => T \in P
    BY <1>5
  <2> QED
    BY <1>4, <2>1, <2>2, SetInduction
<1> QED
  BY <1>6 DEF sum

-----------------------------------------------------------------------------
Increasing(list) == \A i, j \in DOMAIN list : i < j => list[i] < list[j]

(* Every set of vehicles can be listed in the order of the prefixes. *)
LEMMA Listed ==
  ASSUME NEW S \in SUBSET Vehicles
  PROVE  \E list \in [1..Cardinality(S) -> S] : Increasing(list)
<1> DEFINE Listable(n) == \A T \in SUBSET (1..n) :
             IsFiniteSet(T) /\ \E list \in [1..Cardinality(T) -> T] : Increasing(list)
           P == {n \in Nat : Listable(n)}
<1>1. 0 \in P
  <2>1. \A T \in SUBSET (1..0) : T = {}
    OBVIOUS
  <2>2. <<>> \in [1..0 -> {}] /\ Increasing(<<>>)
    BY DEF Increasing
  <2> QED
    BY <2>1, <2>2, FS_EmptySet
<1>2. ASSUME NEW n \in P PROVE n + 1 \in P
  <2> SUFFICES ASSUME NEW T \in SUBSET (1..(n + 1))
               PROVE  IsFiniteSet(T) /\ \E list \in [1..Cardinality(T) -> T] : Increasing(list)
    OBVIOUS
  <2>1. CASE n + 1 \notin T
    <3>1. T \in SUBSET (1..n)
      BY <2>1
    <3> QED
      BY <3>1
  <2>2. CASE n + 1 \in T
    <3> DEFINE U == T \ {n + 1}
               size == Cardinality(U)
    <3>1. U \in SUBSET (1..n)
      OBVIOUS
    <3>2. IsFiniteSet(U)
      BY <3>1
    <3>3. PICK list \in [1..size -> U] : Increasing(list)
      BY <3>1
    <3>4. size \in Nat
      BY <3>2, FS_CardinalityType
    <3>5. T = U \cup {n + 1}
      BY <2>2
    <3>6. IsFiniteSet(T) /\ Cardinality(T) = size + 1
      <4>1. IsFiniteSet(U \cup {n + 1}) /\ Cardinality(U \cup {n + 1}) = Cardinality(U) + 1
        BY <3>2, FS_AddElement
      <4> QED
        BY <3>5, <4>1
    <3> DEFINE longer == [i \in 1..(size + 1) |-> IF i = size + 1 THEN n + 1 ELSE list[i]]
    <3> HIDE DEF U, size
    <3>7. longer \in [1..(size + 1) -> T]
      BY <3>4, <3>5
    <3>8. ASSUME NEW i \in 1..(size + 1), NEW j \in 1..(size + 1), i < j
          PROVE  longer[i] < longer[j]
      <4>1. i \in 1..size
        BY <3>4, <3>8
      <4>2. list[i] \in 1..n
        BY <4>1, <3>1, <3>3
      <4>5. longer[i] = list[i]
        BY <4>1, <3>4
      <4>3. CASE j = size + 1
        BY <4>2, <4>3, <4>5
      <4>4. CASE j # size + 1
        BY <4>1, <4>5, <4>4, <3>3, <3>4, <3>8 DEF Increasing
      <4> QED
        BY <4>3, <4>4
    <3>9. Increasing(longer)
      BY <3>8 DEF Increasing
    <3> QED
      BY <3>6, <3>7, <3>9
  <2> QED
    BY <2>1, <2>2
<1>3. P = Nat
  <2> HIDE DEF Listable
  <2> QED
    BY <1>1, <1>2, Induction
<1>4. VehicleCount \in P
  BY <1>3, OptimizerAssumption
<1> QED
  BY <1>4 DEF Vehicles

-----------------------------------------------------------------------------
LEMMA MaxOfTwo ==
  ASSUME NEW n \in Int
  PROVE  Max({0, n}) = IF n > 0 THEN n ELSE 0
<1>1. \E m \in {0, n} : \A k \in {0, n} : m >= k
  OBVIOUS
<1> QED
  BY <1>1 DEF Max

LEMMA MinOfTwo ==
  ASSUME NEW m \in Int, NEW n \in Int
  PROVE  Min({m, n}) = IF m <= n THEN m ELSE n
<1>1. \E l \in {m, n} : \A k \in {m, n} : l <= k
  OBVIOUS
<1> QED
  BY <1>1 DEF Min

(* Delays and idle times are seconds, the latter at most a day. *)
LEMMA TimeTypes ==
  ASSUME NEW v \in Vehicles, NEW c \in Vehicles,
         arrival \in [Vehicles -> Arrivals], departure \in [Vehicles -> Departures]
  PROVE  /\ arrival[v] \in Arrivals /\ departure[c] \in Departures
         /\ Delay(v, c) = Max({0, arrival[v] - departure[c]}) /\ Delay(v, c) \in Nat
         /\ Idle(v, c) \in 0..MaxIdle
         /\ Delay(v, c) > 0 => Idle(v, c) = 0
<1>1. arrival[v] \in Nat /\ departure[c] \in Nat /\ MaxIdle \in Nat
  BY OptimizerAssumption
<1>2. Delay(v, c) = IF arrival[v] > departure[c] THEN arrival[v] - departure[c] ELSE 0
  BY <1>1, MaxOfTwo DEF Delay
<1>3. Max({0, departure[c] - arrival[v]})
        = IF departure[c] > arrival[v] THEN departure[c] - arrival[v] ELSE 0
  BY <1>1, MaxOfTwo
<1> DEFINE wait == Max({0, departure[c] - arrival[v]})
<1>4. wait \in Nat /\ (Delay(v, c) > 0 => wait = 0)
  BY <1>1, <1>2, <1>3
<1>5. Idle(v, c) = IF MaxIdle <= wait THEN MaxIdle ELSE wait
  <2> HIDE DEF wait
  <2>1. Min({MaxIdle, wait}) = IF MaxIdle <= wait THEN MaxIdle ELSE wait
    BY <1>1, <1>4, MinOfTwo
  <2> QED
    BY <2>1 DEF Idle, wait
<1>6. Idle(v, c) \in 0..MaxIdle /\ (Delay(v, c) > 0 => Idle(v, c) = 0)
  <2> HIDE DEF wait
  <2> QED
    BY <1>1, <1>4, <1>5
<1>7. Delay(v, c) \in Nat
  BY <1>1, <1>2
<1>8. Delay(v, c) = Max({0, arrival[v] - departure[c]})
  BY DEF Delay
<1> QED
  BY <1>6, <1>7, <1>8

(* The weights of _assignment_cost. *)
SwapWeight(size) == size * MaxIdle + 1
TripWeight(size) == size * SwapWeight(size) + SwapWeight(size)
DelayWeight(size) == size * TripWeight(size) + TripWeight(size)

LEMMA WeightTypes ==
  ASSUME NEW size \in Nat
  PROVE  SwapWeight(size) \in Nat /\ TripWeight(size) \in Nat /\ DelayWeight(size) \in Nat
<1>1. MaxIdle \in Nat
  BY OptimizerAssumption
<1>2. SwapWeight(size) \in Nat
  BY <1>1 DEF SwapWeight
<1>3. TripWeight(size) \in Nat
  BY <1>2 DEF TripWeight
<1>4. DelayWeight(size) \in Nat
  BY <1>3 DEF DelayWeight
<1> QED
  BY <1>2, <1>3, <1>4

(* What _assignment_cost asks for the delay of a trip, and for its vehicle *)
(* being another than planned.                                             *)
Penalty(delay, size) ==
  delay * DelayWeight(size) + (IF delay > 0 THEN TripWeight(size) ELSE 0)

Exchange(v, c, size) == IF v # c THEN SwapWeight(size) ELSE 0

LEMMA PenaltyType ==
  ASSUME NEW size \in Nat, NEW delay \in Nat
  PROVE  Penalty(delay, size) \in Nat
<1>1. DelayWeight(size) \in Nat /\ TripWeight(size) \in Nat
  BY WeightTypes
<1>2. delay * DelayWeight(size) \in Nat
  BY <1>1
<1> QED
  BY <1>1, <1>2 DEF Penalty

LEMMA WeighedSum ==
  ASSUME NEW size \in Nat, NEW delay \in Nat, NEW idle \in Nat
  PROVE  /\ Weighed(delay, TRUE, idle, size) = Penalty(delay, size) + SwapWeight(size) + idle
         /\ Weighed(delay, FALSE, idle, size) = Penalty(delay, size) + idle
<1> DEFINE total == size * MaxIdle
           sw == total + 1
           tw == size * sw + total + 1
           dw == size * tw + size * sw + total + 1
<1>1. total \in Nat
  BY OptimizerAssumption
<1>2. sw = SwapWeight(size)
  BY DEF SwapWeight
<1>3. tw = TripWeight(size)
  BY <1>1 DEF TripWeight, SwapWeight
<1>4. dw = DelayWeight(size)
  <2>1. size * sw + total + 1 = TripWeight(size)
    BY <1>3
  <2> HIDE DEF total
  <2>2. size * sw \in Nat /\ size * tw \in Nat
    BY <1>1
  <2> HIDE DEF sw, tw
  <2> QED
    BY <2>1, <2>2, <1>1, <1>3 DEF DelayWeight
<1>5. dw \in Nat /\ tw \in Nat /\ sw \in Nat
  BY <1>2, <1>3, <1>4, WeightTypes
<1> DEFINE late == IF delay > 0 THEN tw ELSE 0
           weight == delay * dw
<1>6. /\ Weighed(delay, TRUE, idle, size) = weight + late + sw + idle
      /\ Weighed(delay, FALSE, idle, size) = weight + late + 0 + idle
  BY DEF Weighed
<1> HIDE DEF total, sw, tw, dw
<1>7. Penalty(delay, size) = weight + late
  BY <1>3, <1>4 DEF Penalty
<1>8. weight \in Nat /\ late \in Nat
  BY <1>5
<1> HIDE DEF late, weight
<1>9. /\ weight + late + sw + idle = Penalty(delay, size) + SwapWeight(size) + idle
      /\ weight + late + 0 + idle = Penalty(delay, size) + idle
  BY <1>2, <1>5, <1>7, <1>8
<1> QED
  BY <1>6, <1>9, Zenon

LEMMA CostSum ==
  ASSUME NEW v \in Vehicles, NEW c \in Vehicles, NEW size \in Nat,
         arrival \in [Vehicles -> Arrivals], departure \in [Vehicles -> Departures]
  PROVE  /\ AssignmentCost(v, c, size)
              = Penalty(Delay(v, c), size) + Exchange(v, c, size) + Idle(v, c)
         /\ Penalty(Delay(v, c), size) \in Nat
         /\ Exchange(v, c, size) \in Nat
         /\ Exchange(v, c, size) <= SwapWeight(size)
<1>1. Delay(v, c) \in Nat /\ Idle(v, c) \in 0..MaxIdle /\ MaxIdle \in Nat
  BY TimeTypes, OptimizerAssumption
<1>2. Idle(v, c) \in Nat
  BY <1>1
<1>3. Penalty(Delay(v, c), size) \in Nat /\ SwapWeight(size) \in Nat
  BY <1>1, PenaltyType, WeightTypes
<1>4. AssignmentCost(v, c, size) = Weighed(Delay(v, c), v # c, Idle(v, c), size)
  BY DEF AssignmentCost
<1>5. CASE v # c
  <2>1. (v # c) = TRUE
    BY <1>5
  <2>2. AssignmentCost(v, c, size) = Weighed(Delay(v, c), TRUE, Idle(v, c), size)
    BY <1>4, <2>1, Zenon
  <2>3. AssignmentCost(v, c, size) = Penalty(Delay(v, c), size) + SwapWeight(size) + Idle(v, c)
    BY <1>1, <1>2, <2>2, WeighedSum
  <2>4. Exchange(v, c, size) = SwapWeight(size)
    BY <1>5 DEF Exchange
  <2> QED
    BY <1>2, <1>3, <2>3, <2>4
<1>6. CASE v = c
  <2>1. (v # c) = FALSE
    BY <1>6
  <2>2. AssignmentCost(v, c, size) = Weighed(Delay(v, c), FALSE, Idle(v, c), size)
    BY <1>4, <2>1, Zenon
  <2>3. AssignmentCost(v, c, size) = Penalty(Delay(v, c), size) + Idle(v, c)
    BY <1>1, <1>2, <2>2, WeighedSum
  <2>4. Exchange(v, c, size) = 0
    BY <1>6 DEF Exchange
  <2> QED
    BY <1>2, <1>3, <2>3, <2>4
<1> QED
  BY <1>5, <1>6

(* No two costs add up to the minimum that a search starts from. *)
LEMMA CostType ==
  ASSUME NEW v \in Vehicles, NEW c \in Vehicles, NEW size \in Vehicles,
         arrival \in [Vehicles -> Arrivals], departure \in [Vehicles -> Departures]
  PROVE  AssignmentCost(v, c, size) \in Nat /\ 2 * AssignmentCost(v, c, size) < Infinity
<1> DEFINE most == Weighed(Delay(v, c), TRUE, MaxIdle, size)
           base == Penalty(Delay(v, c), size)
<1>1. size \in Nat /\ MaxIdle \in Nat /\ Infinity \in Nat
  BY OptimizerAssumption DEF Vehicles
<1>2. Delay(v, c) \in Nat /\ Idle(v, c) \in 0..MaxIdle
  BY TimeTypes
<1>3. 2 * most < Infinity
  BY TimeTypes, InfinityAssumption
<1>4. base \in Nat /\ SwapWeight(size) \in Nat
  BY <1>1, <1>2, PenaltyType, WeightTypes
<1>5. most = base + SwapWeight(size) + MaxIdle
  BY <1>1, <1>2, WeighedSum
<1>6. /\ AssignmentCost(v, c, size) = base + Exchange(v, c, size) + Idle(v, c)
      /\ Exchange(v, c, size) \in Nat /\ Exchange(v, c, size) <= SwapWeight(size)
  BY <1>1, CostSum
<1> HIDE DEF base, most
<1>7. AssignmentCost(v, c, size) \in Nat /\ AssignmentCost(v, c, size) <= most /\ most \in Nat
  BY <1>1, <1>2, <1>4, <1>5, <1>6
<1> QED
  BY <1>1, <1>3, <1>7

-----------------------------------------------------------------------------
(* The type invariant: what every variable of the call may hold. *)
Phases == {"start", "rows", "search", "augment", "groups", "done", "error"}

TypeOK ==
  /\ arrival \in [Vehicles -> Arrivals] /\ departure \in [Vehicles -> Departures]
  /\ pc \in Phases
  /\ Size \in 0..VehicleCount
  /\ \A j \in Columns : available[j] \in Vehicles
  /\ row \in Lines /\ column \in Lines /\ used \subseteq Lines
  /\ \A l \in Lines :
       rowPotential[l] \in Int /\ columnPotential[l] \in Int /\ minimum[l] \in Int
  /\ matchedRow \in [Lines -> Lines] /\ previousColumn \in [Lines -> Lines]

(* The matrix is the one Start computed, and no two costs exceed Infinity. *)
CostsInv ==
  \A i, j \in Columns :
    /\ costs[i][j] \in Nat /\ 2 * costs[i][j] < Infinity
    /\ costs[i][j] = AssignmentCost(available[i], available[j], Size)

Reduced(i, j) == costs[i][j] - rowPotential[i] - columnPotential[j]

(* No row and column promise more than their cost. *)
Feasible ==
  /\ \A i \in 1..row, j \in Columns : Reduced(i, j) >= 0
  /\ \A j \in Columns : columnPotential[j] <= 0
  /\ \A i \in (row + 1)..Size : rowPotential[i] = 0

(* The columns whose row counts: during a search the new row stands at     *)
(* column 0, during the walk back the current column is about to change.   *)
Settled ==
  CASE pc = "search" -> Lines [] pc = "augment" -> Lines \ {column} [] OTHER -> Columns

Matching ==
  /\ \A j \in Settled : matchedRow[j] <= row
  /\ \A j, k \in Settled : matchedRow[j] = matchedRow[k] /\ matchedRow[j] # 0 => j = k
  /\ \A i \in 1..row : \E j \in Settled : matchedRow[j] = i
  /\ \A j \in Settled \ {0} :
       IF matchedRow[j] = 0 THEN columnPotential[j] = 0 ELSE Reduced(matchedRow[j], j) = 0
  /\ pc \in {"search", "augment"} => matchedRow[0] = row /\ row >= 1
  /\ pc = "augment" => column # 0

(* The search: the nearest way from the tree to each open column.          *)
Tree == used \cup {column}

Searching ==
  pc = "search" =>
    /\ column \notin used
    /\ used = {} =>
         column = 0 /\ rowPotential[row] = 0 /\ \A j \in Columns : minimum[j] = Infinity
    /\ used # {} =>
         /\ 0 \in used /\ column # 0
         /\ \A j \in Columns \ Tree :
              /\ previousColumn[j] \in used
              /\ minimum[j] = Reduced(matchedRow[previousColumn[j]], j)
              /\ \A k \in used : minimum[j] <= Reduced(matchedRow[k], j)
    /\ \A k \in Tree : matchedRow[k] # 0
    /\ \E j \in Columns : matchedRow[j] = 0

(* The tree: following previous_column from the current column descends to *)
(* column 0, along pairs of a row and a column that promise their cost.    *)
Edge(k, rank) ==
  /\ previousColumn[k] \in used /\ rank[previousColumn[k]] < rank[k]
  /\ matchedRow[previousColumn[k]] \in 1..row
  /\ Reduced(matchedRow[previousColumn[k]], k) = 0

Ranked(rank) ==
  /\ pc = "search" => \A k \in Tree : rank[k] <= rank[column]
  /\ \A k \in Tree \ {0} : rank[k] <= rank[column] => Edge(k, rank)

Descending == pc \in {"search", "augment"} => \E rank \in [Lines -> Nat] : Ranked(rank)

Certified == pc \in {"rows", "search", "augment"} => Feasible /\ Matching

IInv ==
  /\ TypeOK
  /\ pc = "start" => row = 0 /\ column = 0 /\ used = {} /\ Size = 0
  /\ pc # "start" => CostsInv
  /\ Certified /\ Searching /\ Descending

LEMMA InitIInv == Init => IInv
<1> SUFFICES ASSUME Init PROVE IInv
  OBVIOUS
<1>1. Size = 0 /\ Lines = {0} /\ Columns = {}
  BY DEF Init, Size, Lines, Columns
<1>2. Zeros(0) = [l \in {0} |-> 0]
  BY DEF Zeros
<1>3. TypeOK
  BY <1>1, <1>2, OptimizerAssumption DEF Init, TypeOK, Phases
<1> QED
  BY <1>1, <1>3 DEF Init, IInv, Certified, Searching, Descending

LEMMA LineTypes ==
  ASSUME IInv
  PROVE  /\ Size \in Nat /\ row \in Nat /\ row \in Lines /\ 0 \in Lines
         /\ Columns = Lines \ {0} /\ Columns \subseteq Lines /\ 1..row \subseteq Columns
<1>1. Size \in Nat /\ row \in 0..Size
  BY OptimizerAssumption DEF IInv, TypeOK, Lines
<1> QED
  BY <1>1 DEF Lines, Columns

LEMMA CostsKept ==
  ASSUME IInv, pc # "start", UNCHANGED problem
  PROVE  CostsInv'
  BY DEF IInv, CostsInv, problem, Size, Columns, AssignmentCost, Delay, Idle

(* Steps that do not touch the matrix, towards a phase without one.        *)
LEMMA QuietStep ==
  ASSUME IInv, pc' \in {"groups", "done", "error"}, pc # "start",
         UNCHANGED <<problem, row, column, matrix, scratch>>
  PROVE  IInv'
<1>1. TypeOK'
  BY DEF IInv, TypeOK, Phases, problem, matrix, scratch, Size, Lines, Columns
<1>2. CostsInv'
  BY CostsKept
<1> QED
  BY <1>1, <1>2 DEF IInv, Certified, Searching, Descending

(* available: the unprotected vehicles, each once. *)
LEMMA UnprotectedFacts ==
  /\ Len(Unprotected) = Cardinality(Vehicles \ Protected)
  /\ Len(Unprotected) \in 0..VehicleCount
  /\ Unprotected \in [1..Len(Unprotected) -> Vehicles \ Protected]
  /\ Increasing(Unprotected)
<1> DEFINE others == Vehicles \ Protected
           n == Cardinality(others)
<1>1. VehicleCount \in Nat
  BY OptimizerAssumption
<1>2. IsFiniteSet(Vehicles) /\ Cardinality(Vehicles) = VehicleCount
  BY <1>1, FS_Interval DEF Vehicles
<1>3. n \in Nat /\ n <= VehicleCount
  BY <1>2, FS_Subset, FS_CardinalityType
<1>4. \E list \in [1..n -> others] : Increasing(list)
  BY Listed
<1>5. Unprotected \in [1..n -> others] /\ Increasing(Unprotected)
  BY <1>4 DEF Unprotected, Increasing
<1> HIDE DEF others, n
<1>6. Len(Unprotected) = n
  BY <1>3, <1>5
<1>7. n \in 0..VehicleCount
  BY <1>1, <1>3
<1> QED
  BY <1>5, <1>6, <1>7, Zenon DEF others, n

LEMMA RefuseStep == IInv /\ Refuse => IInv'
<1> SUFFICES ASSUME IInv, Refuse PROVE IInv'
  OBVIOUS
<1>1. TypeOK'
  BY DEF IInv, TypeOK, Phases, Refuse, problem, matrix, scratch, Size, Lines, Columns
<1>2. Columns' = {}
  BY DEF IInv, Refuse, problem, Size, Columns
<1>3. CostsInv'
  BY <1>2 DEF CostsInv
<1> QED
  BY <1>1, <1>3 DEF Refuse, IInv, Certified, Searching, Descending

LEMMA StartStep == IInv /\ Start => IInv'
<1> SUFFICES ASSUME IInv, Start PROVE IInv'
  OBVIOUS
<1> DEFINE n == Len(Unprotected)
<1>1. available' = Unprotected /\ Size' = n /\ Lines' = 0..n /\ Columns' = 1..n
  BY DEF Start, Size, Lines, Columns
<1>2. n \in 0..VehicleCount /\ n \in Nat /\ DOMAIN Unprotected = 1..n
      /\ \A j \in 1..n : Unprotected[j] \in Vehicles
  BY UnprotectedFacts, OptimizerAssumption
<1>3. arrival' = arrival /\ departure' = departure /\ row' = 0 /\ column' = 0 /\ used' = {}
      /\ pc' = "rows"
  BY DEF Start, IInv
<1>4. /\ rowPotential' = Zeros(n) /\ columnPotential' = Zeros(n) /\ minimum' = Zeros(n)
      /\ matchedRow' = Zeros(n) /\ previousColumn' = Zeros(n)
  BY DEF Start
<1>5. costs' = CostsOf(Unprotected)
  BY DEF Start
<1> HIDE DEF n
<1>6. Zeros(n) \in [0..n -> {0}]
  BY DEF Zeros
<1>7. TypeOK'
  BY <1>1, <1>2, <1>3, <1>4, <1>6 DEF IInv, TypeOK, Phases
<1>8. CostsInv'
  <2> SUFFICES ASSUME NEW i \in 1..n, NEW j \in 1..n
               PROVE  /\ costs'[i][j] \in Nat /\ 2 * costs'[i][j] < Infinity
                      /\ costs'[i][j] = AssignmentCost(available[i], available[j], Size)'
    BY <1>1 DEF CostsInv
  <2>1. costs'[i][j] = AssignmentCost(Unprotected[i], Unprotected[j], n)
    BY <1>2, <1>5 DEF CostsOf, n
  <2>2. AssignmentCost(available[i], available[j], Size)'
          = AssignmentCost(Unprotected[i], Unprotected[j], n)
    BY <1>1, <1>3 DEF AssignmentCost, Delay, Idle
  <2>3. n \in Vehicles
    BY <1>2 DEF Vehicles
  <2>4. Unprotected[i] \in Vehicles /\ Unprotected[j] \in Vehicles
    BY <1>2
  <2> QED
    BY <2>1, <2>2, <2>3, <2>4, CostType DEF IInv, TypeOK
<1>9. Feasible'
  <2> SUFFICES ASSUME NEW j \in 1..n
               PROVE  columnPotential'[j] <= 0 /\ rowPotential'[j] = 0
    BY <1>1, <1>2, <1>3 DEF Feasible
  <2> QED
    BY <1>2, <1>4, <1>6
<1>10. Matching'
  <2>1. Settled' = 1..n
    BY <1>1, <1>3 DEF Settled
  <2>2. \A j \in 1..n : matchedRow'[j] = 0 /\ columnPotential'[j] = 0
    BY <1>2, <1>4, <1>6
  <2> QED
    BY <1>3, <2>1, <2>2 DEF Matching
<1> QED
  BY <1>3, <1>7, <1>8, <1>9, <1>10 DEF IInv, Certified, Searching, Descending

-----------------------------------------------------------------------------
(* With a row still to assign, a column has no row: rows stand at most once.*)
LEMMA FreeColumn ==
  ASSUME IInv, pc = "rows", row < Size
  PROVE  \E j \in Columns : matchedRow[j] = 0
<1> SUFFICES ASSUME \A j \in Columns : matchedRow[j] # 0 PROVE FALSE
  OBVIOUS
<1>1. Size \in Nat /\ row \in Nat
  BY OptimizerAssumption DEF IInv, TypeOK, Lines
<1>2. Settled = Columns /\ Matching
  BY DEF Settled, IInv, Certified
<1> DEFINE rows == [j \in Columns |-> matchedRow[j]]
<1>3. rows \in [Columns -> 1..row]
  <2> SUFFICES ASSUME NEW j \in Columns PROVE matchedRow[j] \in 1..row
    OBVIOUS
  <2>1. j \in Lines
    BY <1>1 DEF Columns, Lines
  <2>2. matchedRow[j] \in 0..Size /\ matchedRow[j] # 0 /\ matchedRow[j] <= row
    BY <2>1, <1>2 DEF IInv, TypeOK, Lines, Matching
  <2> QED
    BY <1>1, <2>2
<1>4. /\ IsFiniteSet(Columns) /\ Cardinality(Columns) = Size
      /\ IsFiniteSet(1..row) /\ Cardinality(1..row) = row
  BY <1>1, FS_Interval DEF Columns
<1>5. PICK j, k \in Columns : j # k /\ rows[j] = rows[k]
  <2> HIDE DEF rows
  <2> QED
    BY <1>3, <1>4, FS_PigeonHole
<1> QED
  BY <1>2, <1>5 DEF Matching

LEMMA NextRowStep == IInv /\ NextRow => IInv'
<1> SUFFICES ASSUME IInv, NextRow PROVE IInv'
  OBVIOUS
<1>1. Size' = Size /\ Lines' = Lines /\ Columns' = Columns
  BY DEF NextRow, problem, Size, Lines, Columns
<1>2. Size \in Nat /\ row \in Nat /\ row < Size
  BY OptimizerAssumption DEF IInv, TypeOK, Lines, NextRow
<1>3. /\ row' = row + 1 /\ column' = 0 /\ used' = {} /\ pc' = "search" /\ pc = "rows"
      /\ minimum' = [l \in Lines |-> Infinity]
      /\ UNCHANGED <<arrival, departure, available, costs, rowPotential, columnPotential,
                     previousColumn>>
  BY DEF NextRow, problem
<1>4. matchedRow' = [matchedRow EXCEPT ![0] = row + 1] /\ matchedRow \in [Lines -> Lines]
  BY DEF NextRow, IInv, TypeOK
<1>5. 0 \in Lines /\ row + 1 \in Lines /\ Columns = Lines \ {0}
  BY <1>2 DEF Lines, Columns
<1>6. matchedRow'[0] = row + 1 /\ \A j \in Columns : matchedRow'[j] = matchedRow[j]
  BY <1>4, <1>5
<1>7. TypeOK'
  <2>1. matchedRow' \in [Lines -> Lines]
    BY <1>4, <1>5
  <2>2. \A l \in Lines : minimum'[l] \in Int
    BY <1>3, OptimizerAssumption
  <2> QED
    BY <1>1, <1>3, <1>5, <2>1, <2>2 DEF IInv, TypeOK, Phases
<1>8. CostsInv'
  BY <1>3, CostsKept DEF NextRow
<1>9. Feasible /\ Matching /\ Settled = Columns
  BY <1>3 DEF IInv, Certified, Settled
<1>10. \A i \in Columns, j \in Columns :
         costs[i][j] \in Nat /\ rowPotential[i] \in Int /\ columnPotential[j] \in Int
  BY <1>5 DEF IInv, CostsInv, TypeOK, NextRow
<1>11. Feasible'
  <2>1. \A i \in 1..row', j \in Columns : Reduced(i, j)' >= 0
    <3> SUFFICES ASSUME NEW i \in 1..(row + 1), NEW j \in Columns PROVE Reduced(i, j) >= 0
      BY <1>1, <1>3 DEF Reduced
    <3>1. CASE i = row + 1
      <4>1. rowPotential[i] = 0 /\ columnPotential[j] <= 0 /\ i \in Columns
        BY <1>2, <1>9, <3>1 DEF Feasible, Columns
      <4> QED
        BY <1>10, <4>1 DEF Reduced
    <3>2. CASE i # row + 1
      <4>1. i \in 1..row
        BY <1>2, <3>2
      <4> QED
        BY <1>9, <4>1 DEF Feasible
    <3> QED
      BY <3>1, <3>2
  <2>2. \A i \in (row' + 1)..Size : i \in (row + 1)..Size
    BY <1>2, <1>3
  <2> QED
    BY <1>1, <1>3, <1>9, <2>1, <2>2 DEF Feasible
<1>12. Matching'
  <2>1. Settled' = Lines
    BY <1>1, <1>3 DEF Settled
  <2>2. \A j \in Columns : matchedRow'[j] \in Nat /\ matchedRow'[j] <= row
    BY <1>5, <1>6, <1>9, <1>4 DEF Matching, Lines
  <2>3. \A j \in Lines : matchedRow'[j] <= row'
    BY <1>2, <1>3, <1>5, <1>6, <2>2
  <2>4. ASSUME NEW j \in Lines, NEW k \in Lines, matchedRow'[j] = matchedRow'[k], matchedRow'[j] # 0
        PROVE  j = k
    <3>1. CASE j \in Columns /\ k \in Columns
      BY <1>6, <1>9, <2>4, <3>1 DEF Matching
    <3>2. CASE j = 0 /\ k \in Columns
      BY <1>2, <1>6, <2>2, <2>4, <3>2
    <3>3. CASE j \in Columns /\ k = 0
      BY <1>2, <1>6, <2>2, <2>4, <3>3
    <3> QED
      BY <1>5, <3>1, <3>2, <3>3
  <2>5. ASSUME NEW i \in 1..(row + 1) PROVE \E j \in Lines : matchedRow'[j] = i
    <3>1. CASE i = row + 1
      BY <1>5, <1>6, <3>1
    <3>2. CASE i # row + 1
      <4>1. i \in 1..row
        BY <1>2, <3>2
      <4>2. PICK j \in Columns : matchedRow[j] = i
        BY <1>9, <4>1 DEF Matching
      <4> QED
        BY <1>5, <1>6, <4>2
    <3> QED
      BY <3>1, <3>2
  <2>6. \A j \in Columns : IF matchedRow'[j] = 0 THEN columnPotential'[j] = 0
                           ELSE Reduced(matchedRow[j], j)' = 0
    <3> SUFFICES ASSUME NEW j \in Columns
                 PROVE  IF matchedRow[j] = 0 THEN columnPotential[j] = 0
                        ELSE Reduced(matchedRow[j], j) = 0
      BY <1>3, <1>6 DEF Reduced
    <3> QED
      BY <1>5, <1>9 DEF Matching
  <2> QED
    BY <1>2, <1>3, <1>5, <1>6, <2>1, <2>3, <2>4, <2>5, <2>6 DEF Matching
<1>13. Searching'
  <2>1. PICK j \in Columns : matchedRow[j] = 0
    BY <1>3, <1>2, FreeColumn
  <2>2. rowPotential'[row'] = 0
    BY <1>2, <1>3, <1>9 DEF Feasible
  <2> QED
    BY <1>1, <1>2, <1>3, <1>5, <1>6, <2>1, <2>2 DEF Searching, Tree
<1>14. Descending'
  <2>1. PICK rank \in [Lines -> Nat] : rank = [l \in Lines |-> 0]
    OBVIOUS
  <2>2. Tree' = {0}
    BY <1>3 DEF Tree
  <2>3. Ranked(rank)'
    BY <1>3, <1>5, <2>1, <2>2 DEF Ranked
  <2> QED
    BY <1>1, <2>3 DEF Descending
<1> QED
  BY <1>3, <1>7, <1>8, <1>11, <1>12, <1>13, <1>14 DEF IInv, Certified

-----------------------------------------------------------------------------
(* One turn of the walk back: the current column takes the row of the one  *)
(* before it, which becomes the current one.                               *)
LEMMA AugmentStep == IInv /\ Augment => IInv'
<1> SUFFICES ASSUME IInv, Augment PROVE IInv'
  OBVIOUS
<1> DEFINE prior == previousColumn[column]
<1>1. Size' = Size /\ Lines' = Lines /\ Columns' = Columns
  BY DEF Augment, problem, Size, Lines, Columns
<1>2. Size \in Nat /\ row \in Nat /\ row \in Lines /\ 0 \in Lines /\ Columns = Lines \ {0}
  BY LineTypes
<1>3. /\ pc = "augment" /\ UNCHANGED <<problem, row, rowPotential, columnPotential, scratch>>
      /\ UNCHANGED <<costs, previousColumn, used, minimum, arrival, departure, available>>
      /\ column' = prior /\ pc' = IF prior = 0 THEN "rows" ELSE "augment"
      /\ matchedRow' = [matchedRow EXCEPT ![column] = matchedRow[prior]]
  BY DEF Augment, problem, scratch
<1>4. /\ matchedRow \in [Lines -> Lines] /\ previousColumn \in [Lines -> Lines]
      /\ column \in Lines /\ prior \in Lines
  BY DEF IInv, TypeOK
<1>5. Feasible /\ Matching /\ Settled = Lines \ {column} /\ column # 0
  BY <1>3 DEF IInv, Certified, Settled, Matching
<1>6. PICK rank \in [Lines -> Nat] : Ranked(rank)
  BY <1>3 DEF IInv, Descending
<1>7. Edge(column, rank)
  BY <1>4, <1>5, <1>6 DEF Ranked, Tree
<1>8. /\ prior \in used /\ prior # column /\ rank[prior] < rank[column]
      /\ matchedRow[prior] \in 1..row /\ Reduced(matchedRow[prior], column) = 0
  BY <1>4, <1>6, <1>7 DEF Edge
<1>9. /\ matchedRow'[column] = matchedRow[prior]
      /\ \A j \in Lines \ {column} : matchedRow'[j] = matchedRow[j]
  BY <1>3, <1>4
<1>10. Settled' = Lines \ {prior}
  BY <1>1, <1>2, <1>3 DEF Settled
<1> HIDE DEF prior
<1>11. TypeOK'
  <2>1. matchedRow' \in [Lines -> Lines]
    BY <1>3, <1>4
  <2>2. pc' \in Phases
    BY <1>3 DEF Phases
  <2> QED
    BY <1>1, <1>3, <1>4, <2>1, <2>2 DEF IInv, TypeOK
<1>12. CostsInv'
  BY <1>3, CostsKept
<1>13. Feasible'
  BY <1>1, <1>3, <1>5 DEF Feasible, Reduced
<1>14. Matching'
  <2>1. \A j \in Lines \ {prior} :
          \/ j = column /\ matchedRow'[j] = matchedRow[prior]
          \/ j # column /\ j # prior /\ matchedRow'[j] = matchedRow[j]
    BY <1>9
  <2>2. \A j \in Lines \ {prior} : matchedRow'[j] <= row
    BY <1>2, <1>5, <1>8, <2>1 DEF Matching
  <2>3. ASSUME NEW j \in Lines \ {prior}, NEW k \in Lines \ {prior},
               matchedRow'[j] = matchedRow'[k], matchedRow'[j] # 0
        PROVE  j = k
    BY <1>4, <1>5, <1>8, <2>1, <2>3 DEF Matching
  <2>4. ASSUME NEW i \in 1..row PROVE \E j \in Lines \ {prior} : matchedRow'[j] = i
    <3>1. PICK j \in Lines \ {column} : matchedRow[j] = i
      BY <1>5 DEF Matching
    <3>2. CASE j = prior
      BY <1>4, <1>8, <1>9, <3>1, <3>2
    <3>3. CASE j # prior
      BY <1>9, <3>1, <3>3
    <3> QED
      BY <3>2, <3>3
  <2>5. ASSUME NEW j \in (Lines \ {prior}) \ {0}
        PROVE  IF matchedRow'[j] = 0 THEN columnPotential[j] = 0
               ELSE Reduced(matchedRow'[j], j) = 0
    <3>1. CASE j = column
      BY <1>8, <1>9, <3>1
    <3>2. CASE j # column
      BY <1>5, <1>9, <3>2 DEF Matching
    <3> QED
      BY <3>1, <3>2
  <2>7. pc' \in {"search", "augment"} => matchedRow'[0] = row /\ row >= 1
    BY <1>2, <1>3, <1>5, <1>9 DEF Matching
  <2>8. pc' = "augment" => column' # 0
    BY <1>3
  <2> QED
    BY <1>1, <1>3, <1>10, <2>2, <2>3, <2>4, <2>5, <2>7, <2>8 DEF Matching, Reduced
<1>15. Searching'
  BY <1>3 DEF Searching
<1>16. Descending'
  <2>1. CASE prior = 0
    BY <1>3, <2>1 DEF Descending
  <2>2. CASE prior # 0
    <3>1. Tree' = used
      BY <1>3, <1>8 DEF Tree
    <3>2. ASSUME NEW k \in used \ {0}, rank[k] <= rank[prior] PROVE Edge(k, rank)'
      <4>1. k \in Lines
        BY DEF IInv, TypeOK
      <4>2. rank[k] \in Nat /\ rank[prior] \in Nat /\ rank[column] \in Nat
        BY <1>4, <1>6, <4>1
      <4>3. Edge(k, rank)
        BY <1>6, <1>8, <3>2, <4>2 DEF Ranked, Tree
      <4>4. previousColumn[k] \in Lines
        BY <1>4, <4>1
      <4>5. previousColumn[k] # column
        BY <1>8, <3>2, <4>2, <4>3 DEF Edge
      <4>6. matchedRow'[previousColumn[k]] = matchedRow[previousColumn[k]]
        BY <1>9, <4>4, <4>5
      <4> QED
        BY <1>3, <4>3, <4>6 DEF Edge, Reduced
    <3>3. Ranked(rank)'
      BY <1>3, <3>1, <3>2 DEF Ranked
    <3> QED
      BY <1>1, <1>6, <3>3 DEF Descending
  <2> QED
    BY <2>1, <2>2
<1> QED
  BY <1>3, <1>11, <1>12, <1>13, <1>14, <1>15, <1>16 DEF IInv, Certified

-----------------------------------------------------------------------------
(* The inner loop. Reached is minimum after its scan, Parent the column    *)
(* through which an open column is then reached.                           *)
Reached(j) == IF Cheaper(j) THEN ReducedCost(j) ELSE minimum[j]
Parent(j) == IF Cheaper(j) THEN column ELSE previousColumn[j]

(* No potential exceeds a cost, so the first scan reaches every column.    *)
LEMMA ReducedBelowInfinity ==
  ASSUME IInv, pc = "search", used = {}, NEW j \in Columns
  PROVE  ReducedCost(j) < Infinity
<1>1. PICK free \in Columns : matchedRow[free] = 0
  BY DEF IInv, Searching
<1>2. Feasible /\ Matching /\ Settled = Lines /\ column = 0
  BY DEF IInv, Certified, Settled, Searching
<1>3. columnPotential[free] = 0
  BY <1>1, <1>2, LineTypes DEF Matching
<1>4. /\ matchedRow[0] = row /\ row \in Columns
      /\ j \in Lines /\ matchedRow[j] \in Lines /\ matchedRow[j] <= row
  <2>1. j \in Lines /\ row \in Lines
    BY LineTypes
  <2>2. matchedRow[0] = row /\ row >= 1 /\ matchedRow[j] <= row
    BY <1>2, <2>1 DEF Matching
  <2>3. row \in Columns
    BY <2>1, <2>2, LineTypes DEF Lines
  <2> QED
    BY <2>1, <2>2, <2>3 DEF IInv, TypeOK
<1>5. /\ \A i, k \in Columns : costs[i][k] \in Nat /\ 2 * costs[i][k] < Infinity
      /\ \A l \in Lines : rowPotential[l] \in Int /\ columnPotential[l] \in Int
      /\ Infinity \in Nat
  BY OptimizerAssumption DEF IInv, CostsInv, TypeOK
<1>6. rowPotential[row] = 0 /\ ReducedCost(j) = costs[row][j] - columnPotential[j]
  BY <1>2, <1>4, <1>5 DEF ReducedCost, IInv, Searching
<1>7. CASE matchedRow[j] = 0
  <2>1. columnPotential[j] = 0
    BY <1>2, <1>4, <1>7, LineTypes DEF Matching
  <2> QED
    BY <1>4, <1>5, <1>6, <2>1
<1>8. CASE matchedRow[j] # 0
  <2> DEFINE r == matchedRow[j]
  <2>1. r \in Columns /\ r \in 1..row
    BY <1>4, <1>8 DEF Lines, Columns
  <2>2. Reduced(r, j) = 0
    BY <1>2, <1>4, <1>8, LineTypes DEF Matching
  <2>3. Reduced(r, free) >= 0
    BY <1>2, <2>1 DEF Feasible
  <2> HIDE DEF r
  <2>4. /\ costs[r][j] \in Nat /\ costs[row][j] \in Nat /\ costs[r][free] \in Nat
        /\ 2 * costs[row][j] < Infinity /\ 2 * costs[r][free] < Infinity
        /\ r \in Lines
    BY <1>4, <1>5, <2>1, LineTypes
  <2>5. rowPotential[r] \in Int /\ columnPotential[j] \in Int
    BY <1>4, <1>5, <2>4
  <2> QED
    BY <1>3, <1>5, <1>6, <2>2, <2>3, <2>4, <2>5 DEF Reduced
<1> QED
  BY <1>7, <1>8

(* After the scan the nearest way from the tree to an open column is known.*)
LEMMA ReachedFacts ==
  ASSUME IInv, pc = "search", NEW j \in Columns \ Tree
  PROVE  /\ Parent(j) \in Tree
         /\ Reached(j) = Reduced(matchedRow[Parent(j)], j)
         /\ \A k \in Tree : Reached(j) <= Reduced(matchedRow[k], j)
         /\ Reached(j) \in Nat
<1>1. \A k \in Tree : k \in Lines /\ matchedRow[k] \in 1..row
  <2> SUFFICES ASSUME NEW k \in Tree PROVE k \in Lines /\ matchedRow[k] \in 1..row
    OBVIOUS
  <2>1. k \in Lines /\ Settled = Lines
    BY DEF Tree, IInv, TypeOK, Settled
  <2>2. matchedRow[k] \in Lines /\ matchedRow[k] # 0 /\ matchedRow[k] <= row
    BY <2>1 DEF IInv, TypeOK, Searching, Certified, Matching
  <2> QED
    BY <2>1, <2>2, LineTypes DEF Lines
<1>2. \A i \in 1..row : Reduced(i, j) \in Nat
  <2> SUFFICES ASSUME NEW i \in 1..row PROVE Reduced(i, j) \in Nat
    OBVIOUS
  <2>1. i \in Columns /\ i \in Lines /\ j \in Lines
    BY LineTypes
  <2>2. costs[i][j] \in Nat /\ rowPotential[i] \in Int /\ columnPotential[j] \in Int
    BY <2>1 DEF IInv, CostsInv, TypeOK
  <2>3. Reduced(i, j) >= 0
    BY DEF IInv, Certified, Feasible
  <2> QED
    BY <2>2, <2>3 DEF Reduced
<1>3. column \in Tree /\ ReducedCost(j) = Reduced(matchedRow[column], j)
  BY DEF Tree, ReducedCost, Reduced
<1>4. Cheaper(j) <=> ReducedCost(j) < minimum[j]
  BY DEF Cheaper, Tree
<1>5. ReducedCost(j) \in Nat /\ minimum[j] \in Int
  BY <1>1, <1>2, <1>3, LineTypes DEF IInv, TypeOK
<1>6. CASE used = {}
  <2>1. minimum[j] = Infinity /\ Tree = {column}
    BY <1>6 DEF IInv, Searching, Tree
  <2>2. Cheaper(j)
    BY <1>4, <1>6, <2>1, ReducedBelowInfinity
  <2> QED
    BY <1>3, <1>5, <2>1, <2>2 DEF Reached, Parent
<1>7. CASE used # {}
  <2>1. /\ previousColumn[j] \in used
        /\ minimum[j] = Reduced(matchedRow[previousColumn[j]], j)
        /\ \A k \in used : minimum[j] <= Reduced(matchedRow[k], j)
    BY <1>7 DEF IInv, Searching
  <2>2. \A k \in Tree : k \in used \/ k = column
    BY DEF Tree
  <2>3. \A k \in Tree : Reduced(matchedRow[k], j) \in Nat
    BY <1>1, <1>2
  <2>4. used \subseteq Tree
    BY DEF Tree
  <2>5. CASE Cheaper(j)
    <3>1. Reached(j) = ReducedCost(j) /\ Parent(j) = column
      BY <2>5 DEF Reached, Parent
    <3>2. \A k \in used : ReducedCost(j) <= Reduced(matchedRow[k], j)
      BY <1>4, <1>5, <2>1, <2>3, <2>4, <2>5
    <3> QED
      BY <1>3, <1>5, <2>2, <3>1, <3>2
  <2>6. CASE ~Cheaper(j)
    <3>1. Reached(j) = minimum[j] /\ Parent(j) = previousColumn[j]
      BY <2>6 DEF Reached, Parent
    <3>2. minimum[j] <= ReducedCost(j)
      BY <1>4, <1>5, <2>6
    <3> QED
      BY <1>3, <2>1, <2>2, <2>3, <2>4, <3>1, <3>2
  <2> QED
    BY <2>5, <2>6
<1> QED
  BY <1>6, <1>7

(* The nearest open column, the first one if several are. *)
Nearest ==
  Min({j \in Columns \ Tree : \A k \in Columns \ Tree : Reached(j) <= Reached(k)})

LEMMA NearestFacts ==
  ASSUME IInv, pc = "search"
  PROVE  /\ Nearest \in Columns \ Tree
         /\ \A k \in Columns \ Tree : Reached(Nearest) <= Reached(k)
<1> DEFINE open == Columns \ Tree
           reached == [j \in Columns |-> IF j \in open THEN Reached(j) ELSE 0]
           nearest == {j \in open : \A k \in open : Reached(j) <= Reached(k)}
<1>1. open # {}
  BY DEF IInv, Searching
<1>2. \A j \in open : reached[j] = Reached(j) /\ Reached(j) \in Nat
  BY ReachedFacts
<1>3. \A j \in 1..Size : reached[j] \in Int
  BY <1>2 DEF Columns
<1>4. Size \in Nat /\ open \in SUBSET (1..Size)
  BY LineTypes DEF Columns
<1>5. PICK j \in open : \A k \in open : reached[j] <= reached[k]
  <2> HIDE DEF open, reached
  <2> QED
    BY <1>1, <1>3, <1>4, LeastValue
<1>6. j \in nearest
  <2> HIDE DEF reached
  <2> QED
    BY <1>2, <1>5
<1>7. nearest \in SUBSET Nat /\ nearest # {}
  <2>1. open \subseteq Nat
    BY <1>4
  <2> HIDE DEF open
  <2> QED
    BY <1>6, <2>1
<1>8. Nearest \in nearest
  <2>1. Nearest = Min(nearest)
    BY DEF Nearest
  <2> HIDE DEF nearest
  <2> QED
    BY <1>7, <2>1, MinOfNaturals
<1> QED
  BY <1>8

LEMMA GrowFacts ==
  ASSUME IInv, Search
  PROVE  /\ pc = "search" /\ Nearest \in Columns \ Tree /\ Reached(Nearest) \in Nat
         /\ \A l \in Lines :
              /\ rowPotential'[l] = IF \E k \in Tree : matchedRow[k] = l
                                    THEN rowPotential[l] + Reached(Nearest) ELSE rowPotential[l]
              /\ columnPotential'[l] = IF l \in Tree THEN columnPotential[l] - Reached(Nearest)
                                       ELSE columnPotential[l]
              /\ minimum'[l] = IF l \in Tree THEN Reached(l) ELSE Reached(l) - Reached(Nearest)
              /\ previousColumn'[l] = Parent(l)
         /\ previousColumn' = [l \in Lines |-> previousColumn'[l]]
         /\ used' = Tree /\ column' = Nearest
         /\ pc' = IF matchedRow[Nearest] = 0 THEN "augment" ELSE "search"
         /\ UNCHANGED <<problem, row, matchedRow>>
<1> DEFINE open == Columns \ Tree
           reached == [l \in Lines |-> IF Cheaper(l) THEN ReducedCost(l) ELSE minimum[l]]
           next == Min({j \in open : \A k \in open : reached[j] <= reached[k]})
<1>1. \A l \in Lines : reached[l] = Reached(l)
  BY DEF Reached
<1>2. open \subseteq Lines
  BY LineTypes
<1>3. next = Nearest
  <2>1. {j \in open : \A k \in open : reached[j] <= reached[k]}
          = {j \in open : \A k \in open : Reached(j) <= Reached(k)}
    <3> HIDE DEF open, reached
    <3> QED
      BY <1>1, <1>2
  <2> QED
    BY <2>1 DEF Nearest
<1>4. pc = "search"
  BY DEF Search
<1>5. Nearest \in open /\ Nearest \in Lines /\ Reached(Nearest) \in Nat
  BY <1>2, <1>4, NearestFacts, ReachedFacts
<1>6. reached[next] = Reached(Nearest)
  <2> HIDE DEF reached, next
  <2> QED
    BY <1>1, <1>3, <1>5
<1>7. /\ Shift(Tree, reached[next])
      /\ minimum' = [l \in Lines |-> IF l \in Tree THEN reached[l] ELSE reached[l] - reached[next]]
      /\ previousColumn' = [l \in Lines |-> IF Cheaper(l) THEN column ELSE previousColumn[l]]
      /\ used' = Tree /\ column' = next
      /\ pc' = IF matchedRow[next] = 0 THEN "augment" ELSE "search"
      /\ UNCHANGED <<problem, row, matchedRow>>
  BY DEF Search, Grow, Tree
<1> HIDE DEF reached, next, open
<1>8. ASSUME NEW l \in Lines
      PROVE  /\ rowPotential'[l] = IF \E k \in Tree : matchedRow[k] = l
                                   THEN rowPotential[l] + Reached(Nearest) ELSE rowPotential[l]
             /\ columnPotential'[l] = IF l \in Tree THEN columnPotential[l] - Reached(Nearest)
                                      ELSE columnPotential[l]
             /\ minimum'[l] = IF l \in Tree THEN Reached(l) ELSE Reached(l) - Reached(Nearest)
             /\ previousColumn'[l] = Parent(l)
  <2>1. Shift(Tree, Reached(Nearest))
    BY <1>6, <1>7, Zenon
  <2>2. /\ rowPotential'[l] = IF \E k \in Tree : matchedRow[k] = l
                              THEN rowPotential[l] + Reached(Nearest) ELSE rowPotential[l]
        /\ columnPotential'[l] = IF l \in Tree THEN columnPotential[l] - Reached(Nearest)
                                 ELSE columnPotential[l]
    BY <2>1 DEF Shift
  <2>3. minimum'[l] = IF l \in Tree THEN Reached(l) ELSE Reached(l) - Reached(Nearest)
    BY <1>1, <1>6, <1>7
  <2>4. previousColumn'[l] = Parent(l)
    BY <1>7 DEF Parent
  <2> QED
    BY <2>2, <2>3, <2>4
<1>9. previousColumn' = [l \in Lines |-> previousColumn'[l]]
  BY <1>7
<1> QED
  BY <1>3, <1>4, <1>5, <1>7, <1>8, <1>9 DEF open

LEMMA SearchStep == IInv /\ Search => IInv'
<1> SUFFICES ASSUME IInv, Search PROVE IInv'
  OBVIOUS
<1> DEFINE next == Nearest
           delta == Reached(Nearest)
<1>1. Size' = Size /\ Lines' = Lines /\ Columns' = Columns
  BY GrowFacts DEF problem, Size, Lines, Columns
<1>2. /\ pc = "search" /\ next \in Columns \ Tree /\ delta \in Nat
      /\ used' = Tree /\ column' = next /\ Tree' = Tree \cup {next}
      /\ pc' = IF matchedRow[next] = 0 THEN "augment" ELSE "search"
      /\ row' = row /\ matchedRow' = matchedRow /\ UNCHANGED problem
      /\ arrival' = arrival /\ departure' = departure /\ available' = available /\ costs' = costs
  BY GrowFacts DEF Tree, problem
<1>3. /\ matchedRow \in [Lines -> Lines] /\ previousColumn \in [Lines -> Lines]
      /\ \A l \in Lines : /\ rowPotential[l] \in Int /\ columnPotential[l] \in Int
                          /\ minimum[l] \in Int
      /\ Tree \subseteq Lines /\ column \in Tree
  BY DEF IInv, TypeOK, Tree
<1>4. \A l \in Lines :
        /\ rowPotential'[l] = IF \E k \in Tree : matchedRow[k] = l
                              THEN rowPotential[l] + delta ELSE rowPotential[l]
        /\ columnPotential'[l] = IF l \in Tree THEN columnPotential[l] - delta
                                 ELSE columnPotential[l]
        /\ minimum'[l] = IF l \in Tree THEN Reached(l) ELSE Reached(l) - delta
        /\ previousColumn'[l] = Parent(l)
  BY GrowFacts
<1>5. \A j \in Columns \ Tree :
        /\ delta <= Reached(j) /\ Parent(j) \in Tree
        /\ Reached(j) = Reduced(matchedRow[Parent(j)], j)
        /\ \A k \in Tree : Reached(j) <= Reduced(matchedRow[k], j)
        /\ Reached(j) \in Nat
  BY <1>2, NearestFacts, ReachedFacts
<1>6. Feasible /\ Matching /\ Settled = Lines
  BY <1>2 DEF IInv, Certified, Settled
<1>7. /\ Columns = Lines \ {0} /\ Columns \subseteq Lines /\ 0 \in Lines
      /\ 1..row \subseteq Columns /\ row \in Nat /\ row \in Lines /\ next \in Lines /\ next # 0
  BY <1>2, LineTypes
<1>8. \A k \in Tree : matchedRow[k] \in 1..row
  <2> SUFFICES ASSUME NEW k \in Tree PROVE matchedRow[k] \in 1..row
    OBVIOUS
  <2>1. matchedRow[k] \in Lines /\ matchedRow[k] # 0 /\ matchedRow[k] <= row
    BY <1>2, <1>3, <1>6 DEF IInv, Searching, Matching
  <2> QED
    BY <2>1, <1>7 DEF Lines
<1>9. \A i, j \in Columns :
        costs[i][j] \in Nat /\ Reduced(i, j) \in Int /\ Reduced(i, j)' \in Int
  <2> SUFFICES ASSUME NEW i \in Columns, NEW j \in Columns
               PROVE  costs[i][j] \in Nat /\ Reduced(i, j) \in Int /\ Reduced(i, j)' \in Int
    OBVIOUS
  <2>1. costs[i][j] \in Nat
    BY <1>2 DEF IInv, CostsInv
  <2>2. /\ rowPotential[i] \in Int /\ columnPotential[j] \in Int
        /\ rowPotential'[i] \in Int /\ columnPotential'[j] \in Int
    BY <1>2, <1>3, <1>4, <1>7
  <2> QED
    BY <1>2, <2>1, <2>2 DEF Reduced
(* How the reduced costs move: only where the tree meets the rest.         *)
<1> DEFINE inTree(i) == \E k \in Tree : matchedRow[k] = i
<1>10. ASSUME NEW i \in Columns, NEW j \in Columns
       PROVE  Reduced(i, j)' = Reduced(i, j) - (IF inTree(i) THEN delta ELSE 0)
                                 + (IF j \in Tree THEN delta ELSE 0)
  <2>1. /\ costs[i][j] \in Nat /\ rowPotential[i] \in Int /\ columnPotential[j] \in Int
        /\ i \in Lines /\ j \in Lines
    BY <1>3, <1>7, <1>9
  <2>2. rowPotential'[i] = rowPotential[i] + (IF inTree(i) THEN delta ELSE 0)
    BY <1>2, <1>4, <2>1
  <2>3. columnPotential'[j] = columnPotential[j] - (IF j \in Tree THEN delta ELSE 0)
    BY <1>2, <1>4, <2>1
  <2>4. Reduced(i, j)' = costs[i][j] - rowPotential'[i] - columnPotential'[j]
    BY <1>2 DEF Reduced
  <2> HIDE DEF inTree, delta
  <2> QED
    BY <1>2, <2>1, <2>2, <2>3, <2>4 DEF Reduced
<1>11. TypeOK'
  <2>1. pc' \in Phases
    BY <1>2 DEF Phases
  <2>2. ASSUME NEW l \in Lines
        PROVE  rowPotential'[l] \in Int /\ columnPotential'[l] \in Int /\ minimum'[l] \in Int
    <3>1. ReducedCost(l) \in Int \/ ~Cheaper(l)
      <4>1. CASE Cheaper(l)
        <5>1. l \in Columns /\ matchedRow[column] \in Columns
          BY <1>3, <1>7, <1>8, <4>1 DEF Cheaper
        <5>2. Reduced(matchedRow[column], l) \in Int
          BY <1>9, <5>1
        <5> QED
          BY <5>2 DEF ReducedCost, Reduced
      <4> QED
        BY <4>1
    <3>2. Reached(l) \in Int
      BY <1>3, <3>1 DEF Reached
    <3> QED
      BY <1>2, <1>3, <1>4, <3>2
  <2>3. previousColumn' \in [Lines -> Lines]
    <3>1. \A l \in Lines : previousColumn'[l] \in Lines
      BY <1>3, <1>4 DEF Parent
    <3> QED
      BY <3>1, GrowFacts
  <2> QED
    BY <1>1, <1>2, <1>3, <1>7, <2>1, <2>2, <2>3 DEF IInv, TypeOK
<1>12. CostsInv'
  BY <1>2, CostsKept
<1> HIDE DEF next, delta
<1>13. Feasible'
  <2>1. ASSUME NEW i \in 1..row, NEW j \in Columns PROVE Reduced(i, j)' >= 0
    <3>1. i \in Columns /\ Reduced(i, j) \in Int /\ Reduced(i, j) >= 0
      BY <1>6, <1>7, <1>9 DEF Feasible
    <3>2. CASE inTree(i) /\ j \notin Tree
      <4>1. Reduced(i, j) >= delta
        BY <1>2, <1>5, <3>1, <3>2
      <4> QED
        BY <1>2, <1>10, <3>1, <3>2, <4>1
    <3>3. CASE ~inTree(i) \/ j \in Tree
      <4> HIDE DEF inTree
      <4> QED
        BY <1>2, <1>10, <3>1, <3>3
    <3> QED
      BY <3>2, <3>3
  <2>2. ASSUME NEW j \in Columns PROVE columnPotential'[j] <= 0
    BY <1>2, <1>3, <1>4, <1>6, <1>7 DEF Feasible
  <2>3. ASSUME NEW i \in (row + 1)..Size PROVE rowPotential'[i] = 0
    <3>1. i \in Lines
      BY <1>7 DEF Lines
    <3>2. ~inTree(i)
      BY <1>7, <1>8
    <3> QED
      BY <1>4, <1>6, <3>1, <3>2 DEF Feasible
  <2> QED
    BY <1>1, <1>2, <2>1, <2>2, <2>3 DEF Feasible
<1>14. Settled' = IF pc' = "augment" THEN Lines \ {next} ELSE Lines
  BY <1>1, <1>2 DEF Settled
<1>15. Matching'
  <2>1. ASSUME NEW j \in Settled' \ {0}
        PROVE  IF matchedRow[j] = 0 THEN columnPotential'[j] = 0
               ELSE Reduced(matchedRow[j], j)' = 0
    <3>1. j \in Lines /\ j \in Columns
      BY <1>7, <1>14, <2>1
    <3>2. IF matchedRow[j] = 0 THEN columnPotential[j] = 0 ELSE Reduced(matchedRow[j], j) = 0
      BY <1>6, <1>7, <3>1 DEF Matching
    <3>3. CASE matchedRow[j] = 0
      <4>1. j \notin Tree
        BY <1>7, <1>8, <3>3
      <4> QED
        BY <1>4, <3>1, <3>2, <3>3, <4>1
    <3>4. CASE matchedRow[j] # 0
      <4>1. matchedRow[j] \in Columns
        BY <1>3, <1>7, <3>1, <3>4
      <4>2. inTree(matchedRow[j]) <=> j \in Tree
        BY <1>3, <1>6, <3>1, <3>4 DEF Matching
      <4> HIDE DEF inTree
      <4> QED
        BY <1>2, <1>10, <3>1, <3>2, <3>4, <4>1, <4>2
    <3> QED
      BY <3>3, <3>4
  <2>2. ASSUME NEW i \in 1..row PROVE \E j \in Settled' : matchedRow[j] = i
    <3>1. PICK j \in Lines : matchedRow[j] = i
      BY <1>6 DEF Matching
    <3> QED
      BY <1>2, <1>14, <3>1
  <2>3. Settled' \subseteq Lines
    BY <1>14
  <2>4. \A j \in Settled' \ {0} : matchedRow'[j] = matchedRow[j]
    BY <1>2
  <2>5. matchedRow[0] = row /\ row >= 1
    BY <1>2, <1>6 DEF Matching
  <2>6. \A j \in Settled' : matchedRow[j] <= row
    BY <1>6, <2>3 DEF Matching
  <2>7. \A j, k \in Settled' : matchedRow[j] = matchedRow[k] /\ matchedRow[j] # 0 => j = k
    BY <1>6, <2>3 DEF Matching
  <2> QED
    BY <1>2, <1>7, <2>1, <2>2, <2>5, <2>6, <2>7 DEF Matching, Reduced
<1> DEFINE moved(i, j) == costs[i][j] - rowPotential'[i] - columnPotential'[j]
<1>16. ASSUME NEW k \in Tree, NEW j \in Columns
       PROVE  /\ moved(matchedRow[k], j)
                   = Reduced(matchedRow[k], j) - (IF j \in Tree THEN 0 ELSE delta)
              /\ Reduced(matchedRow[k], j) \in Int
  <2>1. PICK i \in Columns : i = matchedRow[k]
    BY <1>7, <1>8
  <2>2. inTree(i)
    BY <2>1
  <2>3. Reduced(i, j)' = moved(i, j)
    BY <1>2 DEF Reduced
  <2>4. Reduced(i, j) \in Int
    BY <1>9
  <2> HIDE DEF inTree, moved
  <2>5. moved(i, j) = Reduced(i, j) - (IF j \in Tree THEN 0 ELSE delta)
    BY <1>2, <1>10, <2>2, <2>3, <2>4
  <2> QED
    BY <2>1, <2>4, <2>5
<1>17. Searching'
  <2> SUFFICES ASSUME pc' = "search" PROVE Searching'
    BY DEF Searching
  <2>1. matchedRow[next] # 0 /\ 0 \in Tree
    <3>1. 0 \in Tree
      BY <1>2 DEF IInv, Searching, Tree
    <3> QED
      BY <1>2, <3>1
  <2>2. ASSUME NEW j \in Columns \ (Tree \cup {next})
        PROVE  /\ previousColumn'[j] \in Tree
               /\ minimum'[j] = moved(matchedRow[previousColumn'[j]], j)
               /\ \A k \in Tree : minimum'[j] <= moved(matchedRow[k], j)
    <3>1. j \in Lines /\ j \in Columns \ Tree
      BY <1>7, <2>2
    <3>2. previousColumn'[j] = Parent(j) /\ Parent(j) \in Tree
      BY <1>4, <1>5, <3>1
    <3>3. minimum'[j] = Reached(j) - delta
      BY <1>4, <3>1
    <3>4. Reduced(matchedRow[Parent(j)], j) = Reached(j) /\ Reached(j) \in Nat
      BY <1>5, <3>1
    <3> HIDE DEF moved
    <3>5. minimum'[j] = moved(matchedRow[Parent(j)], j)
      BY <1>16, <3>1, <3>2, <3>3, <3>4
    <3>6. ASSUME NEW k \in Tree PROVE minimum'[j] <= moved(matchedRow[k], j)
      BY <1>2, <1>5, <1>16, <3>1, <3>3, <3>4
    <3> QED
      BY <3>2, <3>5, <3>6
  <2>3. \A k \in Tree' : matchedRow'[k] # 0
    BY <1>2, <1>7, <1>8, <2>1
  <2>4. \E j \in Columns : matchedRow'[j] = 0
    BY <1>2 DEF IInv, Searching
  <2>5. Tree # {}
    BY <2>1
  <2> QED
    BY <1>1, <1>2, <1>7, <2>1, <2>2, <2>3, <2>4, <2>5 DEF Searching, Reduced
<1>18. Descending'
  <2>1. PICK rank \in [Lines -> Nat] : Ranked(rank)
    BY <1>2 DEF IInv, Descending
  <2>2. PICK longer : longer = [rank EXCEPT ![next] = rank[column] + 1]
    OBVIOUS
  <2>3. /\ longer \in [Lines -> Nat] /\ longer[next] = rank[column] + 1
        /\ \A k \in Tree : longer[k] = rank[k] /\ rank[k] \in Nat /\ rank[k] <= rank[column]
    BY <1>2, <1>3, <1>7, <2>1, <2>2 DEF Ranked
  <2>4. ASSUME NEW k \in (Tree \cup {next}) \ {0}
        PROVE  /\ previousColumn'[k] \in Tree
               /\ longer[previousColumn'[k]] < longer[k]
               /\ matchedRow[previousColumn'[k]] \in 1..row
               /\ moved(matchedRow[previousColumn'[k]], k) = 0
    <3>1. k \in Columns /\ k \in Lines /\ previousColumn'[k] = Parent(k)
      BY <1>3, <1>4, <1>7
    <3>2. CASE k = next
      <4>1. /\ Parent(k) \in Tree /\ Reduced(matchedRow[Parent(k)], k) = delta
            /\ k \notin Tree
        BY <1>2, <1>5, <3>2 DEF next, delta
      <4>2. moved(matchedRow[Parent(k)], k) = 0
        <5> HIDE DEF moved
        <5> QED
          BY <1>2, <1>16, <3>1, <4>1
      <4>3. longer[Parent(k)] < longer[k]
        BY <1>3, <2>3, <3>2, <4>1
      <4> QED
        BY <1>8, <3>1, <4>1, <4>2, <4>3
    <3>3. CASE k # next
      <4>1. k \in Tree /\ rank[k] <= rank[column]
        BY <2>3, <3>3
      <4>2. Edge(k, rank)
        BY <2>1, <4>1 DEF Ranked
      <4>3. Parent(k) = previousColumn[k]
        BY <4>1 DEF Parent, Cheaper, Tree
      <4>4. previousColumn[k] \in Tree
        BY <4>2 DEF Edge, Tree
      <4>5. moved(matchedRow[Parent(k)], k) = 0
        <5> HIDE DEF moved
        <5> QED
          BY <1>16, <3>1, <4>1, <4>2, <4>3, <4>4 DEF Edge
      <4>6. longer[Parent(k)] < longer[k]
        BY <2>3, <4>1, <4>2, <4>3, <4>4 DEF Edge
      <4> QED
        BY <1>8, <3>1, <4>3, <4>4, <4>5, <4>6
    <3> QED
      BY <3>2, <3>3
  <2>5. ASSUME NEW k \in Tree' \ {0} PROVE Edge(k, longer)'
    BY <1>2, <2>4 DEF Edge, Reduced
  <2>6. \A k \in Tree' : longer[k] <= longer[column']
    <3>1. rank[column] \in Nat
      BY <1>3, <2>3
    <3> QED
      BY <1>2, <2>3, <3>1
  <2>7. Ranked(longer)'
    BY <2>5, <2>6 DEF Ranked
  <2> QED
    BY <1>1, <2>3, <2>7 DEF Descending
<1> QED
  BY <1>2, <1>11, <1>12, <1>13, <1>15, <1>17, <1>18 DEF IInv, Certified

LEMMA IInvStep == IInv /\ [Next]_vars => IInv'
<1> SUFFICES ASSUME IInv, [Next]_vars PROVE IInv'
  OBVIOUS
<1>1. CASE Refuse
  BY <1>1, RefuseStep
<1>2. CASE Start
  BY <1>2, StartStep
<1>3. CASE NextRow
  BY <1>3, NextRowStep
<1>4. CASE Search
  BY <1>4, SearchStep
<1>5. CASE Augment
  BY <1>5, AugmentStep
<1>6. CASE Decide
  <2>1. pc = "rows" /\ UNCHANGED <<problem, row, column, matrix, scratch>>
        /\ pc' \in {"groups", "done"}
    BY <1>6 DEF Decide
  <2> QED
    BY <2>1, QuietStep
<1>7. CASE TakeGroup
  <2>1. pc = "groups" /\ UNCHANGED <<problem, row, column, matrix, scratch>>
        /\ pc' \in {"groups", "error"}
    BY <1>7 DEF TakeGroup
  <2> QED
    BY <2>1, QuietStep
<1>8. CASE Return
  BY <1>8, QuietStep DEF Return
<1>9. CASE UNCHANGED vars
  <2>1. UNCHANGED <<problem, pc, row, column, matrix, scratch>>
    BY <1>9 DEF vars
  <2>7. TypeOK'
    BY <2>1 DEF problem, matrix, scratch, IInv, TypeOK, Size, Lines, Columns
  <2>8. Feasible => Feasible'
    BY <2>1 DEF problem, matrix, Feasible, Size, Columns, Reduced
  <2>9. Matching => Matching'
    BY <2>1 DEF problem, matrix, Matching, Settled, Size, Lines, Columns, Reduced
  <2>2. Searching'
    BY <1>9 DEF vars, problem, matrix, scratch, IInv, Searching, Tree, Columns, Size, Reduced
  <2>3. Descending'
    BY <1>9 DEF vars, problem, matrix, scratch, IInv, Descending, Ranked, Edge, Tree, Lines,
                Size, Reduced
  <2>4. pc' = "start" => row' = 0 /\ column' = 0 /\ used' = {} /\ Size' = 0
    BY <1>9 DEF vars, problem, scratch, IInv, Size
  <2>5. pc' # "start" => CostsInv'
    BY <2>1, CostsKept
  <2>6. Certified'
    BY <2>1, <2>8, <2>9 DEF IInv, Certified
  <2> QED
    BY <2>2, <2>3, <2>4, <2>5, <2>6, <2>7 DEF IInv
<1> QED
  BY <1>1, <1>2, <1>3, <1>4, <1>5, <1>6, <1>7, <1>8, <1>9 DEF Next

(* The arrays of _hungarian stay what its search needs of them: potentials *)
(* that certify the matching, and a tree whose way back loses no row.      *)
THEOREM Invariance == Spec => []IInv
<1>1. Init => IInv
  BY InitIInv
<1>2. IInv /\ [Next]_vars => IInv'
  BY IInvStep
<1> QED
  BY <1>1, <1>2, PTL DEF Spec

(* The call keeps to its types, whatever the terminal: the augmentation    *)
(* reads no column that is not there (optimize_terminal_assignments).      *)
THEOREM OptimizerTypes == Spec => []TypeOK
<1>1. IInv => TypeOK
  BY DEF IInv
<1> QED
  BY <1>1, Invariance, PTL

LEMMA CertifiedRows == IInv => PotentialsFeasible
<1> SUFFICES ASSUME IInv, pc = "rows" PROVE PotentialsFeasible
  BY DEF PotentialsFeasible
<1>1. Feasible /\ Matching /\ Settled = Columns
  BY DEF IInv, Certified, Settled
<1>2. \A i, j \in Columns :
        costs[i][j] \in Nat /\ rowPotential[i] \in Int /\ columnPotential[j] \in Int
  BY LineTypes DEF IInv, CostsInv, TypeOK
<1>3. ASSUME NEW i \in 1..row, NEW j \in Columns
      PROVE  rowPotential[i] + columnPotential[j] <= costs[i][j]
  BY <1>1, <1>2, LineTypes DEF Feasible, Reduced
<1>4. ASSUME NEW j \in Columns
      PROVE  IF matchedRow[j] = 0 THEN columnPotential[j] = 0
             ELSE rowPotential[matchedRow[j]] + columnPotential[j] = costs[matchedRow[j]][j]
  <2>1. j \in Lines /\ matchedRow[j] \in Lines
    BY LineTypes DEF IInv, TypeOK
  <2>2. IF matchedRow[j] = 0 THEN columnPotential[j] = 0 ELSE Reduced(matchedRow[j], j) = 0
    BY <1>1, LineTypes DEF Matching
  <2>3. matchedRow[j] # 0 => matchedRow[j] \in Columns
    BY <2>1, LineTypes
  <2> QED
    BY <1>2, <2>2, <2>3 DEF Reduced
<1> QED
  BY <1>3, <1>4 DEF PotentialsFeasible

(* Between two rows of _hungarian the potentials certify the matching.     *)
THEOREM PotentialsCertify == Spec => []PotentialsFeasible
  BY Invariance, CertifiedRows, PTL

-----------------------------------------------------------------------------
(* The vehicles that may exchange their trips. *)
Others == Vehicles \ Protected
Seats == Cardinality(Others)

LEMMA OthersFinite ==
  /\ IsFiniteSet(Vehicles) /\ IsFiniteSet(Others)
  /\ Seats \in Nat /\ Seats <= VehicleCount
<1>1. VehicleCount \in Nat
  BY OptimizerAssumption
<1>2. IsFiniteSet(Vehicles) /\ Cardinality(Vehicles) = VehicleCount
  BY <1>1, FS_Interval DEF Vehicles
<1>3. Others \in SUBSET Vehicles
  BY DEF Others
<1> QED
  BY <1>2, <1>3, FS_Subset, FS_CardinalityType DEF Seats

(* What the costs of some trips add up to. *)
CostOn(plan, trips) ==
  SumFunctionOnSet([c \in Vehicles |-> AssignmentCost(plan[c], c, Seats)], trips)
IdleOn(plan, trips) == SumFunctionOnSet([c \in Vehicles |-> Idle(plan[c], c)], trips)
LateOn(plan, trips) == {c \in trips : Delay(plan[c], c) > 0}
ChangedOn(plan, trips) == {c \in trips : plan[c] # c}

LEMMA CostOnSplit ==
  ASSUME TypeOK, NEW plan \in [Vehicles -> Vehicles], NEW trips \in SUBSET Vehicles
  PROVE  /\ CostOn(plan, trips)
              = DelayWeight(Seats) * TotalDelay(plan, trips)
                  + TripWeight(Seats) * Cardinality(LateOn(plan, trips))
                  + SwapWeight(Seats) * Cardinality(ChangedOn(plan, trips))
                  + IdleOn(plan, trips)
         /\ TotalDelay(plan, trips) \in Nat
         /\ Cardinality(LateOn(plan, trips)) \in 0..Cardinality(trips)
         /\ Cardinality(ChangedOn(plan, trips)) \in 0..Cardinality(trips)
         /\ IdleOn(plan, trips) \in 0..(Cardinality(trips) * MaxIdle)
         /\ Cardinality(trips) \in Nat
<1> DEFINE dw == DelayWeight(Seats)
           tw == TripWeight(Seats)
           sw == SwapWeight(Seats)
           cost == [c \in Vehicles |-> AssignmentCost(plan[c], c, Seats)]
           delay == [c \in Vehicles |-> Delay(plan[c], c)]
           idle == [c \in Vehicles |-> Idle(plan[c], c)]
           late == [c \in Vehicles |-> IF c \in LateOn(plan, trips) THEN tw ELSE 0]
           changed == [c \in Vehicles |-> IF c \in ChangedOn(plan, trips) THEN sw ELSE 0]
           weighed == [c \in Vehicles |-> dw * Delay(plan[c], c)]
           first == [c \in Vehicles |-> weighed[c] + late[c]]
           second == [c \in Vehicles |-> first[c] + changed[c]]
           sum(f) == SumFunctionOnSet(f, trips)
<1>1. /\ IsFiniteSet(trips) /\ Cardinality(trips) \in Nat
      /\ Seats \in Nat /\ MaxIdle \in Nat
      /\ dw \in Nat /\ tw \in Nat /\ sw \in Nat
  BY OthersFinite, FS_Subset, FS_CardinalityType, WeightTypes, OptimizerAssumption
<1>2. \A c \in Vehicles :
        /\ plan[c] \in Vehicles /\ Delay(plan[c], c) \in Nat /\ Idle(plan[c], c) \in 0..MaxIdle
  BY TimeTypes DEF TypeOK
<1>3. LateOn(plan, trips) \in SUBSET trips /\ ChangedOn(plan, trips) \in SUBSET trips
  BY DEF LateOn, ChangedOn
<1>4. /\ IsFiniteSet(LateOn(plan, trips)) /\ IsFiniteSet(ChangedOn(plan, trips))
      /\ Cardinality(LateOn(plan, trips)) \in 0..Cardinality(trips)
      /\ Cardinality(ChangedOn(plan, trips)) \in 0..Cardinality(trips)
  <2>1. /\ IsFiniteSet(LateOn(plan, trips))
        /\ Cardinality(LateOn(plan, trips)) <= Cardinality(trips)
    BY <1>1, <1>3, FS_Subset
  <2>2. /\ IsFiniteSet(ChangedOn(plan, trips))
        /\ Cardinality(ChangedOn(plan, trips)) <= Cardinality(trips)
    BY <1>1, <1>3, FS_Subset
  <2>3. Cardinality(LateOn(plan, trips)) \in Nat /\ Cardinality(ChangedOn(plan, trips)) \in Nat
    BY <2>1, <2>2, FS_CardinalityType
  <2> QED
    BY <1>1, <2>1, <2>2, <2>3
<1>5. ASSUME NEW c \in trips
      PROVE  /\ delay[c] \in Nat /\ idle[c] \in 0..MaxIdle
             /\ late[c] \in Nat /\ changed[c] \in Nat /\ weighed[c] \in Nat
             /\ weighed[c] = dw * delay[c]
             /\ first[c] = weighed[c] + late[c] /\ second[c] = first[c] + changed[c]
             /\ cost[c] = second[c] + idle[c]
  <2>1. c \in Vehicles
    OBVIOUS
  <2>2. /\ AssignmentCost(plan[c], c, Seats)
             = Penalty(Delay(plan[c], c), Seats) + Exchange(plan[c], c, Seats) + Idle(plan[c], c)
    BY <1>1, <1>2, <2>1, CostSum DEF TypeOK
  <2>3. dw * Delay(plan[c], c) \in Nat
    BY <1>1, <1>2, <2>1
  <2>4. Penalty(Delay(plan[c], c), Seats) = dw * Delay(plan[c], c) + late[c]
    <3>1. late[c] = IF Delay(plan[c], c) > 0 THEN tw ELSE 0
      BY DEF LateOn
    <3>2. Penalty(Delay(plan[c], c), Seats)
            = Delay(plan[c], c) * dw + (IF Delay(plan[c], c) > 0 THEN tw ELSE 0)
      BY DEF Penalty
    <3>3. Delay(plan[c], c) * dw = dw * Delay(plan[c], c)
      BY <1>1, <1>2
    <3> QED
      BY <3>1, <3>2, <3>3
  <2>5. Exchange(plan[c], c, Seats) = changed[c]
    BY DEF Exchange, ChangedOn
  <2>6. late[c] \in Nat /\ changed[c] \in Nat
    BY <1>1
  <2> QED
    BY <1>2, <2>1, <2>2, <2>3, <2>4, <2>5, <2>6
<1>6. /\ CostOn(plan, trips) = sum(cost) /\ TotalDelay(plan, trips) = sum(delay)
      /\ IdleOn(plan, trips) = sum(idle)
  BY DEF CostOn, TotalDelay, IdleOn
<1>7. sum(late) = tw * Cardinality(LateOn(plan, trips))
  <2>1. \A c \in trips : late[c] = IF c \in LateOn(plan, trips) THEN tw ELSE 0
    OBVIOUS
  <2> HIDE DEF late, tw
  <2> QED
    BY <1>1, <1>3, <2>1, SumCount
<1>8. sum(changed) = sw * Cardinality(ChangedOn(plan, trips))
  <2>1. \A c \in trips : changed[c] = IF c \in ChangedOn(plan, trips) THEN sw ELSE 0
    OBVIOUS
  <2> HIDE DEF changed, sw
  <2> QED
    BY <1>1, <1>3, <2>1, SumCount
<1> HIDE DEF dw, tw, sw, cost, delay, idle, late, changed, weighed, first, second
<1>9. sum(weighed) = dw * sum(delay)
  <2>1. Scaled(dw, delay, weighed, trips)
    BY <1>5 DEF Scaled
  <2> QED
    BY <1>1, <1>5, <2>1, SumTimes
<1>10. sum(first) = sum(weighed) + sum(late)
  BY <1>1, <1>5, SumPlus
<1>11. sum(second) = sum(first) + sum(changed)
  BY <1>1, <1>5, SumPlus
<1>12. sum(cost) = sum(second) + sum(idle)
  BY <1>1, <1>5, SumPlus
<1>13. sum(delay) \in Nat
  BY <1>1, <1>5, SumNatural
<1>14. sum(idle) \in 0..(Cardinality(trips) * MaxIdle)
  BY <1>1, <1>5, SumBounded
<1> QED
  BY <1>1, <1>4, <1>6, <1>7, <1>8, <1>9, <1>10, <1>11, <1>12, <1>13, <1>14 DEF dw, tw, sw

(* One weight outweighs what the weights below it can add up to. *)
LEMMA Outweighs ==
  ASSUME NEW weight \in Nat, NEW m \in Nat, NEW n \in Nat,
         NEW r \in 0..(weight - 1), NEW s \in 0..(weight - 1),
         weight * m + r <= weight * n + s
  PROVE  m < n \/ (m = n /\ r <= s)
<1>1. CASE m < n
  BY <1>1
<1>2. CASE m = n
  <2>1. weight * m \in Nat
    OBVIOUS
  <2> QED
    BY <1>2, <2>1
<1>3. CASE m > n
  <2>1. PICK d \in Nat : m = n + 1 + d
    <3>1. m - n - 1 \in Nat /\ m = n + 1 + (m - n - 1)
      BY <1>3
    <3> QED
      BY <3>1
  <2>2. weight * m = weight * n + weight + weight * d
    BY <2>1
  <2>3. weight * n \in Nat /\ weight * d \in Nat
    OBVIOUS
  <2> QED
    BY <2>2, <2>3
<1> QED
  BY <1>1, <1>2, <1>3

(* The weights order assignments lexicographically. *)
LEMMA WeightsOrder ==
  ASSUME NEW n \in Nat,
         NEW d1 \in Nat, NEW l1 \in 0..n, NEW c1 \in 0..n, NEW i1 \in 0..(n * MaxIdle),
         NEW d2 \in Nat, NEW l2 \in 0..n, NEW c2 \in 0..n, NEW i2 \in 0..(n * MaxIdle),
         DelayWeight(n) * d1 + TripWeight(n) * l1 + SwapWeight(n) * c1 + i1
           <= DelayWeight(n) * d2 + TripWeight(n) * l2 + SwapWeight(n) * c2 + i2
  PROVE  \/ d1 < d2
         \/ d1 = d2 /\ l1 < l2
         \/ d1 = d2 /\ l1 = l2 /\ c1 < c2
         \/ d1 = d2 /\ l1 = l2 /\ c1 = c2 /\ i1 <= i2
<1> DEFINE sw == SwapWeight(n)
           tw == TripWeight(n)
           dw == DelayWeight(n)
<1>1. sw \in Nat /\ tw \in Nat /\ dw \in Nat /\ n * MaxIdle \in Nat
  BY WeightTypes, OptimizerAssumption
<1>2. sw = n * MaxIdle + 1 /\ tw = n * sw + sw /\ dw = n * tw + tw
  BY DEF SwapWeight, TripWeight, DelayWeight
<1>3. i1 \in 0..(sw - 1) /\ i2 \in 0..(sw - 1)
  BY <1>1, <1>2
<1> HIDE DEF sw, tw, dw
<1>4. ASSUME NEW w \in Nat, NEW k \in 0..n PROVE w * k \in Nat /\ w * k <= n * w
  <2>1. PICK d \in Nat : n = k + d
    <3>1. n - k \in Nat /\ n = k + (n - k)
      OBVIOUS
    <3> QED
      BY <3>1
  <2>2. n * w = w * k + w * d
    BY <2>1
  <2>3. w * k \in Nat /\ w * d \in Nat
    OBVIOUS
  <2> QED
    BY <2>2, <2>3
<1> DEFINE r1 == sw * c1 + i1
           r2 == sw * c2 + i2
<1>5. r1 \in 0..(tw - 1) /\ r2 \in 0..(tw - 1)
  <2>1. sw * c1 \in Nat /\ sw * c1 <= n * sw /\ sw * c2 \in Nat /\ sw * c2 <= n * sw
    BY <1>1, <1>4
  <2>2. n * sw \in Nat
    BY <1>1
  <2> DEFINE a1 == sw * c1
             a2 == sw * c2
             b == n * sw
  <2> HIDE DEF a1, a2, b
  <2>3. a1 + i1 \in 0..(tw - 1) /\ a2 + i2 \in 0..(tw - 1)
    BY <1>1, <1>2, <1>3, <2>1, <2>2 DEF a1, a2, b
  <2> QED
    BY <2>3 DEF a1, a2
<1> HIDE DEF r1, r2
<1> DEFINE s1 == tw * l1 + r1
           s2 == tw * l2 + r2
<1>6. s1 \in 0..(dw - 1) /\ s2 \in 0..(dw - 1)
  <2>1. tw * l1 \in Nat /\ tw * l1 <= n * tw /\ tw * l2 \in Nat /\ tw * l2 <= n * tw
    BY <1>1, <1>4
  <2>2. n * tw \in Nat
    BY <1>1
  <2> QED
    BY <1>1, <1>2, <1>5, <2>1, <2>2
<1> HIDE DEF s1, s2
<1>7. dw * d1 + s1 <= dw * d2 + s2
  <2>1. dw * d1 \in Nat /\ dw * d2 \in Nat /\ tw * l1 \in Nat /\ tw * l2 \in Nat
        /\ sw * c1 \in Nat /\ sw * c2 \in Nat
    BY <1>1
  <2>2. dw * d1 + tw * l1 + sw * c1 + i1 <= dw * d2 + tw * l2 + sw * c2 + i2
    BY DEF dw, tw, sw
  <2> QED
    BY <2>1, <2>2 DEF s1, s2, r1, r2
<1>8. d1 < d2 \/ (d1 = d2 /\ s1 <= s2)
  BY <1>1, <1>6, <1>7, Outweighs
<1>9. s1 <= s2 => l1 < l2 \/ (l1 = l2 /\ r1 <= r2)
  BY <1>1, <1>5, Outweighs DEF s1, s2
<1>10. r1 <= r2 => c1 < c2 \/ (c1 = c2 /\ i1 <= i2)
  BY <1>1, <1>3, Outweighs DEF r1, r2
<1> QED
  BY <1>8, <1>9, <1>10

-----------------------------------------------------------------------------
(* An assignment that the matrix holds to be the best.                     *)
Cheapest(plan) ==
  plan \in Assignments /\ \A other \in Assignments : CostOn(plan, Others) <= CostOn(other, Others)

Best(plan) == \A other \in Assignments : ~Better(Merit(other), Merit(plan))

(* A protected trip costs nothing that an assignment could save. *)
LEMMA MeritOfOthers ==
  ASSUME TypeOK, NEW plan \in Assignments
  PROVE  Merit(plan) = <<TotalDelay(plan, Others), Cardinality(LateOn(plan, Others)),
                         Cardinality(ChangedOn(plan, Others)), IdleOn(plan, Others)>>
<1>1. plan \in [Vehicles -> Vehicles] /\ \A c \in Protected : plan[c] = c
  BY DEF Assignments
<1>2. Protected \in SUBSET Vehicles /\ \A c \in Protected : Delay(plan[c], c) = 0
  BY <1>1 DEF Protected
<1>3. {c \in Vehicles : Delay(plan[c], c) > 0} = LateOn(plan, Others)
  <2>1. \A c \in Vehicles : Delay(plan[c], c) > 0 => c \in Others
    BY <1>2 DEF Others
  <2> QED
    BY <2>1 DEF LateOn, Others
<1>4. Changed(plan) = ChangedOn(plan, Others)
  BY <1>1 DEF Changed, ChangedOn, Others
<1>5. TotalDelay(plan, Vehicles) = TotalDelay(plan, Others)
  <2> DEFINE delay == [c \in Vehicles |-> Delay(plan[c], c)]
  <2>1. \A c \in Vehicles : delay[c] \in Int
    <3> SUFFICES ASSUME NEW c \in Vehicles PROVE Delay(plan[c], c) \in Int
      OBVIOUS
    <3>1. plan[c] \in Vehicles
      BY <1>1
    <3>2. Delay(plan[c], c) \in Nat
      BY <3>1, TimeTypes DEF TypeOK
    <3> QED
      BY <3>2
  <2>2. \A c \in Protected : delay[c] = IF c \in {} THEN 0 ELSE 0
    BY <1>2
  <2>3. Others \cup Protected = Vehicles /\ Others \cap Protected = {}
        /\ Others \in SUBSET Vehicles
    BY <1>2 DEF Others
  <2>4. TotalDelay(plan, Vehicles) = SumFunctionOnSet(delay, Others \cup Protected)
        /\ TotalDelay(plan, Others) = SumFunctionOnSet(delay, Others)
    BY <2>3 DEF TotalDelay
  <2> HIDE DEF delay
  <2>5. SumFunctionOnSet(delay, Others \cup Protected)
          = SumFunctionOnSet(delay, Others) + SumFunctionOnSet(delay, Protected)
    BY <1>2, <2>1, <2>3, SumUnion, OthersFinite
  <2>6. SumFunctionOnSet(delay, Protected) = 0 * Cardinality({})
    <3>1. IsFiniteSet(Protected) /\ {} \in SUBSET Protected /\ 0 \in Int
      BY <1>2, OthersFinite, FS_Subset
    <3> QED
      BY <2>2, <3>1, SumCount
  <2>7. 0 * Cardinality({}) = 0
    BY FS_EmptySet
  <2>8. SumFunctionOnSet(delay, Others) \in Int
    BY <2>1, <2>3, OthersFinite, SumFacts
  <2> QED
    BY <2>4, <2>5, <2>6, <2>7, <2>8
<1>6. IdleOn(plan, Others)
        = SumFunctionOnSet([c \in Vehicles |-> Idle(plan[c], c)], Vehicles \ Protected)
  BY DEF IdleOn, Others
<1> QED
  BY <1>3, <1>4, <1>5, <1>6, Zenon DEF Merit

(* The weights are wide enough: less cost is more merit. *)
LEMMA CheapestIsBest ==
  ASSUME TypeOK, NEW plan, Cheapest(plan)
  PROVE  Best(plan)
<1> SUFFICES ASSUME NEW other \in Assignments PROVE ~Better(Merit(other), Merit(plan))
  BY DEF Best
<1>1. plan \in Assignments /\ CostOn(plan, Others) <= CostOn(other, Others)
  BY DEF Cheapest
<1>2. /\ plan \in [Vehicles -> Vehicles] /\ other \in [Vehicles -> Vehicles]
      /\ Others \in SUBSET Vehicles
  BY <1>1 DEF Assignments, Others
<1> DEFINE d1 == TotalDelay(plan, Others)
           l1 == Cardinality(LateOn(plan, Others))
           c1 == Cardinality(ChangedOn(plan, Others))
           i1 == IdleOn(plan, Others)
           d2 == TotalDelay(other, Others)
           l2 == Cardinality(LateOn(other, Others))
           c2 == Cardinality(ChangedOn(other, Others))
           i2 == IdleOn(other, Others)
<1>3. /\ CostOn(plan, Others)
           = DelayWeight(Seats) * d1 + TripWeight(Seats) * l1 + SwapWeight(Seats) * c1 + i1
      /\ d1 \in Nat /\ l1 \in 0..Seats /\ c1 \in 0..Seats /\ i1 \in 0..(Seats * MaxIdle)
  BY <1>2, CostOnSplit DEF Seats
<1>4. /\ CostOn(other, Others)
           = DelayWeight(Seats) * d2 + TripWeight(Seats) * l2 + SwapWeight(Seats) * c2 + i2
      /\ d2 \in Nat /\ l2 \in 0..Seats /\ c2 \in 0..Seats /\ i2 \in 0..(Seats * MaxIdle)
  BY <1>2, CostOnSplit DEF Seats
<1>5. Merit(plan) = <<d1, l1, c1, i1>> /\ Merit(other) = <<d2, l2, c2, i2>>
  BY <1>1, MeritOfOthers
<1> HIDE DEF d1, l1, c1, i1, d2, l2, c2, i2
<1>6. /\ DelayWeight(Seats) * d1 + TripWeight(Seats) * l1 + SwapWeight(Seats) * c1 + i1
           <= DelayWeight(Seats) * d2 + TripWeight(Seats) * l2 + SwapWeight(Seats) * c2 + i2
      /\ Seats \in Nat
  BY <1>1, <1>3, <1>4, OthersFinite
<1>7. \/ d1 < d2
      \/ d1 = d2 /\ l1 < l2
      \/ d1 = d2 /\ l1 = l2 /\ c1 < c2
      \/ d1 = d2 /\ l1 = l2 /\ c1 = c2 /\ i1 <= i2
  BY <1>3, <1>4, <1>6, WeightsOrder
<1>8. d1 \in Int /\ l1 \in Int /\ c1 \in Int /\ i1 \in Int
      /\ d2 \in Int /\ l2 \in Int /\ c2 \in Int /\ i2 \in Int
  BY <1>3, <1>4, <1>6, OptimizerAssumption
<1>9. Better(<<d2, l2, c2, i2>>, <<d1, l1, c1, i1>>) =>
        \/ d2 < d1
        \/ d2 = d1 /\ l2 < l1
        \/ d2 = d1 /\ l2 = l1 /\ c2 < c1
        \/ d2 = d1 /\ l2 = l1 /\ c2 = c1 /\ i2 < i1
  <2> DEFINE m == <<d2, l2, c2, i2>>
             n == <<d1, l1, c1, i1>>
  <2> SUFFICES ASSUME NEW k \in 1..4, m[k] < n[k], \A l \in 1..(k - 1) : m[l] = n[l]
               PROVE  \/ d2 < d1
                      \/ d2 = d1 /\ l2 < l1
                      \/ d2 = d1 /\ l2 = l1 /\ c2 < c1
                      \/ d2 = d1 /\ l2 = l1 /\ c2 = c1 /\ i2 < i1
    BY DEF Better
  <2>1. m[1] = d2 /\ m[2] = l2 /\ m[3] = c2 /\ m[4] = i2
        /\ n[1] = d1 /\ n[2] = l1 /\ n[3] = c1 /\ n[4] = i1
    OBVIOUS
  <2> HIDE DEF m, n
  <2>2. CASE k = 1
    BY <2>1, <2>2
  <2>3. CASE k = 2
    BY <2>1, <2>3
  <2>4. CASE k = 3
    BY <2>1, <2>4
  <2>5. CASE k = 4
    BY <2>1, <2>5
  <2> QED
    BY <2>2, <2>3, <2>4, <2>5
<1> QED
  BY <1>5, <1>7, <1>8, <1>9

LEMMA PairCost ==
  ASSUME TypeOK, NEW plan \in [Vehicles -> Vehicles], NEW c \in Vehicles
  PROVE  AssignmentCost(plan[c], c, Seats) \in Nat
<1>1. plan[c] \in Vehicles /\ Seats \in Nat
  BY OthersFinite
<1>2. Idle(plan[c], c) \in 0..MaxIdle
  BY <1>1, TimeTypes DEF TypeOK
<1>3. Idle(plan[c], c) \in Nat
  BY <1>2, OptimizerAssumption
<1> QED
  BY <1>1, <1>3, CostSum DEF TypeOK

LEMMA CheapestExists ==
  ASSUME TypeOK
  PROVE  \E plan : Cheapest(plan)
<1> DEFINE prices == {CostOn(plan, Others) : plan \in Assignments}
<1>1. OnTime \in Assignments
  BY DEF OnTime, Assignments, Protected
<1>2. ASSUME NEW plan \in Assignments PROVE CostOn(plan, Others) \in Nat
  <2>1. plan \in [Vehicles -> Vehicles] /\ Others \in SUBSET Vehicles
    BY DEF Assignments, Others
  <2> DEFINE cost == [c \in Vehicles |-> AssignmentCost(plan[c], c, Seats)]
  <2>2. \A c \in Others : cost[c] \in Nat
    BY <2>1, PairCost
  <2> HIDE DEF cost
  <2>3. SumFunctionOnSet(cost, Others) \in Nat
    BY <2>2, OthersFinite, SumNatural
  <2> QED
    BY <2>3 DEF CostOn, cost
<1>3. prices \in SUBSET Nat /\ prices # {}
  BY <1>1, <1>2
<1>4. Min(prices) \in prices /\ \A n \in prices : Min(prices) <= n
  <2> HIDE DEF prices
  <2> QED
    BY <1>3, MinOfNaturals
<1>5. PICK plan \in Assignments : CostOn(plan, Others) = Min(prices)
  BY <1>4
<1>6. \A other \in Assignments : CostOn(plan, Others) <= CostOn(other, Others)
  BY <1>4, <1>5
<1> QED
  BY <1>5, <1>6 DEF Cheapest

-----------------------------------------------------------------------------
(* available lists the vehicles that may exchange their trips, each once.  *)
Listing ==
  pc \in {"rows", "search", "augment"} \/ assigned # NoPlan =>
    /\ Size = Seats
    /\ \A i \in Columns : available[i] \in Others
    /\ \A i, j \in Columns : available[i] = available[j] => i = j
    /\ \A c \in Others : \E i \in Columns : available[i] = c

LEMMA ListingStep ==
  ASSUME IInv, Listing, [Next]_vars
  PROVE  Listing'
<1>1. ASSUME UNCHANGED problem,
             pc' \in {"rows", "search", "augment"} \/ assigned' # NoPlan =>
               pc \in {"rows", "search", "augment"} \/ assigned # NoPlan
      PROVE  Listing'
  <2>1. arrival' = arrival /\ departure' = departure /\ available' = available
    BY <1>1 DEF problem
  <2>2. Others' = Others
    BY <2>1 DEF Others, Protected, Delay
  <2>3. Seats' = Seats /\ Size' = Size /\ Columns' = Columns
    BY <2>1, <2>2 DEF Seats, Size, Columns
  <2> QED
    BY <1>1, <2>1, <2>2, <2>3 DEF Listing
<1>2. CASE Start
  <2> DEFINE n == Len(Unprotected)
  <2>1. available' = Unprotected /\ Size' = n /\ Columns' = 1..n
    BY <1>2 DEF Start, Size, Columns
  <2>2. Others' = Others /\ Seats' = Seats
    BY <1>2 DEF Start, Others, Seats, Protected, Delay
  <2>3. n = Seats /\ n \in Nat /\ Unprotected \in [1..n -> Others] /\ Increasing(Unprotected)
    <3>1. /\ n = Cardinality(Vehicles \ Protected) /\ n \in 0..VehicleCount
          /\ Unprotected \in [1..n -> Vehicles \ Protected] /\ Increasing(Unprotected)
      BY UnprotectedFacts
    <3>2. n \in Nat
      BY <3>1, OptimizerAssumption
    <3> QED
      BY <3>1, <3>2, Zenon DEF Seats, Others
  <2> HIDE DEF n
  <2>4. ASSUME NEW i \in 1..n, NEW j \in 1..n, Unprotected[i] = Unprotected[j] PROVE i = j
    <3>1. Unprotected[i] \in Int /\ Unprotected[j] \in Int
      BY <2>3, OptimizerAssumption DEF Others, Vehicles
    <3>2. ~(i < j) /\ ~(j < i)
      BY <2>3, <2>4, <3>1 DEF Increasing
    <3> QED
      BY <2>3, <3>2
  <2>5. Unprotected \in Injection(1..n, Others)
    BY <2>3, <2>4 DEF Injection, IsInjective
  <2>6. Cardinality(1..n) = Cardinality(Others)
    BY <2>3, FS_Interval DEF Seats
  <2>7. Unprotected \in Surjection(1..n, Others)
    BY <2>5, <2>6, FS_Injection, OthersFinite
  <2>8. \A c \in Others : \E i \in 1..n : Unprotected[i] = c
    BY <2>7 DEF Surjection
  <2> QED
    BY <2>1, <2>2, <2>3, <2>4, <2>8 DEF Listing
<1>3. CASE Refuse
  BY <1>1, <1>3 DEF Refuse
<1>4. CASE NextRow
  BY <1>1, <1>4 DEF NextRow
<1>5. CASE Search
  BY <1>1, <1>5 DEF Search, Grow
<1>6. CASE Augment
  BY <1>1, <1>6 DEF Augment
<1>7. CASE Decide
  BY <1>1, <1>7 DEF Decide
<1>8. CASE TakeGroup
  BY <1>1, <1>8 DEF TakeGroup
<1>9. CASE Return
  BY <1>1, <1>9 DEF Return
<1>10. CASE UNCHANGED vars
  BY <1>1, <1>10 DEF vars
<1> QED
  BY <1>2, <1>3, <1>4, <1>5, <1>6, <1>7, <1>8, <1>9, <1>10 DEF Next

(* When the rows are assigned the matching is a permutation.               *)
LEMMA FinalMatching ==
  ASSUME IInv, pc = "rows", row = Size
  PROVE  /\ \A j \in Columns : matchedRow[j] \in Columns
         /\ \A j, k \in Columns : matchedRow[j] = matchedRow[k] => j = k
         /\ \A j \in Columns :
              rowPotential[matchedRow[j]] + columnPotential[j] = costs[matchedRow[j]][j]
<1>1. Settled = Columns /\ Matching /\ Size \in Nat /\ Columns = 1..Size
  BY LineTypes DEF Settled, IInv, Certified, Columns
<1>2. ASSUME NEW j \in Columns PROVE matchedRow[j] # 0
  <2> SUFFICES ASSUME matchedRow[j] = 0 PROVE FALSE
    OBVIOUS
  <2> DEFINE place == [i \in Columns |-> CHOOSE k \in Columns : matchedRow[k] = i]
  <2>1. \A i \in Columns : place[i] \in Columns \ {j} /\ matchedRow[place[i]] = i
    <3> SUFFICES ASSUME NEW i \in Columns
                 PROVE  place[i] \in Columns \ {j} /\ matchedRow[place[i]] = i
      OBVIOUS
    <3>1. \E k \in Columns : matchedRow[k] = i
      BY <1>1 DEF Matching
    <3>2. place[i] \in Columns /\ matchedRow[place[i]] = i /\ i # 0
      BY <1>1, <3>1
    <3> QED
      BY <3>2
  <2>2. place \in [Columns -> Columns \ {j}]
    BY <2>1
  <2>3. IsFiniteSet(Columns) /\ Cardinality(Columns) = Size
    BY <1>1, FS_Interval
  <2>4. IsFiniteSet(Columns \ {j}) /\ Cardinality(Columns \ {j}) = Size - 1
    BY <2>3, FS_RemoveElement
  <2>5. Cardinality(Columns \ {j}) < Cardinality(Columns)
    BY <1>1, <2>3, <2>4
  <2> HIDE DEF place
  <2>6. PICK i, k \in Columns : i # k /\ place[i] = place[k]
    BY <2>2, <2>3, <2>4, <2>5, FS_PigeonHole
  <2> QED
    BY <2>1, <2>6
<1>3. \A j \in Columns : matchedRow[j] \in Columns
  BY <1>2, LineTypes DEF IInv, TypeOK
<1>4. \A j, k \in Columns : matchedRow[j] = matchedRow[k] => j = k
  BY <1>1, <1>2 DEF Matching
<1>5. \A j \in Columns :
        rowPotential[matchedRow[j]] + columnPotential[j] = costs[matchedRow[j]][j]
  BY <1>2, CertifiedRows DEF PotentialsFeasible
<1> QED
  BY <1>3, <1>4, <1>5

(* The plan: the vehicle of the row that stands at the commitment's column.*)
Index(c) == CHOOSE j \in Columns : available[j] = c

LEMMA IndexFacts ==
  ASSUME Listing, pc = "rows", NEW c \in Others
  PROVE  Index(c) \in Columns /\ available[Index(c)] = c
<1>1. \E j \in Columns : available[j] = c
  BY DEF Listing
<1> QED
  BY <1>1 DEF Index

LEMMA ChosenFacts ==
  ASSUME IInv, Listing, pc = "rows", row = Size
  PROVE  /\ Chosen \in Assignments
         /\ \A c \in Others : /\ Chosen[c] \in Others
                              /\ Index(Chosen[c]) = matchedRow[Index(c)]
<1>1. ASSUME NEW c \in Others
      PROVE  /\ Chosen[c] = available[matchedRow[Index(c)]]
             /\ Chosen[c] \in Others /\ Index(Chosen[c]) = matchedRow[Index(c)]
  <2>1. Index(c) \in Columns /\ available[Index(c)] = c /\ c \in Vehicles
    BY IndexFacts DEF Others
  <2>2. Chosen[c] = available[matchedRow[Index(c)]]
    BY <2>1 DEF Chosen, Index
  <2>3. matchedRow[Index(c)] \in Columns
    BY <2>1, FinalMatching
  <2>4. Chosen[c] \in Others
    BY <2>2, <2>3 DEF Listing
  <2>5. Index(Chosen[c]) \in Columns /\ available[Index(Chosen[c])] = Chosen[c]
    BY <2>4, IndexFacts
  <2>6. Index(Chosen[c]) = matchedRow[Index(c)]
    BY <2>2, <2>3, <2>5 DEF Listing
  <2> QED
    BY <2>2, <2>4, <2>6
<1>2. ASSUME NEW c \in Protected PROVE Chosen[c] = c
  <2>1. c \in Vehicles /\ c \notin Others
    BY DEF Protected, Others
  <2>2. \A j \in Columns : available[j] # c
    BY <2>1 DEF Listing
  <2> QED
    BY <2>1, <2>2 DEF Chosen
<1>3. \A c \in Vehicles : c \in Others \/ c \in Protected
  BY DEF Others
<1>4. \A c \in Vehicles : Chosen[c] \in Vehicles
  BY <1>1, <1>2, <1>3 DEF Others
<1>5. Chosen \in [Vehicles -> Vehicles]
  BY <1>4 DEF Chosen
<1>6. ASSUME NEW c \in Vehicles, NEW d \in Vehicles, Chosen[c] = Chosen[d] PROVE c = d
  <2>1. CASE c \in Others /\ d \in Others
    <3>1. matchedRow[Index(c)] = matchedRow[Index(d)]
      BY <1>1, <1>6, <2>1
    <3>2. Index(c) \in Columns /\ Index(d) \in Columns
          /\ available[Index(c)] = c /\ available[Index(d)] = d
      BY <2>1, IndexFacts
    <3>3. Index(c) = Index(d)
      BY <3>1, <3>2, FinalMatching
    <3> QED
      BY <3>2, <3>3
  <2>2. CASE c \in Protected /\ d \in Protected
    BY <1>2, <1>6, <2>2
  <2>3. CASE c \in Others /\ d \in Protected
    BY <1>1, <1>2, <1>6, <2>3 DEF Others
  <2>4. CASE c \in Protected /\ d \in Others
    BY <1>1, <1>2, <1>6, <2>4 DEF Others
  <2> QED
    BY <1>3, <2>1, <2>2, <2>3, <2>4
<1>7. Chosen \in Assignments
  BY <1>2, <1>5, <1>6 DEF Assignments
<1> QED
  BY <1>1, <1>7

(* An assignment permutes the vehicles that may exchange their trips. *)
LEMMA AssignmentsPermute ==
  ASSUME NEW plan \in Assignments
  PROVE  /\ plan \in [Vehicles -> Vehicles]
         /\ \A c \in Others : plan[c] \in Others
         /\ {plan[c] : c \in Others} = Others
<1>1. /\ plan \in [Vehicles -> Vehicles] /\ \A c \in Protected : plan[c] = c
      /\ \A c, d \in Vehicles : plan[c] = plan[d] => c = d
  BY DEF Assignments
<1>2. \A c \in Others : plan[c] \in Others
  BY <1>1 DEF Others
<1> DEFINE p == [c \in Others |-> plan[c]]
<1>3. p \in Injection(Others, Others)
  BY <1>1, <1>2 DEF Injection, IsInjective, Others
<1>4. p \in Surjection(Others, Others)
  <2> HIDE DEF p
  <2> QED
    BY <1>3, FS_Injection, OthersFinite
<1>5. {plan[c] : c \in Others} = Others
  BY <1>2, <1>4 DEF Surjection
<1> QED
  BY <1>1, <1>2, <1>5

-----------------------------------------------------------------------------
(* What every assignment costs at least, by the potentials.                *)
Promised ==
  SumFunctionOnSet([c \in Vehicles |-> rowPotential[Index(c)]], Others)
    + SumFunctionOnSet([c \in Vehicles |-> columnPotential[Index(c)]], Others)

LEMMA PairsPromise ==
  ASSUME IInv, Listing, pc = "rows", row = Size,
         NEW plan \in Assignments, NEW c \in Others
  PROVE  /\ rowPotential[Index(c)] \in Int /\ columnPotential[Index(c)] \in Int
         /\ rowPotential[Index(plan[c])] \in Int
         /\ AssignmentCost(plan[c], c, Seats) \in Int
         /\ rowPotential[Index(plan[c])] + columnPotential[Index(c)]
              <= AssignmentCost(plan[c], c, Seats)
         /\ plan = Chosen =>
              rowPotential[Index(plan[c])] + columnPotential[Index(c)]
                = AssignmentCost(plan[c], c, Seats)
<1> DEFINE i == Index(plan[c])
           j == Index(c)
<1>1. plan[c] \in Others
  BY AssignmentsPermute
<1>2. i \in Columns /\ j \in Columns /\ available[i] = plan[c] /\ available[j] = c
  BY <1>1, IndexFacts
<1>3. Size = Seats /\ 1..row = Columns
  BY DEF Listing, Columns
<1>4. /\ costs[i][j] \in Nat
      /\ costs[i][j] = AssignmentCost(available[i], available[j], Size)
  BY <1>2 DEF IInv, CostsInv
<1>5. /\ rowPotential[i] \in Int /\ rowPotential[j] \in Int /\ columnPotential[j] \in Int
  BY <1>2, LineTypes DEF IInv, TypeOK
<1>6. rowPotential[i] + columnPotential[j] <= costs[i][j]
  BY <1>2, <1>3, CertifiedRows DEF PotentialsFeasible
<1>7. plan = Chosen => rowPotential[i] + columnPotential[j] = costs[i][j]
  <2> SUFFICES ASSUME plan = Chosen PROVE rowPotential[i] + columnPotential[j] = costs[i][j]
    OBVIOUS
  <2>1. i = matchedRow[j]
    BY ChosenFacts
  <2>2. rowPotential[matchedRow[j]] + columnPotential[j] = costs[matchedRow[j]][j]
    BY <1>2, FinalMatching
  <2> QED
    BY <2>1, <2>2
<1>8. costs[i][j] = AssignmentCost(plan[c], c, Seats)
  BY <1>2, <1>3, <1>4
<1> HIDE DEF i, j
<1> QED
  BY <1>4, <1>5, <1>6, <1>7, <1>8 DEF i, j

LEMMA PromisesAddUp ==
  ASSUME IInv, Listing, pc = "rows", row = Size, NEW plan \in Assignments
  PROVE  /\ Promised \in Int /\ CostOn(plan, Others) \in Int
         /\ Promised <= CostOn(plan, Others)
         /\ plan = Chosen => Promised = CostOn(plan, Others)
<1> DEFINE rows == [c \in Vehicles |-> rowPotential[Index(c)]]
           columns == [c \in Vehicles |-> columnPotential[Index(c)]]
           moved == [c \in Vehicles |-> rowPotential[Index(plan[c])]]
           both == [c \in Vehicles |-> moved[c] + columns[c]]
           cost == [c \in Vehicles |-> AssignmentCost(plan[c], c, Seats)]
           p == [c \in Others |-> plan[c]]
           sum(f) == SumFunctionOnSet(f, Others)
<1>1. ASSUME NEW c \in Others
      PROVE  /\ rows[c] \in Int /\ columns[c] \in Int /\ moved[c] \in Int
             /\ both[c] \in Int /\ cost[c] \in Int
             /\ both[c] = moved[c] + columns[c] /\ both[c] <= cost[c]
             /\ plan = Chosen => cost[c] = both[c]
  <2>1. c \in Vehicles
    BY DEF Others
  <2> QED
    BY <2>1, PairsPromise
<1>2. /\ p \in [Others -> Others] /\ {p[c] : c \in Others} = Others
      /\ \A c, d \in Others : p[c] = p[d] => c = d
  <2>1. \A c, d \in Vehicles : plan[c] = plan[d] => c = d
    BY DEF Assignments
  <2> QED
    BY <2>1, AssignmentsPermute DEF Others
<1>3. \A c \in Others : moved[c] = rows[p[c]]
  BY <1>2 DEF Others
<1>4. Promised = sum(rows) + sum(columns) /\ CostOn(plan, Others) = sum(cost)
  BY DEF Promised, CostOn
<1>5. IsFiniteSet(Others)
  BY OthersFinite
<1> HIDE DEF rows, columns, moved, both, cost, p
<1>6. sum(moved) = sum(rows)
  <2>1. sum(moved) = SumFunctionOnSet(rows, {p[c] : c \in Others})
    BY <1>1, <1>2, <1>3, <1>5, SumReordered
  <2> QED
    BY <1>2, <2>1
<1>7. sum(both) = sum(moved) + sum(columns)
  BY <1>1, <1>5, SumPlus
<1>8. sum(both) <= sum(cost)
  BY <1>1, <1>5, SumMonotone
<1>9. plan = Chosen => sum(cost) = sum(both)
  BY <1>1, <1>5, SumEqual
<1>10. sum(rows) \in Int /\ sum(columns) \in Int /\ sum(cost) \in Int
  BY <1>1, <1>5, SumFacts
<1> HIDE DEF sum
<1> QED
  BY <1>4, <1>6, <1>7, <1>8, <1>9, <1>10

LEMMA ChosenIsCheapest ==
  ASSUME IInv, Listing, pc = "rows", row = Size
  PROVE  Cheapest(Chosen)
<1>1. Chosen \in Assignments
  BY ChosenFacts
<1>2. Promised = CostOn(Chosen, Others)
  BY <1>1, PromisesAddUp
<1>3. \A other \in Assignments : Promised <= CostOn(other, Others)
  BY PromisesAddUp
<1> QED
  BY <1>1, <1>2, <1>3 DEF Cheapest

-----------------------------------------------------------------------------
(* What is known of the plan: where there is one no assignment is cheaper, *)
(* and where none is returned a cheapest one was not worth its while.      *)
PlanInv ==
  /\ pc \in {"start", "rows", "search", "augment"} =>
       assigned = NoPlan /\ unvisited = {} /\ groups = <<>>
  /\ pc = "groups" => assigned # NoPlan
  /\ assigned # NoPlan => Cheapest(assigned)
  /\ pc = "done" /\ assigned = NoPlan => \E plan : Cheapest(plan) /\ ~Worthwhile(plan)

LEMMA ProblemKept ==
  ASSUME UNCHANGED <<arrival, departure>>
  PROVE  /\ UNCHANGED <<Others, Seats, Protected, Assignments>>
         /\ \A plan : /\ Cheapest(plan)' <=> Cheapest(plan)
                      /\ Worthwhile(plan)' <=> Worthwhile(plan)
<1>1. \A v, c : Delay(v, c)' = Delay(v, c) /\ Idle(v, c)' = Idle(v, c)
  BY DEF Delay, Idle
<1>2. Protected' = Protected
  BY <1>1 DEF Protected
<1>3. Others' = Others /\ Seats' = Seats /\ Assignments' = Assignments
  BY <1>2 DEF Others, Seats, Assignments
<1>4. \A plan : CostOn(plan, Others)' = CostOn(plan, Others)
  BY <1>1, <1>3 DEF CostOn, AssignmentCost
<1>5. \A plan : Cheapest(plan)' <=> Cheapest(plan)
  BY <1>3, <1>4 DEF Cheapest
<1>6. \A plan : Worthwhile(plan)' <=> Worthwhile(plan)
  BY <1>1 DEF Worthwhile, TotalDelay, Changed
<1> QED
  BY <1>2, <1>3, <1>5, <1>6

LEMMA PlanInvInit == Init => Listing /\ PlanInv
  BY DEF Init, Listing, PlanInv

LEMMA PlanInvStep == IInv /\ Listing /\ PlanInv /\ [Next]_vars => PlanInv'
<1> SUFFICES ASSUME IInv, Listing, PlanInv, [Next]_vars PROVE PlanInv'
  OBVIOUS
<1>1. ASSUME UNCHANGED <<arrival, departure, assigned>>,
             pc' \in {"rows", "search", "augment"} =>
               /\ pc \in {"start", "rows", "search", "augment"}
               /\ UNCHANGED <<unvisited, groups>>,
             pc' = "groups" => pc = "groups",
             pc' # "start",
             pc' = "done" => pc = "groups"
      PROVE  PlanInv'
  <2>1. \A plan : Cheapest(plan)' <=> Cheapest(plan)
    BY <1>1, ProblemKept
  <2>2. assigned' # NoPlan => Cheapest(assigned)'
    BY <1>1, <2>1 DEF PlanInv
  <2> QED
    BY <1>1, <2>2 DEF PlanInv
<1>2. CASE Refuse
  <2>1. UNCHANGED <<arrival, departure>> /\ pc' = "done" /\ assigned' = NoPlan
    BY <1>2 DEF Refuse, problem, PlanInv
  <2>2. PICK plan : Cheapest(plan)
    BY CheapestExists DEF IInv
  <2>3. ~Worthwhile(plan)
    <3>1. \A c \in Changed(plan) : Delay(c, c) <= DelayThreshold
      BY <1>2 DEF Refuse, Changed
    <3>2. \A c \in Changed(plan) : Delay(c, c) \in Nat /\ DelayThreshold \in Nat
      BY TimeTypes, OptimizerAssumption DEF IInv, TypeOK, Changed
    <3> QED
      BY <3>1, <3>2 DEF Worthwhile
  <2>4. Cheapest(plan)' /\ ~Worthwhile(plan)'
    BY <2>1, <2>2, <2>3, ProblemKept
  <2> QED
    BY <2>1, <2>4 DEF PlanInv
<1>3. CASE Start
  BY <1>1, <1>3 DEF Start, PlanInv
<1>4. CASE NextRow
  BY <1>1, <1>4 DEF NextRow, problem
<1>5. CASE Search
  BY <1>1, <1>5 DEF Search, Grow, problem
<1>6. CASE Augment
  BY <1>1, <1>6 DEF Augment, problem
<1>7. CASE Decide
  <2>1. pc = "rows" /\ row = Size /\ UNCHANGED <<arrival, departure>>
        /\ pc' \in {"groups", "done"} /\ assigned = NoPlan
    BY <1>7 DEF Decide, problem, PlanInv
  <2>2. PICK plan : plan = Chosen /\ Cheapest(plan)
    BY <2>1, ChosenIsCheapest
  <2>3. Cheapest(plan)' /\ (Worthwhile(plan)' <=> Worthwhile(plan))
    BY <2>1, <2>2, ProblemKept
  <2>4. CASE Worthwhile(Chosen)
    <3>1. assigned' = plan /\ pc' = "groups"
      BY <1>7, <2>2, <2>4 DEF Decide
    <3>2. plan # NoPlan
      BY <2>2, OptimizerAssumption DEF Cheapest, Assignments
    <3> QED
      BY <2>3, <3>1, <3>2 DEF PlanInv
  <2>5. CASE ~Worthwhile(Chosen)
    <3>1. assigned' = NoPlan /\ pc' = "done"
      BY <1>7, <2>1, <2>5 DEF Decide
    <3> QED
      BY <2>2, <2>3, <2>5, <3>1 DEF PlanInv
  <2> QED
    BY <2>4, <2>5
<1>8. CASE TakeGroup
  BY <1>1, <1>8 DEF TakeGroup, problem
<1>9. CASE Return
  BY <1>1, <1>9 DEF Return, problem
<1>10. CASE UNCHANGED vars
  <2>1. UNCHANGED <<arrival, departure, assigned, pc, unvisited, groups>>
    BY <1>10 DEF vars, problem
  <2>2. \A plan : (Cheapest(plan)' <=> Cheapest(plan)) /\ (Worthwhile(plan)' <=> Worthwhile(plan))
    BY <2>1, ProblemKept
  <2>3. assigned' # NoPlan => Cheapest(assigned)'
    BY <2>1, <2>2 DEF PlanInv
  <2> QED
    BY <2>1, <2>2, <2>3 DEF PlanInv
<1> QED
  BY <1>2, <1>3, <1>4, <1>5, <1>6, <1>7, <1>8, <1>9, <1>10 DEF Next

LEMMA PlanInvariance == Spec => [](IInv /\ Listing /\ PlanInv)
<1>1. Init => IInv /\ Listing /\ PlanInv
  BY InitIInv, PlanInvInit
<1>2. IInv /\ Listing /\ PlanInv /\ [Next]_vars => (IInv /\ Listing /\ PlanInv)'
  BY IInvStep, ListingStep, PlanInvStep
<1> QED
  BY <1>1, <1>2, PTL DEF Spec

LEMMA PlanInvIsBest == IInv /\ PlanInv => PlanIsBest
<1> SUFFICES ASSUME IInv, PlanInv PROVE PlanIsBest
  OBVIOUS
<1>1. TypeOK
  BY DEF IInv
<1>2. assigned # NoPlan => Best(assigned)
  BY <1>1, CheapestIsBest DEF PlanInv
<1>3. pc = "done" /\ assigned = NoPlan =>
        \E plan \in Assignments : ~Worthwhile(plan) /\ Best(plan)
  BY <1>1, CheapestIsBest DEF PlanInv, Cheapest
<1> QED
  BY <1>2, <1>3 DEF PlanIsBest, Best

(* The plan is a best assignment, whatever the vehicles, their hours and   *)
(* the thresholds; where none is returned a best one was not worthwhile.   *)
THEOREM PlanIsOptimal == Spec => []PlanIsBest
<1>1. IInv /\ Listing /\ PlanInv => PlanIsBest
  BY PlanInvIsBest
<1> QED
  BY <1>1, PlanInvariance, PTL

-----------------------------------------------------------------------------
(* The walk from a vehicle along an assignment: it is the only one.        *)
Walks(n, x, a, g) == g = [k \in 0..n |-> IF k = 0 THEN x ELSE a[g[k - 1]]]

LEMMA WalksUnique ==
  ASSUME NEW x, NEW a, NEW m \in Nat, NEW n \in Nat, NEW g, NEW h,
         Walks(m, x, a, g), Walks(n, x, a, h), NEW l \in Nat, l <= m, l <= n
  PROVE  g[l] = h[l]
<1> DEFINE P == {k \in Nat : k <= m /\ k <= n => g[k] = h[k]}
<1>1. 0 \in P
  BY DEF Walks
<1>2. ASSUME NEW k \in P PROVE k + 1 \in P
  <2> SUFFICES ASSUME k + 1 <= m, k + 1 <= n PROVE g[k + 1] = h[k + 1]
    OBVIOUS
  <2>1. k + 1 \in 0..m /\ k + 1 \in 0..n /\ k + 1 # 0 /\ (k + 1) - 1 = k
    OBVIOUS
  <2>2. g[k + 1] = a[g[k]] /\ h[k + 1] = a[h[k]]
    BY <2>1 DEF Walks
  <2>3. g[k] = h[k]
    OBVIOUS
  <2> QED
    BY <2>2, <2>3
<1>3. P = Nat
  <2> HIDE DEF P
  <2>1. P \in SUBSET Nat
    BY DEF P
  <2> QED
    BY <1>1, <1>2, <2>1, Induction
<1> QED
  BY <1>3

LEMMA WalksExists ==
  ASSUME NEW x, NEW a, NEW n \in Nat
  PROVE  \E g : Walks(n, x, a, g)
<1> DEFINE P == {k \in Nat : \E g : Walks(k, x, a, g)}
<1>1. 0 \in P
  <2> DEFINE g == [k \in 0..0 |-> x]
  <2>1. \A k \in 0..0 : k = 0
    OBVIOUS
  <2>2. g = [k \in 0..0 |-> IF k = 0 THEN x ELSE a[g[k - 1]]]
    BY <2>1
  <2> QED
    BY <2>2 DEF Walks
<1>2. ASSUME NEW k \in P PROVE k + 1 \in P
  <2>1. PICK g : Walks(k, x, a, g)
    OBVIOUS
  <2> DEFINE h == [l \in 0..(k + 1) |-> IF l = k + 1 THEN a[g[k]] ELSE g[l]]
  <2>2. ASSUME NEW l \in 0..(k + 1)
        PROVE  h[l] = IF l = 0 THEN x ELSE a[h[l - 1]]
    <3>1. CASE l = 0
      <4>1. 0 \in 0..k /\ 0 # k + 1
        OBVIOUS
      <4>2. g[0] = x
        BY <2>1, <4>1 DEF Walks
      <4> QED
        BY <3>1, <4>1, <4>2
    <3>2. CASE l \in 1..k
      <4>1. l \in 0..k /\ l - 1 \in 0..(k + 1) /\ l # 0 /\ l # k + 1 /\ l - 1 # k + 1
        BY <3>2
      <4>2. g[l] = a[g[l - 1]]
        BY <2>1, <4>1 DEF Walks
      <4> QED
        BY <4>1, <4>2
    <3>3. CASE l = k + 1
      <4>1. l # 0 /\ l - 1 = k /\ k \in 0..(k + 1) /\ k # k + 1
        BY <3>3
      <4> QED
        BY <3>3, <4>1
    <3> QED
      BY <3>1, <3>2, <3>3
  <2>3. h = [l \in 0..(k + 1) |-> h[l]]
    OBVIOUS
  <2> HIDE DEF h
  <2>4. h = [l \in 0..(k + 1) |-> IF l = 0 THEN x ELSE a[h[l - 1]]]
    BY <2>2, <2>3
  <2>5. Walks(k + 1, x, a, h)
    BY <2>4 DEF Walks
  <2> QED
    BY <2>5
<1>3. P = Nat
  <2> HIDE DEF P
  <2>1. P \in SUBSET Nat
    BY DEF P
  <2> QED
    BY <1>1, <1>2, <2>1, Induction
<1> QED
  BY <1>3

LEMMA WalkExists ==
  ASSUME NEW x, NEW a
  PROVE  \E f : f = [n \in Nat |-> IF n = 0 THEN x ELSE a[f[n - 1]]]
<1> DEFINE part(n) == CHOOSE g : Walks(n, x, a, g)
           f == [n \in Nat |-> part(n)[n]]
<1>1. \A n \in Nat : Walks(n, x, a, part(n))
  BY WalksExists
<1> HIDE DEF part
<1>2. ASSUME NEW n \in Nat PROVE f[n] = IF n = 0 THEN x ELSE a[f[n - 1]]
  <2>0. f[n] = part(n)[n] /\ n \in 0..n
    OBVIOUS
  <2>1. part(n) = [k \in 0..n |-> IF k = 0 THEN x ELSE a[part(n)[k - 1]]]
    BY <1>1 DEF Walks
  <2>2. part(n)[n] = IF n = 0 THEN x ELSE a[part(n)[n - 1]]
    BY <2>0, <2>1
  <2>3. n # 0 => part(n)[n - 1] = f[n - 1]
    <3> SUFFICES ASSUME n # 0 PROVE part(n)[n - 1] = f[n - 1]
      OBVIOUS
    <3>1. n - 1 \in Nat /\ n - 1 <= n /\ n - 1 <= n - 1
      OBVIOUS
    <3>2. part(n)[n - 1] = part(n - 1)[n - 1]
      BY <1>1, <3>1, WalksUnique
    <3> QED
      BY <3>1, <3>2
  <2> QED
    BY <2>0, <2>2, <2>3
<1>3. f = [n \in Nat |-> f[n]]
  OBVIOUS
<1> HIDE DEF f
<1>4. f = [n \in Nat |-> IF n = 0 THEN x ELSE a[f[n - 1]]]
  BY <1>2, <1>3
<1> QED
  BY <1>4

(* How many vehicles a walk meets before it meets one again. *)
Closing(u, walk) ==
  Min({n \in 1..Cardinality(u) : walk[n] \notin u \ {walk[k] : k \in 0..(n - 1)}})

(* The walk of a one-to-one assignment comes back to where it began before *)
(* it meets another vehicle again.                                         *)
LEMMA WalkCloses ==
  ASSUME NEW u, IsFiniteSet(u), NEW a,
         \A c \in u : a[c] \in u, \A c, d \in u : a[c] = a[d] => c = d,
         NEW walk, walk[0] \in u, \A n \in Nat : walk[n + 1] = a[walk[n]],
         NEW length, length = Closing(u, walk)
  PROVE  /\ length \in Nat \ {0}
         /\ \A n \in Nat : walk[n] \in u
         /\ \A k, l \in 0..(length - 1) : walk[k] = walk[l] => k = l
         /\ walk[length] = walk[0]
<1>1. \A n \in Nat : walk[n] \in u
  <2> DEFINE P == {n \in Nat : walk[n] \in u}
  <2>1. 0 \in P
    OBVIOUS
  <2>2. ASSUME NEW n \in P PROVE n + 1 \in P
    OBVIOUS
  <2>3. P \in SUBSET Nat
    OBVIOUS
  <2>4. P = Nat
    <3> HIDE DEF P
    <3> QED
      BY <2>1, <2>2, <2>3, Induction
  <2> QED
    BY <2>4
<1> DEFINE c == Cardinality(u)
           Seen(n) == {walk[k] : k \in 0..(n - 1)}
           ends == {n \in 1..c : walk[n] \notin u \ Seen(n)}
<1>2. c \in Nat
  BY FS_CardinalityType
<1>3. ends # {}
  <2> DEFINE steps == [n \in 0..c |-> walk[n]]
  <2>1. steps \in [0..c -> u]
    BY <1>1, <1>2
  <2>2. IsFiniteSet(0..c) /\ Cardinality(0..c) = c + 1
    <3>1. 0 \in Int /\ c \in Int /\ ~(0 > c) /\ c - 0 + 1 = c + 1
      BY <1>2
    <3> QED
      BY <3>1, FS_Interval
  <2>3. Cardinality(u) < Cardinality(0..c)
    BY <1>2, <2>2
  <2>4. PICK m, n \in 0..c : m # n /\ steps[m] = steps[n]
    <3> DEFINE S == 0..c
    <3>1. steps \in [S -> u] /\ IsFiniteSet(S) /\ Cardinality(u) < Cardinality(S)
      BY <2>1, <2>2, <2>3
    <3> HIDE DEF steps, S
    <3>2. \E m, n \in S : m # n /\ steps[m] = steps[n]
      BY <3>1, FS_PigeonHole
    <3> QED
      BY <3>2 DEF S
  <2>5. walk[m] = walk[n] /\ m \in Nat /\ n \in Nat
    BY <2>4
  <2>6. CASE m < n
    <3>1. m \in 0..(n - 1) /\ n \in 1..c
      BY <1>2, <2>5, <2>6
    <3>2. walk[n] \in Seen(n)
      BY <2>5, <3>1
    <3> QED
      BY <3>1, <3>2
  <2>7. CASE n < m
    <3>1. n \in 0..(m - 1) /\ m \in 1..c
      BY <1>2, <2>5, <2>7
    <3>2. walk[m] \in Seen(m)
      BY <2>5, <3>1
    <3> QED
      BY <3>1, <3>2
  <2> QED
    BY <2>4, <2>5, <2>6, <2>7
<1>4. ends \in SUBSET Nat
  BY <1>2
<1>5. length \in ends /\ \A n \in ends : length <= n
  <2>1. length = Min(ends)
    BY DEF Closing
  <2>2. Min(ends) \in ends /\ \A n \in ends : Min(ends) <= n
    <3> HIDE DEF ends
    <3> QED
      BY <1>3, <1>4, MinOfNaturals
  <2> QED
    BY <2>1, <2>2, Zenon
<1>6. length \in 1..c /\ length \in Nat \ {0} /\ walk[length] \in Seen(length)
  <2>1. length \in 1..c /\ walk[length] \notin u \ Seen(length)
    BY <1>5, Zenon
  <2>2. length \in Nat \ {0}
    <3> HIDE DEF c
    <3> QED
      BY <1>2, <2>1
  <2>3. walk[length] \in u
    BY <1>1, <2>2
  <2> QED
    BY <2>1, <2>2, <2>3
<1>7. ASSUME NEW k \in 0..(length - 1), NEW l \in 0..(length - 1), k < l
      PROVE  walk[k] # walk[l]
  <2>1. l \in 1..c /\ l < length /\ l \in Nat
    BY <1>2, <1>6, <1>7
  <2>2. l \notin ends
    BY <1>5, <1>6, <2>1
  <2>3. walk[l] \notin Seen(l)
    BY <2>1, <2>2
  <2>4. k \in 0..(l - 1)
    BY <1>6, <1>7, <2>1
  <2> QED
    BY <2>3, <2>4
<1>8. \A k, l \in 0..(length - 1) : walk[k] = walk[l] => k = l
  <2> SUFFICES ASSUME NEW k \in 0..(length - 1), NEW l \in 0..(length - 1), walk[k] = walk[l]
               PROVE  k = l
    OBVIOUS
  <2>1. ~(k < l) /\ ~(l < k)
    BY <1>7
  <2> QED
    BY <1>6, <2>1
<1>9. PICK i \in 0..(length - 1) : walk[length] = walk[i]
  BY <1>6
<1>10. i = 0
  <2> SUFFICES ASSUME i # 0 PROVE FALSE
    OBVIOUS
  <2>1. /\ i - 1 \in Nat /\ length - 1 \in Nat /\ (i - 1) + 1 = i /\ (length - 1) + 1 = length
        /\ i - 1 \in 0..(length - 1) /\ length - 1 \in 0..(length - 1) /\ i - 1 # length - 1
    BY <1>6
  <2>2. walk[i] = a[walk[i - 1]] /\ walk[length] = a[walk[length - 1]]
    BY <2>1
  <2>3. walk[i - 1] = walk[length - 1]
    BY <1>1, <1>9, <2>1, <2>2
  <2> QED
    BY <1>8, <2>1, <2>3
<1> QED
  BY <1>1, <1>6, <1>8, <1>9, <1>10

-----------------------------------------------------------------------------
(* A group: the plan gives every trip of it to a vehicle of it.            *)
Cycle(plan, open, group) ==
  /\ group # <<>>
  /\ \A k \in 1..Len(group) :
       /\ group[k] \in Changed(plan) \ open
       /\ \E l \in 1..Len(group) : plan[group[k]] = group[l]
       /\ \E l \in 1..Len(group) : plan[group[l]] = group[k]

(* The groups built so far: a changed commitment is still to be visited or *)
(* stands in one place of one group, and the plan stays within a group.    *)
Grouped(plan, open, list) ==
  /\ open \subseteq Changed(plan) /\ \A c \in open : plan[c] \in open
  /\ list \in Seq(Seq(Vehicles))
  /\ \A g \in 1..Len(list) : Cycle(plan, open, list[g])
  /\ \A g, h \in 1..Len(list) : \A k \in 1..Len(list[g]), l \in 1..Len(list[h]) :
       list[g][k] = list[h][l] => g = h /\ k = l
  /\ \A c \in Changed(plan) \ open :
       \E g \in 1..Len(list) : \E k \in 1..Len(list[g]) : list[g][k] = c

GroupInv ==
  /\ pc # "error" /\ (pc = "done" => unvisited = {})
  /\ IF assigned = NoPlan THEN groups = <<>> ELSE Grouped(assigned, unvisited, groups)

LEMMA GroupAdded ==
  ASSUME NEW plan \in Assignments, NEW open, NEW list, Grouped(plan, open, list),
         NEW group \in Seq(Vehicles), group # <<>>,
         \A k \in 1..Len(group) : group[k] \in open,
         \A k, l \in 1..Len(group) : group[k] = group[l] => k = l,
         \A k \in 1..Len(group) : \E l \in 1..Len(group) : plan[group[k]] = group[l],
         \A l \in 1..Len(group) : \E k \in 1..Len(group) : plan[group[k]] = group[l]
  PROVE  Grouped(plan, open \ Trips(group), Append(list, group))
<1> DEFINE n == Len(list)
           longer == Append(list, group)
<1>0. n \in Nat /\ n = Len(list)
  BY DEF Grouped
<1>1. /\ list \in Seq(Seq(Vehicles)) /\ Len(group) \in Nat
      /\ longer \in Seq(Seq(Vehicles)) /\ Len(longer) = n + 1
      /\ \A g \in 1..n : longer[g] = list[g]
      /\ longer[n + 1] = group
  BY DEF Grouped
<1>2. 1..(n + 1) = 1..n \cup {n + 1} /\ n + 1 \notin 1..n
  <2> HIDE DEF n
  <2> QED
    BY <1>0
<1> HIDE DEF n, longer
<1>3. open \ Trips(group) \subseteq Changed(plan)
  BY DEF Grouped
<1>4. ASSUME NEW c \in open \ Trips(group) PROVE plan[c] \in open \ Trips(group)
  <2>1. plan[c] \in open
    BY DEF Grouped
  <2>2. plan[c] \notin Trips(group)
    <3> SUFFICES ASSUME NEW l \in 1..Len(group), plan[c] = group[l] PROVE FALSE
      BY DEF Trips
    <3>1. PICK k \in 1..Len(group) : plan[group[k]] = group[l]
      OBVIOUS
    <3>2. c \in Vehicles /\ group[k] \in Vehicles /\ group[k] \in Trips(group)
      BY DEF Grouped, Changed, Trips
    <3>3. \A v, w \in Vehicles : plan[v] = plan[w] => v = w
      BY DEF Assignments
    <3>4. plan[c] = plan[group[k]]
      BY <3>1
    <3>5. c = group[k]
      BY <3>2, <3>3, <3>4
    <3> QED
      BY <3>2, <3>5
  <2> QED
    BY <2>1, <2>2
<1>5. ASSUME NEW g \in 1..(n + 1) PROVE Cycle(plan, open \ Trips(group), longer[g])
  <2>1. CASE g \in 1..n
    <3>1. Cycle(plan, open, list[g])
      BY <1>0, <2>1 DEF Grouped
    <3>2. Cycle(plan, open \ Trips(group), list[g])
      BY <3>1 DEF Cycle
    <3> QED
      BY <1>1, <2>1, <3>2
  <2>2. CASE g = n + 1
    <3>1. \A k \in 1..Len(group) : group[k] \in Changed(plan) /\ group[k] \in Trips(group)
      BY DEF Grouped, Trips
    <3>2. Cycle(plan, open \ Trips(group), group)
      BY <3>1 DEF Cycle
    <3> QED
      BY <1>1, <2>2, <3>2
  <2> QED
    BY <1>2, <2>1, <2>2
<1>6. ASSUME NEW g \in 1..(n + 1), NEW h \in 1..(n + 1),
             NEW k \in 1..Len(longer[g]), NEW l \in 1..Len(longer[h]),
             longer[g][k] = longer[h][l]
      PROVE  g = h /\ k = l
  <2>1. \A f \in 1..n : \A m \in 1..Len(longer[f]) : longer[f][m] \notin open
    <3>1. \A f \in 1..n : Cycle(plan, open, list[f]) /\ longer[f] = list[f]
      BY <1>0, <1>1 DEF Grouped
    <3> QED
      BY <3>1 DEF Cycle
  <2>2. \A m \in 1..Len(longer[n + 1]) : longer[n + 1][m] \in open
    BY <1>1
  <2>3. CASE g \in 1..n /\ h \in 1..n
    <3>1. longer[g] = list[g] /\ longer[h] = list[h]
      BY <1>1, <2>3
    <3> QED
      BY <1>0, <1>6, <2>3, <3>1 DEF Grouped
  <2>4. CASE g = n + 1 /\ h = n + 1
    BY <1>1, <1>6, <2>4
  <2>5. CASE g \in 1..n /\ h = n + 1
    BY <1>6, <2>1, <2>2, <2>5
  <2>6. CASE g = n + 1 /\ h \in 1..n
    BY <1>6, <2>1, <2>2, <2>6
  <2> QED
    BY <1>2, <2>3, <2>4, <2>5, <2>6
<1>7. ASSUME NEW c \in Changed(plan) \ (open \ Trips(group))
      PROVE  \E g \in 1..(n + 1) : \E k \in 1..Len(longer[g]) : longer[g][k] = c
  <2>1. CASE c \in open
    <3>1. PICK k \in 1..Len(group) : group[k] = c
      BY <2>1 DEF Trips
    <3> QED
      BY <1>1, <1>2, <3>1
  <2>2. CASE c \notin open
    <3>1. PICK g \in 1..n : \E k \in 1..Len(list[g]) : list[g][k] = c
      BY <1>0, <2>2 DEF Grouped
    <3>2. longer[g] = list[g] /\ g \in 1..(n + 1)
      BY <1>1, <1>2
    <3> QED
      BY <3>1, <3>2
  <2> QED
    BY <2>1, <2>2
<1>8. Grouped(plan, open \ Trips(group), longer)
  <2>1. 1..Len(longer) = 1..(n + 1)
    BY <1>1
  <2>2. longer \in Seq(Seq(Vehicles))
    BY <1>1
  <2> QED
    BY <1>3, <1>4, <1>5, <1>6, <1>7, <2>1, <2>2, Zenon DEF Grouped
<1> QED
  BY <1>8 DEF longer

LEMMA TakeGroupStep ==
  ASSUME IInv, PlanInv, GroupInv, TakeGroup
  PROVE  GroupInv'
<1> DEFINE walk[n \in Nat] == IF n = 0 THEN Min(unvisited) ELSE assigned[walk[n - 1]]
           seen(n) == {walk[k] : k \in 0..(n - 1)}
           length == Min({n \in 1..Cardinality(unvisited) : walk[n] \notin unvisited \ seen(n)})
           group == [k \in 1..length |-> walk[k - 1]]
<1>1. /\ pc = "groups" /\ unvisited # {} /\ assigned' = assigned
      /\ unvisited' = unvisited \ seen(length)
      /\ IF walk[length] = walk[0]
         THEN groups' = Append(groups, group) /\ pc' = pc
         ELSE pc' = "error" /\ groups' = groups
  BY DEF TakeGroup
<1>2. /\ assigned # NoPlan /\ Grouped(assigned, unvisited, groups)
      /\ assigned \in Assignments
  BY <1>1 DEF PlanInv, GroupInv, Cheapest
<1>3. walk = [n \in Nat |-> IF n = 0 THEN Min(unvisited) ELSE assigned[walk[n - 1]]]
  BY WalkExists
<1> HIDE DEF walk
<1>4. walk[0] = Min(unvisited) /\ \A n \in Nat : walk[n + 1] = assigned[walk[n]]
  <2>1. 0 \in Nat /\ \A n \in Nat : n + 1 \in Nat /\ n + 1 # 0 /\ (n + 1) - 1 = n
    OBVIOUS
  <2> QED
    BY <1>3, <2>1
<1>5. unvisited \in SUBSET Vehicles /\ unvisited \in SUBSET Nat /\ IsFiniteSet(unvisited)
  <2>1. unvisited \in SUBSET Vehicles /\ Vehicles \in SUBSET Nat
    BY <1>2 DEF Grouped, Changed, Vehicles
  <2> QED
    BY <2>1, OthersFinite, FS_Subset
<1>6. walk[0] \in unvisited
  BY <1>1, <1>4, <1>5, MinOfNaturals
<1>7. /\ \A c \in unvisited : assigned[c] \in unvisited
      /\ \A c, d \in unvisited : assigned[c] = assigned[d] => c = d
  BY <1>2, <1>5 DEF Grouped, Assignments
<1>8. length = Closing(unvisited, walk)
  BY DEF Closing
<1> HIDE DEF length
<1>9. /\ length \in Nat \ {0}
      /\ \A n \in Nat : walk[n] \in unvisited
      /\ \A k, l \in 0..(length - 1) : walk[k] = walk[l] => k = l
      /\ walk[length] = walk[0]
  <2>1. \A n \in Nat : walk[n + 1] = assigned[walk[n]]
    BY <1>4, Zenon
  <2>2. IsFiniteSet(unvisited)
    BY <1>5
  <2> QED
    BY <1>6, <1>7, <1>8, <2>1, <2>2, WalkCloses
<1>10. /\ group \in Seq(Vehicles) /\ group # <<>> /\ Len(group) = length
       /\ \A k \in 1..length : group[k] = walk[k - 1] /\ group[k] \in unvisited
  <2>0. length \in Nat /\ \A n \in Nat : walk[n] \in Vehicles
    BY <1>5, <1>9
  <2>1. \A k \in 1..length : k - 1 \in Nat /\ walk[k - 1] \in Vehicles
    <3> SUFFICES ASSUME NEW k \in 1..length PROVE k - 1 \in Nat /\ walk[k - 1] \in Vehicles
      OBVIOUS
    <3>1. k - 1 \in Nat
      BY <2>0
    <3> QED
      BY <2>0, <3>1
  <2>2. group \in [1..length -> Vehicles]
    BY <2>1
  <2>3. \A k \in 1..length : group[k] = walk[k - 1] /\ group[k] \in unvisited
    BY <1>9, <2>1
  <2> HIDE DEF group
  <2> QED
    BY <1>9, <2>2, <2>3
<1> HIDE DEF group
<1>11. \A k, l \in 1..length : group[k] = group[l] => k = l
  <2> SUFFICES ASSUME NEW k \in 1..length, NEW l \in 1..length, group[k] = group[l]
               PROVE  k = l
    OBVIOUS
  <2>1. k - 1 \in 0..(length - 1) /\ l - 1 \in 0..(length - 1) /\ walk[k - 1] = walk[l - 1]
    BY <1>9, <1>10
  <2>2. k - 1 = l - 1
    BY <1>9, <2>1
  <2> QED
    BY <1>9, <2>2
<1>12. ASSUME NEW k \in 1..length
       PROVE  assigned[group[k]] = group[IF k = length THEN 1 ELSE k + 1]
  <2>1. k - 1 \in Nat /\ (k - 1) + 1 = k
    BY <1>9
  <2>2. assigned[group[k]] = walk[k]
    BY <1>4, <1>10, <2>1
  <2>3. CASE k = length
    <3>1. 1 \in 1..length /\ 1 - 1 = 0
      BY <1>9
    <3> QED
      BY <1>9, <1>10, <2>2, <2>3, <3>1
  <2>4. CASE k # length
    <3>1. k + 1 \in 1..length /\ (k + 1) - 1 = k
      BY <1>9, <2>4
    <3> QED
      BY <1>10, <2>2, <2>4, <3>1
  <2> QED
    BY <2>3, <2>4
<1>13. \A k \in 1..length : \E l \in 1..length : assigned[group[k]] = group[l]
  <2> SUFFICES ASSUME NEW k \in 1..length
               PROVE  \E l \in 1..length : assigned[group[k]] = group[l]
    OBVIOUS
  <2>1. (IF k = length THEN 1 ELSE k + 1) \in 1..length
    BY <1>9
  <2> QED
    BY <1>12, <2>1
<1>14. \A l \in 1..length : \E k \in 1..length : assigned[group[k]] = group[l]
  <2> SUFFICES ASSUME NEW l \in 1..length
               PROVE  \E k \in 1..length : assigned[group[k]] = group[l]
    OBVIOUS
  <2> DEFINE k == IF l = 1 THEN length ELSE l - 1
  <2>1. k \in 1..length /\ (IF k = length THEN 1 ELSE k + 1) = l
    BY <1>9
  <2> HIDE DEF k
  <2> QED
    BY <1>12, <2>1
<1>15. seen(length) = Trips(group)
  <2>1. \A c \in seen(length) : c \in Trips(group)
    <3> SUFFICES ASSUME NEW i \in 0..(length - 1)
                 PROVE  walk[i] \in Trips(group)
      OBVIOUS
    <3>1. i + 1 \in 1..length /\ (i + 1) - 1 = i
      BY <1>9
    <3>2. group[i + 1] = walk[i]
      BY <1>10, <3>1
    <3> QED
      BY <1>10, <3>1, <3>2 DEF Trips
  <2>2. \A k \in 1..length : group[k] \in seen(length)
    <3> SUFFICES ASSUME NEW k \in 1..length PROVE group[k] \in seen(length)
      OBVIOUS
    <3>1. k - 1 \in 0..(length - 1)
      BY <1>9
    <3> QED
      BY <1>10, <3>1
  <2> QED
    BY <1>10, <2>1, <2>2 DEF Trips
<1>16. /\ pc' = "groups" /\ assigned' = assigned /\ groups' = Append(groups, group)
       /\ unvisited' = unvisited \ Trips(group)
  BY <1>1, <1>9, <1>15
<1>17. Grouped(assigned, unvisited \ Trips(group), Append(groups, group))
  <2>1. /\ group \in Seq(Vehicles) /\ group # <<>>
        /\ \A k \in 1..Len(group) : group[k] \in unvisited
        /\ \A k, l \in 1..Len(group) : group[k] = group[l] => k = l
        /\ \A k \in 1..Len(group) : \E l \in 1..Len(group) : assigned[group[k]] = group[l]
        /\ \A l \in 1..Len(group) : \E k \in 1..Len(group) : assigned[group[k]] = group[l]
    BY <1>10, <1>11, <1>13, <1>14
  <2> QED
    BY <1>2, <2>1, GroupAdded
<1>18. Grouped(assigned', unvisited', groups')
  BY <1>16, <1>17
<1> QED
  BY <1>2, <1>16, <1>18 DEF GroupInv

-----------------------------------------------------------------------------
(* The groups stay cycles of the plan until nothing is left to visit.      *)
LEMMA GroupInvInit == Init => GroupInv
  BY DEF Init, GroupInv

LEMMA GroupInvStep == IInv /\ Listing /\ PlanInv /\ GroupInv /\ [Next]_vars => GroupInv'
<1> SUFFICES ASSUME IInv, Listing, PlanInv, GroupInv, [Next]_vars PROVE GroupInv'
  OBVIOUS
<1>1. ASSUME UNCHANGED <<assigned, unvisited, groups>>, pc' # "error",
             pc' = "done" => unvisited = {}
      PROVE  GroupInv'
  BY <1>1 DEF GroupInv
<1>2. CASE Refuse
  BY <1>1, <1>2 DEF Refuse, PlanInv
<1>3. CASE Start
  BY <1>1, <1>3 DEF Start
<1>4. CASE NextRow
  BY <1>1, <1>4 DEF NextRow
<1>5. CASE Search
  BY <1>1, <1>5 DEF Search, Grow
<1>6. CASE Augment
  BY <1>1, <1>6 DEF Augment
<1>7. CASE Decide
  <2>1. /\ pc = "rows" /\ row = Size /\ groups' = groups /\ groups = <<>>
        /\ unvisited = {} /\ assigned = NoPlan
    BY <1>7 DEF Decide, PlanInv
  <2>2. CASE Worthwhile(Chosen)
    <3>1. /\ assigned' = Chosen /\ unvisited' = Changed(Chosen) /\ pc' = "groups"
          /\ groups' = <<>>
      BY <1>7, <2>1, <2>2 DEF Decide
    <3>2. Chosen \in Assignments /\ Chosen # NoPlan
      BY <2>1, ChosenFacts, OptimizerAssumption DEF Assignments
    <3>3. ASSUME NEW c \in Changed(Chosen) PROVE Chosen[c] \in Changed(Chosen)
      <4>1. c \in Vehicles /\ Chosen[c] \in Vehicles /\ Chosen[c] # c
        BY <3>2 DEF Changed, Assignments
      <4>2. Chosen[Chosen[c]] # Chosen[c]
        BY <3>2, <4>1 DEF Assignments
      <4> QED
        BY <4>1, <4>2 DEF Changed
    <3>4. <<>> \in Seq(Seq(Vehicles)) /\ 1..Len(<<>>) = {}
      OBVIOUS
    <3>5. Grouped(Chosen, Changed(Chosen), <<>>)
      BY <3>3, <3>4, Zenon DEF Grouped
    <3>6. Grouped(assigned', unvisited', groups')
      BY <3>1, <3>5
    <3> QED
      BY <3>1, <3>2, <3>6 DEF GroupInv
  <2>3. CASE ~Worthwhile(Chosen)
    BY <1>1, <1>7, <2>1, <2>3 DEF Decide
  <2> QED
    BY <2>2, <2>3
<1>8. CASE TakeGroup
  BY <1>8, TakeGroupStep
<1>9. CASE Return
  BY <1>1, <1>9 DEF Return
<1>10. CASE UNCHANGED vars
  BY <1>1, <1>10 DEF vars, GroupInv
<1> QED
  BY <1>2, <1>3, <1>4, <1>5, <1>6, <1>7, <1>8, <1>9, <1>10 DEF Next

LEMMA GroupInvariance == Spec => [](IInv /\ Listing /\ PlanInv /\ GroupInv)
<1>1. Init => GroupInv
  BY GroupInvInit
<1>2. IInv /\ Listing /\ PlanInv /\ GroupInv /\ [Next]_vars => GroupInv'
  BY GroupInvStep
<1> QED
  BY <1>1, <1>2, PlanInvariance, PTL DEF Spec

(* What is known of each group once there is a plan.                       *)
LEMMA GroupFacts ==
  ASSUME Listing, PlanInv, GroupInv, assigned # NoPlan, NEW g \in 1..Len(groups)
  PROVE  /\ Len(groups[g]) \in 1..Size
         /\ Trips(groups[g]) \in SUBSET Others /\ Trips(groups[g]) # {}
         /\ Trips(groups[g]) \subseteq Changed(assigned)
         /\ {assigned[c] : c \in Trips(groups[g])} = Trips(groups[g])
         /\ Cardinality(Trips(groups[g])) = Len(groups[g])
<1> DEFINE group == groups[g]
           n == Len(group)
<1>1. /\ Grouped(assigned, unvisited, groups) /\ assigned \in Assignments /\ Size = Seats
  BY DEF GroupInv, PlanInv, Cheapest, Listing
<1>2. group \in Seq(Vehicles) /\ Cycle(assigned, unvisited, group)
  BY <1>1 DEF Grouped
<1>3. \A k, l \in 1..n : group[k] = group[l] => k = l
  BY <1>1 DEF Grouped
<1> HIDE DEF group
<1>4. n \in Nat /\ n # 0 /\ n = Len(group)
  BY <1>2 DEF Cycle
<1> HIDE DEF n
<1>5. Trips(group) \subseteq Changed(assigned)
  BY <1>2 DEF Cycle, Trips
<1>6. Changed(assigned) \subseteq Others
  BY <1>1 DEF Changed, Others, Assignments
<1>7. {assigned[c] : c \in Trips(group)} = Trips(group)
  <2>1. \A c \in Trips(group) : assigned[c] \in Trips(group)
    <3> SUFFICES ASSUME NEW k \in 1..Len(group) PROVE assigned[group[k]] \in Trips(group)
      BY DEF Trips
    <3>1. \E l \in 1..Len(group) : assigned[group[k]] = group[l]
      BY <1>2 DEF Cycle
    <3> QED
      BY <3>1 DEF Trips
  <2>2. \A c \in Trips(group) : \E d \in Trips(group) : assigned[d] = c
    <3> SUFFICES ASSUME NEW k \in 1..Len(group)
                 PROVE  \E d \in Trips(group) : assigned[d] = group[k]
      BY DEF Trips
    <3>1. \E l \in 1..Len(group) : assigned[group[l]] = group[k]
      BY <1>2 DEF Cycle
    <3> QED
      BY <3>1 DEF Trips
  <2> QED
    BY <2>1, <2>2
<1>8. Cardinality(Trips(group)) = n
  <2> DEFINE f == [k \in 1..n |-> group[k]]
  <2>1. f \in Bijection(1..n, Trips(group))
    BY <1>3, <1>4 DEF Bijection, Injection, IsInjective, Surjection, Trips
  <2>2. IsFiniteSet(1..n) /\ Cardinality(1..n) = n
    <3>1. n \in Int /\ 1 \in Int /\ ~(1 > n) /\ n - 1 + 1 = n
      BY <1>4
    <3> QED
      BY <3>1, FS_Interval
  <2>3. ExistsBijection(1..n, Trips(group))
    BY <2>1 DEF ExistsBijection
  <2> QED
    BY <2>2, <2>3, FS_Bijection
<1>9. Cardinality(Trips(group)) <= Seats
  BY <1>5, <1>6, OthersFinite, FS_Subset DEF Seats
<1>10. n \in 1..Size
  BY <1>1, <1>4, <1>8, <1>9, OthersFinite
<1>11. Trips(group) # {}
  <2>1. 1 \in 1..Len(group)
    BY <1>4
  <2> QED
    BY <2>1 DEF Trips
<1> QED
  BY <1>4, <1>5, <1>6, <1>7, <1>8, <1>10, <1>11 DEF group

LEMMA GroupInvClosed == Listing /\ PlanInv /\ GroupInv => GroupsClosed
<1> SUFFICES ASSUME Listing, PlanInv, GroupInv PROVE GroupsClosed
  OBVIOUS
<1>1. pc # "error"
  BY DEF GroupInv
<1>2. ASSUME NEW g \in 1..Len(groups)
      PROVE  LET trips == Trips(groups[g])
             IN {assigned[c] : c \in trips} = trips /\ Cardinality(trips) = Len(groups[g])
  <2>1. assigned # NoPlan
    BY DEF GroupInv
  <2> QED
    BY <2>1, GroupFacts
<1>3. ASSUME pc = "done", assigned # NoPlan, NEW c \in Vehicles
      PROVE  Cardinality(Places(c)) = IF assigned[c] # c THEN 1 ELSE 0
  <2>1. Grouped(assigned, {}, groups)
    BY <1>3 DEF GroupInv
  <2>2. \A g \in 1..Len(groups) : Len(groups[g]) \in 1..Size
    BY <1>3, GroupFacts
  <2>3. \A g \in 1..Len(groups), k \in 1..Size :
          <<g, k>> \in Places(c) <=> k \in 1..Len(groups[g]) /\ groups[g][k] = c
    BY <2>2 DEF Places
  <2>4. \A p \in Places(c) : \E g \in 1..Len(groups), k \in 1..Size : p = <<g, k>>
    BY DEF Places
  <2>5. ASSUME assigned[c] # c PROVE Cardinality(Places(c)) = 1
    <3>1. PICK g \in 1..Len(groups) : \E k \in 1..Len(groups[g]) : groups[g][k] = c
      BY <2>1, <2>5 DEF Grouped, Changed
    <3>2. PICK k \in 1..Len(groups[g]) : groups[g][k] = c
      BY <3>1
    <3>3. \A h \in 1..Len(groups) : \A l \in 1..Len(groups[h]) :
            groups[h][l] = c => h = g /\ l = k
      BY <2>1, <3>2 DEF Grouped
    <3>4. k \in 1..Size
      <4>1. k \in 1..Len(groups[g]) /\ Len(groups[g]) \in 1..Size /\ Size \in Nat
        BY <1>3, <2>2, <3>2, OthersFinite DEF Listing
      <4> QED
        BY <4>1
    <3>5. Places(c) = {<<g, k>>}
      <4>1. <<g, k>> \in Places(c)
        BY <2>3, <3>2, <3>4
      <4>2. \A p \in Places(c) : p = <<g, k>>
        BY <2>3, <2>4, <3>3
      <4> QED
        BY <4>1, <4>2
    <3>6. Cardinality({<<g, k>>}) = 1
      BY FS_Singleton
    <3> QED
      BY <2>5, <3>5, <3>6
  <2>6. ASSUME assigned[c] = c PROVE Cardinality(Places(c)) = 0
    <3>1. \A g \in 1..Len(groups) : \A k \in 1..Len(groups[g]) : groups[g][k] # c
      <4>1. \A g \in 1..Len(groups) : Cycle(assigned, {}, groups[g])
        BY <2>1 DEF Grouped
      <4> QED
        <5> SUFFICES ASSUME NEW g \in 1..Len(groups), NEW k \in 1..Len(groups[g])
                     PROVE  groups[g][k] \in Changed(assigned)
          BY <2>6 DEF Changed
        <5> QED
          BY <4>1 DEF Cycle
    <3>2. Places(c) = {}
      BY <2>3, <2>4, <3>1
    <3> QED
      BY <2>6, <3>2, FS_EmptySet
  <2> QED
    BY <2>5, <2>6
<1>4. \A g \in 1..Len(groups) :
        LET trips == Trips(groups[g])
        IN {assigned[c] : c \in trips} = trips /\ Cardinality(trips) = Len(groups[g])
  BY <1>2, Zenon
<1> QED
  BY <1>1, <1>3, <1>4 DEF GroupsClosed

(* For any terminal, hours and thresholds: the groups partition what the   *)
(* plan changes into closed exchanges, and their error is never raised.    *)
THEOREM GroupsPartition == Spec => []GroupsClosed
<1>1. IInv /\ Listing /\ PlanInv /\ GroupInv => GroupsClosed
  BY GroupInvClosed
<1> QED
  BY <1>1, GroupInvariance, PTL

-----------------------------------------------------------------------------
(* A group that is not carried out leaves an assignment too, which is no   *)
(* cheaper than the plan: the group alone costs no more than being on time.*)
LEMMA GroupCosts ==
  ASSUME TypeOK, NEW plan, Cheapest(plan), NEW trips \in SUBSET Others,
         {plan[c] : c \in trips} = trips
  PROVE  CostOn(plan, trips) <= CostOn(OnTime, trips)
<1> DEFINE other == [c \in Vehicles |-> IF c \in trips THEN c ELSE plan[c]]
           rest == Others \ trips
           cost(p) == [c \in Vehicles |-> AssignmentCost(p[c], c, Seats)]
           sum(p, T) == SumFunctionOnSet(cost(p), T)
<1>1. /\ plan \in [Vehicles -> Vehicles] /\ \A c \in Protected : plan[c] = c
      /\ \A c, d \in Vehicles : plan[c] = plan[d] => c = d
  BY DEF Cheapest, Assignments
<1>2. trips \in SUBSET Vehicles /\ rest \in SUBSET Vehicles /\ trips \cap Protected = {}
  BY DEF Others
<1>3. other \in Assignments
  <2>1. other \in [Vehicles -> Vehicles]
    BY <1>1
  <2>2. \A c \in Protected : other[c] = c
    BY <1>1 DEF Protected
  <2>3. ASSUME NEW c \in trips, NEW d \in Vehicles \ trips PROVE c # plan[d]
    <3>1. PICK e \in trips : plan[e] = c
      OBVIOUS
    <3>2. e \in Vehicles /\ e # d
      BY <1>2
    <3> QED
      BY <1>1, <3>1, <3>2
  <2>4. ASSUME NEW c \in Vehicles, NEW d \in Vehicles, other[c] = other[d] PROVE c = d
    <3>1. CASE c \in trips /\ d \in trips
      BY <2>4, <3>1
    <3>2. CASE c \in trips /\ d \notin trips
      BY <2>3, <2>4, <3>2
    <3>3. CASE c \notin trips /\ d \in trips
      BY <2>3, <2>4, <3>3
    <3>4. CASE c \notin trips /\ d \notin trips
      BY <1>1, <2>4, <3>4
    <3> QED
      BY <3>1, <3>2, <3>3, <3>4
  <2> HIDE DEF other
  <2> QED
    BY <2>1, <2>2, <2>4 DEF Assignments
<1>4. CostOn(plan, Others) <= CostOn(other, Others)
  BY <1>3 DEF Cheapest
<1>5. OnTime \in [Vehicles -> Vehicles] /\ other \in [Vehicles -> Vehicles]
  BY <1>1 DEF OnTime
<1>6. /\ \A c \in rest : cost(other)[c] = cost(plan)[c]
      /\ \A c \in trips : cost(other)[c] = cost(OnTime)[c]
  BY <1>2 DEF OnTime
<1> HIDE DEF other
<1>7. \A p \in [Vehicles -> Vehicles] : \A c \in Vehicles : cost(p)[c] \in Int
  <2> SUFFICES ASSUME NEW p \in [Vehicles -> Vehicles], NEW c \in Vehicles
               PROVE  AssignmentCost(p[c], c, Seats) \in Int
    OBVIOUS
  <2>1. AssignmentCost(p[c], c, Seats) \in Nat
    BY PairCost
  <2> QED
    BY <2>1
<1>8. \A p : \A T : CostOn(p, T) = sum(p, T)
  BY DEF CostOn
<1> HIDE DEF cost
<1>9. IsFiniteSet(Vehicles) /\ IsFiniteSet(rest) /\ IsFiniteSet(trips)
  BY <1>2, OthersFinite, FS_Subset
<1>10. Others = trips \cup rest /\ trips \cap rest = {}
  OBVIOUS
<1>11. ASSUME NEW p \in [Vehicles -> Vehicles]
       PROVE  /\ sum(p, Others) = sum(p, trips) + sum(p, rest)
              /\ sum(p, trips) \in Int /\ sum(p, rest) \in Int
  <2> HIDE DEF rest
  <2>1. \A c \in Vehicles : cost(p)[c] \in Int
    BY <1>7
  <2>2. SumFunctionOnSet(cost(p), trips \cup rest)
          = SumFunctionOnSet(cost(p), trips) + SumFunctionOnSet(cost(p), rest)
    BY <1>2, <1>9, <1>10, <2>1, SumUnion
  <2>3. SumFunctionOnSet(cost(p), trips) \in Int /\ SumFunctionOnSet(cost(p), rest) \in Int
    BY <1>2, <1>9, <2>1, SumFacts
  <2> QED
    BY <1>10, <2>2, <2>3
<1>12. sum(other, rest) = sum(plan, rest)
  BY <1>1, <1>2, <1>6, <1>7, <1>9, SumEqual
<1>13. sum(other, trips) = sum(OnTime, trips)
  BY <1>2, <1>5, <1>6, <1>7, <1>9, SumEqual
<1>14. sum(plan, Others) <= sum(other, Others)
  BY <1>4, <1>8
<1> HIDE DEF sum, rest
<1>15. sum(plan, trips) <= sum(other, trips)
  BY <1>1, <1>5, <1>11, <1>12, <1>14
<1> QED
  BY <1>8, <1>13, <1>15

(* A group that changes all its trips is worth its while.                  *)
LEMMA ChangePays ==
  ASSUME TypeOK, NEW plan, Cheapest(plan), NEW trips \in SUBSET Others, trips # {},
         trips \subseteq Changed(plan), {plan[c] : c \in trips} = trips
  PROVE  \/ TotalDelay(plan, trips) < TotalDelay(OnTime, trips)
         \/ /\ TotalDelay(plan, trips) = TotalDelay(OnTime, trips)
            /\ Cardinality(LateOn(plan, trips)) < Cardinality(LateOn(OnTime, trips))
<1> DEFINE d1 == TotalDelay(plan, trips)
           l1 == Cardinality(LateOn(plan, trips))
           c1 == Cardinality(ChangedOn(plan, trips))
           i1 == IdleOn(plan, trips)
           d2 == TotalDelay(OnTime, trips)
           l2 == Cardinality(LateOn(OnTime, trips))
           c2 == Cardinality(ChangedOn(OnTime, trips))
           i2 == IdleOn(OnTime, trips)
           n == Cardinality(trips)
<1>1. /\ plan \in [Vehicles -> Vehicles] /\ OnTime \in [Vehicles -> Vehicles]
      /\ trips \in SUBSET Vehicles
  BY DEF Cheapest, Assignments, Others, OnTime
<1>2. CostOn(plan, trips) <= CostOn(OnTime, trips)
  BY GroupCosts
<1>3. IsFiniteSet(trips) /\ n \in Nat /\ n # 0 /\ Seats \in Nat /\ n <= Seats /\ MaxIdle \in Nat
  <2>1. IsFiniteSet(trips) /\ Cardinality(trips) <= Cardinality(Others)
    BY OthersFinite, FS_Subset
  <2>2. Cardinality(trips) # 0 /\ Cardinality(trips) \in Nat
    BY <2>1, FS_EmptySet, FS_CardinalityType
  <2> QED
    BY <2>1, <2>2, OthersFinite, OptimizerAssumption DEF Seats
<1>4. c1 = n
  <2>1. ChangedOn(plan, trips) = trips
    BY DEF ChangedOn, Changed
  <2> QED
    BY <2>1
<1>5. c2 = 0
  <2>1. ChangedOn(OnTime, trips) = {}
    BY <1>1 DEF ChangedOn, OnTime
  <2> QED
    BY <2>1, FS_EmptySet
<1>6. /\ CostOn(plan, trips)
           = DelayWeight(Seats) * d1 + TripWeight(Seats) * l1 + SwapWeight(Seats) * c1 + i1
      /\ d1 \in Nat /\ l1 \in 0..n /\ c1 \in 0..n /\ i1 \in 0..(n * MaxIdle)
  BY <1>1, CostOnSplit
<1>7. /\ CostOn(OnTime, trips)
           = DelayWeight(Seats) * d2 + TripWeight(Seats) * l2 + SwapWeight(Seats) * c2 + i2
      /\ d2 \in Nat /\ l2 \in 0..n /\ c2 \in 0..n /\ i2 \in 0..(n * MaxIdle)
  BY <1>1, CostOnSplit
<1> HIDE DEF d1, l1, c1, i1, d2, l2, c2, i2, n
<1>8. n * MaxIdle \in Nat /\ Seats * MaxIdle \in Nat /\ n * MaxIdle <= Seats * MaxIdle
  <2>1. PICK e \in Nat : Seats = n + e
    <3>1. Seats - n \in Nat /\ Seats = n + (Seats - n)
      BY <1>3
    <3> QED
      BY <3>1
  <2>2. Seats * MaxIdle = n * MaxIdle + e * MaxIdle
    BY <1>3, <2>1
  <2>3. n * MaxIdle \in Nat /\ e * MaxIdle \in Nat
    BY <1>3
  <2> QED
    BY <2>2, <2>3
<1>9. /\ l1 \in 0..Seats /\ c1 \in 0..Seats /\ i1 \in 0..(Seats * MaxIdle)
      /\ l2 \in 0..Seats /\ c2 \in 0..Seats /\ i2 \in 0..(Seats * MaxIdle)
  BY <1>3, <1>6, <1>7, <1>8
<1>10. DelayWeight(Seats) * d1 + TripWeight(Seats) * l1 + SwapWeight(Seats) * c1 + i1
         <= DelayWeight(Seats) * d2 + TripWeight(Seats) * l2 + SwapWeight(Seats) * c2 + i2
  BY <1>2, <1>6, <1>7
<1>11. \/ d1 < d2
       \/ d1 = d2 /\ l1 < l2
       \/ d1 = d2 /\ l1 = l2 /\ c1 < c2
       \/ d1 = d2 /\ l1 = l2 /\ c1 = c2 /\ i1 <= i2
  BY <1>3, <1>6, <1>7, <1>9, <1>10, WeightsOrder
<1>12. d1 < d2 \/ (d1 = d2 /\ l1 < l2)
  BY <1>3, <1>4, <1>5, <1>11
<1> QED
  BY <1>12 DEF d1, d2, l1, l2

LEMMA GroupInvPays == IInv /\ Listing /\ PlanInv /\ GroupInv => EveryGroupPays
<1> SUFFICES ASSUME IInv, Listing, PlanInv, GroupInv, NEW g \in 1..Len(groups)
             PROVE  LET trips == Trips(groups[g])
                        late(plan) == Cardinality({c \in trips : Delay(plan[c], c) > 0})
                    IN \/ TotalDelay(assigned, trips) < TotalDelay(OnTime, trips)
                       \/ TotalDelay(assigned, trips) = TotalDelay(OnTime, trips)
                            /\ late(assigned) < late(OnTime)
  BY DEF EveryGroupPays
<1>1. assigned # NoPlan
  BY DEF GroupInv
<1>2. /\ Trips(groups[g]) \in SUBSET Others /\ Trips(groups[g]) # {}
      /\ Trips(groups[g]) \subseteq Changed(assigned)
      /\ {assigned[c] : c \in Trips(groups[g])} = Trips(groups[g])
  BY <1>1, GroupFacts
<1>3. TypeOK /\ Cheapest(assigned)
  BY <1>1 DEF IInv, PlanInv
<1> QED
  BY <1>2, <1>3, ChangePays DEF LateOn

(* For any terminal, hours and thresholds every group of the plan, carried *)
(* out alone, saves delay or leaves as much delay on fewer trips.          *)
THEOREM GroupsPay == Spec => []EveryGroupPays
<1>1. IInv /\ Listing /\ PlanInv /\ GroupInv => EveryGroupPays
  BY GroupInvPays
<1> QED
  BY <1>1, GroupInvariance, PTL
=============================================================================

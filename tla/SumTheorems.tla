---------------------------- MODULE SumTheorems -----------------------------
(***************************************************************************)
(* Sums over finite sets, as the community modules define them: what an    *)
(* empty sum, one summand more, a changed or a larger summand and a part   *)
(* of the set make of them.                                                *)
(*                                                                         *)
(* The definition is recursive over the set, and a CHOOSE picks the        *)
(* summand that is taken next.  That it has a solution, and that no choice *)
(* matters, are shown without an induction theorem: where a statement      *)
(* about sums were wrong for some sets, it would be wrong for a smallest   *)
(* one (LeastSubset), and this one contradicts itself.  The sums of the    *)
(* models (what is issued, returned, allocated or noted) are instances of  *)
(* SumFunctionOnSet.                                                       *)
(*                                                                         *)
(* The last section does the same for FoldLeft over a sequence.            *)
(***************************************************************************)
EXTENDS Integers, Functions, FiniteSetsExt, FiniteSetTheorems, TLAPS

(* A family of subsets of a finite set has a smallest one. *)
LEMMA LeastSubset ==
    ASSUME NEW S, IsFiniteSet(S), NEW T \in SUBSET SUBSET S, T # {}
    PROVE  \E t \in T : \A u \in T : ~(u \subseteq t /\ u # t)
  <1>1. T \subseteq FiniteSubsetsOf(S)
    BY FS_FiniteSubsetsOfFinite
  <1>2. PICK t \in T : \A u \in T : ~ (<<u, t>> \in StrictSubsetOrdering(S))
    BY <1>1, FS_StrictSubsetOrderingWellFounded, WFMin
  <1> QED
    BY <1>2 DEF StrictSubsetOrdering

(* Some natural numbers have a least one: of the intervals below them,     *)
(* one contains no other.                                                  *)
LEMMA LeastNatural ==
    ASSUME NEW S \in SUBSET Nat, S # {}
    PROVE  \E m \in S : \A k \in S : m <= k
  <1> PICK n \in S : TRUE
    OBVIOUS
  <1> DEFINE Below == {0..k : k \in S \cap (0..n)}
  <1>1. Below \in SUBSET SUBSET (0..n) /\ Below # {} /\ IsFiniteSet(0..n)
    <2>1. n \in Nat /\ n \in S \cap (0..n) /\ 0..n \in Below
      OBVIOUS
    <2>2. \A k \in S \cap (0..n) : 0..k \in SUBSET (0..n)
      BY <2>1
    <2>3. IsFiniteSet(0..n)
      BY <2>1, FS_Interval
    <2> QED
      BY <2>1, <2>2, <2>3
  <1>2. PICK t \in Below : \A u \in Below : ~(u \subseteq t /\ u # t)
    <2> DEFINE N == 0..n
    <2>1. Below \in SUBSET SUBSET N /\ Below # {} /\ IsFiniteSet(N)
      BY <1>1
    <2> HIDE DEF Below, N
    <2> QED
      BY <2>1, LeastSubset
  <1>3. PICK m \in S \cap (0..n) : t = 0..m
    OBVIOUS
  <1>4. ASSUME NEW k \in S, k < m PROVE FALSE
    <2>1. 0..k \in Below /\ 0..k \subseteq 0..m /\ m \in 0..m /\ m \notin 0..k
      BY <1>3, <1>4
    <2> QED
      BY <2>1, <1>2, <1>3
  <1> QED
    BY <1>3, <1>4

(* Bounded natural numbers have a largest one. *)
LEMMA LargestNatural ==
    ASSUME NEW S \in SUBSET Nat, S # {}, NEW n \in Nat, \A x \in S : x <= n
    PROVE  \E m \in S : \A x \in S : x <= m
  <1> DEFINE Rest == {n - x : x \in S}
  <1>1. Rest \in SUBSET Nat /\ Rest # {}
    <2>1. \A x \in S : n - x \in Nat
      OBVIOUS
    <2> QED
      BY <2>1
  <1>2. PICK k \in Rest : \A j \in Rest : k <= j
    <2> HIDE DEF Rest
    <2> QED
      BY <1>1, LeastNatural
  <1>3. PICK m \in S : k = n - m
    OBVIOUS
  <1>4. \A x \in S : n - m <= n - x
    BY <1>2, <1>3
  <1> QED
    BY <1>4

(* The definition of a sum h, for all subsets of S at once; Pick is the    *)
(* choice it makes, AddsUpTo what it says of sets of n elements at most.   *)
Pick(s) == CHOOSE x \in s : TRUE

Adds(h, f, S) ==
    h = [s \in SUBSET S |-> IF s = {} THEN 0
                            ELSE f[CHOOSE x \in s : TRUE] + h[s \ {CHOOSE x \in s : TRUE}]]

IntegersOn(f, S) == IsFiniteSet(S) /\ \A x \in S : f[x] \in Int

Small(S, n) == {s \in SUBSET S : Cardinality(s) <= n}

AddsUpTo(g, f, S, n) ==
    /\ g \in [Small(S, n) -> Int]
    /\ \A s \in Small(S, n) : g[s] = IF s = {} THEN 0 ELSE f[Pick(s)] + g[s \ {Pick(s)}]

(* A set without the element a sum takes out of it first. *)
LEMMA Smaller ==
    ASSUME NEW S, IsFiniteSet(S), NEW s \in SUBSET S, s # {}
    PROVE  /\ Pick(s) \in s /\ s \ {Pick(s)} \in SUBSET S
           /\ Cardinality(s) \in Nat /\ Cardinality(s \ {Pick(s)}) = Cardinality(s) - 1
  <1>1. Pick(s) \in s
    BY DEF Pick
  <1>2. IsFiniteSet(s)
    BY FS_Subset
  <1> QED
    BY <1>1, <1>2, FS_RemoveElement, FS_CardinalityType

(* Sums over the subsets of n elements at most: there is no least n        *)
(* without them.                                                           *)
LEMMA SumsOfSmall ==
    ASSUME NEW S, NEW f, IntegersOn(f, S), NEW n \in Nat
    PROVE  \E g : AddsUpTo(g, f, S, n)
  <1> USE DEF IntegersOn
  <1> DEFINE Bad == {k \in Nat : ~ \E g : AddsUpTo(g, f, S, k)}
  <1> SUFFICES ASSUME Bad # {} PROVE FALSE
    OBVIOUS
  <1>1. PICK m \in Bad : \A k \in Bad : m <= k
    BY LeastNatural
  <1>2. CASE m = 0
    <2>1. \A s \in Small(S, 0) : s = {}
      BY FS_EmptySet, FS_Subset, FS_CardinalityType DEF Small
    <2>2. AddsUpTo([s \in Small(S, 0) |-> 0], f, S, 0)
      BY <2>1 DEF AddsUpTo
    <2> QED
      BY <1>2, <2>2, <1>1
  <1>3. CASE m # 0
    <2>1. m - 1 \in Nat /\ m - 1 \notin Bad
      BY <1>1, <1>3
    <2>2. PICK g : AddsUpTo(g, f, S, m - 1)
      BY <2>1
    <2> DEFINE h == [s \in Small(S, m) |-> IF s = {} THEN 0 ELSE f[Pick(s)] + g[s \ {Pick(s)}]]
    <2>3. \A s \in Small(S, m) : s # {} =>
              /\ f[Pick(s)] \in Int /\ s \ {Pick(s)} \in Small(S, m - 1)
      BY Smaller, <1>1 DEF Small
    <2>4. h \in [Small(S, m) -> Int]
      BY <2>2, <2>3 DEF AddsUpTo
    <2>5. \A s \in Small(S, m - 1) : s \in Small(S, m) /\ h[s] = g[s]
      <3> SUFFICES ASSUME NEW s \in Small(S, m - 1) PROVE s \in Small(S, m) /\ h[s] = g[s]
        OBVIOUS
      <3>1. Cardinality(s) \in Nat
        BY FS_Subset, FS_CardinalityType DEF Small
      <3>2. s \in Small(S, m)
        BY <3>1, <1>1 DEF Small
      <3> QED
        BY <2>2, <3>2 DEF AddsUpTo
    <2>6. AddsUpTo(h, f, S, m)
      <3> SUFFICES ASSUME NEW s \in Small(S, m), s # {}
                   PROVE  h[s] = f[Pick(s)] + h[s \ {Pick(s)}]
        BY <2>4 DEF AddsUpTo
      <3> QED
        BY <2>3, <2>5
    <2> QED
      BY <2>6, <1>1
  <1> QED
    BY <1>2, <1>3

(* The recursive definition of a sum has a solution. *)
LEMMA SumsExist ==
    ASSUME NEW S, NEW f, IntegersOn(f, S)
    PROVE  \E h : Adds(h, f, S)
  <1> DEFINE n == Cardinality(S)
  <1>1. n \in Nat /\ Small(S, n) = SUBSET S
    BY FS_Subset, FS_CardinalityType DEF Small, IntegersOn
  <1>2. PICK h : AddsUpTo(h, f, S, n)
    BY <1>1, SumsOfSmall
  <1> HIDE DEF n
  <1>3. Adds(h, f, S)
    BY <1>1, <1>2 DEF Adds, AddsUpTo, Pick
  <1> QED
    BY <1>3

(* By extensionality and a smallest set on which two sums differ. *)
LEMMA SumsAgree ==
    ASSUME NEW S, NEW f, NEW g, IntegersOn(f, S), NEW T \in SUBSET S,
           \A x \in T : f[x] = g[x],
           NEW h, Adds(h, f, S), NEW k, Adds(k, g, T)
    PROVE  \A s \in SUBSET T : h[s] \in Int /\ k[s] = h[s]
  <1> DEFINE Bad == {s \in SUBSET T : ~(h[s] \in Int /\ k[s] = h[s])}
  <1> SUFFICES ASSUME Bad # {} PROVE FALSE
    OBVIOUS
  <1>0. IsFiniteSet(T)
    BY FS_Subset DEF IntegersOn
  <1>1. PICK s \in Bad : \A u \in Bad : ~(u \subseteq s /\ u # s)
    <2> Bad \in SUBSET SUBSET T
      OBVIOUS
    <2> HIDE DEF Bad
    <2> QED
      BY <1>0, LeastSubset
  <1>2. s # {}
    BY <1>1 DEF Adds
  <1>3. /\ Pick(s) \in s /\ s \ {Pick(s)} \in SUBSET T
        /\ s \in SUBSET S /\ s \in SUBSET T
    BY <1>2, <1>1 DEF Pick
  <1>4. k[s \ {Pick(s)}] = h[s \ {Pick(s)}] /\ h[s \ {Pick(s)}] \in Int
    BY <1>1, <1>3
  <1>5. h[s] = f[Pick(s)] + h[s \ {Pick(s)}] /\ k[s] = g[Pick(s)] + k[s \ {Pick(s)}]
    BY <1>2, <1>3 DEF Adds, Pick
  <1>6. f[Pick(s)] \in Int /\ f[Pick(s)] = g[Pick(s)]
    BY <1>3 DEF IntegersOn
  <1> QED
    BY <1>1, <1>4, <1>5, <1>6

(* SumFunctionOnSet is such a solution, at the whole set. *)
LEMMA SumIs ==
    ASSUME NEW S, NEW f, IntegersOn(f, S)
    PROVE  \E h : Adds(h, f, S) /\ SumFunctionOnSet(f, S) = h[S]
  <1> DEFINE h == CHOOSE h : Adds(h, f, S)
  <1>1. Adds(h, f, S)
    BY SumsExist
  <1>2. SumFunctionOnSet(f, S) = h[S]
    BY DEF SumFunctionOnSet, FoldFunctionOnSet, MapThenFoldSet, Adds
  <1> QED
    BY <1>1, <1>2

(* All solutions agree with it, for summands that are the same. *)
LEMMA SumOnly ==
    ASSUME NEW S, NEW f, NEW g, IntegersOn(f, S), \A x \in S : f[x] = g[x],
           NEW h, Adds(h, g, S)
    PROVE  h[S] = SumFunctionOnSet(f, S) /\ h[S] \in Int
  <1>1. PICK k : Adds(k, f, S) /\ SumFunctionOnSet(f, S) = k[S]
    BY SumIs
  <1>2. \A s \in SUBSET S : k[s] \in Int /\ h[s] = k[s]
    BY <1>1, SumsAgree
  <1> QED
    BY <1>1, <1>2

(* A sum of integers is an integer. *)
LEMMA SumInteger ==
    ASSUME NEW S, NEW f, IntegersOn(f, S)
    PROVE  SumFunctionOnSet(f, S) \in Int
  BY SumIs, SumOnly

(* Equal summands, equal sums. *)
LEMMA SumSame ==
    ASSUME NEW S, NEW f, NEW g, IntegersOn(f, S), \A x \in S : f[x] = g[x]
    PROVE  SumFunctionOnSet(f, S) = SumFunctionOnSet(g, S)
  <1>1. IntegersOn(g, S)
    BY DEF IntegersOn
  <1>2. PICK k : Adds(k, g, S) /\ SumFunctionOnSet(g, S) = k[S]
    BY <1>1, SumIs
  <1> QED
    BY <1>2, SumOnly

(* Nothing adds up to nothing. *)
LEMMA SumEmpty == ASSUME NEW f PROVE SumFunctionOnSet(f, {}) = 0
  <1>1. IntegersOn(f, {})
    BY FS_EmptySet DEF IntegersOn
  <1>2. PICK k : Adds(k, f, {}) /\ SumFunctionOnSet(f, {}) = k[{}]
    BY <1>1, SumIs
  <1> QED
    BY <1>2 DEF Adds

(* Integers on a set are integers on a part of it. *)
LEMMA IntegersOnPart ==
    ASSUME NEW S, NEW f, IntegersOn(f, S), NEW T \in SUBSET S
    PROVE  IntegersOn(f, T)
  BY FS_Subset DEF IntegersOn

(* The summand the definition takes out first. *)
LEMMA SumPicked ==
    ASSUME NEW S, NEW f, IntegersOn(f, S), S # {}
    PROVE  Pick(S) \in S /\ SumFunctionOnSet(f, S)
              = f[Pick(S)] + SumFunctionOnSet(f, S \ {Pick(S)})
  <1> DEFINE T == S \ {Pick(S)}
  <1>1. PICK h : Adds(h, f, S) /\ SumFunctionOnSet(f, S) = h[S]
    BY SumIs
  <1>2. IntegersOn(f, T) /\ T \in SUBSET S
    BY IntegersOnPart
  <1>3. PICK k : Adds(k, f, T) /\ SumFunctionOnSet(f, T) = k[T]
    BY <1>2, SumIs
  <1>4. k[T] = h[T]
    BY <1>1, <1>2, <1>3, SumsAgree
  <1>5. h[S] = f[Pick(S)] + h[T]
    BY <1>1 DEF Adds, Pick
  <1> QED
    BY <1>1, <1>3, <1>4, <1>5 DEF Pick

(* One summand, whichever: *)
LEMMA SumOneMore ==
    ASSUME NEW S, NEW f, IntegersOn(f, S), NEW x \in S
    PROVE  SumFunctionOnSet(f, S) = f[x] + SumFunctionOnSet(f, S \ {x})
  <1> DEFINE Sum(T) == SumFunctionOnSet(f, T)
             Bad == {T \in SUBSET S : ~ \A y \in T : Sum(T) = f[y] + Sum(T \ {y})}
  <1> SUFFICES ASSUME Bad # {} PROVE FALSE
    OBVIOUS
  <1>1. PICK T \in Bad : \A U \in Bad : ~(U \subseteq T /\ U # T)
    <2> Bad \in SUBSET SUBSET S /\ IsFiniteSet(S)
      BY DEF IntegersOn
    <2> HIDE DEF Bad
    <2> QED
      BY LeastSubset
  <1>2. PICK y \in T : Sum(T) # f[y] + Sum(T \ {y})
    BY <1>1
  <1> DEFINE c == Pick(T)
             U == T \ {c, y}
  <1>3. /\ T \in SUBSET S /\ T \ {y} \in SUBSET S /\ T \ {c} \in SUBSET S /\ U \in SUBSET S
        /\ IntegersOn(f, T) /\ IntegersOn(f, U)
    BY <1>1, IntegersOnPart
  <1>4. c \in T /\ Sum(T) = f[c] + Sum(T \ {c}) /\ c # y
    BY <1>2, <1>3, SumPicked
  <1>5. T \ {c} \notin Bad /\ T \ {y} \notin Bad
    BY <1>1, <1>2, <1>4
  <1>6. y \in T \ {c} /\ (T \ {c}) \ {y} = U /\ c \in T \ {y} /\ (T \ {y}) \ {c} = U
    BY <1>2, <1>4
  <1>7. Sum(T \ {c}) = f[y] + Sum(U) /\ Sum(T \ {y}) = f[c] + Sum(U)
    <2> HIDE DEF U, c, Sum
    <2> QED
      BY <1>3, <1>5, <1>6
  <1>8. Sum(U) \in Int /\ f[c] \in Int /\ f[y] \in Int
    BY <1>2, <1>3, <1>4, SumInteger DEF IntegersOn
  <1> HIDE DEF Sum, c, U, Bad
  <1> QED
    BY <1>2, <1>4, <1>7, <1>8

(* One summand changes. *)
LEMMA SumChanged ==
    ASSUME NEW S, NEW f, NEW g, IntegersOn(f, S), NEW x \in S, g[x] \in Int,
           \A y \in S \ {x} : f[y] = g[y]
    PROVE  SumFunctionOnSet(g, S) = SumFunctionOnSet(f, S) + (g[x] - f[x])
  <1> DEFINE T == S \ {x}
  <1>1. IntegersOn(g, S) /\ IntegersOn(f, T)
    BY IntegersOnPart DEF IntegersOn
  <1>2. SumFunctionOnSet(f, T) = SumFunctionOnSet(g, T) /\ SumFunctionOnSet(f, T) \in Int
    BY <1>1, SumSame, SumInteger
  <1>3. /\ SumFunctionOnSet(f, S) = f[x] + SumFunctionOnSet(f, T)
        /\ SumFunctionOnSet(g, S) = g[x] + SumFunctionOnSet(g, T)
    BY <1>1, SumOneMore
  <1>4. f[x] \in Int
    BY DEF IntegersOn
  <1> QED
    BY <1>2, <1>3, <1>4

(* Larger summands, a larger sum. *)
LEMMA SumMonotone ==
    ASSUME NEW S, NEW f, NEW g, IntegersOn(f, S), IntegersOn(g, S),
           \A x \in S : f[x] <= g[x]
    PROVE  SumFunctionOnSet(f, S) <= SumFunctionOnSet(g, S)
  <1> DEFINE Sum(e, T) == SumFunctionOnSet(e, T)
             Bad == {T \in SUBSET S : ~ Sum(f, T) <= Sum(g, T)}
  <1> SUFFICES ASSUME Bad # {} PROVE FALSE
    OBVIOUS
  <1>1. PICK T \in Bad : \A U \in Bad : ~(U \subseteq T /\ U # T)
    <2> Bad \in SUBSET SUBSET S /\ IsFiniteSet(S)
      BY DEF IntegersOn
    <2> HIDE DEF Bad
    <2> QED
      BY LeastSubset
  <1>2. T # {}
    <2>1. Sum(f, {}) = 0 /\ Sum(g, {}) = 0
      BY SumEmpty
    <2>2. ~ Sum(f, T) <= Sum(g, T)
      BY <1>1
    <2> HIDE DEF Sum
    <2> QED
      BY <2>1, <2>2
  <1> PICK x \in T : TRUE
    BY <1>2
  <1> DEFINE U == T \ {x}
  <1>3. /\ T \in SUBSET S /\ U \in SUBSET S /\ IntegersOn(f, T) /\ IntegersOn(g, T)
        /\ IntegersOn(f, U) /\ IntegersOn(g, U)
    BY IntegersOnPart
  <1>4. Sum(f, U) <= Sum(g, U)
    BY <1>1, <1>3
  <1>5. Sum(f, T) = f[x] + Sum(f, U) /\ Sum(g, T) = g[x] + Sum(g, U)
    BY <1>3, SumOneMore
  <1>6. /\ Sum(f, U) \in Int /\ Sum(g, U) \in Int
        /\ f[x] \in Int /\ g[x] \in Int /\ f[x] <= g[x]
    BY <1>3, SumInteger DEF IntegersOn
  <1>7. ~ Sum(f, T) <= Sum(g, T)
    BY <1>1
  <1> HIDE DEF Sum, U, Bad
  <1> QED
    BY <1>4, <1>5, <1>6, <1>7

(* Zeros add up to nothing. *)
LEMMA SumOfZeros ==
    ASSUME NEW S, NEW f, IsFiniteSet(S), \A x \in S : f[x] = 0
    PROVE  SumFunctionOnSet(f, S) = 0
  <1> DEFINE Sum(T) == SumFunctionOnSet(f, T)
             Bad == {T \in SUBSET S : Sum(T) # 0}
  <1> SUFFICES ASSUME Bad # {} PROVE FALSE
    OBVIOUS
  <1>1. PICK T \in Bad : \A U \in Bad : ~(U \subseteq T /\ U # T)
    <2> Bad \in SUBSET SUBSET S
      OBVIOUS
    <2> HIDE DEF Bad
    <2> QED
      BY LeastSubset
  <1>2. T # {}
    BY <1>1, SumEmpty
  <1> PICK x \in T : TRUE
    BY <1>2
  <1> DEFINE U == T \ {x}
  <1>3. U \in SUBSET S /\ IntegersOn(f, T)
    BY FS_Subset DEF IntegersOn
  <1>4. Sum(U) = 0 /\ Sum(T) = f[x] + Sum(U) /\ f[x] = 0
    BY <1>1, <1>3, SumOneMore
  <1> QED
    BY <1>1, <1>4

(* Natural numbers have a natural sum, which is no less than each of them. *)
LEMMA SumNatural ==
    ASSUME NEW S, NEW f, IsFiniteSet(S), \A x \in S : f[x] \in Nat
    PROVE  /\ SumFunctionOnSet(f, S) \in Nat
           /\ \A x \in S : f[x] <= SumFunctionOnSet(f, S)
  <1>1. ASSUME NEW T \in SUBSET S PROVE SumFunctionOnSet(f, T) \in Nat
    <2> DEFINE z == [x \in T |-> 0]
    <2>1. IntegersOn(f, T) /\ IntegersOn(z, T) /\ \A x \in T : z[x] <= f[x]
      BY FS_Subset DEF IntegersOn
    <2>2. SumFunctionOnSet(z, T) = 0
      BY FS_Subset, SumOfZeros
    <2> QED
      BY <2>1, <2>2, SumInteger, SumMonotone
  <1>2. ASSUME NEW x \in S PROVE f[x] <= SumFunctionOnSet(f, S)
    <2>1. IntegersOn(f, S)
      BY DEF IntegersOn
    <2>2. SumFunctionOnSet(f, S) = f[x] + SumFunctionOnSet(f, S \ {x})
      BY <2>1, SumOneMore
    <2>3. SumFunctionOnSet(f, S \ {x}) \in Nat /\ f[x] \in Nat
      BY <1>1
    <2> QED
      BY <2>2, <2>3
  <1> QED
    BY <1>1, <1>2

(* A part and the rest. *)
LEMMA SumOfParts ==
    ASSUME NEW S, NEW f, IntegersOn(f, S), NEW P \in SUBSET S
    PROVE  SumFunctionOnSet(f, S) = SumFunctionOnSet(f, P) + SumFunctionOnSet(f, S \ P)
  <1> DEFINE Sum(T) == SumFunctionOnSet(f, T)
             Bad == {T \in SUBSET S : Sum(S) # Sum(T) + Sum(S \ T)}
  <1> SUFFICES ASSUME Bad # {} PROVE FALSE
    OBVIOUS
  <1>1. PICK T \in Bad : \A U \in Bad : ~(U \subseteq T /\ U # T)
    <2> Bad \in SUBSET SUBSET S /\ IsFiniteSet(S)
      BY DEF IntegersOn
    <2> HIDE DEF Bad
    <2> QED
      BY LeastSubset
  <1>2. T # {}
    <2> SUFFICES ASSUME T = {} PROVE FALSE
      OBVIOUS
    <2>1. S \ T = S /\ Sum(T) = 0 /\ Sum(S) \in Int
      BY SumEmpty, SumInteger
    <2>2. Sum(S) # Sum(T) + Sum(S \ T)
      BY <1>1
    <2> QED
      BY <2>1, <2>2
  <1> PICK x \in T : TRUE
    BY <1>2
  <1> DEFINE U == T \ {x}
  <1>3. /\ T \in SUBSET S /\ U \in SUBSET S /\ S \ U \in SUBSET S /\ S \ T \in SUBSET S
        /\ IntegersOn(f, T) /\ IntegersOn(f, U) /\ IntegersOn(f, S \ U) /\ IntegersOn(f, S \ T)
        /\ x \in S \ U /\ (S \ U) \ {x} = S \ T
    BY IntegersOnPart
  <1>4. Sum(S) = Sum(U) + Sum(S \ U)
    BY <1>1, <1>3
  <1>5. Sum(T) = f[x] + Sum(U) /\ Sum(S \ U) = f[x] + Sum(S \ T)
    BY <1>3, SumOneMore
  <1>6. Sum(U) \in Int /\ Sum(S \ T) \in Int /\ f[x] \in Int
    BY <1>3, SumInteger DEF IntegersOn
  <1>7. Sum(S) # Sum(T) + Sum(S \ T)
    BY <1>1
  <1> HIDE DEF Sum, U, Bad
  <1> QED
    BY <1>4, <1>5, <1>6, <1>7

(* Whichever order a fold takes the elements in, it adds up the same sum. *)
LEMMA SumInAnyOrder ==
    ASSUME NEW S, NEW f, IntegersOn(f, S), NEW h, h[{}] = 0,
           \A s \in SUBSET S : s # {} =>
              \E x \in s : h[s \ {x}] \in Int => h[s] = f[x] + h[s \ {x}]
    PROVE  h[S] = SumFunctionOnSet(f, S)
  <1> DEFINE Sum(T) == SumFunctionOnSet(f, T)
             Bad == {T \in SUBSET S : h[T] # Sum(T)}
  <1> SUFFICES ASSUME Bad # {} PROVE FALSE
    OBVIOUS
  <1>1. PICK T \in Bad : \A U \in Bad : ~(U \subseteq T /\ U # T)
    <2> Bad \in SUBSET SUBSET S
      OBVIOUS
    <2> HIDE DEF Bad
    <2> QED
      BY LeastSubset DEF IntegersOn
  <1>2. T # {}
    BY <1>1, SumEmpty
  <1> PICK x \in T : h[T \ {x}] \in Int => h[T] = f[x] + h[T \ {x}]
    BY <1>1, <1>2
  <1> DEFINE U == T \ {x}
  <1>3. IntegersOn(f, T) /\ IntegersOn(f, U)
    BY <1>1, IntegersOnPart
  <1>4. h[U] = Sum(U) /\ Sum(U) \in Int
    BY <1>1, <1>3, SumInteger
  <1>5. Sum(T) = f[x] + Sum(U)
    BY <1>3, SumOneMore
  <1> QED
    BY <1>1, <1>4, <1>5

(* The summands under other names. *)
LEMMA SumRenamed ==
    ASSUME NEW S, NEW f, IntegersOn(f, S), NEW T, NEW g, IntegersOn(g, T), NEW b,
           \A x \in T : b[x] \in S /\ g[x] = f[b[x]],
           \A x, y \in T : b[x] = b[y] => x = y,
           \A s \in S : \E x \in T : b[x] = s
    PROVE  SumFunctionOnSet(g, T) = SumFunctionOnSet(f, S)
  <1> DEFINE Part(U) == {x \in T : b[x] \in U}
             F(U) == SumFunctionOnSet(f, U)
             G(U) == SumFunctionOnSet(g, U)
             Bad == {U \in SUBSET S : G(Part(U)) # F(U)}
  <1>1. Bad = {}
    <2> SUFFICES ASSUME Bad # {} PROVE FALSE
      OBVIOUS
    <2>1. PICK U \in Bad : \A V \in Bad : ~(V \subseteq U /\ V # U)
      <3> Bad \in SUBSET SUBSET S /\ IsFiniteSet(S)
        BY DEF IntegersOn
      <3> HIDE DEF Bad
      <3> QED
        BY LeastSubset
    <2>2. U # {}
      <3>1. Part({}) = {} /\ F({}) = 0 /\ G({}) = 0
        BY SumEmpty
      <3> QED
        BY <2>1, <3>1
    <2> PICK s \in U : TRUE
      BY <2>2
    <2> PICK x \in T : b[x] = s
      BY <2>1
    <2> DEFINE V == U \ {s}
    <2>3. V \in SUBSET S /\ Part(V) = Part(U) \ {x} /\ x \in Part(U) /\ Part(U) \in SUBSET T
      BY <2>1
    <2>4. G(Part(V)) = F(V)
      BY <2>1, <2>3
    <2>5. IntegersOn(f, U) /\ IntegersOn(g, Part(U)) /\ IntegersOn(f, V)
      BY <2>1, <2>3, IntegersOnPart
    <2>6. F(U) = f[s] + F(V) /\ G(Part(U)) = g[x] + G(Part(U) \ {x})
      BY <2>3, <2>5, SumOneMore
    <2>7. G(Part(U)) # F(U) /\ g[x] = f[s]
      BY <2>1
    <2> HIDE DEF Part, F, G, Bad, V
    <2> QED
      BY <2>3, <2>4, <2>6, <2>7
  <1>2. Part(S) = T
    OBVIOUS
  <1>3. G(Part(S)) = F(S)
    BY <1>1
  <1> QED
    BY <1>2, <1>3

(* The summands in groups. *)
LEMMA SumOfGroups ==
    ASSUME NEW S, NEW f, IntegersOn(f, S), NEW C, IsFiniteSet(C), NEW k,
           \A x \in S : k[x] \in C,
           NEW group, \A c \in C : \A x : x \in group[c] <=> x \in S /\ k[x] = c,
           NEW h, \A c \in C : h[c] = SumFunctionOnSet(f, group[c])
    PROVE  IntegersOn(h, C) /\ SumFunctionOnSet(h, C) = SumFunctionOnSet(f, S)
  <1> DEFINE Part(D) == {x \in S : k[x] \in D}
             F(U) == SumFunctionOnSet(f, U)
             H(D) == SumFunctionOnSet(h, D)
             Bad == {D \in SUBSET C : H(D) # F(Part(D))}
  <1>0. IntegersOn(h, C)
    <2> SUFFICES ASSUME NEW c \in C PROVE h[c] \in Int
      BY DEF IntegersOn
    <2>1. group[c] \in SUBSET S
      OBVIOUS
    <2>2. IntegersOn(f, group[c])
      BY <2>1, IntegersOnPart
    <2> QED
      BY <2>2, SumInteger
  <1>1. Bad = {}
    <2> SUFFICES ASSUME Bad # {} PROVE FALSE
      OBVIOUS
    <2>1. PICK D \in Bad : \A E \in Bad : ~(E \subseteq D /\ E # D)
      <3> Bad \in SUBSET SUBSET C
        OBVIOUS
      <3> HIDE DEF Bad
      <3> QED
        BY LeastSubset
    <2>2. D # {}
      <3>1. Part({}) = {} /\ F({}) = 0 /\ H({}) = 0
        BY SumEmpty
      <3>2. H(D) # F(Part(D))
        BY <2>1
      <3> HIDE DEF Part, F, H, Bad
      <3> QED
        BY <3>1, <3>2
    <2> PICK c \in D : TRUE
      BY <2>2
    <2> DEFINE E == D \ {c}
    <2>3. /\ E \in SUBSET C /\ Part(E) = Part(D) \ group[c] /\ group[c] \in SUBSET Part(D)
          /\ Part(D) \in SUBSET S
      BY <2>1
    <2>4. H(E) = F(Part(E))
      BY <2>1, <2>3
    <2>5. IntegersOn(f, Part(D)) /\ IntegersOn(h, D)
      BY <1>0, <2>1, <2>3, IntegersOnPart
    <2>6. F(Part(D)) = F(group[c]) + F(Part(D) \ group[c]) /\ H(D) = h[c] + H(E)
      BY <2>3, <2>5, SumOfParts, SumOneMore
    <2>7. H(D) # F(Part(D)) /\ h[c] = F(group[c])
      BY <2>1
    <2> HIDE DEF Part, F, H, Bad, E
    <2> QED
      BY <2>3, <2>4, <2>6, <2>7
  <1>2. Part(C) = S
    OBVIOUS
  <1>3. H(C) = F(Part(C))
    BY <1>1
  <1> QED
    BY <1>0, <1>2, <1>3

(* The other sign. *)
LEMMA SumNegative ==
    ASSUME NEW S, NEW f, IntegersOn(f, S), NEW g, \A x \in S : g[x] = -f[x]
    PROVE  SumFunctionOnSet(g, S) = -SumFunctionOnSet(f, S)
  <1> DEFINE F(U) == SumFunctionOnSet(f, U)
             G(U) == SumFunctionOnSet(g, U)
             Bad == {U \in SUBSET S : G(U) # -F(U)}
  <1> SUFFICES ASSUME Bad # {} PROVE FALSE
    OBVIOUS
  <1>1. PICK U \in Bad : \A V \in Bad : ~(V \subseteq U /\ V # U)
    <2> Bad \in SUBSET SUBSET S /\ IsFiniteSet(S)
      BY DEF IntegersOn
    <2> HIDE DEF Bad
    <2> QED
      BY LeastSubset
  <1>2. U # {}
    <2>1. F({}) = 0 /\ G({}) = 0
      BY SumEmpty
    <2>2. G(U) # -F(U)
      BY <1>1
    <2> HIDE DEF F, G
    <2> QED
      BY <2>1, <2>2
  <1> PICK x \in U : TRUE
    BY <1>2
  <1> DEFINE V == U \ {x}
  <1>3. V \in SUBSET S /\ IntegersOn(f, U) /\ IntegersOn(f, V) /\ IntegersOn(g, S)
    BY <1>1, IntegersOnPart DEF IntegersOn
  <1>4. IntegersOn(g, U) /\ F(V) \in Int /\ f[x] \in Int
    BY <1>1, <1>3, IntegersOnPart, SumInteger DEF IntegersOn
  <1>5. F(U) = f[x] + F(V) /\ G(U) = g[x] + G(V) /\ G(V) = -F(V)
    BY <1>1, <1>3, <1>4, SumOneMore
  <1>6. G(U) # -F(U) /\ g[x] = -f[x]
    BY <1>1
  <1> HIDE DEF F, G, Bad, V
  <1> QED
    BY <1>4, <1>5, <1>6

-----------------------------------------------------------------------------
(* Folds over the places of a sequence, which FoldLeft defines in the same *)
(* recursive way, but from a last place that is no choice.                 *)

(* The definition of a fold over the places of a sequence h, for all sets  *)
(* of them at once: next says what the element at a place makes of what    *)
(* the places before it have made; ChainsUpTo is the definition for sets   *)
(* of k places at most.                                                    *)
Chains(h, next, base, n) ==
    h = [s \in SUBSET (1..n) |-> IF s = {} THEN base ELSE next[Max(s)][h[s \ {Max(s)}]]]

ChainsUpTo(g, next, base, n, V, k) ==
    /\ g \in [Small(1..n, k) -> V]
    /\ \A s \in Small(1..n, k) : g[s] = IF s = {} THEN base ELSE next[Max(s)][g[s \ {Max(s)}]]

(* Sets of places have a size. *)
LEMMA PlacesCounted ==
    ASSUME NEW n \in Nat, NEW s \in SUBSET (1..n)
    PROVE  /\ IsFiniteSet(s) /\ Cardinality(s) \in Nat /\ Cardinality(s) <= Cardinality(1..n)
           /\ Cardinality(s) = 0 => s = {}
  <1> PICK N : N = 1..n
    OBVIOUS
  <1>1. IsFiniteSet(N) /\ s \in SUBSET N
    BY FS_Interval
  <1>2. IsFiniteSet(s) /\ Cardinality(s) <= Cardinality(N)
    BY <1>1, FS_Subset
  <1> QED
    BY <1>2, FS_CardinalityType, FS_EmptySet

(* A set of places without the last of them. *)
LEMMA WithoutLast ==
    ASSUME NEW n \in Nat, NEW s \in SUBSET (1..n), s # {}
    PROVE  /\ Max(s) \in s /\ \A m \in s : m <= Max(s)
           /\ s \ {Max(s)} \in SUBSET (1..n)
           /\ Cardinality(s) \in Nat /\ Cardinality(s \ {Max(s)}) = Cardinality(s) - 1
  <1>1. s \in SUBSET Nat /\ \A x \in s : x <= n
    OBVIOUS
  <1>2. \E m \in s : \A x \in s : x <= m
    BY <1>1, LargestNatural
  <1>3. Max(s) \in s /\ \A m \in s : m <= Max(s)
    BY <1>1, <1>2 DEF Max
  <1>4. IsFiniteSet(s) /\ Cardinality(s) \in Nat
    BY PlacesCounted
  <1> QED
    BY <1>3, <1>4, FS_RemoveElement

LEMMA ChainsOfSmall ==
    ASSUME NEW n \in Nat, NEW V, NEW base \in V, NEW next \in [1..n -> [V -> V]], NEW k \in Nat
    PROVE  \E g : ChainsUpTo(g, next, base, n, V, k)
  <1> DEFINE Bad == {j \in Nat : ~ \E g : ChainsUpTo(g, next, base, n, V, j)}
  <1> SUFFICES ASSUME Bad # {} PROVE FALSE
    OBVIOUS
  <1>1. PICK m \in Bad : \A j \in Bad : m <= j
    BY LeastNatural
  <1>2. CASE m = 0
    <2>1. \A s \in Small(1..n, 0) : s = {}
      BY PlacesCounted DEF Small
    <2>2. ChainsUpTo([s \in Small(1..n, 0) |-> base], next, base, n, V, 0)
      BY <2>1 DEF ChainsUpTo
    <2> QED
      BY <1>2, <2>2, <1>1
  <1>3. CASE m # 0
    <2>1. m - 1 \in Nat /\ m - 1 \notin Bad
      BY <1>1, <1>3
    <2>2. PICK g : ChainsUpTo(g, next, base, n, V, m - 1)
      BY <2>1
    <2> DEFINE h == [s \in Small(1..n, m) |->
                        IF s = {} THEN base ELSE next[Max(s)][g[s \ {Max(s)}]]]
    <2>3. ASSUME NEW s \in Small(1..n, m), s # {}
          PROVE  s \ {Max(s)} \in Small(1..n, m - 1) /\ next[Max(s)][g[s \ {Max(s)}]] \in V
      <3>0. s \in SUBSET (1..n) /\ Cardinality(s) <= m
        BY DEF Small
      <3>1. Max(s) \in 1..n /\ s \ {Max(s)} \in Small(1..n, m - 1)
        <4>1. /\ Max(s) \in s /\ s \ {Max(s)} \in SUBSET (1..n)
              /\ Cardinality(s) \in Nat /\ Cardinality(s \ {Max(s)}) = Cardinality(s) - 1
          BY <2>3, <3>0, WithoutLast
        <4>2. Cardinality(s) - 1 <= m - 1
          BY <3>0, <4>1, <1>1
        <4> QED
          BY <3>0, <4>1, <4>2 DEF Small
      <3>2. g[s \ {Max(s)}] \in V
        BY <2>2, <3>1 DEF ChainsUpTo
      <3> QED
        BY <3>1, <3>2
    <2>4. h \in [Small(1..n, m) -> V]
      BY <2>3
    <2>5. \A s \in Small(1..n, m - 1) : s \in Small(1..n, m) /\ h[s] = g[s]
      <3> SUFFICES ASSUME NEW s \in Small(1..n, m - 1) PROVE s \in Small(1..n, m) /\ h[s] = g[s]
        OBVIOUS
      <3>1. Cardinality(s) \in Nat
        BY PlacesCounted DEF Small
      <3>2. s \in Small(1..n, m)
        BY <3>1, <1>1 DEF Small
      <3> QED
        BY <2>2, <3>2 DEF ChainsUpTo
    <2>6. ChainsUpTo(h, next, base, n, V, m)
      <3> SUFFICES ASSUME NEW s \in Small(1..n, m), s # {}
                   PROVE  h[s] = next[Max(s)][h[s \ {Max(s)}]]
        BY <2>4 DEF ChainsUpTo
      <3> QED
        BY <2>3, <2>5
    <2> QED
      BY <2>6, <1>1
  <1> QED
    BY <1>2, <1>3

(* The recursive definition of such a fold has a solution, *)
LEMMA ChainsExist ==
    ASSUME NEW n \in Nat, NEW V, NEW base \in V, NEW next \in [1..n -> [V -> V]]
    PROVE  \E h \in [SUBSET (1..n) -> V] : Chains(h, next, base, n)
  <1> DEFINE k == Cardinality(1..n)
  <1>1. k \in Nat /\ Small(1..n, k) = SUBSET (1..n)
    BY PlacesCounted DEF Small
  <1>2. PICK h : ChainsUpTo(h, next, base, n, V, k)
    BY <1>1, ChainsOfSmall
  <1> HIDE DEF k
  <1>3. h \in [SUBSET (1..n) -> V] /\ Chains(h, next, base, n)
    BY <1>1, <1>2 DEF Chains, ChainsUpTo
  <1> QED
    BY <1>3

(* and solutions for two sequences that begin alike agree so far. *)
LEMMA ChainsAgree ==
    ASSUME NEW n \in Nat, NEW m \in 0..n, NEW base, NEW f, NEW g, NEW h, NEW k,
           Chains(h, f, base, n), Chains(k, g, base, m),
           \A i \in 1..m : f[i] = g[i]
    PROVE  \A s \in SUBSET (1..m) : h[s] = k[s]
  <1> DEFINE Bad == {s \in SUBSET (1..m) : h[s] # k[s]}
  <1> SUFFICES ASSUME Bad # {} PROVE FALSE
    OBVIOUS
  <1>1. PICK s \in Bad : \A u \in Bad : ~(u \subseteq s /\ u # s)
    <2> DEFINE N == 1..m
    <2>1. Bad \in SUBSET SUBSET N /\ IsFiniteSet(N)
      BY FS_Interval
    <2> HIDE DEF Bad, N
    <2> QED
      BY <2>1, LeastSubset
  <1>2. s \in SUBSET (1..m) /\ s \in SUBSET (1..n) /\ m \in Nat
    BY <1>1
  <1>3. s # {}
    BY <1>1, <1>2 DEF Chains
  <1>4. Max(s) \in 1..m /\ s \ {Max(s)} \in SUBSET (1..m) /\ Max(s) \in s
    BY <1>2, <1>3, WithoutLast
  <1>5. h[s \ {Max(s)}] = k[s \ {Max(s)}]
    BY <1>1, <1>4
  <1>6. h[s] = f[Max(s)][h[s \ {Max(s)}]] /\ k[s] = g[Max(s)][k[s \ {Max(s)}]]
    BY <1>2, <1>3 DEF Chains
  <1> QED
    BY <1>1, <1>4, <1>5, <1>6

(* Summand by summand. *)
LEMMA SumOfTwo ==
    ASSUME NEW S, NEW f, IntegersOn(f, S), NEW g, IntegersOn(g, S), NEW h,
           \A x \in S : h[x] = f[x] + g[x]
    PROVE  /\ IntegersOn(h, S)
           /\ SumFunctionOnSet(h, S) = SumFunctionOnSet(f, S) + SumFunctionOnSet(g, S)
  <1> DEFINE F(T) == SumFunctionOnSet(f, T)
             G(T) == SumFunctionOnSet(g, T)
             k == [T \in SUBSET S |-> F(T) + G(T)]
  <1>1. IntegersOn(h, S)
    BY DEF IntegersOn
  <1>2. \A T \in SUBSET S : F(T) \in Int /\ G(T) \in Int /\ IntegersOn(f, T) /\ IntegersOn(g, T)
    BY IntegersOnPart, SumInteger
  <1>3. k[{}] = 0
    BY SumEmpty
  <1>4. ASSUME NEW T \in SUBSET S, NEW x \in T
        PROVE  k[T] = h[x] + k[T \ {x}]
    <2>1. F(T) = f[x] + F(T \ {x}) /\ G(T) = g[x] + G(T \ {x})
      BY <1>2, SumOneMore
    <2>2. F(T \ {x}) \in Int /\ G(T \ {x}) \in Int /\ f[x] \in Int /\ g[x] \in Int
      BY <1>2 DEF IntegersOn
    <2>3. k[T] = F(T) + G(T) /\ k[T \ {x}] = F(T \ {x}) + G(T \ {x}) /\ h[x] = f[x] + g[x]
      OBVIOUS
    <2> HIDE DEF F, G, k
    <2> QED
      BY <2>1, <2>2, <2>3
  <1>5. k[S] = F(S) + G(S)
    OBVIOUS
  <1> HIDE DEF F, G, k
  <1>6. k[S] = SumFunctionOnSet(h, S)
    <2>1. \A s \in SUBSET S : s # {} => \E x \in s : k[s \ {x}] \in Int => k[s] = h[x] + k[s \ {x}]
      BY <1>4
    <2> QED
      BY <1>1, <1>3, <2>1, SumInAnyOrder
  <1> QED
    BY <1>1, <1>5, <1>6 DEF F, G

(* The difference of two sums. *)
LEMMA SumOfDifferences ==
    ASSUME NEW S, NEW f, IntegersOn(f, S), NEW g, IntegersOn(g, S), NEW h,
           \A x \in S : h[x] = f[x] - g[x]
    PROVE  /\ IntegersOn(h, S)
           /\ SumFunctionOnSet(h, S) = SumFunctionOnSet(f, S) - SumFunctionOnSet(g, S)
  <1>1. IntegersOn(h, S) /\ \A x \in S : f[x] \in Int /\ g[x] \in Int
    BY DEF IntegersOn
  <1>2. \A x \in S : f[x] = h[x] + g[x]
    BY <1>1
  <1>3. SumFunctionOnSet(f, S) = SumFunctionOnSet(h, S) + SumFunctionOnSet(g, S)
    BY <1>1, <1>2, SumOfTwo
  <1>4. SumFunctionOnSet(h, S) \in Int /\ SumFunctionOnSet(g, S) \in Int
    BY <1>1, SumInteger
  <1> QED
    BY <1>1, <1>3, <1>4

(* Summands outside a part that are nothing. *)
LEMMA SumOnPart ==
    ASSUME NEW S, NEW f, IntegersOn(f, S), NEW P \in SUBSET S, NEW g,
           \A x \in P : g[x] = f[x], \A x \in S \ P : f[x] = 0
    PROVE  SumFunctionOnSet(g, P) = SumFunctionOnSet(f, S)
  <1>1. SumFunctionOnSet(f, S) = SumFunctionOnSet(f, P) + SumFunctionOnSet(f, S \ P)
    BY SumOfParts
  <1>2. SumFunctionOnSet(f, S \ P) = 0
    BY SumOfZeros, IntegersOnPart DEF IntegersOn
  <1>3. SumFunctionOnSet(f, P) \in Int /\ IntegersOn(f, P)
    BY IntegersOnPart, SumInteger
  <1>4. SumFunctionOnSet(f, P) = SumFunctionOnSet(g, P)
    BY <1>3, SumSame
  <1> QED
    BY <1>1, <1>2, <1>3, <1>4

(* By rows or by columns. *)
LEMMA SumInBothOrders ==
    ASSUME NEW S, IsFiniteSet(S), NEW C, IsFiniteSet(C), NEW w,
           \A x \in S, c \in C : w[x][c] \in Int,
           NEW row, \A x \in S : row[x] = SumFunctionOnSet(w[x], C),
           NEW v, \A c \in C, x \in S : v[c][x] = w[x][c],
           NEW column, \A c \in C : column[c] = SumFunctionOnSet(v[c], S)
    PROVE  /\ IntegersOn(row, S) /\ IntegersOn(column, C)
           /\ SumFunctionOnSet(row, S) = SumFunctionOnSet(column, C)
  <1> DEFINE col(c) == v[c]
             part(T) == [c \in C |-> SumFunctionOnSet(col(c), T)]
             k == [T \in SUBSET S |-> SumFunctionOnSet(part(T), C)]
  <1>1. \A x \in S : IntegersOn(w[x], C)
    BY DEF IntegersOn
  <1>2. IntegersOn(row, S)
    BY <1>1, SumInteger DEF IntegersOn
  <1>3. \A c \in C : IntegersOn(col(c), S)
    BY DEF IntegersOn
  <1>4. \A T \in SUBSET S, c \in C :
            IntegersOn(col(c), T) /\ SumFunctionOnSet(col(c), T) \in Int
    <2> HIDE DEF col
    <2> QED
      BY <1>3, IntegersOnPart, SumInteger
  <1>5. \A T \in SUBSET S : IntegersOn(part(T), C)
    <2> HIDE DEF col
    <2> QED
      BY <1>4 DEF IntegersOn
  <1>6. k[{}] = 0
    <2>1. \A c \in C : part({})[c] = 0
      BY SumEmpty
    <2> HIDE DEF part
    <2> QED
      BY <2>1, SumOfZeros
  <1>7. ASSUME NEW T \in SUBSET S, NEW x \in T
        PROVE  k[T] = row[x] + k[T \ {x}]
    <2> DEFINE U == T \ {x}
    <2>1. \A c \in C : SumFunctionOnSet(col(c), T) = w[x][c] + SumFunctionOnSet(col(c), U)
      <3>1. \A c \in C : col(c)[x] = w[x][c]
        OBVIOUS
      <3> HIDE DEF col
      <3> QED
        BY <1>4, <3>1, SumOneMore
    <2>2. \A c \in C : part(T)[c] = w[x][c] + part(U)[c]
      <3> HIDE DEF col, U
      <3> QED
        BY <2>1
    <2>3. U \in SUBSET S /\ x \in S
      OBVIOUS
    <2>4. SumFunctionOnSet(part(T), C) = SumFunctionOnSet(w[x], C) + SumFunctionOnSet(part(U), C)
      <3> HIDE DEF part, U
      <3> QED
        BY <1>1, <1>5, <2>2, <2>3, SumOfTwo
    <2>5. k[T] = SumFunctionOnSet(part(T), C) /\ k[U] = SumFunctionOnSet(part(U), C)
      OBVIOUS
    <2> HIDE DEF part, U
    <2> QED
      BY <2>3, <2>4, <2>5 DEF U
  <1>8. k[S] = SumFunctionOnSet(row, S)
    <2> HIDE DEF k
    <2>1. \A s \in SUBSET S :
            s # {} => \E x \in s : k[s \ {x}] \in Int => k[s] = row[x] + k[s \ {x}]
      BY <1>7
    <2> QED
      BY <1>2, <1>6, <2>1, SumInAnyOrder
  <1>9. k[S] = SumFunctionOnSet(part(S), C)
    OBVIOUS
  <1>10. \A c \in C : part(S)[c] = column[c]
    OBVIOUS
  <1>11. IntegersOn(part(S), C)
    BY <1>5
  <1> HIDE DEF part, k
  <1>12. SumFunctionOnSet(part(S), C) = SumFunctionOnSet(column, C) /\ IntegersOn(column, C)
    BY <1>10, <1>11, SumSame DEF IntegersOn
  <1> QED
    BY <1>2, <1>8, <1>9, <1>12

(* The same for each: as often as there are elements. *)
LEMMA SumOfSame ==
    ASSUME NEW S, IsFiniteSet(S), NEW n \in Int, NEW f, \A x \in S : f[x] = n
    PROVE  SumFunctionOnSet(f, S) = n * Cardinality(S)
  <1> DEFINE k == [T \in SUBSET S |-> n * Cardinality(T)]
  <1>1. IntegersOn(f, S)
    BY DEF IntegersOn
  <1>2. k[{}] = 0
    BY FS_EmptySet
  <1>3. ASSUME NEW T \in SUBSET S, NEW x \in T
        PROVE  k[T] = f[x] + k[T \ {x}]
    <2>1. IsFiniteSet(T) /\ Cardinality(T) \in Nat /\ Cardinality(T \ {x}) = Cardinality(T) - 1
      BY FS_Subset, FS_CardinalityType, FS_RemoveElement
    <2>2. n * Cardinality(T) = n + n * (Cardinality(T) - 1)
      BY <2>1
    <2> QED
      BY <2>1, <2>2
  <1>4. k[S] = n * Cardinality(S)
    OBVIOUS
  <1> HIDE DEF k
  <1>5. \A s \in SUBSET S : s # {} => \E x \in s : k[s \ {x}] \in Int => k[s] = f[x] + k[s \ {x}]
    BY <1>3
  <1> QED
    BY <1>1, <1>2, <1>4, <1>5, SumInAnyOrder

(* Some of a finite set have the largest key. *)
LEMMA LargestKey ==
    ASSUME NEW S, IsFiniteSet(S), S # {}, NEW key, \A x \in S : key[x] \in Int
    PROVE  \E m \in S : \A x \in S : key[x] <= key[m]
  <1> DEFINE Above(x) == {y \in S : key[y] > key[x]}
             All == {Above(x) : x \in S}
  <1>1. All \in SUBSET SUBSET S /\ All # {}
    OBVIOUS
  <1>2. PICK t \in All : \A u \in All : ~(u \subseteq t /\ u # t)
    <2> HIDE DEF All
    <2> QED
      BY <1>1, LeastSubset
  <1>3. PICK m \in S : t = Above(m)
    OBVIOUS
  <1>4. ASSUME NEW x \in S, ~(key[x] <= key[m]) PROVE FALSE
    <2>1. Above(x) \subseteq Above(m) /\ x \in Above(m) /\ x \notin Above(x) /\ Above(x) \in All
      BY <1>4
    <2> QED
      BY <2>1, <1>2, <1>3
  <1> QED
    BY <1>4

(* A finite set can be listed by its keys. *)
Sorted(listed, key) ==
    /\ IsInjective(listed)
    /\ \A j, k \in DOMAIN listed : j < k => key[listed[j]] <= key[listed[k]]

(* Any finite set can be listed in the order of a key. *)
LEMMA Listing ==
    ASSUME NEW S, IsFiniteSet(S), NEW key, \A x \in S : key[x] \in Int
    PROVE  \E listed \in [1..Cardinality(S) -> S] : Sorted(listed, key)
  <1> DEFINE Bad == {T \in SUBSET S : ~ \E listed \in [1..Cardinality(T) -> T] : Sorted(listed, key)}
  <1> SUFFICES ASSUME Bad # {} PROVE FALSE
    OBVIOUS
  <1>1. PICK T \in Bad : \A U \in Bad : ~(U \subseteq T /\ U # T)
    <2> Bad \in SUBSET SUBSET S
      OBVIOUS
    <2> HIDE DEF Bad
    <2> QED
      BY LeastSubset
  <1>2. T # {}
    <2> SUFFICES ASSUME T = {} PROVE FALSE
      OBVIOUS
    <2>1. Cardinality(T) = 0
      BY FS_EmptySet
    <2>2. \A i \in 1..0 : FALSE
      OBVIOUS
    <2> DEFINE listed == [i \in 1..0 |-> 0]
    <2>3. listed \in [1..0 -> T]
      BY <2>2
    <2>4. Sorted(listed, key)
      BY <2>2 DEF Sorted, IsInjective
    <2> HIDE DEF listed
    <2> QED
      BY <1>1, <2>1, <2>3, <2>4
  <1>3. IsFiniteSet(T) /\ T \in SUBSET S
    BY FS_Subset
  <1>4. PICK m \in T : \A x \in T : key[x] <= key[m]
    BY <1>2, <1>3, LargestKey
  <1> DEFINE U == T \ {m}
             n == Cardinality(T)
  <1>5. n \in Nat /\ n > 0 /\ Cardinality(U) = n - 1
    BY <1>2, <1>3, FS_RemoveElement, FS_CardinalityType, FS_EmptySet
  <1>6. U \notin Bad /\ U \in SUBSET S
    BY <1>1, <1>3
  <1>7. PICK before \in [1..n - 1 -> U] : Sorted(before, key)
    BY <1>5, <1>6
  <1> DEFINE listed == [i \in 1..n |-> IF i = n THEN m ELSE before[i]]
  <1>8. \A i \in 1..n : i # n => i \in 1..n - 1 /\ before[i] \in U
    BY <1>5, <1>7
  <1>9. listed \in [1..n -> T]
    BY <1>8
  <1>10. IsInjective(listed)
    <2> SUFFICES ASSUME NEW a \in 1..n, NEW b \in 1..n, listed[a] = listed[b]
                 PROVE  a = b
      BY DEF IsInjective
    <2> QED
      BY <1>7, <1>8 DEF Sorted, IsInjective
  <1>11. \A j, k \in DOMAIN listed : j < k => key[listed[j]] <= key[listed[k]]
    <2> SUFFICES ASSUME NEW j \in 1..n, NEW k \in 1..n, j < k
                 PROVE  key[listed[j]] <= key[listed[k]]
      OBVIOUS
    <2>1. j # n /\ j \in 1..n - 1
      BY <1>5
    <2> QED
      BY <1>4, <1>7, <1>8, <2>1 DEF Sorted
  <1> HIDE DEF listed, n
  <1>12. Sorted(listed, key)
    BY <1>10, <1>11 DEF Sorted
  <1> QED
    BY <1>1, <1>9, <1>12 DEF n

(* A listing without repetitions that is as long as the set has all of it. *)
LEMMA ListsAll ==
    ASSUME NEW S, IsFiniteSet(S), NEW listed \in [1..Cardinality(S) -> S], IsInjective(listed)
    PROVE  /\ Cardinality(S) \in Nat
           /\ \A x \in S : \E i \in 1..Cardinality(S) : listed[i] = x
  <1> DEFINE n == Cardinality(S)
  <1>1. n \in Nat
    BY FS_CardinalityType
  <1>2. listed \in Injection(1..n, S)
    BY DEF Injection
  <1>3. Cardinality(1..n) = n
    BY <1>1, FS_Interval
  <1> HIDE DEF n
  <1>4. listed \in Surjection(1..n, S)
    BY <1>2, <1>3, FS_Injection DEF n
  <1> QED
    BY <1>1, <1>4 DEF Surjection, n
=============================================================================

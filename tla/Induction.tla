------------------------------ MODULE Induction ------------------------------
(***************************************************************************)
(* Facts that rest on induction, for the accounts that the models keep:    *)
(* sums over finite sets, functions defined by recursion up to a number,   *)
(* powers of two. All are proved from the existence of a smallest          *)
(* counterexample among the subsets of a finite set, which is first-order. *)
(***************************************************************************)
EXTENDS Integers, Functions, FiniteSetTheorems, FunctionTheorems, WellFoundedInduction, TLAPS

(* A set of subsets of a finite set has a smallest element.                *)
LEMMA SmallestSet ==
    ASSUME NEW S, IsFiniteSet(S), NEW T, T \subseteq SUBSET S, T # {}
    PROVE  \E A \in T : \A B \in T : B \subseteq A => B = A
<1> DEFINE R == StrictSubsetOrdering(S)
<1>1. IsWellFoundedOn(R, FiniteSubsetsOf(S))
  BY FS_StrictSubsetOrderingWellFounded
<1>2. T \subseteq FiniteSubsetsOf(S)
  BY FS_Subset DEF FiniteSubsetsOf
<1>3. PICK A \in T : \A B \in T : ~(<<B, A>> \in R)
  <2> HIDE DEF R
  <2> QED BY <1>1, <1>2, WFMin
<1>4. \A B \in T : B \subseteq A => B = A
  BY <1>3 DEF StrictSubsetOrdering
<1> QED BY <1>3, <1>4

-----------------------------------------------------------------------------
(* Numbers and recursion                                                   *)

LEMMA LeastNumber ==
    ASSUME NEW B, B \subseteq Nat, B # {}
    PROVE  \E n \in B : \A m \in B : n <= m
<1>1. PICK k : k \in B
  OBVIOUS
<1> DEFINE Low == {m \in B : m <= k}
           S == 1..k
           T == {1..m : m \in Low}
<1>2. IsFiniteSet(S) /\ T \subseteq SUBSET S /\ T # {}
  <2>1. IsFiniteSet(S)
    BY <1>1, FS_Interval
  <2>2. ASSUME NEW m \in Low PROVE 1..m \in SUBSET S
    BY <1>1
  <2>3. 1..k \in T
    BY <1>1
  <2> QED BY <2>1, <2>2, <2>3
<1>3. PICK A \in T : \A C \in T : C \subseteq A => C = A
  <2> HIDE DEF T, S
  <2> QED BY <1>2, SmallestSet
<1>4. PICK n \in Low : A = 1..n
  BY <1>3
<1>5. ASSUME NEW m \in B, ~(n <= m) PROVE FALSE
  <2>1. n \in Nat /\ m \in Nat /\ m < n /\ m \in Low
    BY <1>1, <1>4, <1>5
  <2>2. 1..m \in T /\ 1..m \subseteq A
    BY <1>4, <2>1
  <2>3. 1..m = 1..n
    BY <1>3, <1>4, <2>2
  <2>4. n \in 1..n /\ n \notin 1..m
    BY <2>1
  <2> QED BY <2>3, <2>4
<1> QED BY <1>4, <1>5

(* Induction, in the form of a set.                                        *)
LEMMA EveryNumberUpTo ==
    ASSUME NEW n \in Nat, NEW B, 0 \in B, \A i \in 1..n : i - 1 \in B => i \in B
    PROVE  0..n \subseteq B
<1> DEFINE Bad == (0..n) \ B
<1>1. ASSUME Bad # {} PROVE FALSE
  <2>1. PICK m \in Bad : \A k \in Bad : m <= k
    <3>1. Bad \subseteq Nat
      OBVIOUS
    <3> HIDE DEF Bad
    <3> QED BY <1>1, <3>1, LeastNumber
  <2>2. m # 0
    BY <2>1
  <2>3. m \in 1..n /\ m - 1 \in 0..n /\ ~(m <= m - 1)
    BY <2>1, <2>2
  <2>4. m - 1 \in B
    BY <2>1, <2>3
  <2> QED BY <2>1, <2>3, <2>4
<1> QED BY <1>1

\* what every step of a recursion up to n makes of a value
StepsOn(n, V) == [1..n -> [V -> V]]

\* f begins with base and follows the steps
Follows(f, n, V, base, step) ==
    /\ f \in [0..n -> V]
    /\ f[0] = base
    /\ \A i \in 1..n : f[i] = step[i][f[i - 1]]

(* A function defined by recursion up to n is one.                         *)
LEMMA RecursionUpTo ==
    ASSUME NEW n \in Nat, NEW V, NEW base \in V, NEW step \in StepsOn(n, V)
    PROVE  \E f : Follows(f, n, V, base, step)
<1> DEFINE Starts(f, m) == f \in [0..m -> V] /\ f[0] = base
                              /\ \A i \in 1..m : f[i] = step[i][f[i - 1]]
           B == {m \in 0..n : \E f : Starts(f, m)}
<1>1. 0 \in B
  <2> DEFINE f == [i \in 0..0 |-> base]
  <2>1. f \in [0..0 -> V] /\ f[0] = base /\ 1..0 = {}
    OBVIOUS
  <2>2. Starts(f, 0)
    BY <2>1
  <2> HIDE DEF Starts
  <2> QED BY <2>2
<1>2. ASSUME NEW i \in 1..n, i - 1 \in B PROVE i \in B
  <2>1. PICK f : Starts(f, i - 1)
    BY <1>2
  <2> DEFINE g == [j \in 0..i |-> IF j = i THEN step[i][f[i - 1]] ELSE f[j]]
  <2>2. i - 1 \in 0..(i - 1) /\ f[i - 1] \in V /\ step[i][f[i - 1]] \in V
    BY <2>1 DEF StepsOn
  <2>3. g \in [0..i -> V] /\ g[0] = base
    BY <2>1, <2>2
  <2>4. \A j \in 1..i : g[j] = step[j][g[j - 1]]
    BY <2>1
  <2>5. Starts(g, i)
    BY <2>3, <2>4
  <2> HIDE DEF Starts
  <2> QED BY <2>5
<1>3. PICK f : Starts(f, n)
  <2> HIDE DEF B
  <2>1. 0..n \subseteq B
    BY <1>1, <1>2, EveryNumberUpTo
  <2>2. n \in B
    BY <2>1
  <2> QED BY <2>2 DEF B
<1> QED BY <1>3 DEF Follows

(* Powers of two count the subsets of a finite set.                        *)
LEMMA PowerOfTwo ==
    ASSUME NEW n \in Nat
    PROVE  2^0 = 1 /\ 2^n \in Nat /\ 2^(n + 1) = 2 * 2^n
<1> DEFINE S == 1..n
           U == S \cup {n + 1}
           With == {T \cup {n + 1} : T \in SUBSET S}
           f == [T \in SUBSET S |-> T \cup {n + 1}]
<1>1. /\ IsFiniteSet(S) /\ Cardinality(S) = n /\ n + 1 \notin S
      /\ IsFiniteSet(U) /\ Cardinality(U) = n + 1
  <2>1. IsFiniteSet(S) /\ Cardinality(S) = n /\ n + 1 \notin S
    BY FS_Interval
  <2> QED BY <2>1, FS_AddElement
<1>2. /\ IsFiniteSet(SUBSET S) /\ Cardinality(SUBSET S) = 2^n
      /\ IsFiniteSet(SUBSET U) /\ Cardinality(SUBSET U) = 2^(n + 1)
  <2> HIDE DEF S, U
  <2> QED BY <1>1, FS_SUBSET
<1>3. f \in Bijection(SUBSET S, With)
  <2>1. f \in [SUBSET S -> With]
    OBVIOUS
  <2>2. \A A, B \in SUBSET S : f[A] = f[B] => A = B
    BY <1>1
  <2>3. \A W \in With : \E A \in SUBSET S : f[A] = W
    OBVIOUS
  <2> HIDE DEF f, With
  <2> QED BY <2>1, <2>2, <2>3 DEF Bijection, Injection, Surjection, IsInjective
<1>4. IsFiniteSet(With) /\ Cardinality(With) = Cardinality(SUBSET S)
  <2>1. ExistsBijection(SUBSET S, With)
    <3> HIDE DEF f, With, S
    <3> QED BY <1>3 DEF ExistsBijection
  <2> HIDE DEF With, S
  <2> QED BY <1>2, <2>1, FS_Bijection
<1>5. SUBSET U = (SUBSET S) \cup With /\ (SUBSET S) \cap With = {}
  <2>1. \A T \in SUBSET U : n + 1 \in T => T = (T \ {n + 1}) \cup {n + 1} /\ T \ {n + 1} \in SUBSET S
    OBVIOUS
  <2>2. ASSUME NEW T \in SUBSET U PROVE T \in (SUBSET S) \cup With
    <3>1. CASE n + 1 \in T
      BY <2>1, <3>1
    <3>2. CASE n + 1 \notin T
      BY <3>2
    <3> QED BY <3>1, <3>2
  <2>3. (SUBSET S) \cup With \subseteq SUBSET U
    OBVIOUS
  <2>4. (SUBSET S) \cap With = {}
    BY <1>1
  <2> QED BY <2>2, <2>3, <2>4
<1>6. Cardinality(SUBSET U) = Cardinality(SUBSET S) + Cardinality(SUBSET S)
  <2> HIDE DEF S, U, With
  <2>1. /\ Cardinality((SUBSET S) \cup With) = Cardinality(SUBSET S) + Cardinality(With)
                                        - Cardinality((SUBSET S) \cap With)
    BY <1>2, <1>4, FS_Union
  <2>2. Cardinality((SUBSET S) \cap With) = 0
    BY <1>5, FS_EmptySet
  <2>3. Cardinality(SUBSET S) \in Nat
    BY <1>2, FS_CardinalityType
  <2>4. Cardinality(SUBSET U) = Cardinality((SUBSET S) \cup With)
    BY <1>5
  <2> QED BY <1>4, <2>1, <2>2, <2>3, <2>4
<1>7. Cardinality(SUBSET S) \in Nat
  <2> HIDE DEF S
  <2> QED BY <1>2, FS_CardinalityType
<1>8. 2^0 = 1
  <2>1. IsFiniteSet({}) /\ Cardinality({}) = 0
    BY FS_EmptySet
  <2>2. Cardinality(SUBSET {}) = 2^0
    BY <2>1, FS_SUBSET
  <2>3. SUBSET {} = {{}}
    OBVIOUS
  <2>4. \A x : Cardinality({x}) = 1
    BY FS_Singleton
  <2> QED BY <2>2, <2>3, <2>4
<1> HIDE DEF S, U
<1> QED BY <1>2, <1>6, <1>7, <1>8

-----------------------------------------------------------------------------
(* Sums                                                                    *)

\* The element the fold takes next
Taken(s) == CHOOSE x \in s : TRUE

\* h computes the sums of f over the subsets of S
Computes(h, f, S) ==
    /\ h \in [SUBSET S -> Int]
    /\ \A s \in SUBSET S : h[s] = IF s = {} THEN 0 ELSE f[Taken(s)] + h[s \ {Taken(s)}]

LEMMA FirstIn == ASSUME NEW s, s # {} PROVE Taken(s) \in s
BY DEF Taken

(* Two computations agree on the subsets they both know.                   *)
LEMMA ComputesOnce ==
    ASSUME NEW f, NEW S, IsFiniteSet(S), NEW T, NEW g, NEW h,
           Computes(g, f, S), Computes(h, f, T)
    PROVE  \A s \in SUBSET S : s \in SUBSET T => g[s] = h[s]
<1> DEFINE Bad == {s \in SUBSET S : s \in SUBSET T /\ g[s] # h[s]}
<1>1. SUFFICES ASSUME Bad # {} PROVE FALSE
  OBVIOUS
<1>2. PICK A \in Bad : \A B \in Bad : B \subseteq A => B = A
  <2>1. Bad \subseteq SUBSET S
    OBVIOUS
  <2> HIDE DEF Bad
  <2> QED BY <1>1, <2>1, SmallestSet
<1>3. A # {}
  BY <1>2 DEF Computes
<1>4. Taken(A) \in A
  BY <1>3, FirstIn
<1>5. A \ {Taken(A)} \notin Bad
  BY <1>2, <1>4
<1>6. g[A \ {Taken(A)}] = h[A \ {Taken(A)}]
  BY <1>5, <1>2
<1> QED BY <1>2, <1>3, <1>6 DEF Computes

(* There is one for every finite set.                                      *)
LEMMA ComputesExists ==
    ASSUME NEW S, IsFiniteSet(S), NEW f, \A x \in S : f[x] \in Int
    PROVE  \E h : Computes(h, f, S)
<1> DEFINE Bad == {s \in SUBSET S : ~ \E h : Computes(h, f, s)}
<1>1. SUFFICES ASSUME Bad # {} PROVE FALSE
  OBVIOUS
<1>2. PICK A \in Bad : \A B \in Bad : B \subseteq A => B = A
  <2>1. Bad \subseteq SUBSET S
    OBVIOUS
  <2> HIDE DEF Bad
  <2> QED BY <1>1, <2>1, SmallestSet
<1>3. \A B \in SUBSET A : B # A => \E h : Computes(h, f, B)
  BY <1>2
<1> DEFINE Of(s) == CHOOSE h : Computes(h, f, s)
<1>4. \A B \in SUBSET A : B # A => Computes(Of(B), f, B)
  BY <1>3
<1> HIDE DEF Of
<1> DEFINE last == A \ {Taken(A)}
           total == IF A = {} THEN 0 ELSE f[Taken(A)] + Of(last)[last]
           h == [s \in SUBSET A |-> IF s = A THEN total ELSE Of(s)[s]]
<1>5. A # {} => Taken(A) \in A /\ last \in SUBSET A /\ last # A
  BY FirstIn
<1>6. total \in Int
  <2>1. CASE A = {}
    BY <2>1
  <2>2. CASE A # {}
    <3>1. Computes(Of(last), f, last)
      BY <1>4, <1>5, <2>2
    <3>2. Of(last)[last] \in Int
      <4> HIDE DEF last
      <4> QED BY <3>1 DEF Computes
    <3>3. f[Taken(A)] \in Int
      BY <1>2, <1>5, <2>2
    <3> QED BY <2>2, <3>2, <3>3
  <2> QED BY <2>1, <2>2
<1>7. h \in [SUBSET A -> Int]
  BY <1>4, <1>6 DEF Computes
<1>8. ASSUME NEW s \in SUBSET A
      PROVE  h[s] = IF s = {} THEN 0 ELSE f[Taken(s)] + h[s \ {Taken(s)}]
  <2>1. CASE s = A
    <3> HIDE DEF last
    <3>1. CASE s = {}
      BY <2>1, <3>1
    <3>2. CASE s # {}
      <4>1. h[last] = Of(last)[last]
        BY <3>2, <2>1, <1>5
      <4> QED BY <2>1, <3>2, <4>1 DEF last
    <3> QED BY <3>1, <3>2
  <2>2. CASE s # A
    <3> DEFINE r == s \ {Taken(s)}
    <3>1. Computes(Of(s), f, s)
      BY <1>4, <2>2
    <3>2. h[s] = Of(s)[s]
      BY <2>2
    <3>3. CASE s = {}
      BY <3>1, <3>2, <3>3 DEF Computes
    <3>4. CASE s # {}
      <4>1. Taken(s) \in s /\ r \in SUBSET A /\ r # A /\ r \in SUBSET s
        BY <3>4, FirstIn, <2>2
      <4>2. Computes(Of(r), f, r)
        BY <1>4, <4>1
      <4>3. IsFiniteSet(s)
        BY <1>2, FS_Subset
      <4>4. Of(s)[r] = Of(r)[r]
        <5> HIDE DEF r
        <5>1. \A t \in SUBSET s : t \in SUBSET r => Of(s)[t] = Of(r)[t]
          BY <3>1, <4>2, <4>3, ComputesOnce
        <5> QED BY <5>1, <4>1
      <4>5. h[r] = Of(r)[r]
        BY <4>1
      <4>6. Of(s)[s] = f[Taken(s)] + Of(s)[r]
        BY <3>1, <3>4 DEF Computes
      <4> QED BY <3>2, <3>4, <4>4, <4>5, <4>6
    <3> QED BY <3>3, <3>4
  <2> QED BY <2>1, <2>2
<1>9. Computes(h, f, A)
  <2> HIDE DEF h
  <2> QED BY <1>7, <1>8 DEF Computes
<1> QED BY <1>2, <1>9

(* The sum is what these compute.                                          *)
LEMMA SumComputed ==
    ASSUME NEW S, IsFiniteSet(S), NEW f, \A x \in S : f[x] \in Int
    PROVE  \E h : Computes(h, f, S) /\ SumFunctionOnSet(f, S) = h[S]
<1> DEFINE P(h) == h = [s \in SUBSET S |->
                          IF s = {} THEN 0 ELSE LET x == CHOOSE x \in s : TRUE IN f[x] + h[s \ {x}]]
           iter == CHOOSE h : P(h)
<1>1. SumFunctionOnSet(f, S) = iter[S]
  BY DEF SumFunctionOnSet, FoldFunctionOnSet, MapThenFoldSet
<1>2. PICK g : Computes(g, f, S)
  BY ComputesExists
<1>3. P(g)
  BY <1>2 DEF Computes, Taken
<1>4. P(iter)
  <2> HIDE DEF P
  <2> QED BY <1>3
<1>5. \A s \in SUBSET S : iter[s] = IF s = {} THEN 0 ELSE f[Taken(s)] + iter[s \ {Taken(s)}]
  <2> HIDE DEF iter
  <2> QED BY <1>4 DEF Taken
<1>6. iter[S] = g[S]
  <2> HIDE DEF iter
  <2> DEFINE Bad == {s \in SUBSET S : iter[s] # g[s]}
  <2>1. SUFFICES ASSUME Bad # {} PROVE FALSE
    OBVIOUS
  <2>2. PICK A \in Bad : \A B \in Bad : B \subseteq A => B = A
    <3>1. Bad \subseteq SUBSET S
      OBVIOUS
    <3> HIDE DEF Bad
    <3> QED BY <2>1, <3>1, SmallestSet
  <2>3. A # {}
    BY <2>2, <1>2, <1>5 DEF Computes
  <2>4. Taken(A) \in A
    BY <2>3, FirstIn
  <2>5. iter[A \ {Taken(A)}] = g[A \ {Taken(A)}]
    BY <2>2, <2>4
  <2> QED BY <2>2, <2>3, <2>5, <1>2, <1>5 DEF Computes
<1> QED BY <1>1, <1>2, <1>6

(* The sum over a set is the element the fold takes and the rest.          *)
LEMMA SumNext ==
    ASSUME NEW S, IsFiniteSet(S), NEW f, \A x \in S : f[x] \in Int
    PROVE  /\ SumFunctionOnSet(f, S) \in Int
           /\ S = {} => SumFunctionOnSet(f, S) = 0
           /\ S # {} => SumFunctionOnSet(f, S)
                            = f[Taken(S)] + SumFunctionOnSet(f, S \ {Taken(S)})
<1> DEFINE r == S \ {Taken(S)}
<1>1. PICK h : Computes(h, f, S) /\ SumFunctionOnSet(f, S) = h[S]
  BY SumComputed
<1>2. SumFunctionOnSet(f, S) \in Int /\ (S = {} => SumFunctionOnSet(f, S) = 0)
  BY <1>1 DEF Computes
<1>3. ASSUME S # {} PROVE SumFunctionOnSet(f, S) = f[Taken(S)] + SumFunctionOnSet(f, r)
  <2>1. r \in SUBSET S /\ IsFiniteSet(r) /\ \A x \in r : f[x] \in Int
    BY FS_Subset
  <2>2. PICK g : Computes(g, f, r) /\ SumFunctionOnSet(f, r) = g[r]
    <3> HIDE DEF r
    <3> QED BY <2>1, SumComputed
  <2>3. h[r] = g[r]
    <3> HIDE DEF r
    <3>1. \A s \in SUBSET S : s \in SUBSET r => h[s] = g[s]
      BY <1>1, <2>2, ComputesOnce
    <3> QED BY <3>1, <2>1
  <2>4. h[S] = f[Taken(S)] + h[r]
    BY <1>1, <1>3 DEF Computes
  <2> QED BY <1>1, <2>2, <2>3, <2>4
<1> QED BY <1>2, <1>3

(* The order does not matter: any element and the rest.                    *)
LEMMA SumRemove ==
    ASSUME NEW S, IsFiniteSet(S), NEW f, \A x \in S : f[x] \in Int
    PROVE  /\ SumFunctionOnSet(f, S) \in Int
           /\ \A x \in S : SumFunctionOnSet(f, S) = f[x] + SumFunctionOnSet(f, S \ {x})
<1> DEFINE Sum(s) == SumFunctionOnSet(f, s)
           Bad == {s \in SUBSET S : \E x \in s : Sum(s) # f[x] + Sum(s \ {x})}
<1>1. \A s \in SUBSET S : /\ Sum(s) \in Int
                          /\ s # {} => Sum(s) = f[Taken(s)] + Sum(s \ {Taken(s)})
  BY FS_Subset, SumNext
<1> HIDE DEF Sum
<1>2. ASSUME Bad # {} PROVE FALSE
  <2>1. PICK A \in Bad : \A B \in Bad : B \subseteq A => B = A
    <3>1. Bad \subseteq SUBSET S
      OBVIOUS
    <3> HIDE DEF Bad
    <3> QED BY <1>2, <3>1, SmallestSet
  <2>2. PICK x \in A : Sum(A) # f[x] + Sum(A \ {x})
    BY <2>1
  <2> DEFINE y == Taken(A)
  <2>3. y \in A /\ Sum(A) = f[y] + Sum(A \ {y})
    BY <1>1, <2>1, <2>2, FirstIn
  <2> HIDE DEF y
  <2>4. x # y
    BY <2>2, <2>3
  <2>5. A \ {y} \notin Bad /\ A \ {x} \notin Bad
    BY <2>1, <2>2, <2>3
  <2>6. Sum(A \ {y}) = f[x] + Sum((A \ {y}) \ {x})
    BY <2>1, <2>2, <2>4, <2>5
  <2>7. Sum(A \ {x}) = f[y] + Sum((A \ {x}) \ {y})
    BY <2>1, <2>3, <2>4, <2>5
  <2>8. (A \ {y}) \ {x} = (A \ {x}) \ {y}
    OBVIOUS
  <2>9. Sum((A \ {x}) \ {y}) \in Int /\ f[x] \in Int /\ f[y] \in Int
    <3>1. (A \ {x}) \ {y} \in SUBSET S
      BY <2>1
    <3> QED BY <3>1, <1>1, <2>1, <2>2, <2>3
  <2>10. Sum(A) = f[y] + (f[x] + Sum((A \ {x}) \ {y}))
    BY <2>3, <2>6, <2>8
  <2>11. f[x] + Sum(A \ {x}) = f[x] + (f[y] + Sum((A \ {x}) \ {y}))
    BY <2>7
  <2> HIDE DEF Bad
  <2>12. Sum(A) = f[x] + Sum(A \ {x})
    BY <2>9, <2>10, <2>11
  <2> QED BY <2>2, <2>12
<1>3. \A x \in S : Sum(S) = f[x] + Sum(S \ {x})
  BY <1>2
<1> QED BY <1>1, <1>3 DEF Sum

LEMMA SumEmpty == ASSUME NEW f PROVE SumFunctionOnSet(f, {}) = 0
<1>1. IsFiniteSet({}) /\ \A x \in {} : f[x] \in Int
  BY FS_EmptySet
<1> QED BY <1>1, SumNext

LEMMA SumAdd ==
    ASSUME NEW S, IsFiniteSet(S), NEW f, \A x \in S : f[x] \in Int,
           NEW y, y \notin S, f[y] \in Int
    PROVE  SumFunctionOnSet(f, S \cup {y}) = f[y] + SumFunctionOnSet(f, S)
<1>1. IsFiniteSet(S \cup {y}) /\ \A x \in S \cup {y} : f[x] \in Int
  BY FS_AddElement
<1>2. (S \cup {y}) \ {y} = S
  OBVIOUS
<1>3. y \in S \cup {y}
  OBVIOUS
<1>4. SumFunctionOnSet(f, S \cup {y}) = f[y] + SumFunctionOnSet(f, (S \cup {y}) \ {y})
  BY <1>1, <1>3, SumRemove
<1> QED BY <1>2, <1>4

(* Only the values on the set count; and larger values have a larger sum.  *)
LEMMA SumAtMost ==
    ASSUME NEW S, IsFiniteSet(S), NEW f, NEW g,
           \A x \in S : f[x] \in Int /\ g[x] \in Int /\ f[x] <= g[x]
    PROVE  SumFunctionOnSet(f, S) <= SumFunctionOnSet(g, S)
<1> DEFINE Bad == {s \in SUBSET S : ~(SumFunctionOnSet(f, s) <= SumFunctionOnSet(g, s))}
<1>1. ASSUME Bad # {} PROVE FALSE
  <2>1. PICK A \in Bad : \A B \in Bad : B \subseteq A => B = A
    <3>1. Bad \subseteq SUBSET S
      OBVIOUS
    <3> HIDE DEF Bad
    <3> QED BY <1>1, <3>1, SmallestSet
  <2>2. A # {}
    <3>1. SumFunctionOnSet(f, {}) = 0 /\ SumFunctionOnSet(g, {}) = 0
      BY SumEmpty
    <3>2. A = {} => SumFunctionOnSet(f, A) <= SumFunctionOnSet(g, A)
      BY <3>1
    <3> QED BY <2>1, <3>2
  <2>3. PICK x : x \in A
    BY <2>2
  <2>4. /\ IsFiniteSet(A) /\ IsFiniteSet(A \ {x})
        /\ A \in SUBSET S /\ A \ {x} \in SUBSET S
    BY <2>1, FS_Subset
  <2>5. SumFunctionOnSet(f, A \ {x}) <= SumFunctionOnSet(g, A \ {x})
    BY <2>1, <2>3, <2>4
  <2>6. /\ SumFunctionOnSet(f, A) = f[x] + SumFunctionOnSet(f, A \ {x})
        /\ SumFunctionOnSet(g, A) = g[x] + SumFunctionOnSet(g, A \ {x})
    BY <2>3, <2>4, SumRemove
  <2>7. /\ SumFunctionOnSet(f, A \ {x}) \in Int /\ SumFunctionOnSet(g, A \ {x}) \in Int
        /\ SumFunctionOnSet(f, A) \in Int /\ SumFunctionOnSet(g, A) \in Int
    BY <2>4, SumRemove
  <2>8. f[x] \in Int /\ g[x] \in Int /\ f[x] <= g[x]
    BY <2>3, <2>4
  <2>9. SumFunctionOnSet(f, A) <= SumFunctionOnSet(g, A)
    BY <2>5, <2>6, <2>7, <2>8
  <2> QED BY <2>1, <2>9
<1> QED BY <1>1

LEMMA SumSame ==
    ASSUME NEW S, IsFiniteSet(S), NEW f, NEW g, \A x \in S : f[x] \in Int /\ f[x] = g[x]
    PROVE  SumFunctionOnSet(f, S) = SumFunctionOnSet(g, S)
<1>1. SumFunctionOnSet(f, S) <= SumFunctionOnSet(g, S)
  BY SumAtMost
<1>2. SumFunctionOnSet(g, S) <= SumFunctionOnSet(f, S)
  BY SumAtMost
<1>3. SumFunctionOnSet(f, S) \in Int /\ SumFunctionOnSet(g, S) \in Int
  BY SumRemove
<1> QED BY <1>1, <1>2, <1>3

(* Nothing but zeros is zero.                                              *)
LEMMA SumZero ==
    ASSUME NEW S, IsFiniteSet(S), NEW f, \A x \in S : f[x] = 0
    PROVE  SumFunctionOnSet(f, S) = 0
<1> DEFINE Bad == {s \in SUBSET S : SumFunctionOnSet(f, s) # 0}
<1>1. ASSUME Bad # {} PROVE FALSE
  <2>1. PICK A \in Bad : \A B \in Bad : B \subseteq A => B = A
    <3>1. Bad \subseteq SUBSET S
      OBVIOUS
    <3> HIDE DEF Bad
    <3> QED BY <1>1, <3>1, SmallestSet
  <2>2. PICK x : x \in A
    <3>1. SumFunctionOnSet(f, {}) = 0
      BY SumEmpty
    <3> QED BY <2>1, <3>1
  <2>3. SumFunctionOnSet(f, A \ {x}) = 0 /\ IsFiniteSet(A) /\ \A y \in A : f[y] \in Int
    BY <2>1, <2>2, FS_Subset
  <2>4. SumFunctionOnSet(f, A) = f[x] + SumFunctionOnSet(f, A \ {x})
    BY <2>2, <2>3, SumRemove
  <2>5. f[x] = 0
    BY <2>1, <2>2
  <2>6. SumFunctionOnSet(f, A) = 0
    BY <2>3, <2>4, <2>5
  <2> QED BY <2>1, <2>6
<1> QED BY <1>1

(* The sums over two parts of a set add up to the sum over it.             *)
LEMMA SumSplit ==
    ASSUME NEW S, IsFiniteSet(S), NEW f, \A x \in S : f[x] \in Int, NEW T, T \subseteq S
    PROVE  SumFunctionOnSet(f, S) = SumFunctionOnSet(f, T) + SumFunctionOnSet(f, S \ T)
<1> DEFINE Sum(s) == SumFunctionOnSet(f, s)
           Bad == {s \in SUBSET T : Sum(S) # Sum(s) + Sum(S \ s)}
<1>1. \A s \in SUBSET S : /\ IsFiniteSet(s) /\ Sum(s) \in Int
                          /\ \A x \in s : Sum(s) = f[x] + Sum(s \ {x})
  BY FS_Subset, SumRemove
<1>2. Sum({}) = 0
  BY SumEmpty
<1> HIDE DEF Sum
<1>3. ASSUME Bad # {} PROVE FALSE
  <2>1. PICK A \in Bad : \A B \in Bad : B \subseteq A => B = A
    <3>1. Bad \subseteq SUBSET T /\ IsFiniteSet(T)
      BY FS_Subset
    <3> HIDE DEF Bad
    <3> QED BY <1>3, <3>1, SmallestSet
  <2>2. PICK x : x \in A
    <3>1. S \ {} = S
      OBVIOUS
    <3>2. Sum(S) = Sum({}) + Sum(S \ {})
      BY <1>1, <1>2, <3>1
    <3> QED BY <2>1, <3>2
  <2>3. Sum(S) = Sum(A \ {x}) + Sum(S \ (A \ {x}))
    BY <2>1, <2>2
  <2>4. Sum(A) = f[x] + Sum(A \ {x})
    BY <1>1, <2>1, <2>2
  <2>5. (S \ (A \ {x})) \ {x} = S \ A
    BY <2>2
  <2>6. Sum(S \ (A \ {x})) = f[x] + Sum(S \ A)
    <3>1. S \ (A \ {x}) \in SUBSET S /\ x \in S \ (A \ {x})
      BY <2>1, <2>2
    <3> QED BY <1>1, <2>5, <3>1
  <2>7. f[x] \in Int /\ Sum(A \ {x}) \in Int /\ Sum(S \ A) \in Int
    <3>1. A \ {x} \in SUBSET S /\ S \ A \in SUBSET S
      BY <2>1
    <3> QED BY <1>1, <3>1, <2>1, <2>2
  <2> HIDE DEF Bad
  <2>8. Sum(S) = Sum(A) + Sum(S \ A)
    BY <2>3, <2>4, <2>6, <2>7
  <2> QED BY <2>1, <2>8 DEF Bad
<1>4. Sum(S) = Sum(T) + Sum(S \ T)
  BY <1>3
<1> QED BY <1>4 DEF Sum

(* Elements of value zero do not count.                                    *)
LEMMA SumOmit ==
    ASSUME NEW S, IsFiniteSet(S), NEW f, \A x \in S : f[x] \in Int,
           NEW T, T \subseteq S, \A x \in S \ T : f[x] = 0
    PROVE  SumFunctionOnSet(f, S) = SumFunctionOnSet(f, T)
<1>1. SumFunctionOnSet(f, S) = SumFunctionOnSet(f, T) + SumFunctionOnSet(f, S \ T)
  BY SumSplit
<1>2. IsFiniteSet(S \ T) /\ IsFiniteSet(T)
  BY FS_Subset
<1>3. SumFunctionOnSet(f, S \ T) = 0
  BY <1>2, SumZero
<1>4. SumFunctionOnSet(f, T) \in Int
  BY <1>2, SumRemove
<1> QED BY <1>1, <1>3, <1>4

(* A constant counts as often as there are elements.                       *)
LEMMA SumConstant ==
    ASSUME NEW S, IsFiniteSet(S), NEW c \in Int, NEW f, \A x \in S : f[x] = c
    PROVE  Cardinality(S) \in Nat /\ SumFunctionOnSet(f, S) = Cardinality(S) * c
<1> DEFINE Bad == {s \in SUBSET S : SumFunctionOnSet(f, s) # Cardinality(s) * c}
<1>1. ASSUME Bad # {} PROVE FALSE
  <2>1. PICK A \in Bad : \A B \in Bad : B \subseteq A => B = A
    <3>1. Bad \subseteq SUBSET S
      OBVIOUS
    <3> HIDE DEF Bad
    <3> QED BY <1>1, <3>1, SmallestSet
  <2>2. PICK x : x \in A
    <3>1. SumFunctionOnSet(f, {}) = 0 /\ Cardinality({}) = 0
      BY SumEmpty, FS_EmptySet
    <3>2. A = {} => SumFunctionOnSet(f, A) = Cardinality(A) * c
      BY <3>1
    <3> QED BY <2>1, <3>2
  <2>3. /\ IsFiniteSet(A) /\ IsFiniteSet(A \ {x}) /\ A \ {x} \in SUBSET S
        /\ \A y \in A : f[y] \in Int
        /\ f[x] = c
    BY <2>1, <2>2, FS_Subset
  <2>4. SumFunctionOnSet(f, A \ {x}) = Cardinality(A \ {x}) * c
    BY <2>1, <2>2, <2>3
  <2>5. SumFunctionOnSet(f, A) = f[x] + SumFunctionOnSet(f, A \ {x})
    BY <2>2, <2>3, SumRemove
  <2>6. Cardinality(A \ {x}) = Cardinality(A) - 1 /\ Cardinality(A) \in Nat
    BY <2>2, <2>3, FS_RemoveElement, FS_CardinalityType
  <2> HIDE DEF Bad
  <2>7. \A n \in Int : c + (n - 1) * c = n * c
    OBVIOUS
  <2>8. SumFunctionOnSet(f, A) = Cardinality(A) * c
    BY <2>3, <2>4, <2>5, <2>6, <2>7
  <2> QED BY <2>1, <2>8 DEF Bad
<1> QED BY <1>1, FS_CardinalityType

(* Values scaled by a factor have the sum scaled by it.                    *)
LEMMA SumScale ==
    ASSUME NEW S, IsFiniteSet(S), NEW f, NEW c \in Int,
           NEW g, \A x \in S : f[x] \in Int /\ g[x] = c * f[x]
    PROVE  SumFunctionOnSet(g, S) = c * SumFunctionOnSet(f, S)
<1> DEFINE Bad == {s \in SUBSET S : SumFunctionOnSet(g, s) # c * SumFunctionOnSet(f, s)}
<1>1. ASSUME Bad # {} PROVE FALSE
  <2>1. PICK A \in Bad : \A B \in Bad : B \subseteq A => B = A
    <3>1. Bad \subseteq SUBSET S
      OBVIOUS
    <3> HIDE DEF Bad
    <3> QED BY <1>1, <3>1, SmallestSet
  <2>2. PICK x : x \in A
    <3>1. SumFunctionOnSet(f, {}) = 0 /\ SumFunctionOnSet(g, {}) = 0
      BY SumEmpty
    <3>2. A = {} => SumFunctionOnSet(g, A) = c * SumFunctionOnSet(f, A)
      BY <3>1
    <3> QED BY <2>1, <3>2
  <2>3. /\ IsFiniteSet(A) /\ IsFiniteSet(A \ {x}) /\ A \ {x} \in SUBSET S
        /\ \A y \in A : f[y] \in Int /\ g[y] \in Int
        /\ f[x] \in Int /\ g[x] = c * f[x]
    BY <2>1, <2>2, FS_Subset
  <2>4. SumFunctionOnSet(g, A \ {x}) = c * SumFunctionOnSet(f, A \ {x})
    BY <2>1, <2>2, <2>3
  <2>5. /\ SumFunctionOnSet(f, A) = f[x] + SumFunctionOnSet(f, A \ {x})
        /\ SumFunctionOnSet(g, A) = g[x] + SumFunctionOnSet(g, A \ {x})
        /\ SumFunctionOnSet(f, A \ {x}) \in Int
    BY <2>2, <2>3, SumRemove
  <2> HIDE DEF Bad
  <2>6. \A a, b \in Int : c * (a + b) = c * a + c * b
    OBVIOUS
  <2>7. SumFunctionOnSet(g, A) = c * SumFunctionOnSet(f, A)
    BY <2>3, <2>4, <2>5, <2>6
  <2> QED BY <2>1, <2>7 DEF Bad
<1> QED BY <1>1

(* One value changes, and so does the sum, if the element is in the set.   *)
LEMMA SumChange ==
    ASSUME NEW S, IsFiniteSet(S), NEW f, NEW g, NEW y,
           \A x \in S : f[x] \in Int /\ g[x] \in Int,
           \A x \in S : x # y => f[x] = g[x]
    PROVE  /\ y \in S => SumFunctionOnSet(g, S) = SumFunctionOnSet(f, S) + g[y] - f[y]
           /\ y \notin S => SumFunctionOnSet(g, S) = SumFunctionOnSet(f, S)
<1>1. CASE y \notin S
  <2>1. \A x \in S : f[x] \in Int /\ f[x] = g[x]
    BY <1>1
  <2> QED BY <1>1, <2>1, SumSame
<1>2. CASE y \in S
  <2>1. IsFiniteSet(S \ {y}) /\ \A x \in S \ {y} : f[x] \in Int /\ f[x] = g[x]
    BY FS_RemoveElement
  <2>2. SumFunctionOnSet(f, S \ {y}) = SumFunctionOnSet(g, S \ {y})
    BY <2>1, SumSame
  <2>3. SumFunctionOnSet(f, S) = f[y] + SumFunctionOnSet(f, S \ {y})
    BY <1>2, SumRemove
  <2>4. SumFunctionOnSet(g, S) = g[y] + SumFunctionOnSet(g, S \ {y})
    BY <1>2, SumRemove
  <2>5. SumFunctionOnSet(f, S \ {y}) \in Int
    BY <2>1, SumRemove
  <2> QED BY <1>2, <2>2, <2>3, <2>4, <2>5
<1> QED BY <1>1, <1>2
===============================================================================

---------------------------- MODULE CommonLemmas ----------------------------
(***************************************************************************)
(* What the proofs of several components use.  A sum takes one element at  *)
(* a time, in any order; a sequence gets a first element, or loses one;    *)
(* the powers of two double.                                               *)
(***************************************************************************)
EXTENDS SequencesExt, FiniteSetsExt, FiniteSetTheorems, SequenceTheorems, WellFoundedInduction, TLAPS

-----------------------------------------------------------------------------
(* Induction.  A set of numbers that is not empty has a least element, and *)
(* so has a set of finite sets, by cardinality: a smallest counterexample  *)
(* is what many proofs refute.                                             *)
LEMMA Least ==
  ASSUME NEW T \in SUBSET Nat, T # {}
  PROVE  \E n \in T : \A m \in T : n <= m
<1> DEFINE R == {ss \in Nat \X Nat : ss[1] < ss[2]}
<1>1. IsWellFoundedOn(R, Nat)
  BY NatLessThanWellFounded DEF OpToRel
<1>2. PICK n \in T : \A m \in T : ~(<<m, n>> \in R)
  <2> HIDE DEF R
  <2>1. QED
    BY <1>1, WFMin
<1>3. \A m \in T : ~(m < n)
  BY <1>2
<1>4. QED
  BY <1>3

(* Induction, for a set instead of a predicate. *)
LEMMA NatSet ==
  ASSUME NEW T, 0 \in T, \A k \in T \cap Nat : k + 1 \in T
  PROVE  \A k \in Nat : k \in T
<1> DEFINE R == {ss \in Nat \X Nat : ss[1] < ss[2]}
           Out == Nat \ T
<1>1. IsWellFoundedOn(R, Nat)
  BY NatLessThanWellFounded DEF OpToRel
<1>2. SUFFICES ASSUME Out # {} PROVE FALSE
  OBVIOUS
<1>3. Out \in SUBSET Nat
  OBVIOUS
<1>4. PICK k \in Out : \A j \in Out : ~(<<j, k>> \in R)
  <2> HIDE DEF R, Out
  <2>1. QED
    BY <1>1, <1>2, <1>3, WFMin
<1>5. k \in Nat /\ k \notin T /\ k # 0 /\ k - 1 \in Nat /\ k - 1 < k /\ (k - 1) + 1 = k
  OBVIOUS
<1>6. <<k - 1, k>> \in R
  BY <1>5
<1>7. k - 1 \in T
  BY <1>4, <1>5, <1>6
<1>8. (k - 1) + 1 \in T
  <2> HIDE DEF R, Out
  <2>1. QED
    BY <1>5, <1>7
<1>9. QED
  BY <1>5, <1>8

LEMMA Smallest ==
  ASSUME NEW S, IsFiniteSet(S), NEW F \in SUBSET SUBSET S, F # {}
  PROVE  \E T \in F : \A U \in F : Cardinality(T) <= Cardinality(U)
<1> DEFINE N == {Cardinality(T) : T \in F}
<1>1. \A T \in F : Cardinality(T) \in Nat
  BY FS_Subset, FS_CardinalityType
<1>2. N \in SUBSET Nat /\ N # {}
  BY <1>1
<1>3. PICK n \in N : \A m \in N : n <= m
  <2> HIDE DEF N
  <2>1. QED
    BY <1>2, Least
<1>4. QED
  BY <1>3

-----------------------------------------------------------------------------
(* The sums of the models are of this form.  The fold behind them takes an  *)
(* arbitrary element first: the recursion Iter.                            *)
Sum(f, S) == MapThenSumSet(LAMBDA x : f[x], S)

Chosen(s) == CHOOSE x \in s : TRUE

Step(f, g, s) == IF s = {} THEN 0 ELSE f[Chosen(s)] + g[s \ {Chosen(s)}]

Iter(f, S) == CHOOSE iter : iter = [s \in SUBSET S |-> Step(f, iter, s)]

LEMMA SumIs ==
  ASSUME NEW f, NEW S
  PROVE Sum(f, S) = Iter(f, S)[S]
BY DEF Sum, MapThenSumSet, MapThenFoldSet, Iter, Chosen, Step

LEMMA LessOne ==
  ASSUME NEW S, IsFiniteSet(S), NEW T \in SUBSET S, NEW x \in T
  PROVE  /\ T \ {x} \in SUBSET S /\ IsFiniteSet(T)
         /\ Cardinality(T) \in Nat /\ Cardinality(T \ {x}) \in Nat
         /\ Cardinality(T \ {x}) < Cardinality(T)
<1>1. IsFiniteSet(T)
  BY FS_Subset
<1>2. Cardinality(T) \in Nat /\ Cardinality(T \ {x}) = Cardinality(T) - 1
  BY <1>1, FS_RemoveElement, FS_CardinalityType
<1>3. Cardinality(T \ {x}) \in Nat
  BY <1>1, FS_RemoveElement, FS_CardinalityType
<1>4. QED
  BY <1>1, <1>2, <1>3

LEMMA ChosenIn ==
  ASSUME NEW s, s # {}
  PROVE  Chosen(s) \in s
BY DEF Chosen

(* The recursion of the fold has a solution, ...                           *)
LEMMA IterExists ==
  ASSUME NEW S, IsFiniteSet(S), NEW f
  PROVE  Iter(f, S) = [s \in SUBSET S |-> Step(f, Iter(f, S), s)]
<1> DEFINE Small(n) == {s \in SUBSET S : Cardinality(s) < n}
           Solves(g, n) == /\ g = [s \in SUBSET S |-> g[s]]
                           /\ \A s \in Small(n) : g[s] = Step(f, g, s)
           Unsolved == {n \in Nat : ~\E g : Solves(g, n)}
<1>1. Unsolved = {}
  <2>1. SUFFICES ASSUME Unsolved # {} PROVE FALSE
    OBVIOUS
  <2>2. PICK n \in Unsolved : \A m \in Unsolved : n <= m
    <3>1. Unsolved \in SUBSET Nat
      OBVIOUS
    <3> HIDE DEF Unsolved
    <3>2. QED
      BY <2>1, <3>1, Least
  <2>3. n \in Nat /\ ~\E g : Solves(g, n)
    BY <2>2
  <2>4. \A s \in SUBSET S : Cardinality(s) \in Nat
    BY FS_Subset, FS_CardinalityType
  <2>5. n # 0
    <3>1. SUFFICES ASSUME n = 0 PROVE FALSE
      OBVIOUS
    <3>2. Small(n) = {}
      BY <2>4, <3>1
    <3>3. Solves([s \in SUBSET S |-> 0], n)
      BY <3>2
    <3>4. QED
      BY <2>3, <3>3
  <2>6. n - 1 \in Nat /\ n - 1 \notin Unsolved
    <3>1. n - 1 \in Nat /\ ~(n <= n - 1)
      BY <2>3, <2>5
    <3> HIDE DEF Unsolved
    <3>2. QED
      BY <2>2, <3>1
  <2>7. PICK g : Solves(g, n - 1)
    BY <2>6
  <2> DEFINE h == [s \in SUBSET S |-> Step(f, g, s)]
  <2>8. \A s \in Small(n - 1) : h[s] = g[s]
    BY <2>7
  <2>9. ASSUME NEW s \in Small(n)
        PROVE  Step(f, h, s) = Step(f, g, s)
    <3>1. CASE s = {}
      BY <3>1 DEF Step
    <3>2. CASE s # {}
      <4>1. Chosen(s) \in s
        BY <3>2, ChosenIn
      <4>2. s \ {Chosen(s)} \in Small(n - 1)
        <5>1. /\ s \ {Chosen(s)} \in SUBSET S
              /\ Cardinality(s) \in Nat /\ Cardinality(s \ {Chosen(s)}) \in Nat
              /\ Cardinality(s \ {Chosen(s)}) < Cardinality(s)
          BY <2>9, <4>1, LessOne
        <5>2. QED
          BY <2>3, <2>9, <5>1
      <4>3. h[s \ {Chosen(s)}] = g[s \ {Chosen(s)}]
        BY <2>8, <4>2
      <4>4. QED
        BY <3>2, <4>3 DEF Step
    <3>3. QED
      BY <3>1, <3>2
  <2>10. Solves(h, n)
    BY <2>9
  <2>11. QED
    BY <2>3, <2>10
<1>2. PICK g : Solves(g, Cardinality(S) + 1)
  <2>1. Cardinality(S) + 1 \in Nat
    BY FS_CardinalityType
  <2> HIDE DEF Solves
  <2>2. QED
    BY <1>1, <2>1
<1>3. \A s \in SUBSET S : s \in Small(Cardinality(S) + 1)
  BY FS_Subset, FS_CardinalityType
<1>4. g = [s \in SUBSET S |-> Step(f, g, s)]
  BY <1>2, <1>3
<1>5. QED
  BY <1>4 DEF Iter

LEMMA IterSteps ==
  ASSUME NEW S, IsFiniteSet(S), NEW f
  PROVE  \A T \in SUBSET S : Iter(f, S)[T] = Step(f, Iter(f, S), T)
<1> DEFINE g == Iter(f, S)
<1>1. g = [s \in SUBSET S |-> Step(f, g, s)]
  BY IterExists
<1> HIDE DEF g
<1>2. \A T \in SUBSET S : g[T] = Step(f, g, T)
  BY <1>1
<1>3. QED
  BY <1>2 DEF g

(* ... which does not depend on the set it begins with, ...                *)
LEMMA IterOnSubset ==
  ASSUME NEW S, IsFiniteSet(S), NEW f, NEW T \in SUBSET S
  PROVE  Iter(f, S)[T] = Iter(f, T)[T]
<1> DEFINE Bad == {U \in SUBSET T : Iter(f, S)[U] # Iter(f, T)[U]}
<1>1. SUFFICES ASSUME Bad # {} PROVE FALSE
  OBVIOUS
<1>2. IsFiniteSet(T)
  BY FS_Subset
<1>3. PICK U \in Bad : \A V \in Bad : Cardinality(U) <= Cardinality(V)
  <2>1. Bad \in SUBSET SUBSET T
    OBVIOUS
  <2> HIDE DEF Bad
  <2>2. QED
    BY <1>1, <1>2, <2>1, Smallest
<1>4. U \in SUBSET T /\ U \in SUBSET S
  BY <1>3
<1>5. Iter(f, S)[U] = Step(f, Iter(f, S), U) /\ Iter(f, T)[U] = Step(f, Iter(f, T), U)
  BY <1>2, <1>4, IterSteps
<1>6. U # {}
  <2>1. U = {} => Step(f, Iter(f, S), U) = Step(f, Iter(f, T), U)
    BY DEF Step
  <2>2. QED
    BY <1>3, <1>5, <2>1
<1> DEFINE V == U \ {Chosen(U)}
<1>7. V \in SUBSET T /\ V \notin Bad
  <2>1. Chosen(U) \in U
    BY <1>6, ChosenIn
  <2>2. /\ V \in SUBSET T /\ Cardinality(U) \in Nat /\ Cardinality(V) \in Nat
        /\ Cardinality(V) < Cardinality(U)
    BY <1>2, <1>4, <2>1, LessOne
  <2> HIDE DEF V, Bad
  <2>3. QED
    BY <1>3, <2>2
<1>8. Iter(f, S)[V] = Iter(f, T)[V]
  BY <1>7
<1>9. Step(f, Iter(f, S), U) = Step(f, Iter(f, T), U)
  BY <1>6, <1>8 DEF Step
<1>10. QED
  BY <1>3, <1>5, <1>9

(* ... so that a sum takes one element at a time.                          *)
LEMMA SumStep ==
  ASSUME NEW S, IsFiniteSet(S), NEW f
  PROVE  Sum(f, S) = IF S = {} THEN 0 ELSE f[Chosen(S)] + Sum(f, S \ {Chosen(S)})
<1>1. Sum(f, S) = Step(f, Iter(f, S), S)
  <2>1. S \in SUBSET S
    OBVIOUS
  <2>2. QED
    BY <2>1, SumIs, IterSteps
<1>2. Iter(f, S)[S \ {Chosen(S)}] = Sum(f, S \ {Chosen(S)})
  BY SumIs, IterOnSubset
<1>3. QED
  BY <1>1, <1>2 DEF Step

LEMMA SumEmpty ==
  ASSUME NEW f
  PROVE  Sum(f, {}) = 0
BY SumStep, FS_EmptySet

LEMMA SumType ==
  ASSUME NEW S, IsFiniteSet(S), NEW f, \A x \in S : f[x] \in Nat
  PROVE  \A T \in SUBSET S : Sum(f, T) \in Nat
<1>0. Sum(f, {}) = 0
  BY SumEmpty
<1> DEFINE Bad == {U \in SUBSET S : Sum(f, U) \notin Nat}
<1>1. SUFFICES ASSUME Bad # {} PROVE FALSE
  OBVIOUS
<1>2. PICK U \in Bad : \A V \in Bad : Cardinality(U) <= Cardinality(V)
  <2>1. Bad \in SUBSET SUBSET S
    OBVIOUS
  <2> HIDE DEF Bad
  <2>2. QED
    BY <1>1, <2>1, Smallest
<1>3. U \in SUBSET S /\ IsFiniteSet(U) /\ U # {} /\ Chosen(U) \in U
  <2>1. U \in SUBSET S /\ Sum(f, U) \notin Nat
    BY <1>2
  <2>2. U # {}
    BY <1>0, <2>1
  <2>3. QED
    BY <2>1, <2>2, FS_Subset, ChosenIn
<1> DEFINE V == U \ {Chosen(U)}
<1>4. V \in SUBSET S /\ V \notin Bad
  <2>1. /\ V \in SUBSET S /\ Cardinality(U) \in Nat /\ Cardinality(V) \in Nat
        /\ Cardinality(V) < Cardinality(U)
    BY <1>3, LessOne
  <2> HIDE DEF V, Bad
  <2>2. QED
    BY <1>2, <2>1
<1>5. Sum(f, U) = f[Chosen(U)] + Sum(f, V)
  BY <1>3, SumStep
<1>6. QED
  BY <1>2, <1>3, <1>4, <1>5

(* It does not matter which one is taken first.                            *)
LEMMA SumTake ==
  ASSUME NEW S, IsFiniteSet(S), NEW f, \A x \in S : f[x] \in Nat
  PROVE  \A T \in SUBSET S : \A x \in T : Sum(f, T) = f[x] + Sum(f, T \ {x})
<1> DEFINE Good(T) == \A x \in T : Sum(f, T) = f[x] + Sum(f, T \ {x})
           Bad == {T \in SUBSET S : ~Good(T)}
<1>1. SUFFICES ASSUME Bad # {} PROVE FALSE
  OBVIOUS
<1>2. PICK U \in Bad : \A V \in Bad : Cardinality(U) <= Cardinality(V)
  <2>1. Bad \in SUBSET SUBSET S
    OBVIOUS
  <2> HIDE DEF Bad
  <2>2. QED
    BY <1>1, <2>1, Smallest
<1>3. U \in SUBSET S /\ IsFiniteSet(U)
  BY <1>2, FS_Subset
<1>4. PICK x \in U : Sum(f, U) # f[x] + Sum(f, U \ {x})
  BY <1>2
<1>5. \A y \in U : U \ {y} \in SUBSET S /\ Good(U \ {y})
  <2>1. ASSUME NEW y \in U
        PROVE  U \ {y} \in SUBSET S /\ U \ {y} \notin Bad
    <3>1. /\ U \ {y} \in SUBSET S /\ Cardinality(U) \in Nat /\ Cardinality(U \ {y}) \in Nat
          /\ Cardinality(U \ {y}) < Cardinality(U)
      BY <1>3, LessOne
    <3> HIDE DEF Bad
    <3>2. QED
      BY <1>2, <3>1
  <2>2. QED
    BY <2>1
<1> DEFINE a == Chosen(U)
<1>6. a \in U /\ Sum(f, U) = f[a] + Sum(f, U \ {a})
  BY <1>3, <1>4, ChosenIn, SumStep
<1> HIDE DEF a
<1>7. a # x
  BY <1>4, <1>6
<1>8. Sum(f, U \ {a}) = f[x] + Sum(f, (U \ {a}) \ {x})
  BY <1>4, <1>5, <1>6, <1>7
<1>9. Sum(f, U \ {x}) = f[a] + Sum(f, (U \ {x}) \ {a})
  BY <1>4, <1>5, <1>6, <1>7
<1>10. (U \ {a}) \ {x} = (U \ {x}) \ {a}
  OBVIOUS
<1>11. /\ f[a] \in Nat /\ f[x] \in Nat
       /\ Sum(f, (U \ {a}) \ {x}) \in Nat
  BY <1>3, <1>4, <1>6, SumType
<1> DEFINE p == Sum(f, (U \ {a}) \ {x})
<1>12. Sum(f, U) = f[a] + (f[x] + p) /\ Sum(f, U \ {x}) = f[a] + p
  BY <1>6, <1>8, <1>9, <1>10
<1>13. p \in Nat
  BY <1>11
<1> HIDE DEF p
<1>14. Sum(f, U) = f[x] + Sum(f, U \ {x})
  BY <1>11, <1>12, <1>13
<1>15. QED
  BY <1>4, <1>14

(* Functions that agree have the same sum.                                 *)
LEMMA SumSame ==
  ASSUME NEW S, IsFiniteSet(S), NEW f, NEW g, \A x \in S : f[x] = g[x]
  PROVE  Sum(f, S) = Sum(g, S)
<1> DEFINE Bad == {U \in SUBSET S : Sum(f, U) # Sum(g, U)}
<1>1. SUFFICES ASSUME Bad # {} PROVE FALSE
  OBVIOUS
<1>2. PICK U \in Bad : \A V \in Bad : Cardinality(U) <= Cardinality(V)
  <2>1. Bad \in SUBSET SUBSET S
    OBVIOUS
  <2> HIDE DEF Bad
  <2>2. QED
    BY <1>1, <2>1, Smallest
<1>3. U \in SUBSET S /\ IsFiniteSet(U) /\ U # {} /\ Chosen(U) \in U
  BY <1>2, FS_Subset, SumEmpty, ChosenIn
<1> DEFINE V == U \ {Chosen(U)}
<1>4. V \in SUBSET S /\ V \notin Bad
  <2>1. /\ V \in SUBSET S /\ Cardinality(U) \in Nat /\ Cardinality(V) \in Nat
        /\ Cardinality(V) < Cardinality(U)
    BY <1>3, LessOne
  <2> HIDE DEF V, Bad
  <2>2. QED
    BY <1>2, <2>1
<1>5. Sum(f, U) = f[Chosen(U)] + Sum(f, V) /\ Sum(g, U) = g[Chosen(U)] + Sum(g, V)
  BY <1>3, SumStep
<1>6. QED
  BY <1>2, <1>3, <1>4, <1>5

(* One more for one of the elements is one more in all.                    *)
LEMMA SumIncrement ==
  ASSUME NEW S, IsFiniteSet(S), NEW f, NEW g, NEW x \in S,
         \A y \in S : f[y] \in Nat,
         \A y \in S \ {x} : g[y] = f[y], g[x] = f[x] + 1
  PROVE  Sum(g, S) = Sum(f, S) + 1
<1>1. \A y \in S : g[y] \in Nat
  OBVIOUS
<1>2. Sum(f, S) = f[x] + Sum(f, S \ {x}) /\ Sum(g, S) = g[x] + Sum(g, S \ {x})
  BY <1>1, SumTake
<1>3. Sum(f, S \ {x}) = Sum(g, S \ {x}) /\ Sum(f, S \ {x}) \in Nat
  BY SumSame, SumType, FS_RemoveElement
<1>4. QED
  BY <1>2, <1>3

LEMMA SumOfEquals ==
  ASSUME NEW S, IsFiniteSet(S), NEW f, NEW n \in Nat, \A x \in S : f[x] = n
  PROVE  Sum(f, S) = Cardinality(S) * n
<1> DEFINE Bad == {U \in SUBSET S : Sum(f, U) # Cardinality(U) * n}
<1>1. SUFFICES ASSUME Bad # {} PROVE FALSE
  OBVIOUS
<1>2. PICK U \in Bad : \A V \in Bad : Cardinality(U) <= Cardinality(V)
  <2>1. Bad \in SUBSET SUBSET S
    OBVIOUS
  <2> HIDE DEF Bad
  <2>2. QED
    BY <1>1, <2>1, Smallest
<1>3. U \in SUBSET S /\ IsFiniteSet(U) /\ U # {} /\ Chosen(U) \in U
  BY <1>2, FS_Subset, FS_EmptySet, SumEmpty, ChosenIn
<1> DEFINE V == U \ {Chosen(U)}
<1>4. /\ V \in SUBSET S /\ V \notin Bad
      /\ Cardinality(V) \in Nat /\ Cardinality(U) = Cardinality(V) + 1
  <2>1. /\ V \in SUBSET S /\ Cardinality(U) \in Nat /\ Cardinality(V) \in Nat
        /\ Cardinality(V) < Cardinality(U) /\ Cardinality(V) = Cardinality(U) - 1
    BY <1>3, LessOne, FS_RemoveElement
  <2> HIDE DEF V, Bad
  <2>2. QED
    BY <1>2, <2>1
<1>5. Sum(f, U) = n + Sum(f, V)
  BY <1>3, SumStep
<1>6. Sum(f, V) = Cardinality(V) * n
  BY <1>4
<1>7. (Cardinality(V) + 1) * n = Cardinality(V) * n + n
  BY <1>4
<1>8. QED
  BY <1>2, <1>4, <1>5, <1>6, <1>7

(* The elements of a part, and the others.                                 *)
LEMMA SumSplit ==
  ASSUME NEW S, IsFiniteSet(S), NEW f, \A x \in S : f[x] \in Nat
  PROVE  \A T \in SUBSET S : Sum(f, S) = Sum(f, T) + Sum(f, S \ T)
<1> DEFINE Bad == {T \in SUBSET S : Sum(f, S) # Sum(f, T) + Sum(f, S \ T)}
<1>1. SUFFICES ASSUME Bad # {} PROVE FALSE
  OBVIOUS
<1>2. PICK U \in Bad : \A V \in Bad : Cardinality(U) <= Cardinality(V)
  <2>1. Bad \in SUBSET SUBSET S
    OBVIOUS
  <2> HIDE DEF Bad
  <2>2. QED
    BY <1>1, <2>1, Smallest
<1>3. U \in SUBSET S /\ Sum(f, S) # Sum(f, U) + Sum(f, S \ U)
  BY <1>2
<1>4. Sum(f, S) \in Nat
  BY SumType
<1>5. PICK x : x \in U
  <2>1. U = {} => S \ U = S
    OBVIOUS
  <2>2. QED
    BY <1>3, <1>4, <2>1, SumEmpty
<1> DEFINE V == U \ {x}
<1>6. V \in SUBSET S /\ V \notin Bad
  <2>1. /\ V \in SUBSET S /\ Cardinality(U) \in Nat /\ Cardinality(V) \in Nat
        /\ Cardinality(V) < Cardinality(U)
    BY <1>3, <1>5, LessOne
  <2> HIDE DEF V, Bad
  <2>2. QED
    BY <1>2, <2>1
<1>7. Sum(f, S) = Sum(f, V) + Sum(f, S \ V)
  BY <1>6
<1>8. Sum(f, U) = f[x] + Sum(f, V)
  BY <1>3, <1>5, SumTake
<1>9. Sum(f, S \ V) = f[x] + Sum(f, S \ U)
  <2>1. x \in S \ V /\ (S \ V) \ {x} = S \ U /\ S \ V \in SUBSET S
    BY <1>3, <1>5
  <2> HIDE DEF V
  <2>2. QED
    BY <2>1, SumTake
<1>10. f[x] \in Nat /\ Sum(f, V) \in Nat /\ Sum(f, S \ U) \in Nat
  BY <1>3, <1>5, <1>6, SumType
<1> HIDE DEF V
<1>11. QED
  BY <1>3, <1>7, <1>8, <1>9, <1>10

(* One element has another value.                                          *)
LEMMA SumReplace ==
  ASSUME NEW S, IsFiniteSet(S), NEW f, NEW g, NEW x \in S,
         \A y \in S : f[y] \in Nat /\ g[y] \in Nat,
         \A y \in S \ {x} : g[y] = f[y]
  PROVE  Sum(g, S) + f[x] = Sum(f, S) + g[x]
<1>1. Sum(f, S) = f[x] + Sum(f, S \ {x}) /\ Sum(g, S) = g[x] + Sum(g, S \ {x})
  BY SumTake
<1>2. Sum(f, S \ {x}) = Sum(g, S \ {x}) /\ Sum(f, S \ {x}) \in Nat
  BY SumSame, SumType, FS_RemoveElement
<1>3. QED
  BY <1>1, <1>2

(* A part T has become nothing.                                            *)
Cleared(f, g, S, T) == \A y \in S : g[y] = IF y \in T THEN 0 ELSE f[y]

LEMMA SumClear ==
  ASSUME NEW S, IsFiniteSet(S), NEW f, NEW g, NEW T \in SUBSET S,
         \A y \in S : f[y] \in Nat, Cleared(f, g, S, T)
  PROVE  Sum(g, S) + Sum(f, T) = Sum(f, S) /\ Sum(f, T) \in Nat
<1>0. \A y \in S : g[y] = IF y \in T THEN 0 ELSE f[y]
  BY DEF Cleared
<1>1. \A y \in S : g[y] \in Nat
  BY <1>0
<1>2. IsFiniteSet(T) /\ IsFiniteSet(S \ T)
  BY FS_Subset, FS_Difference
<1>3. Sum(f, S) = Sum(f, T) + Sum(f, S \ T)
  BY SumSplit
<1>4. Sum(g, S) = Sum(g, T) + Sum(g, S \ T)
  BY <1>1, SumSplit
<1>5. Sum(g, S \ T) = Sum(f, S \ T)
  BY <1>0, <1>2, SumSame
<1>6. Sum(g, T) = 0
  <2>1. Sum(g, T) = Cardinality(T) * 0
    BY <1>0, <1>2, SumOfEquals
  <2>2. QED
    BY <1>2, <2>1, FS_CardinalityType
<1>7. Sum(f, T) \in Nat /\ Sum(f, S \ T) \in Nat
  BY SumType
<1>8. QED
  BY <1>3, <1>4, <1>5, <1>6, <1>7

-----------------------------------------------------------------------------
(* Changes of a sequence. *)
Grown(s, e) == <<e>> \o s

LEMMA GrownChain ==
  ASSUME NEW S, NEW s \in Seq(S), NEW e \in S
  PROVE  /\ Grown(s, e) \in Seq(S) /\ Len(Grown(s, e)) = Len(s) + 1
         /\ DOMAIN Grown(s, e) = 1..(Len(s) + 1)
         /\ Grown(s, e)[1] = e
         /\ \A i \in 2..(Len(s) + 1) : Grown(s, e)[i] = s[i - 1]
         /\ Range(Grown(s, e)) = Range(s) \cup {e}
<1>1. <<e>> \in Seq(S) /\ Len(<<e>>) = 1 /\ <<e>>[1] = e
  OBVIOUS
<1>2. Grown(s, e) \in Seq(S)
  BY <1>1 DEF Grown
<1>3. Len(Grown(s, e)) = Len(s) + 1 /\ DOMAIN Grown(s, e) = 1..(Len(s) + 1)
  BY <1>1 DEF Grown
<1>4. /\ Grown(s, e)[1] = e
      /\ \A i \in 2..(Len(s) + 1) : Grown(s, e)[i] = s[i - 1]
  BY <1>1 DEF Grown
<1>5. DOMAIN s = 1..Len(s) /\ Len(s) \in Nat
  OBVIOUS
<1>6. Range(s) \cup {e} \subseteq Range(Grown(s, e))
  <2>1. \A i \in DOMAIN s : i + 1 \in 2..(Len(s) + 1) /\ Grown(s, e)[i + 1] = s[i]
    BY <1>4, <1>5
  <2>2. 1 \in DOMAIN Grown(s, e)
    BY <1>3, <1>5
  <2>3. \A i \in DOMAIN s : i + 1 \in DOMAIN Grown(s, e)
    BY <1>3, <1>5
  <2>4. QED
    BY <1>4, <2>1, <2>2, <2>3 DEF Range
<1>7. Range(Grown(s, e)) \subseteq Range(s) \cup {e}
  <2>1. ASSUME NEW i \in DOMAIN Grown(s, e)
        PROVE  Grown(s, e)[i] \in Range(s) \cup {e}
    <3>1. CASE i = 1
      BY <1>4, <3>1
    <3>2. CASE i # 1
      <4>1. i \in 2..(Len(s) + 1) /\ i - 1 \in DOMAIN s
        BY <1>3, <1>5, <3>2
      <4>2. QED
        BY <1>4, <4>1 DEF Range
    <3>3. QED
      BY <3>1, <3>2
  <2>2. QED
    BY <2>1 DEF Range
<1>8. QED
  BY <1>2, <1>3, <1>4, <1>6, <1>7

LEMMA CutChain ==
  ASSUME NEW S, NEW s \in Seq(S), NEW i \in DOMAIN s
  PROVE  /\ RemoveAt(s, i) \in Seq(S) /\ Len(RemoveAt(s, i)) = Len(s) - 1
         /\ Len(s) - 1 \in Nat
         /\ DOMAIN RemoveAt(s, i) = 1..(Len(s) - 1)
         /\ \A j \in 1..(Len(s) - 1) : RemoveAt(s, i)[j] = s[IF j < i THEN j ELSE j + 1]
<1>1. i \in 1..Len(s) /\ Len(s) \in Nat
  OBVIOUS
<1> DEFINE a == SubSeq(s, 1, i - 1)
           c == SubSeq(s, i + 1, Len(s))
<1>2. a \in Seq(S) /\ Len(a) = i - 1 /\ \A j \in 1..(i - 1) : a[j] = s[j]
  BY <1>1
<1>3. c \in Seq(S) /\ Len(c) = Len(s) - i /\ \A j \in 1..(Len(s) - i) : c[j] = s[i + j]
  BY <1>1
<1> HIDE DEF a, c
<1> DEFINE t == a \o c
<1>4. t \in Seq(S) /\ Len(t) = Len(s) - 1 /\ DOMAIN t = 1..(Len(s) - 1)
  BY <1>1, <1>2, <1>3
<1>5. ASSUME NEW j \in 1..(Len(s) - 1)
      PROVE  t[j] = s[IF j < i THEN j ELSE j + 1]
  <2>1. CASE j < i
    BY <1>1, <1>2, <1>3, <2>1
  <2>2. CASE ~(j < i)
    <3>1. t[j] = c[j - (i - 1)]
      <4>1. \A x \in 1..(Len(a) + Len(c)) :
              (a \o c)[x] = IF x <= Len(a) THEN a[x] ELSE c[x - Len(a)]
        BY <1>2, <1>3, ConcatProperties
      <4>2. j \in 1..(Len(a) + Len(c)) /\ ~(j <= Len(a)) /\ j - Len(a) = j - (i - 1)
        BY <1>1, <1>2, <1>3, <2>2
      <4>3. QED
        BY <4>1, <4>2
    <3>2. j - (i - 1) \in 1..(Len(s) - i) /\ i + (j - (i - 1)) = j + 1
      BY <1>1, <2>2
    <3>3. QED
      BY <1>3, <2>2, <3>1, <3>2
  <2>3. QED
    BY <2>1, <2>2
<1>6. RemoveAt(s, i) = t
  BY DEF RemoveAt, a, c
<1> HIDE DEF t
<1>7. QED
  BY <1>1, <1>4, <1>5, <1>6

(* A sequence of distinct elements without its i-th.                       *)
LEMMA CutRange ==
  ASSUME NEW S, NEW s \in Seq(S), IsInjective(s), NEW i \in DOMAIN s
  PROVE  Range(RemoveAt(s, i)) = Range(s) \ {s[i]}
<1>0. DOMAIN s = 1..Len(s) /\ Len(s) \in Nat
  OBVIOUS
<1>1. \A j \in DOMAIN s : s[j] = s[i] => j = i
  BY DEF IsInjective
<1> DEFINE t == RemoveAt(s, i)
<1>2. /\ DOMAIN t = 1..(Len(s) - 1)
      /\ \A j \in 1..(Len(s) - 1) : t[j] = s[IF j < i THEN j ELSE j + 1]
  BY CutChain
<1> HIDE DEF t
<1>3. Range(t) \subseteq Range(s) \ {s[i]}
  <2>1. ASSUME NEW j \in DOMAIN t
        PROVE  t[j] \in Range(s) \ {s[i]}
    <3>1. PICK k \in DOMAIN s : k = (IF j < i THEN j ELSE j + 1) /\ k # i
      BY <1>0, <1>2
    <3>2. t[j] = s[k]
      BY <1>2, <3>1
    <3>3. QED
      BY <1>1, <3>1, <3>2 DEF Range
  <2>2. QED
    BY <2>1 DEF Range
<1>4. Range(s) \ {s[i]} \subseteq Range(t)
  <2>1. ASSUME NEW k \in DOMAIN s, k # i
        PROVE  s[k] \in Range(t)
    <3>1. PICK j \in DOMAIN t : k = IF j < i THEN j ELSE j + 1
      <4>1. CASE k < i
        BY <1>0, <1>2, <4>1
      <4>2. CASE k > i
        <5>1. k - 1 \in DOMAIN t /\ ~(k - 1 < i) /\ k = (k - 1) + 1
          BY <1>0, <1>2, <4>2
        <5>2. QED
          BY <5>1
      <4>3. QED
        BY <1>0, <2>1, <4>1, <4>2
    <3>2. QED
      BY <1>2, <3>1 DEF Range
  <2>2. QED
    BY <2>1 DEF Range
<1>5. QED
  BY <1>3, <1>4 DEF t

-----------------------------------------------------------------------------
(* Powers of two.  A solver evaluates one, and knows no law of them: that  *)
(* they double is found by evaluating those of an int.                     *)
LEMMA Doubled ==
  ASSUME NEW k \in 0..31
  PROVE  2^(k + 1) = 2 * 2^k
<1>1. CASE k = 0
  BY <1>1
<1>2. CASE k = 1
  BY <1>2
<1>3. CASE k = 2
  BY <1>3
<1>4. CASE k = 3
  BY <1>4
<1>5. CASE k = 4
  BY <1>5
<1>6. CASE k = 5
  BY <1>6
<1>7. CASE k = 6
  BY <1>7
<1>8. CASE k = 7
  BY <1>8
<1>9. CASE k = 8
  BY <1>9
<1>10. CASE k = 9
  BY <1>10
<1>11. CASE k = 10
  BY <1>11
<1>12. CASE k = 11
  BY <1>12
<1>13. CASE k = 12
  BY <1>13
<1>14. CASE k = 13
  BY <1>14
<1>15. CASE k = 14
  BY <1>15
<1>16. CASE k = 15
  BY <1>16
<1>17. CASE k = 16
  BY <1>17
<1>18. CASE k = 17
  BY <1>18
<1>19. CASE k = 18
  BY <1>19
<1>20. CASE k = 19
  BY <1>20
<1>21. CASE k = 20
  BY <1>21
<1>22. CASE k = 21
  BY <1>22
<1>23. CASE k = 22
  BY <1>23
<1>24. CASE k = 23
  BY <1>24
<1>25. CASE k = 24
  BY <1>25
<1>26. CASE k = 25
  BY <1>26
<1>27. CASE k = 26
  BY <1>27
<1>28. CASE k = 27
  BY <1>28
<1>29. CASE k = 28
  BY <1>29
<1>30. CASE k = 29
  BY <1>30
<1>31. CASE k = 30
  BY <1>31
<1>32. CASE k = 31
  BY <1>32
<1>33. QED
  BY <1>1, <1>2, <1>3, <1>4, <1>5, <1>6, <1>7, <1>8, <1>9, <1>10, <1>11,
     <1>12, <1>13, <1>14, <1>15, <1>16, <1>17, <1>18, <1>19, <1>20, <1>21,
     <1>22, <1>23, <1>24, <1>25, <1>26, <1>27, <1>28, <1>29, <1>30, <1>31,
     <1>32

(* Without the law of doubling, the numbers 2^k are better left alone.     *)
Pow(k) == 2^k

(* The exponents of an int. *)
Widths == 0..32

LEMMA Powers ==
  /\ Pow(0) = 1
  /\ \A k \in Widths : Pow(k) \in Nat \ {0}
  /\ \A k \in Widths : k + 1 \in Widths => Pow(k + 1) = 2 * Pow(k)
<1>1. Pow(0) = 1
  BY DEF Pow
<1>2. ASSUME NEW k \in Widths, k + 1 \in Widths
      PROVE  Pow(k + 1) = 2 * Pow(k)
  <2>1. k \in 0..31
    BY <1>2 DEF Widths
  <2>2. QED
    BY <2>1, Doubled DEF Pow
<1>3. \A k \in Widths : Pow(k) \in Nat \ {0}
  <2> DEFINE T == {k \in Nat : k \in Widths => Pow(k) \in Nat \ {0}}
  <2>1. 0 \in T
    BY <1>1
  <2>2. ASSUME NEW k \in T
        PROVE  k + 1 \in T
    <3>1. ASSUME k + 1 \in Widths
          PROVE  Pow(k + 1) \in Nat \ {0}
      <4>1. k \in Widths
        BY <3>1 DEF Widths
      <4>2. Pow(k) \in Nat \ {0}
        BY <4>1
      <4>3. QED
        BY <1>2, <3>1, <4>1, <4>2
    <3>2. QED
      BY <3>1
  <2>3. \A k \in Nat : k \in T
    <3> HIDE DEF T
    <3>1. QED
      BY <2>1, <2>2, NatSet
  <2>4. QED
    BY <2>3 DEF Widths
<1>4. QED
  BY <1>1, <1>2, <1>3

LEMMA PowersGrow ==
  ASSUME NEW j \in Widths, NEW k \in Widths, j < k
  PROVE  2 * Pow(j) <= Pow(k)
<1> DEFINE T == {d \in Nat : j + d + 1 \in Widths => 2 * Pow(j) <= Pow(j + d + 1)}
<1>1. 0 \in T
  <2>1. ASSUME j + 0 + 1 \in Widths
        PROVE  2 * Pow(j) <= Pow(j + 0 + 1)
    <3>1. j + 1 \in Widths /\ j + 0 + 1 = j + 1
      BY <2>1 DEF Widths
    <3>2. Pow(j + 1) = 2 * Pow(j) /\ Pow(j) \in Nat
      BY <3>1, Powers
    <3>3. QED
      BY <3>1, <3>2
  <2>2. QED
    BY <2>1
<1>2. ASSUME NEW d \in T
      PROVE  d + 1 \in T
  <2>1. ASSUME j + (d + 1) + 1 \in Widths
        PROVE  2 * Pow(j) <= Pow(j + (d + 1) + 1)
    <3>1. PICK i \in Widths : i = j + d + 1 /\ i + 1 = j + (d + 1) + 1 /\ i + 1 \in Widths
      BY <2>1 DEF Widths
    <3>2. 2 * Pow(j) <= Pow(i)
      BY <1>2, <3>1
    <3>3. Pow(i + 1) = 2 * Pow(i) /\ Pow(i) \in Nat /\ Pow(j) \in Nat
      BY <3>1, Powers
    <3>4. QED
      BY <3>1, <3>2, <3>3
  <2>2. QED
    BY <2>1
<1>3. \A d \in Nat : d \in T
  <2> HIDE DEF T
  <2>1. QED
    BY <1>1, <1>2, NatSet
<1>4. k - j - 1 \in Nat /\ j + (k - j - 1) + 1 = k
  BY DEF Widths
<1>5. k - j - 1 \in T
  BY <1>3, <1>4
<1>6. QED
  BY <1>4, <1>5

(* The highest bit of a number. *)
LEMMA HighestBit ==
  ASSUME NEW w \in Widths, NEW n \in Nat \ {0}, n < Pow(w)
  PROVE  \E k \in 0..(w - 1) : Pow(k) <= n /\ n < Pow(k + 1)
<1> DEFINE T == {k \in Nat : k \in Widths /\ n < Pow(k)}
<1>1. w \in T
  BY DEF Widths
<1>2. PICK k \in T : \A j \in T : k <= j
  <2>1. T \in SUBSET Nat /\ T # {}
    BY <1>1
  <2> HIDE DEF T
  <2>2. QED
    BY <2>1, Least
<1>3. k # 0
  BY <1>2, Powers
<1>4. k \in Nat /\ k \in Widths /\ n < Pow(k) /\ k <= w /\ k - 1 \in Widths /\ k - 1 \in Nat
  BY <1>1, <1>2, <1>3 DEF Widths
<1>5. ~(n < Pow(k - 1))
  <2>1. k - 1 \notin T
    BY <1>2, <1>4
  <2>2. QED
    BY <1>4, <2>1
<1>6. Pow(k - 1) \in Nat /\ (k - 1) + 1 = k /\ k - 1 \in 0..(w - 1)
  BY <1>4, Powers DEF Widths
<1>7. QED
  BY <1>4, <1>5, <1>6

=============================================================================

---------------------------- MODULE SumTheorems ----------------------------
(***************************************************************************)
(* Sums over the values of a function, as FoldFunctionOnSet computes them: *)
(* it takes the elements in the order CHOOSE picks them, and the order does *)
(* not matter.  The induction this needs is stated with sets instead of    *)
(* operators, from the minimal elements of well-founded relations.         *)
(***************************************************************************)
EXTENDS Functions, FiniteSetTheorems, WellFoundedInduction, TLAPS

\* Induction over the numbers,
LEMMA Counting ==
  ASSUME NEW T, 0 \in T, \A n \in Nat : n \in T => n + 1 \in T
  PROVE  Nat \subseteq T
  <1> DEFINE Out == {n \in Nat : n \notin T}
  <1>1. SUFFICES ASSUME Out # {} PROVE FALSE
    OBVIOUS
  <1>2. PICK x \in Out : \A y \in Out : ~(<<y, x>> \in OpToRel(<, Nat))
    <2> HIDE DEF Out
    <2>1. Out \subseteq Nat
      BY DEF Out
    <2> QED
      BY <1>1, <2>1, NatLessThanWellFounded, WFMin
  <1>3. x \in Nat /\ x # 0 /\ x - 1 \in Nat /\ x - 1 < x
    OBVIOUS
  <1>4. x - 1 \in Out
    <2>1. (x - 1) + 1 = x
      BY <1>3
    <2> QED
      BY <1>3, <2>1
  <1> HIDE DEF Out
  <1>5. <<x - 1, x>> \in OpToRel(<, Nat)
    BY <1>3 DEF OpToRel
  <1> QED
    BY <1>2, <1>4, <1>5

Chosen(s) == CHOOSE x \in s : TRUE

\* and over the subsets of a finite set, from the one without the element that
\* CHOOSE picks.
LEMMA SetInduction ==
  ASSUME NEW D, IsFiniteSet(D), NEW T, {} \in T,
         \A s \in SUBSET D : s # {} /\ s \ {Chosen(s)} \in T => s \in T
  PROVE  \A s \in SUBSET D : s \in T
  <1> DEFINE N == {n \in Nat : \A s \in SUBSET D : Cardinality(s) = n => s \in T}
  <1>1. \A s \in SUBSET D : /\ IsFiniteSet(s) /\ Cardinality(s) \in Nat
                            /\ Cardinality(s) = 0 <=> s = {}
    BY FS_Subset, FS_CardinalityType, FS_EmptySet
  <1>2. 0 \in N
    BY <1>1
  <1>3. ASSUME NEW n \in Nat, n \in N PROVE n + 1 \in N
    <2>1. SUFFICES ASSUME NEW s \in SUBSET D, Cardinality(s) = n + 1 PROVE s \in T
      OBVIOUS
    <2>2. s # {} /\ Chosen(s) \in s
      BY <1>1, <2>1 DEF Chosen
    <2>3. Cardinality(s \ {Chosen(s)}) = n
      BY <1>1, <2>1, <2>2, FS_RemoveElement
    <2>4. s \ {Chosen(s)} \in SUBSET D
      OBVIOUS
    <2> QED BY <1>3, <2>2, <2>3, <2>4
  <1>4. Nat \subseteq N
    <2> HIDE DEF N
    <2> QED BY <1>2, <1>3, Counting
  <1> QED BY <1>1, <1>4

---------------------------------------------------------------------------
Sum(num, S) == FoldFunctionOnSet(+, 0, num, S)

\* g is what the fold computes for each subset of D.
Folds(D, num, g) ==
  g = [s \in SUBSET D |-> IF s = {} THEN 0 ELSE num[Chosen(s)] + g[s \ {Chosen(s)}]]

\* The fold takes such a g;
LEMMA FoldIs ==
  ASSUME NEW num, NEW D
  PROVE  Sum(num, D) = (CHOOSE g : Folds(D, num, g))[D]
  BY DEF Sum, FoldFunctionOnSet, MapThenFoldSet, Folds, Chosen

\* it goes from a set to the set without its chosen element,
LEMMA FoldSteps ==
  ASSUME NEW D, NEW num, NEW g, Folds(D, num, g)
  PROVE  /\ g[{}] = 0
         /\ \A s \in SUBSET D : s # {} => /\ Chosen(s) \in s /\ s \ {Chosen(s)} \in SUBSET D
                                        /\ g[s] = num[Chosen(s)] + g[s \ {Chosen(s)}]
  <1>1. g[{}] = 0
    BY DEF Folds
  <1>2. ASSUME NEW s \in SUBSET D, s # {}
        PROVE  /\ Chosen(s) \in s /\ s \ {Chosen(s)} \in SUBSET D
               /\ g[s] = num[Chosen(s)] + g[s \ {Chosen(s)}]
    <2>1. g[s] = num[Chosen(s)] + g[s \ {Chosen(s)}]
      BY <1>2 DEF Folds
    <2> QED BY <1>2, <2>1 DEF Chosen
  <1> QED BY <1>1, <1>2

\* there is one, built up from the small subsets,
LEMMA FoldExists ==
  ASSUME NEW D, IsFiniteSet(D), NEW num, \A x \in D : num[x] \in Int
  PROVE  \E g : Folds(D, num, g)
  <1> DEFINE Small(n) == {s \in SUBSET D : Cardinality(s) <= n}
             Part(n, g) == g = [s \in Small(n) |->
                                  IF s = {} THEN 0 ELSE num[Chosen(s)] + g[s \ {Chosen(s)}]]
             T == {n \in Nat : \E g \in [Small(n) -> Int] : Part(n, g)}
  <1>0. \A s \in SUBSET D : /\ IsFiniteSet(s) /\ Cardinality(s) \in Nat
                            /\ Cardinality(s) = 0 <=> s = {}
                            /\ Cardinality(s) <= Cardinality(D)
    BY FS_Subset, FS_CardinalityType, FS_EmptySet
  <1>1. ASSUME NEW s \in SUBSET D, s # {}
        PROVE  /\ Chosen(s) \in s /\ s \ {Chosen(s)} \in SUBSET D
               /\ Cardinality(s \ {Chosen(s)}) = Cardinality(s) - 1
    BY <1>0, <1>1, FS_RemoveElement DEF Chosen
  <1>2. 0 \in T
    <2> DEFINE g == [s \in Small(0) |-> 0]
    <2>1. \A s \in Small(0) : s = {}
      BY <1>0
    <2>2. g \in [Small(0) -> Int] /\ Part(0, g)
      BY <2>1
    <2> QED BY <2>2
  <1>3. ASSUME NEW n \in Nat, n \in T PROVE n + 1 \in T
    <2>1. PICK f \in [Small(n) -> Int] : Part(n, f)
      BY <1>3
    <2> DEFINE g == [s \in Small(n + 1) |->
                       IF s = {} THEN 0 ELSE num[Chosen(s)] + f[s \ {Chosen(s)}]]
    <2>2. ASSUME NEW s \in Small(n + 1), s # {} PROVE s \ {Chosen(s)} \in Small(n)
      BY <1>0, <1>1, <2>2
    <2>3. \A s \in Small(n) : s \in Small(n + 1) /\ g[s] = f[s]
      <3> SUFFICES ASSUME NEW s \in Small(n) PROVE s \in Small(n + 1) /\ g[s] = f[s]
        OBVIOUS
      <3>1. s \in Small(n + 1)
        BY <1>0
      <3>2. f[s] = IF s = {} THEN 0 ELSE num[Chosen(s)] + f[s \ {Chosen(s)}]
        BY <2>1
      <3> QED BY <3>1, <3>2
    <2>4. g \in [Small(n + 1) -> Int]
      <3> SUFFICES ASSUME NEW s \in Small(n + 1) PROVE g[s] \in Int
        OBVIOUS
      <3>1. CASE s = {}
        BY <3>1
      <3>2. CASE s # {}
        <4>1. num[Chosen(s)] \in Int /\ f[s \ {Chosen(s)}] \in Int
          BY <1>1, <2>2, <3>2
        <4> QED BY <3>2, <4>1
      <3> QED BY <3>1, <3>2
    <2>5. Part(n + 1, g)
      <3>1. ASSUME NEW s \in Small(n + 1)
            PROVE  g[s] = IF s = {} THEN 0 ELSE num[Chosen(s)] + g[s \ {Chosen(s)}]
        BY <2>2, <2>3
      <3> QED BY <3>1
    <2> HIDE DEF g, Part, Small
    <2>6. \E h \in [Small(n + 1) -> Int] : Part(n + 1, h)
      BY <2>4, <2>5
    <2> QED BY <2>6
  <1>4. Cardinality(D) \in T
    <2> HIDE DEF T
    <2> QED BY <1>0, <1>2, <1>3, Counting
  <1>5. Small(Cardinality(D)) = SUBSET D
    BY <1>0
  <1>6. PICK g \in [SUBSET D -> Int] : Part(Cardinality(D), g)
    BY <1>4, <1>5
  <1>7. Folds(D, num, g)
    BY <1>5, <1>6 DEF Folds
  <1> QED BY <1>6, <1>7

\* its values are numbers, and those on the subsets of E do not depend on D.
LEMMA FoldsAgree ==
  ASSUME NEW D, NEW E \in SUBSET D, IsFiniteSet(E), NEW num, \A x \in E : num[x] \in Int,
         NEW g, Folds(D, num, g), NEW h, Folds(E, num, h)
  PROVE  \A s \in SUBSET E : g[s] = h[s] /\ h[s] \in Int
  <1> DEFINE T == {s \in SUBSET E : g[s] = h[s] /\ h[s] \in Int}
  <1>1. {} \in T
    BY FoldSteps
  <1>2. ASSUME NEW s \in SUBSET E, s # {}, s \ {Chosen(s)} \in T PROVE s \in T
    <2>1. /\ Chosen(s) \in E /\ h[s] = num[Chosen(s)] + h[s \ {Chosen(s)}]
      BY <1>2, FoldSteps
    <2>2. g[s] = num[Chosen(s)] + g[s \ {Chosen(s)}]
      <3>1. s \in SUBSET D
        OBVIOUS
      <3> QED BY <1>2, <3>1, FoldSteps
    <2>3. num[Chosen(s)] \in Int /\ h[s \ {Chosen(s)}] \in Int
          /\ g[s \ {Chosen(s)}] = h[s \ {Chosen(s)}]
      BY <1>2, <2>1
    <2> QED BY <2>1, <2>2, <2>3
  <1>3. \A s \in SUBSET E : s \in T
    <2> HIDE DEF T
    <2> QED BY <1>1, <1>2, SetInduction
  <1> QED BY <1>3

\* Every subset's value is its sum.
LEMMA FoldSums ==
  ASSUME NEW D, IsFiniteSet(D), NEW num, \A x \in D : num[x] \in Int, NEW g, Folds(D, num, g)
  PROVE  \A s \in SUBSET D : Sum(num, s) = g[s] /\ Sum(num, s) \in Int
  <1> SUFFICES ASSUME NEW s \in SUBSET D PROVE Sum(num, s) = g[s] /\ Sum(num, s) \in Int
    OBVIOUS
  <1> DEFINE h == CHOOSE f : Folds(s, num, f)
  <1>1. IsFiniteSet(s)
    BY FS_Subset
  <1>2. Folds(s, num, h)
    BY <1>1, FoldExists
  <1>3. Sum(num, s) = h[s]
    BY FoldIs
  <1> HIDE DEF h
  <1>4. \A r \in SUBSET s : g[r] = h[r] /\ h[r] \in Int
    BY <1>1, <1>2, FoldsAgree
  <1> QED BY <1>3, <1>4

\* It does not matter which element is taken first: either the chosen one is
\* taken, or it is taken from what is left of both sides.
LEMMA FoldAny ==
  ASSUME NEW D, IsFiniteSet(D), NEW num, \A x \in D : num[x] \in Int, NEW g, Folds(D, num, g)
  PROVE  \A s \in SUBSET D : \A x \in s : g[s] = num[x] + g[s \ {x}]
  <1> DEFINE N == {n \in Nat : \A s \in SUBSET D : Cardinality(s) = n =>
                                 \A x \in s : g[s] = num[x] + g[s \ {x}]}
  <1>1. \A s \in SUBSET D : /\ IsFiniteSet(s) /\ Cardinality(s) \in Nat
                            /\ Cardinality(s) = 0 <=> s = {}
                            /\ g[s] \in Int
    BY FS_Subset, FS_CardinalityType, FS_EmptySet, FoldSums
  <1>2. 0 \in N
    BY <1>1
  <1>3. ASSUME NEW n \in Nat, n \in N PROVE n + 1 \in N
    <2>1. SUFFICES ASSUME NEW s \in SUBSET D, Cardinality(s) = n + 1, NEW x \in s
                   PROVE  g[s] = num[x] + g[s \ {x}]
      OBVIOUS
    <2> DEFINE y == Chosen(s)
    <2>2. y \in s /\ g[s] = num[y] + g[s \ {y}]
      <3>1. s # {}
        OBVIOUS
      <3> QED BY <3>1, FoldSteps
    <2> HIDE DEF y
    <2>3. CASE x = y
      BY <2>2, <2>3
    <2>4. CASE x # y
      <3>1. \A z \in s : s \ {z} \in SUBSET D /\ Cardinality(s \ {z}) = n
        <4> SUFFICES ASSUME NEW z \in s PROVE s \ {z} \in SUBSET D /\ Cardinality(s \ {z}) = n
          OBVIOUS
        <4>1. Cardinality(s \ {z}) = Cardinality(s) - 1
          BY <1>1, FS_RemoveElement
        <4> QED BY <2>1, <4>1
      <3>2. g[s \ {y}] = num[x] + g[(s \ {y}) \ {x}]
        BY <1>3, <2>2, <2>4, <3>1
      <3>3. g[s \ {x}] = num[y] + g[(s \ {x}) \ {y}]
        BY <1>3, <2>2, <2>4, <3>1
      <3>4. (s \ {y}) \ {x} = (s \ {x}) \ {y}
        OBVIOUS
      <3>5. num[x] \in Int /\ num[y] \in Int /\ g[(s \ {x}) \ {y}] \in Int
        BY <1>1, <2>2
      <3> DEFINE a == g[(s \ {x}) \ {y}]
                 b == num[x]
                 c == num[y]
      <3>6. g[s \ {y}] = b + a /\ g[s \ {x}] = c + a /\ g[s] = c + g[s \ {y}]
        BY <2>2, <3>2, <3>3, <3>4
      <3>7. a \in Int /\ b \in Int /\ c \in Int
        BY <3>5
      <3> HIDE DEF a, b, c
      <3>8. g[s] = b + g[s \ {x}]
        BY <3>6, <3>7
      <3> QED BY <3>8 DEF b
    <2> QED BY <2>3, <2>4
  <1>4. Nat \subseteq N
    <2> HIDE DEF N
    <2> QED BY <1>2, <1>3, Counting
  <1> QED BY <1>1, <1>4

---------------------------------------------------------------------------
\* What follows from here on is all that the proofs use.  A sum is a number,
\* and the sum without x and x.
LEMMA SumTakes ==
  ASSUME NEW S, IsFiniteSet(S), NEW num, \A x \in S : num[x] \in Int
  PROVE  /\ Sum(num, S) \in Int
         /\ \A x \in S : Sum(num, S) = num[x] + Sum(num, S \ {x})
  <1>1. PICK g : Folds(S, num, g)
    BY FoldExists
  <1>2. \A s \in SUBSET S : Sum(num, s) = g[s] /\ Sum(num, s) \in Int
    BY <1>1, FoldSums
  <1>3. \A x \in S : g[S] = num[x] + g[S \ {x}]
    BY <1>1, FoldAny
  <1> QED BY <1>2, <1>3

\* The sum of nothing is nothing.
LEMMA SumNone == ASSUME NEW num PROVE Sum(num, {}) = 0
  <1>1. IsFiniteSet({})
    BY FS_EmptySet
  <1>2. PICK g : Folds({}, num, g)
    BY <1>1, FoldExists
  <1>3. Sum(num, {}) = g[{}]
    BY <1>1, <1>2, FoldSums
  <1> QED BY <1>2, <1>3, FoldSteps

\* Functions that agree on S have one sum.
LEMMA SumSame ==
  ASSUME NEW S, IsFiniteSet(S), NEW num, NEW mun,
         \A x \in S : num[x] \in Int /\ mun[x] = num[x]
  PROVE  Sum(mun, S) = Sum(num, S)
  <1> DEFINE T == {s \in SUBSET S : Sum(mun, s) = Sum(num, s)}
  <1>1. {} \in T
    BY SumNone
  <1>2. ASSUME NEW s \in SUBSET S, s # {}, s \ {Chosen(s)} \in T PROVE s \in T
    <2>1. Chosen(s) \in s /\ IsFiniteSet(s)
      BY <1>2, FS_Subset DEF Chosen
    <2>2. Sum(num, s) = num[Chosen(s)] + Sum(num, s \ {Chosen(s)})
      BY <2>1, SumTakes
    <2>3. Sum(mun, s) = mun[Chosen(s)] + Sum(mun, s \ {Chosen(s)})
      BY <2>1, SumTakes
    <2> QED BY <1>2, <2>1, <2>2, <2>3
  <1>3. S \in T
    <2> HIDE DEF T
    <2> QED BY <1>1, <1>2, SetInduction
  <1> QED BY <1>3

\* The sum over two parts is the sum of their sums.
LEMMA SumParts ==
  ASSUME NEW S, IsFiniteSet(S), NEW R, IsFiniteSet(R), S \cap R = {},
         NEW num, \A x \in S \cup R : num[x] \in Int
  PROVE  Sum(num, S \cup R) = Sum(num, S) + Sum(num, R)
  <1> DEFINE T == {s \in SUBSET R : Sum(num, S \cup s) = Sum(num, S) + Sum(num, s)}
  <1>0. Sum(num, S) \in Int
    BY SumTakes
  <1>1. {} \in T
    BY <1>0, SumNone
  <1>2. ASSUME NEW s \in SUBSET R, s # {}, s \ {Chosen(s)} \in T PROVE s \in T
    <2> DEFINE x == Chosen(s)
    <2>1. x \in s /\ IsFiniteSet(s) /\ IsFiniteSet(S \cup s) /\ num[x] \in Int
      BY <1>2, FS_Subset, FS_Union DEF Chosen
    <2>2. Sum(num, s) = num[x] + Sum(num, s \ {x})
      BY <2>1, SumTakes
    <2>3. Sum(num, S \cup s) = num[x] + Sum(num, (S \cup s) \ {x})
      BY <2>1, SumTakes
    <2>4. (S \cup s) \ {x} = S \cup (s \ {x})
      BY <2>1
    <2>5. IsFiniteSet(s \ {x}) /\ Sum(num, s \ {x}) \in Int
      BY <2>1, FS_Subset, SumTakes
    <2>6. Sum(num, S \cup (s \ {x})) = Sum(num, S) + Sum(num, s \ {x})
      BY <1>2
    <2> HIDE DEF x
    <2>7. Sum(num, S \cup s) = num[x] + (Sum(num, S) + Sum(num, s \ {x}))
      BY <2>3, <2>4, <2>6
    <2>8. Sum(num, S \cup s) = Sum(num, S) + Sum(num, s)
      BY <1>0, <2>1, <2>2, <2>5, <2>7
    <2> QED BY <2>8
  <1>3. R \in T
    <2> HIDE DEF T
    <2> QED BY <1>1, <1>2, SetInduction
  <1> QED BY <1>3

---------------------------------------------------------------------------
SumOf(num) == FoldFunction(+, 0, num)

LEMMA SumOfIs == ASSUME NEW num PROVE SumOf(num) = Sum(num, DOMAIN num)
  BY DEF SumOf, Sum, FoldFunction

LEMMA SumOfNothing ==
  ASSUME NEW D, IsFiniteSet(D)
  PROVE  SumOf([x \in D |-> 0]) = 0
  <1> DEFINE num == [x \in D |-> 0]
             T   == {s \in SUBSET D : Sum(num, s) = 0}
  <1>1. DOMAIN num = D /\ \A x \in D : num[x] = 0
    OBVIOUS
  <1> HIDE DEF num
  <1>2. {} \in T
    BY SumNone
  <1>3. ASSUME NEW s \in SUBSET D, s # {}, s \ {Chosen(s)} \in T PROVE s \in T
    <2>1. Chosen(s) \in s /\ IsFiniteSet(s)
      BY <1>3, FS_Subset DEF Chosen
    <2>2. Sum(num, s) = num[Chosen(s)] + Sum(num, s \ {Chosen(s)})
      BY <1>1, <2>1, SumTakes
    <2> QED BY <1>1, <1>3, <2>1, <2>2
  <1>4. D \in T
    <2> HIDE DEF T
    <2> QED BY <1>2, <1>3, SetInduction
  <1> QED BY <1>1, <1>4, SumOfIs DEF num

\* One more somewhere makes one more in all.
LEMMA SumOfOneMore ==
  ASSUME NEW D, IsFiniteSet(D), NEW num \in [D -> Nat], NEW q \in D
  PROVE  /\ SumOf(num) \in Int
         /\ SumOf([num EXCEPT ![q] = @ + 1]) = SumOf(num) + 1
  <1> DEFINE mun == [num EXCEPT ![q] = @ + 1]
  <1>1. /\ mun \in [D -> Nat] /\ DOMAIN num = D /\ DOMAIN mun = D
        /\ mun[q] = num[q] + 1 /\ \A x \in D \ {q} : mun[x] = num[x]
        /\ IsFiniteSet(D \ {q})
    BY FS_Subset
  <1> HIDE DEF mun
  <1>2. Sum(num, D) = num[q] + Sum(num, D \ {q})
    BY SumTakes
  <1>3. Sum(mun, D) = mun[q] + Sum(mun, D \ {q})
    BY <1>1, SumTakes
  <1>4. Sum(mun, D \ {q}) = Sum(num, D \ {q}) /\ Sum(num, D \ {q}) \in Int
    BY <1>1, SumSame, SumTakes
  <1>5. num[q] \in Nat
    OBVIOUS
  <1>6. SumOf(num) = Sum(num, D) /\ SumOf(mun) = Sum(mun, D)
    BY <1>1, SumOfIs
  <1> QED BY <1>1, <1>2, <1>3, <1>4, <1>5, <1>6 DEF mun
=============================================================================

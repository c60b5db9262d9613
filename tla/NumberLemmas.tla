---------------------------- MODULE NumberLemmas ----------------------------
(***************************************************************************)
(* Facts about numbers that the proofs of several components need: least   *)
(* members, and sums over finite sets, which the rules compute by a        *)
(* recursive function that takes the members away one by one, in the order *)
(* of CHOOSE.                                                              *)
(***************************************************************************)
EXTENDS Integers, FiniteSets, FiniteSetTheorems, WellFoundedInduction, TLAPS

\* Every set of numbers that has a member has a least one.
LEMMA LeastNumber ==
    ASSUME NEW T \in SUBSET Nat, T # {}
    PROVE  \E n \in T : \A m \in T : n =< m
  <1>1. PICK n \in T : \A m \in T : <<m, n>> \notin OpToRel(<, Nat)
    BY WFMin, NatLessThanWellFounded
  <1>2. \A m \in T : ~(m < n)
    BY <1>1 DEF OpToRel
  <1>. QED BY <1>2

\* Every family of finite sets that has a member has a smallest one.
LEMMA SmallestSet ==
    ASSUME NEW T, T # {}, \A s \in T : IsFiniteSet(s)
    PROVE  \E s \in T : \A t \in T : Cardinality(s) =< Cardinality(t)
  <1>. DEFINE N == {Cardinality(s) : s \in T}
  <1>1. \A s \in T : Cardinality(s) \in Nat
    BY FS_CardinalityType
  <1>2. N \in SUBSET Nat /\ N # {}
    BY <1>1
  <1>3. PICK n \in N : \A m \in N : n =< m
    <2>. HIDE DEF N
    <2>. QED BY <1>2, LeastNumber
  <1>. QED BY <1>3

-----------------------------------------------------------------------------
\* F gives the sum of f over every subset of D.
Sums(F, f, D) ==
    F = [s \in SUBSET D |->
            IF s = {} THEN 0 ELSE LET x == CHOOSE x \in s : TRUE IN f[x] + F[s \ {x}]]

\* The sum of f over the set S.
SumOver(f, S) == (CHOOSE F : Sums(F, f, S))[S]

\* Sums up to a size, which the existence of all of them is built from.
SumsTo(F, f, D, n) ==
    F = [s \in {t \in SUBSET D : Cardinality(t) =< n} |->
            IF s = {} THEN 0 ELSE LET x == CHOOSE x \in s : TRUE IN f[x] + F[s \ {x}]]

LEMMA SmallerSet ==
    ASSUME NEW s, IsFiniteSet(s), NEW x \in s
    PROVE  /\ IsFiniteSet(s \ {x}) /\ Cardinality(s \ {x}) \in Nat
           /\ Cardinality(s) = Cardinality(s \ {x}) + 1
  <1>1. /\ IsFiniteSet(s \ {x}) /\ Cardinality(s \ {x}) = Cardinality(s) - 1
        /\ Cardinality(s) \in Nat
    BY FS_RemoveElement, FS_CardinalityType
  <1>2. Cardinality(s \ {x}) \in Nat
    BY <1>1, FS_CardinalityType
  <1>. QED BY <1>1, <1>2

LEMMA SmallestWithout ==
    ASSUME NEW T, NEW s, IsFiniteSet(s), \A t \in T : Cardinality(s) =< Cardinality(t),
           NEW x \in s
    PROVE  s \ {x} \notin T
  <1>1. Cardinality(s) = Cardinality(s \ {x}) + 1 /\ Cardinality(s \ {x}) \in Nat
    BY SmallerSet
  <1>2. ASSUME s \ {x} \in T PROVE FALSE
    <2>1. Cardinality(s) =< Cardinality(s \ {x})
      BY <1>2
    <2>. QED BY <1>1, <2>1
  <1>. QED BY <1>2

LEMMA SumsToExist ==
    ASSUME NEW f, NEW D, IsFiniteSet(D), NEW n \in Nat
    PROVE  \E F : SumsTo(F, f, D, n)
  <1>. DEFINE Bad == {k \in Nat : ~ \E F : SumsTo(F, f, D, k)}
              Up(k) == {t \in SUBSET D : Cardinality(t) =< k}
              Next(F, s) == IF s = {} THEN 0
                            ELSE LET x == CHOOSE x \in s : TRUE IN f[x] + F[s \ {x}]
  <1>0. \A s \in SUBSET D : IsFiniteSet(s) /\ Cardinality(s) \in Nat
    BY FS_Subset, FS_CardinalityType
  <1>1. ASSUME Bad # {} PROVE FALSE
    <2>1. PICK k \in Bad : \A m \in Bad : k =< m
      BY <1>1, LeastNumber
    <2>2. CASE k = 0
      <3>. DEFINE F == [s \in Up(0) |-> 0]
      <3>1. \A s \in Up(0) : s = {}
        BY <1>0, FS_EmptySet
      <3>2. SumsTo(F, f, D, 0)
        BY <3>1 DEF SumsTo
      <3>. QED BY <2>1, <2>2, <3>2
    <2>3. CASE k # 0
      <3>1. k - 1 \in Nat /\ k - 1 \notin Bad
        BY <2>1, <2>3
      <3>2. PICK G : SumsTo(G, f, D, k - 1)
        BY <3>1
      <3>3. \A s \in Up(k - 1) : G[s] = Next(G, s)
        BY <3>2 DEF SumsTo
      <3>. DEFINE F == [s \in Up(k) |-> Next(G, s)]
      <3>4. ASSUME NEW s \in Up(k), s # {}, NEW x \in s
            PROVE  s \ {x} \in Up(k - 1) /\ s \ {x} \in Up(k)
        <4>1. /\ Cardinality(s) = Cardinality(s \ {x}) + 1 /\ Cardinality(s \ {x}) \in Nat
              /\ Cardinality(s) \in Nat
          BY <1>0, SmallerSet
        <4>. QED BY <2>1, <4>1
      <3>5. ASSUME NEW s \in Up(k) PROVE F[s] = Next(F, s)
        <4>1. CASE s = {}
          BY <4>1
        <4>2. CASE s # {}
          <5>. DEFINE x == CHOOSE x \in s : TRUE
          <5>1. x \in s
            BY <4>2
          <5>2. s \ {x} \in Up(k - 1) /\ s \ {x} \in Up(k)
            BY <3>4, <4>2, <5>1
          <5>3. F[s] = f[x] + G[s \ {x}]
            BY <4>2
          <5>4. F[s \ {x}] = Next(G, s \ {x})
            BY <5>2
          <5>5. G[s \ {x}] = Next(G, s \ {x})
            BY <3>3, <5>2
          <5>6. F[s] = f[x] + F[s \ {x}]
            BY <5>3, <5>4, <5>5
          <5>. HIDE DEF F
          <5>. QED BY <4>2, <5>6
        <4>. QED BY <4>1, <4>2
      <3>6. F = [s \in Up(k) |-> F[s]]
        OBVIOUS
      <3>. HIDE DEF F
      <3>7. SumsTo(F, f, D, k)
        BY <3>5, <3>6 DEF SumsTo
      <3>. QED BY <2>1, <3>7
    <2>. QED BY <2>2, <2>3
  <1>. QED BY <1>1

LEMMA SumsExist ==
    ASSUME NEW f, NEW D, IsFiniteSet(D)
    PROVE  \E F : Sums(F, f, D)
  <1>. DEFINE n == Cardinality(D)
  <1>1. n \in Nat
    BY FS_CardinalityType
  <1>2. PICK F : SumsTo(F, f, D, n)
    BY <1>1, SumsToExist
  <1>3. \A s \in SUBSET D : Cardinality(s) =< n
    BY FS_Subset
  <1>4. {t \in SUBSET D : Cardinality(t) =< n} = SUBSET D
    BY <1>3
  <1>5. Sums(F, f, D)
    BY <1>2, <1>4 DEF Sums, SumsTo
  <1>. QED BY <1>5

\* The sums over the subsets of two sets agree where both have one.
LEMMA SumsAgree ==
    ASSUME NEW f, NEW g, NEW F, NEW G, NEW C, NEW D, Sums(F, f, C), Sums(G, g, D),
           NEW S \in SUBSET (C \cap D), IsFiniteSet(S), \A x \in S : f[x] = g[x]
    PROVE  F[S] = G[S]
  <1>. DEFINE Bad == {s \in SUBSET S : F[s] # G[s]}
  <1>1. ASSUME Bad # {} PROVE FALSE
    <2>1. \A s \in Bad : IsFiniteSet(s)
      BY FS_Subset
    <2>2. PICK s \in Bad : \A t \in Bad : Cardinality(s) =< Cardinality(t)
      <3>. HIDE DEF Bad
      <3>. QED BY <1>1, <2>1, SmallestSet
    <2>3. s \in SUBSET C /\ s \in SUBSET D /\ s \in SUBSET S
      BY <2>2
    <2>4. /\ F[s] = IF s = {} THEN 0 ELSE LET x == CHOOSE x \in s : TRUE IN f[x] + F[s \ {x}]
          /\ G[s] = IF s = {} THEN 0 ELSE LET x == CHOOSE x \in s : TRUE IN g[x] + G[s \ {x}]
      BY <2>3 DEF Sums
    <2>5. s # {}
      BY <2>2, <2>4
    <2>. DEFINE x == CHOOSE x \in s : TRUE
    <2>6. x \in s
      BY <2>5
    <2>7. s \ {x} \notin Bad
      <3>1. IsFiniteSet(s)
        BY <2>1, <2>2
      <3>. HIDE DEF x, Bad
      <3>. QED BY <2>2, <2>6, <3>1, SmallestWithout
    <2>8. F[s \ {x}] = G[s \ {x}] /\ f[x] = g[x]
      BY <2>3, <2>6, <2>7
    <2>. QED BY <2>2, <2>4, <2>5, <2>8
  <1>. QED BY <1>1
-----------------------------------------------------------------------------
\* However a sum over a set was come by, it is the sum over that set.
LEMMA AnySum ==
    ASSUME NEW f, NEW F, NEW D, Sums(F, f, D), NEW S \in SUBSET D, IsFiniteSet(S)
    PROVE  F[S] = SumOver(f, S)
  <1>1. Sums(CHOOSE G : Sums(G, f, S), f, S)
    BY SumsExist
  <1>. DEFINE G == CHOOSE H : Sums(H, f, S)
  <1>2. Sums(G, f, S)
    BY <1>1
  <1>. HIDE DEF G
  <1>3. F[S] = G[S]
    BY <1>2, SumsAgree
  <1>. QED BY <1>3 DEF SumOver, G

LEMMA SumOfNone == ASSUME NEW f PROVE SumOver(f, {}) = 0
  <1>1. IsFiniteSet({})
    BY FS_EmptySet
  <1>2. PICK F : Sums(F, f, {})
    BY <1>1, SumsExist
  <1>3. F[{}] = 0
    BY <1>2 DEF Sums
  <1>. QED BY <1>1, <1>2, <1>3, AnySum

LEMMA SumStep ==
    ASSUME NEW f, NEW S, IsFiniteSet(S), S # {}
    PROVE  LET x == CHOOSE x \in S : TRUE
           IN  x \in S /\ SumOver(f, S) = f[x] + SumOver(f, S \ {x})
  <1>. DEFINE x == CHOOSE x \in S : TRUE
  <1>1. x \in S
    OBVIOUS
  <1>2. PICK F : Sums(F, f, S)
    BY SumsExist
  <1>3. F[S] = f[x] + F[S \ {x}]
    BY <1>2 DEF Sums
  <1>4. S \in SUBSET S /\ S \ {x} \in SUBSET S /\ IsFiniteSet(S \ {x})
    BY FS_RemoveElement
  <1>5. F[S] = SumOver(f, S) /\ F[S \ {x}] = SumOver(f, S \ {x})
    <2>. HIDE DEF x
    <2>. QED BY <1>2, <1>4, AnySum
  <1>. QED BY <1>1, <1>3, <1>5

LEMMA SumSame ==
    ASSUME NEW f, NEW g, NEW S, IsFiniteSet(S), \A x \in S : f[x] = g[x]
    PROVE  SumOver(f, S) = SumOver(g, S)
  <1>1. PICK F : Sums(F, f, S)
    BY SumsExist
  <1>2. PICK G : Sums(G, g, S)
    BY SumsExist
  <1>3. S \in SUBSET (S \cap S) /\ S \in SUBSET S
    OBVIOUS
  <1>4. F[S] = G[S]
    BY <1>1, <1>2, <1>3, SumsAgree
  <1>. QED BY <1>1, <1>2, <1>3, <1>4, AnySum

\* Sums of integers are integers, and of natural numbers natural numbers.
LEMMA SumType ==
    ASSUME NEW f, NEW S, IsFiniteSet(S), NEW N \in {Nat, Int}, \A x \in S : f[x] \in N
    PROVE  SumOver(f, S) \in N
  <1>. DEFINE Bad == {s \in SUBSET S : SumOver(f, s) \notin N}
  <1>1. ASSUME Bad # {} PROVE FALSE
    <2>1. \A s \in Bad : IsFiniteSet(s)
      BY FS_Subset
    <2>2. PICK s \in Bad : \A t \in Bad : Cardinality(s) =< Cardinality(t)
      <3>. HIDE DEF Bad
      <3>. QED BY <1>1, <2>1, SmallestSet
    <2>3. IsFiniteSet(s) /\ s \in SUBSET S
      BY <2>1, <2>2
    <2>4. s # {}
      BY <2>2, SumOfNone
    <2>5. PICK x \in s : SumOver(f, s) = f[x] + SumOver(f, s \ {x})
      BY <2>3, <2>4, SumStep
    <2>7. s \ {x} \notin Bad
      <3>. HIDE DEF Bad
      <3>. QED BY <2>2, <2>3, SmallestWithout
    <2>8. SumOver(f, s \ {x}) \in N /\ f[x] \in N
      BY <2>3, <2>7
    <2>9. SumOver(f, s) \in N
      BY <2>5, <2>8
    <2>. QED BY <2>2, <2>9
  <1>. QED BY <1>1

\* Any member may be taken away first.
LEMMA SumWithout ==
    ASSUME NEW f, NEW S, IsFiniteSet(S), \A x \in S : f[x] \in Int, NEW y \in S
    PROVE  SumOver(f, S) = f[y] + SumOver(f, S \ {y})
  <1>. DEFINE Wrong(s, z) == SumOver(f, s) # f[z] + SumOver(f, s \ {z})
              Bad == {s \in SUBSET S : \E z \in s : Wrong(s, z)}
  <1>1. ASSUME Bad # {} PROVE FALSE
    <2>1. \A s \in Bad : IsFiniteSet(s)
      BY FS_Subset
    <2>2. PICK s \in Bad : \A t \in Bad : Cardinality(s) =< Cardinality(t)
      <3>. HIDE DEF Bad
      <3>. QED BY <1>1, <2>1, SmallestSet
    <2>3. IsFiniteSet(s) /\ s \in SUBSET S
      BY <2>1, <2>2
    <2>4. PICK z \in s : Wrong(s, z)
      BY <2>2
    <2>5. PICK x \in s : SumOver(f, s) = f[x] + SumOver(f, s \ {x})
      BY <2>3, <2>4, SumStep
    <2>6. ASSUME NEW w \in s
          PROVE  /\ s \ {w} \notin Bad /\ s \ {w} \in SUBSET S /\ IsFiniteSet(s \ {w})
      <3>2. s \ {w} \notin Bad
        <4>. HIDE DEF Bad
        <4>. QED BY <2>2, <2>3, SmallestWithout
      <3>. QED BY <2>3, <3>2, FS_RemoveElement
    <2>7. x # z
      BY <2>4, <2>5
    <2>8. ~Wrong(s \ {x}, z) /\ ~Wrong(s \ {z}, x)
      BY <2>6, <2>7
    <2>9. (s \ {x}) \ {z} = (s \ {z}) \ {x}
      OBVIOUS
    <2>10. f[x] \in Int /\ f[z] \in Int
      BY <2>3
    <2>11. SumOver(f, (s \ {z}) \ {x}) \in Int
      <3>1. IsFiniteSet((s \ {z}) \ {x})
        BY <2>6, FS_RemoveElement
      <3>2. \A w \in (s \ {z}) \ {x} : f[w] \in Int
        BY <2>3
      <3>. QED BY <3>1, <3>2, SumType
    <2>. DEFINE rest == SumOver(f, (s \ {z}) \ {x})
    <2>12. SumOver(f, s \ {x}) = f[z] + rest /\ SumOver(f, s \ {z}) = f[x] + rest
      BY <2>6, <2>7, <2>8, <2>9
    <2>13. SumOver(f, s) = f[z] + SumOver(f, s \ {z})
      <3>. HIDE DEF rest
      <3>. QED BY <2>5, <2>10, <2>11, <2>12 DEF rest
    <2>. QED BY <2>4, <2>13
  <1>. QED BY <1>1

\* The sum over two sets without a common member.
LEMMA SumUnion ==
    ASSUME NEW f, NEW A, NEW B, IsFiniteSet(A), IsFiniteSet(B), A \cap B = {},
           \A x \in A \cup B : f[x] \in Int
    PROVE  SumOver(f, A \cup B) = SumOver(f, A) + SumOver(f, B)
  <1>. DEFINE Bad == {s \in SUBSET A : SumOver(f, s \cup B) # SumOver(f, s) + SumOver(f, B)}
  <1>0. SumOver(f, B) \in Int
    BY SumType
  <1>1. ASSUME Bad # {} PROVE FALSE
    <2>1. \A s \in Bad : IsFiniteSet(s)
      BY FS_Subset
    <2>2. PICK s \in Bad : \A t \in Bad : Cardinality(s) =< Cardinality(t)
      <3>. HIDE DEF Bad
      <3>. QED BY <1>1, <2>1, SmallestSet
    <2>3. IsFiniteSet(s) /\ s \in SUBSET A
      BY <2>1, <2>2
    <2>4. s # {}
      <3>1. {} \cup B = B
        OBVIOUS
      <3>. QED BY <1>0, <2>2, <3>1, SumOfNone
    <2>5. PICK x \in s : TRUE
      BY <2>4
    <2>7. s \ {x} \notin Bad
      <3>. HIDE DEF Bad
      <3>. QED BY <2>2, <2>3, SmallestWithout
    <2>8. SumOver(f, (s \ {x}) \cup B) = SumOver(f, s \ {x}) + SumOver(f, B)
      BY <2>3, <2>7
    <2>9. SumOver(f, s) = f[x] + SumOver(f, s \ {x})
      BY <2>3, SumWithout
    <2>10. (s \cup B) \ {x} = (s \ {x}) \cup B
      BY <2>3
    <2>11. SumOver(f, s \cup B) = f[x] + SumOver(f, (s \ {x}) \cup B)
      <3>1. IsFiniteSet(s \cup B)
        BY <2>3, FS_Union
      <3>2. \A w \in s \cup B : f[w] \in Int
        BY <2>3
      <3>. QED BY <2>10, <3>1, <3>2, SumWithout
    <2>12. f[x] \in Int /\ SumOver(f, s \ {x}) \in Int
      <3>1. IsFiniteSet(s \ {x})
        BY <2>3, FS_RemoveElement
      <3>2. \A w \in s \ {x} : f[w] \in Int
        BY <2>3
      <3>. QED BY <2>3, <3>1, <3>2, SumType
    <2>13. SumOver(f, s \cup B) = SumOver(f, s) + SumOver(f, B)
      BY <1>0, <2>8, <2>9, <2>11, <2>12
    <2>. QED BY <2>2, <2>13
  <1>. QED BY <1>1

LEMMA SumOfOne ==
    ASSUME NEW f, NEW x, f[x] \in Int
    PROVE  SumOver(f, {x}) = f[x]
  <1>1. IsFiniteSet({x}) /\ {x} \ {x} = {}
    BY FS_Singleton
  <1>2. SumOver(f, {x}) = f[x] + SumOver(f, {x} \ {x})
    BY <1>1, SumWithout
  <1>. QED BY <1>1, <1>2, SumOfNone

\* A common factor may be taken out of a sum.
LEMMA SumScaled ==
    ASSUME NEW f, NEW g, NEW S, IsFiniteSet(S), NEW c \in Int,
           \A x \in S : f[x] \in Int /\ g[x] = f[x] * c
    PROVE  SumOver(g, S) = SumOver(f, S) * c
  <1>. DEFINE Bad == {s \in SUBSET S : SumOver(g, s) # SumOver(f, s) * c}
  <1>1. ASSUME Bad # {} PROVE FALSE
    <2>1. \A s \in Bad : IsFiniteSet(s)
      BY FS_Subset
    <2>2. PICK s \in Bad : \A t \in Bad : Cardinality(s) =< Cardinality(t)
      <3>. HIDE DEF Bad
      <3>. QED BY <1>1, <2>1, SmallestSet
    <2>3. IsFiniteSet(s) /\ s \in SUBSET S
      BY <2>1, <2>2
    <2>4. s # {}
      <3>1. 0 = 0 * c
        OBVIOUS
      <3>. QED BY <2>2, <3>1, SumOfNone
    <2>5. PICK x \in s : TRUE
      BY <2>4
    <2>6. s \ {x} \notin Bad
      <3>. HIDE DEF Bad
      <3>. QED BY <2>2, <2>3, SmallestWithout
    <2>. DEFINE a == f[x]
                b == SumOver(f, s \ {x})
    <2>7. SumOver(g, s \ {x}) = b * c
      BY <2>3, <2>6
    <2>8. a \in Int /\ g[x] = a * c /\ b \in Int /\ b * c \in Int /\ a * c \in Int
      <3>1. IsFiniteSet(s \ {x}) /\ \A y \in s \ {x} : f[y] \in Int
        BY <2>3, FS_RemoveElement
      <3>2. b \in Int
        BY <3>1, SumType
      <3>. QED BY <2>3, <3>2
    <2>9. SumOver(f, s) = a + b
      BY <2>3, SumWithout
    <2>10. SumOver(g, s) = a * c + b * c
      <3>1. \A y \in s : g[y] \in Int
        BY <2>3
      <3>2. SumOver(g, s) = g[x] + SumOver(g, s \ {x})
        BY <2>3, <3>1, SumWithout
      <3>. QED BY <2>7, <2>8, <3>2
    <2>11. (a + b) * c = a * c + b * c
      <3>. HIDE DEF a, b
      <3>. QED BY <2>8
    <2>. QED BY <2>2, <2>9, <2>10, <2>11
  <1>. QED BY <1>1

-----------------------------------------------------------------------------
\* What a function makes of the members of a finite set is finite.
LEMMA FiniteImage ==
    ASSUME NEW f, NEW S, IsFiniteSet(S)
    PROVE  IsFiniteSet({f[x] : x \in S})
  <1>. DEFINE g == [x \in S |-> f[x]]
  <1>1. g \in Surjection(S, {f[x] : x \in S})
    BY DEF Surjection
  <1>. QED BY <1>1, FS_Surjection

\* The members of S that the function c puts into the class u.
Part(S, c, u) == {x \in S : c[x] = u}
EqualByParts(f, S, c, g, T, d) == \A u : SumOver(f, Part(S, c, u)) = SumOver(g, Part(T, d, u))

\* Two sums are equal when they are equal part by part, for any classes c and
\* d that the members of the two sets are told apart by.
LEMMA SumByParts ==
    ASSUME NEW S, IsFiniteSet(S), NEW f, NEW c, \A x \in S : f[x] \in Int,
           NEW T, IsFiniteSet(T), NEW g, NEW d, \A x \in T : g[x] \in Int,
           EqualByParts(f, S, c, g, T, d)
    PROVE  SumOver(f, S) = SumOver(g, T)
  <1>. DEFINE left(V)  == {x \in S : c[x] \in V}
              right(V) == {x \in T : d[x] \in V}
              U == {c[x] : x \in S} \cup {d[x] : x \in T}
              Bad == {V \in SUBSET U : SumOver(f, left(V)) # SumOver(g, right(V))}
  <1>1. IsFiniteSet(U)
    <2>1. IsFiniteSet({c[x] : x \in S}) /\ IsFiniteSet({d[x] : x \in T})
      BY FiniteImage
    <2>. QED BY <2>1, FS_Union
  <1>2. ASSUME Bad # {} PROVE FALSE
    <2>1. \A V \in Bad : IsFiniteSet(V)
      BY <1>1, FS_Subset
    <2>2. PICK V \in Bad : \A W \in Bad : Cardinality(V) =< Cardinality(W)
      <3>. HIDE DEF Bad
      <3>. QED BY <1>2, <2>1, SmallestSet
    <2>3. IsFiniteSet(V) /\ V \in SUBSET U
      BY <2>1, <2>2
    <2>4. V # {}
      <3>1. left({}) = {} /\ right({}) = {}
        OBVIOUS
      <3>. HIDE DEF left, right
      <3>. QED BY <2>2, <3>1, SumOfNone
    <2>5. PICK u \in V : TRUE
      BY <2>4
    <2>6. V \ {u} \notin Bad
      <3>. HIDE DEF Bad
      <3>. QED BY <2>2, <2>3, SmallestWithout
    <2>7. SumOver(f, left(V \ {u})) = SumOver(g, right(V \ {u}))
      BY <2>3, <2>6
    <2>. DEFINE l == Part(S, c, u)
                r == Part(T, d, u)
    <2>8. left(V) = l \cup left(V \ {u}) /\ l \cap left(V \ {u}) = {}
      BY DEF Part
    <2>9. right(V) = r \cup right(V \ {u}) /\ r \cap right(V \ {u}) = {}
      BY DEF Part
    <2>10. l \in SUBSET S /\ left(V \ {u}) \in SUBSET S /\ r \in SUBSET T /\ right(V \ {u}) \in SUBSET T
      BY DEF Part
    <2>11. SumOver(f, l) = SumOver(g, r)
      BY DEF EqualByParts
    <2>12. SumOver(f, left(V)) # SumOver(g, right(V))
      BY <2>2
    <2>. HIDE DEF l, r, left, right
    <2>13. IsFiniteSet(l) /\ IsFiniteSet(left(V \ {u})) /\ IsFiniteSet(r) /\ IsFiniteSet(right(V \ {u}))
      BY <2>10, FS_Subset
    <2>14. SumOver(f, left(V)) = SumOver(f, l) + SumOver(f, left(V \ {u}))
      <3>1. \A x \in l \cup left(V \ {u}) : f[x] \in Int
        BY <2>10
      <3>2. SumOver(f, l \cup left(V \ {u})) = SumOver(f, l) + SumOver(f, left(V \ {u}))
        <4>. DEFINE rest == left(V \ {u})
        <4>1. IsFiniteSet(l) /\ IsFiniteSet(rest) /\ l \cap rest = {} /\ \A x \in l \cup rest : f[x] \in Int
          BY <2>8, <2>13, <3>1
        <4>. HIDE DEF rest
        <4>2. SumOver(f, l \cup rest) = SumOver(f, l) + SumOver(f, rest)
          BY <4>1, SumUnion
        <4>. QED BY <4>2 DEF rest
      <3>. QED BY <2>8, <3>2
    <2>15. SumOver(g, right(V)) = SumOver(g, r) + SumOver(g, right(V \ {u}))
      <3>1. \A x \in r \cup right(V \ {u}) : g[x] \in Int
        BY <2>10
      <3>2. SumOver(g, r \cup right(V \ {u})) = SumOver(g, r) + SumOver(g, right(V \ {u}))
        <4>. DEFINE rest == right(V \ {u})
        <4>1. IsFiniteSet(r) /\ IsFiniteSet(rest) /\ r \cap rest = {} /\ \A x \in r \cup rest : g[x] \in Int
          BY <2>9, <2>13, <3>1
        <4>. HIDE DEF rest
        <4>2. SumOver(g, r \cup rest) = SumOver(g, r) + SumOver(g, rest)
          BY <4>1, SumUnion
        <4>. QED BY <4>2 DEF rest
      <3>. QED BY <2>9, <3>2
    <2>. QED BY <2>7, <2>11, <2>12, <2>14, <2>15
  <1>3. U \notin Bad
    BY <1>2
  <1>4. left(U) = S /\ right(U) = T
    OBVIOUS
  <1>5. SumOver(f, left(U)) = SumOver(g, right(U))
    BY <1>3
  <1>. HIDE DEF left, right
  <1>. QED BY <1>4, <1>5
=============================================================================

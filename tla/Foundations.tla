---------------------------- MODULE Foundations ----------------------------
(***************************************************************************)
(* Facts about numbers, finite sets and sequences that the proofs of       *)
(* several components use.                                                 *)
(***************************************************************************)
EXTENDS Integers, Sequences, FiniteSets, FiniteSetTheorems,
        WellFoundedInduction, TLAPS

\* The library's less-than relation on the naturals, written out.
LEMMA LessThanRelation ==
    OpToRel(<, Nat) = {ss \in Nat \X Nat : ss[1] < ss[2]}
BY Zenon DEF OpToRel

\* Every nonempty set of naturals has a least element.
LEMMA NatMin ==
    ASSUME NEW S \in SUBSET Nat, S # {}
    PROVE  \E n \in S : \A m \in S : n <= m
<1> DEFINE R == {ss \in Nat \X Nat : ss[1] < ss[2]}
<1>1. IsWellFoundedOn(R, Nat)
  BY LessThanRelation, NatLessThanWellFounded, Zenon
<1>2. \A y, x \in Nat : y < x => <<y, x>> \in R
  BY SMT
<1> HIDE DEF R
<1>3. PICK x \in S : \A y \in S : ~ (<<y, x>> \in R)
  BY <1>1, WFMin, Zenon
<1>4. ASSUME NEW y \in S PROVE x <= y
  <2>1. x \in Nat /\ y \in Nat
    BY SMT
  <2>2. ~ (y < x)
    BY <2>1, <1>2, <1>3, Zenon
  <2> QED BY <2>1, <2>2, SMT
<1> QED BY <1>4

\* The image of a finite set is finite.
LEMMA FiniteImage ==
    ASSUME NEW S, IsFiniteSet(S), NEW f, f = [x \in S |-> f[x]]
    PROVE  IsFiniteSet({f[x] : x \in S})
<1>1. f \in Surjection(S, {f[x] : x \in S})
  BY DEF Surjection
<1> QED BY <1>1, FS_Surjection

\* The sizes of the initial segments number a finite chain from zero, one to
\* one and without gaps.
LEMMA ChainRanks ==
    ASSUME NEW S, IsFiniteSet(S), NEW lower,
           \A x \in S : lower[x] \in SUBSET S /\ x \notin lower[x],
           \A x, y \in S : x = y \/ lower[x] \cup {x} \in SUBSET lower[y]
                                 \/ lower[y] \cup {y} \in SUBSET lower[x],
           NEW rank, rank = [x \in S |-> Cardinality(lower[x])]
    PROVE  /\ Cardinality(S) \in Nat
           /\ \A x \in S : rank[x] \in Nat /\ rank[x] < Cardinality(S)
           /\ \A x, y \in S : rank[x] = rank[y] => x = y
           /\ \A n \in Nat : n < Cardinality(S) => \E x \in S : rank[x] = n
<1> DEFINE N == 0 .. Cardinality(S) - 1
<1>1. Cardinality(S) \in Nat
  BY FS_CardinalityType
<1>2. ASSUME NEW x \in S
      PROVE  /\ IsFiniteSet(lower[x]) /\ rank[x] = Cardinality(lower[x])
             /\ rank[x] \in Nat /\ rank[x] < Cardinality(S)
  <2>1. /\ IsFiniteSet(lower[x]) /\ Cardinality(lower[x]) <= Cardinality(S)
        /\ Cardinality(S) # Cardinality(lower[x])
    BY FS_Subset
  <2>2. Cardinality(lower[x]) \in Nat
    BY <2>1, FS_CardinalityType
  <2> QED BY <1>1, <2>1, <2>2
<1>3. ASSUME NEW x \in S, NEW y \in S, lower[x] \cup {x} \in SUBSET lower[y]
      PROVE  rank[x] < rank[y]
  <2>1. Cardinality(lower[x] \cup {x}) = Cardinality(lower[x]) + 1
    BY <1>2, FS_AddElement
  <2>2. Cardinality(lower[x] \cup {x}) <= Cardinality(lower[y])
    BY <1>2, <1>3, FS_Subset
  <2> QED BY <1>2, <2>1, <2>2
<1>4. \A x, y \in S : rank[x] = rank[y] => x = y
  <2> SUFFICES ASSUME NEW x \in S, NEW y \in S, rank[x] = rank[y], x # y PROVE FALSE
    OBVIOUS
  <2>1. \/ lower[x] \cup {x} \in SUBSET lower[y]
        \/ lower[y] \cup {y} \in SUBSET lower[x]
    OBVIOUS
  <2>2. rank[x] \in Nat /\ rank[y] \in Nat
    BY <1>2
  <2> QED BY <1>3, <2>1, <2>2
<1>5. rank \in Injection(S, N)
  <2>1. \A x \in S : rank[x] \in N
    BY <1>1, <1>2
  <2> QED BY <1>4, <2>1 DEF Injection, IsInjective
<1>6. IsFiniteSet(N) /\ Cardinality(N) = Cardinality(S)
  BY <1>1, FS_Interval
<1> HIDE DEF N
<1>7. rank \in Surjection(S, N)
  BY <1>5, <1>6, FS_Injection
<1>8. ASSUME NEW n \in Nat, n < Cardinality(S) PROVE \E x \in S : rank[x] = n
  <2>1. n \in N
    BY <1>1, <1>8 DEF N
  <2> QED BY <1>7, <2>1 DEF Surjection
<1> QED BY <1>1, <1>2, <1>4, <1>8

-----------------------------------------------------------------------------
(* Induction, with a set for the predicate. *)

\* A set of elements that contains each one whose predecessors in rank it
\* contains is the whole domain.
LEMMA RankInduction ==
    ASSUME NEW D, NEW rank, \A d \in D : rank[d] \in Nat, NEW G,
           \A d \in D : (\A e \in D : rank[e] < rank[d] => e \in G) => d \in G
    PROVE  D \subseteq G
<1> SUFFICES ASSUME NEW b \in D, b \notin G PROVE FALSE
  OBVIOUS
<1> DEFINE R == {rank[d] : d \in D \ G}
<1>1. R \in SUBSET Nat /\ R # {}
  OBVIOUS
<1>2. PICK n \in R : \A m \in R : n <= m
  <2> HIDE DEF R
  <2> QED BY <1>1, NatMin
<1>3. PICK d \in D \ G : rank[d] = n
  BY <1>2
<1>4. ASSUME NEW e \in D, rank[e] < rank[d] PROVE e \in G
  <2> SUFFICES ASSUME e \notin G PROVE FALSE
    OBVIOUS
  <2>1. rank[e] \in R /\ rank[e] \in Nat /\ rank[d] \in Nat
    OBVIOUS
  <2> HIDE DEF R
  <2> QED BY <2>1, <1>2, <1>3, <1>4
<1> QED BY <1>3, <1>4

\* Induction over the naturals.
LEMMA NatSetInduction ==
    ASSUME NEW G, 0 \in G, \A n \in Nat : n \in G => n + 1 \in G
    PROVE  \A n \in Nat : n \in G
<1> SUFFICES ASSUME NEW b \in Nat, b \notin G PROVE FALSE
  OBVIOUS
<1> DEFINE R == {n \in Nat : n \notin G}
<1>1. PICK n \in R : \A m \in R : n <= m
  <2>1. R \in SUBSET Nat /\ R # {}
    OBVIOUS
  <2> HIDE DEF R
  <2> QED BY <2>1, NatMin
<1>2. n \in Nat /\ n # 0 /\ n - 1 \in Nat /\ n = (n - 1) + 1
  BY <1>1
<1>3. n - 1 \notin R
  BY <1>1, <1>2
<1> QED BY <1>1, <1>2, <1>3

\* A set of finite sets that contains the empty set, and each set that differs
\* by one element from one it contains, contains all subsets of S.
LEMMA SubsetInduction ==
    ASSUME NEW S, IsFiniteSet(S), NEW G, {} \in G,
           \A T \in SUBSET S : \A x \in T : T \ {x} \in G => T \in G
    PROVE  \A T \in SUBSET S : T \in G
<1> DEFINE rank == [T \in SUBSET S |-> Cardinality(T)]
<1>1. \A T \in SUBSET S : IsFiniteSet(T) /\ rank[T] \in Nat
  BY FS_Subset, FS_CardinalityType
<1>2. ASSUME NEW T \in SUBSET S, \A U \in SUBSET S : rank[U] < rank[T] => U \in G
      PROVE  T \in G
  <2>1. CASE T = {}
    BY <2>1
  <2>2. CASE T # {}
    <3>1. PICK x \in T : TRUE
      BY <2>2
    <3>2. T \ {x} \in SUBSET S
      OBVIOUS
    <3>3. rank[T \ {x}] < rank[T]
      <4>1. Cardinality(T \ {x}) = Cardinality(T) - 1 /\ Cardinality(T) \in Nat
        BY <1>1, <3>1, FS_RemoveElement, FS_CardinalityType
      <4> QED BY <4>1, <3>2
    <3> HIDE DEF rank
    <3> QED BY <1>2, <3>1, <3>2, <3>3
  <2> QED BY <2>1, <2>2
<1>3. \A T \in SUBSET S : rank[T] \in Nat
  BY <1>1
<1>4. \A T \in SUBSET S :
        (\A U \in SUBSET S : rank[U] < rank[T] => U \in G) => T \in G
  BY <1>2
<1> DEFINE D == SUBSET S
<1>5. D \subseteq G
  <2>1. \A T \in D : rank[T] \in Nat
    BY <1>3
  <2>2. \A T \in D : (\A U \in D : rank[U] < rank[T] => U \in G) => T \in G
    BY <1>4
  <2> HIDE DEF rank, D
  <2> QED BY <2>1, <2>2, RankInduction
<1> QED BY <1>5

-----------------------------------------------------------------------------
(* Sums over finite sets. *)

Pick(T) == CHOOSE x \in T : TRUE

\* g gives the sum of f over every subset of S, in the order Pick chooses.
SumsOver(g, f, S) ==
    g = [T \in SUBSET S |-> IF T = {} THEN 0 ELSE f[Pick(T)] + g[T \ {Pick(T)}]]

\* The sum of f over S.
SumOver(f, S) == (CHOOSE g : SumsOver(g, f, S))[S]

\* There is such a function.
LEMMA SumsExist ==
    ASSUME NEW S, IsFiniteSet(S), NEW f
    PROVE  \E g : SumsOver(g, f, S)
<1> DEFINE Level(n) == {T \in SUBSET S : Cardinality(T) <= n}
           Sums(h, n) == [T \in Level(n) |->
                            IF T = {} THEN 0 ELSE f[Pick(T)] + h[T \ {Pick(T)}]]
           G == {n \in Nat : \E g : g = Sums(g, n)}
<1>0. \A T \in SUBSET S : IsFiniteSet(T) /\ Cardinality(T) \in Nat
  BY FS_Subset, FS_CardinalityType
<1>1. 0 \in G
  <2> DEFINE g == [T \in Level(0) |-> 0]
  <2>1. \A T \in Level(0) : T = {}
    BY <1>0, FS_EmptySet
  <2>2. g = Sums(g, 0)
    BY <2>1
  <2> QED BY <2>2
<1>2. ASSUME NEW n \in Nat, n \in G PROVE n + 1 \in G
  <2>1. PICK g : g = Sums(g, n)
    BY <1>2
  <2> DEFINE h == Sums(g, n + 1)
  <2>2. \A T \in Level(n) : T \in Level(n + 1)
    BY <1>0
  <2>3. \A T \in Level(n) : h[T] = g[T]
    <3> SUFFICES ASSUME NEW T \in Level(n) PROVE h[T] = g[T]
      OBVIOUS
    <3>1. h[T] = IF T = {} THEN 0 ELSE f[Pick(T)] + g[T \ {Pick(T)}]
      BY <2>2
    <3>2. g[T] = IF T = {} THEN 0 ELSE f[Pick(T)] + g[T \ {Pick(T)}]
      <4> HIDE DEF Level
      <4> QED BY <2>1
    <3> QED BY <3>1, <3>2
  <2>4. \A T \in Level(n + 1) : T # {} => T \ {Pick(T)} \in Level(n)
    <3> SUFFICES ASSUME NEW T \in Level(n + 1), T # {} PROVE T \ {Pick(T)} \in Level(n)
      OBVIOUS
    <3>1. Pick(T) \in T
      BY DEF Pick
    <3>2. Cardinality(T \ {Pick(T)}) = Cardinality(T) - 1
      BY <3>1, <1>0, FS_RemoveElement
    <3> QED BY <3>1, <3>2, <1>0
  <2>5. h = Sums(h, n + 1)
    <3> HIDE DEF Level
    <3> QED BY <2>3, <2>4
  <2> HIDE DEF h, Sums
  <2> QED BY <2>5
<1>3. \A n \in Nat : n \in G
  <2> HIDE DEF G
  <2> QED BY <1>1, <1>2, NatSetInduction
<1>4. Cardinality(S) \in Nat /\ Level(Cardinality(S)) = SUBSET S
  BY FS_Subset, FS_CardinalityType
<1>5. PICK g : g = Sums(g, Cardinality(S))
  BY <1>3, <1>4
<1> QED BY <1>4, <1>5 DEF SumsOver

\* Which element is taken first makes no difference.
LEMMA SumsStep ==
    ASSUME NEW S, IsFiniteSet(S), NEW f, \A x \in S : f[x] \in Nat,
           NEW g, SumsOver(g, f, S)
    PROVE  \A T \in SUBSET S :
             /\ g[T] \in Nat
             /\ T = {} => g[T] = 0
             /\ \A x \in T : g[T] = f[x] + g[T \ {x}]
<1> DEFINE Fine(T) == g[T] \in Nat /\ \A x \in T : g[T] = f[x] + g[T \ {x}]
           rank == [T \in SUBSET S |-> Cardinality(T)]
           G == {T \in SUBSET S : Fine(T)}
<1>1. \A T \in SUBSET S : IsFiniteSet(T) /\ Cardinality(T) \in Nat
  BY FS_Subset, FS_CardinalityType
<1>2. \A T \in SUBSET S :
        g[T] = IF T = {} THEN 0 ELSE f[Pick(T)] + g[T \ {Pick(T)}]
  BY DEF SumsOver
<1>3. ASSUME NEW T \in SUBSET S, \A U \in SUBSET S : rank[U] < rank[T] => U \in G
      PROVE  T \in G
  <2>1. \A x \in T : Fine(T \ {x})
    <3> SUFFICES ASSUME NEW x \in T PROVE Fine(T \ {x})
      OBVIOUS
    <3>1. T \ {x} \in SUBSET S
      OBVIOUS
    <3>2. Cardinality(T \ {x}) = Cardinality(T) - 1
      BY <1>1, FS_RemoveElement
    <3>3. rank[T \ {x}] < rank[T]
      BY <1>1, <3>1, <3>2
    <3> HIDE DEF Fine, rank
    <3> QED BY <1>3, <3>1, <3>3
  <2>2. CASE T = {}
    <3>1. g[T] = 0
      BY <1>2, <2>2
    <3> QED BY <2>2, <3>1
  <2>3. CASE T # {}
    <3> DEFINE y == Pick(T)
    <3>1. y \in T
      BY <2>3 DEF Pick
    <3>2. g[T] = f[y] + g[T \ {y}]
      BY <1>2, <2>3
    <3>3. f[y] \in Nat /\ g[T \ {y}] \in Nat
      BY <2>1, <3>1
    <3> HIDE DEF y
    <3>4. ASSUME NEW x \in T PROVE g[T] = f[x] + g[T \ {x}]
      <4>1. CASE x = y
        BY <4>1, <3>2
      <4>2. CASE x # y
        <5>1. g[T \ {y}] = f[x] + g[(T \ {y}) \ {x}]
          BY <2>1, <3>1, <4>2
        <5>2. g[T \ {x}] = f[y] + g[(T \ {x}) \ {y}]
          BY <2>1, <3>1, <4>2
        <5>3. (T \ {y}) \ {x} = (T \ {x}) \ {y}
          OBVIOUS
        <5>4. g[(T \ {y}) \ {x}] \in Nat
          <6>1. Fine(T \ {y}) /\ T \ {y} \in SUBSET S /\ x \in T \ {y}
            BY <2>1, <3>1, <4>2
          <6>2. g[T \ {y}] \in Nat /\ f[x] \in Nat
            BY <3>3
          <6>3. \A U \in SUBSET S : rank[U] < rank[T] => U \in G
            BY <1>3
          <6>4. (T \ {y}) \ {x} \in SUBSET S
            OBVIOUS
          <6>5. Cardinality((T \ {y}) \ {x}) < Cardinality(T)
            <7>1. Cardinality(T \ {y}) = Cardinality(T) - 1
              BY <1>1, <3>1, FS_RemoveElement
            <7>2. Cardinality((T \ {y}) \ {x}) = Cardinality(T \ {y}) - 1
              BY <1>1, <6>1, FS_RemoveElement
            <7> QED BY <7>1, <7>2, <1>1
          <6>6. rank[(T \ {y}) \ {x}] < rank[T]
            BY <6>4, <6>5
          <6> HIDE DEF rank
          <6> QED BY <6>3, <6>4, <6>6
        <5>5. f[x] \in Nat
          OBVIOUS
        <5> QED BY <3>2, <3>3, <5>1, <5>2, <5>3, <5>4, <5>5
      <4> QED BY <4>1, <4>2
    <3>5. g[T] \in Nat
      BY <3>2, <3>3
    <3> QED BY <3>4, <3>5
  <2> QED BY <2>2, <2>3
<1>4. \A T \in SUBSET S : rank[T] \in Nat
  BY <1>1
<1>5. \A T \in SUBSET S :
        (\A U \in SUBSET S : rank[U] < rank[T] => U \in G) => T \in G
  <2> HIDE DEF G, rank
  <2> QED BY <1>3
<1>6. SUBSET S \subseteq G
  <2> DEFINE D == SUBSET S
  <2>1. \A T \in D : rank[T] \in Nat
    BY <1>4
  <2>2. \A T \in D : (\A U \in D : rank[U] < rank[T] => U \in G) => T \in G
    <3> HIDE DEF G, rank
    <3> QED BY <1>5
  <2> HIDE DEF rank, G, D
  <2>3. D \subseteq G
    BY <2>1, <2>2, RankInduction
  <2> QED BY <2>3 DEF D
<1> QED BY <1>2, <1>6

\* Sums taken over two sets agree on a set that is part of both.
LEMMA SumsAgree ==
    ASSUME NEW S, IsFiniteSet(S), NEW f, \A x \in S : f[x] \in Nat,
           NEW g, SumsOver(g, f, S),
           NEW Z, IsFiniteSet(Z), NEW e, \A x \in Z : e[x] \in Nat,
           NEW h, SumsOver(h, e, Z),
           NEW A, A \in SUBSET S, A \in SUBSET Z, \A x \in A : f[x] = e[x]
    PROVE  g[A] = h[A]
<1> DEFINE G == {T \in SUBSET A : g[T] = h[T]}
<1>1. \A T \in SUBSET A : /\ T = {} => g[T] = 0 /\ h[T] = 0
                          /\ \A x \in T : g[T] = f[x] + g[T \ {x}]
                          /\ \A x \in T : h[T] = e[x] + h[T \ {x}]
  <2>1. \A T \in SUBSET A : T \in SUBSET S /\ T \in SUBSET Z
    OBVIOUS
  <2>2. \A T \in SUBSET S : /\ T = {} => g[T] = 0
                            /\ \A x \in T : g[T] = f[x] + g[T \ {x}]
    BY SumsStep
  <2>3. \A T \in SUBSET Z : /\ T = {} => h[T] = 0
                            /\ \A x \in T : h[T] = e[x] + h[T \ {x}]
    BY SumsStep
  <2> QED BY <2>1, <2>2, <2>3, Zenon
<1>2. {} \in G
  BY <1>1
<1>3. ASSUME NEW T \in SUBSET A, NEW x \in T, T \ {x} \in G PROVE T \in G
  BY <1>1, <1>3
<1>4. IsFiniteSet(A)
  BY FS_Subset
<1>5. \A T \in SUBSET A : T \in G
  <2> HIDE DEF G
  <2> QED BY <1>2, <1>3, <1>4, SubsetInduction
<1> QED BY <1>5

\* The sum is that of any function of partial sums.
LEMMA SumIs ==
    ASSUME NEW S, IsFiniteSet(S), NEW f, \A x \in S : f[x] \in Nat,
           NEW g, SumsOver(g, f, S)
    PROVE  SumOver(f, S) = g[S]
<1> DEFINE h == CHOOSE h : SumsOver(h, f, S)
<1>1. SumsOver(h, f, S)
  BY SumsExist
<1> HIDE DEF h
<1>2. S \in SUBSET S /\ \A x \in S : f[x] = f[x]
  OBVIOUS
<1>3. h[S] = g[S]
  BY <1>1, <1>2, SumsAgree
<1> QED BY <1>3 DEF SumOver, h

\* A sum is a natural, is zero over the empty set, and any element may be
\* split off.
LEMMA SumStep ==
    ASSUME NEW S, IsFiniteSet(S), NEW f, \A x \in S : f[x] \in Nat
    PROVE  /\ SumOver(f, S) \in Nat
           /\ S = {} => SumOver(f, S) = 0
           /\ \A x \in S : SumOver(f, S) = f[x] + SumOver(f, S \ {x})
<1>1. PICK g : SumsOver(g, f, S)
  BY SumsExist
<1>2. SumOver(f, S) = g[S]
  BY <1>1, SumIs
<1>3. ASSUME NEW x \in S PROVE SumOver(f, S \ {x}) = g[S \ {x}]
  <2> DEFINE A == S \ {x}
  <2>1. IsFiniteSet(A) /\ A \in SUBSET S /\ A \in SUBSET A /\ \A y \in A : f[y] \in Nat
    BY FS_Subset
  <2> HIDE DEF A
  <2>2. PICK h : SumsOver(h, f, A)
    BY <2>1, SumsExist
  <2>3. g[A] = h[A]
    <3>1. \A y \in A : f[y] = f[y]
      OBVIOUS
    <3> QED BY <1>1, <2>1, <2>2, <3>1, SumsAgree
  <2>4. SumOver(f, A) = h[A]
    BY <2>1, <2>2, SumIs
  <2> QED BY <2>3, <2>4 DEF A
<1>4. S \in SUBSET S
  OBVIOUS
<1>5. /\ g[S] \in Nat
      /\ S = {} => g[S] = 0
      /\ \A x \in S : g[S] = f[x] + g[S \ {x}]
  BY <1>1, <1>4, SumsStep
<1> QED BY <1>2, <1>3, <1>5

\* Only the values on the set matter.
LEMMA SumSame ==
    ASSUME NEW S, IsFiniteSet(S), NEW f, \A x \in S : f[x] \in Nat,
           NEW e, \A x \in S : e[x] = f[x]
    PROVE  SumOver(e, S) = SumOver(f, S)
<1>1. PICK g : SumsOver(g, f, S)
  BY SumsExist
<1>2. PICK h : SumsOver(h, e, S)
  BY SumsExist
<1>3. \A x \in S : e[x] \in Nat
  OBVIOUS
<1>4. SumOver(f, S) = g[S] /\ SumOver(e, S) = h[S]
  BY <1>1, <1>2, <1>3, SumIs
<1>5. S \in SUBSET S /\ \A x \in S : f[x] = e[x]
  OBVIOUS
<1>6. g[S] = h[S]
  BY <1>1, <1>2, <1>3, <1>5, SumsAgree
<1> QED BY <1>4, <1>6

\* Sums of sums.
LEMMA SumPlus ==
    ASSUME NEW S, IsFiniteSet(S), NEW f, NEW e, NEW h,
           \A x \in S : f[x] \in Nat /\ e[x] \in Nat /\ h[x] = f[x] + e[x]
    PROVE  SumOver(h, S) = SumOver(f, S) + SumOver(e, S)
<1> DEFINE G == {T \in SUBSET S : SumOver(h, T) = SumOver(f, T) + SumOver(e, T)}
<1>0. \A x \in S : h[x] \in Nat
  OBVIOUS
<1>1. ASSUME NEW T \in SUBSET S
      PROVE  /\ SumOver(f, T) \in Nat /\ SumOver(e, T) \in Nat /\ SumOver(h, T) \in Nat
             /\ T = {} => SumOver(f, T) = 0 /\ SumOver(e, T) = 0 /\ SumOver(h, T) = 0
             /\ \A x \in T : SumOver(f, T) = f[x] + SumOver(f, T \ {x})
             /\ \A x \in T : SumOver(e, T) = e[x] + SumOver(e, T \ {x})
             /\ \A x \in T : SumOver(h, T) = h[x] + SumOver(h, T \ {x})
  <2>1. IsFiniteSet(T)
    BY FS_Subset
  <2>2. /\ \A x \in T : f[x] \in Nat
        /\ \A x \in T : e[x] \in Nat
        /\ \A x \in T : h[x] \in Nat
    BY <1>0
  <2> QED BY <2>1, <2>2, SumStep
<1>2. {} \in G
  BY <1>1
<1>3. ASSUME NEW T \in SUBSET S, NEW x \in T, T \ {x} \in G PROVE T \in G
  <2>1. T \ {x} \in SUBSET S /\ x \in S
    OBVIOUS
  <2>2. SumOver(h, T \ {x}) = SumOver(f, T \ {x}) + SumOver(e, T \ {x})
    BY <1>3
  <2>3. /\ SumOver(f, T \ {x}) \in Nat /\ SumOver(e, T \ {x}) \in Nat
        /\ f[x] \in Nat /\ e[x] \in Nat /\ h[x] = f[x] + e[x]
    BY <1>1, <2>1
  <2>4. /\ SumOver(f, T) = f[x] + SumOver(f, T \ {x})
        /\ SumOver(e, T) = e[x] + SumOver(e, T \ {x})
        /\ SumOver(h, T) = h[x] + SumOver(h, T \ {x})
    BY <1>1
  <2> QED BY <2>2, <2>3, <2>4
<1>4. \A T \in SUBSET S : T \in G
  <2> HIDE DEF G
  <2> QED BY <1>2, <1>3, SubsetInduction
<1> QED BY <1>4

\* A change at one element changes the sum by as much.
LEMMA SumChange ==
    ASSUME NEW S, IsFiniteSet(S), NEW f, \A x \in S : f[x] \in Nat,
           NEW e, NEW a \in S, e[a] \in Nat, \A x \in S \ {a} : e[x] = f[x]
    PROVE  SumOver(e, S) + f[a] = SumOver(f, S) + e[a]
<1>1. \A x \in S : e[x] \in Nat
  OBVIOUS
<1>2. SumOver(f, S) = f[a] + SumOver(f, S \ {a})
  BY SumStep
<1>3. SumOver(e, S) = e[a] + SumOver(e, S \ {a})
  BY <1>1, SumStep
<1>4. IsFiniteSet(S \ {a}) /\ \A x \in S \ {a} : f[x] \in Nat
  BY FS_Subset
<1>5. SumOver(e, S \ {a}) = SumOver(f, S \ {a})
  BY <1>4, SumSame
<1>6. SumOver(f, S \ {a}) \in Nat
  BY <1>4, SumStep
<1> QED BY <1>2, <1>3, <1>5, <1>6

\* Elements that count nothing may be left out.
LEMMA SumSupport ==
    ASSUME NEW S, IsFiniteSet(S), NEW f, \A x \in S : f[x] \in Nat,
           NEW A \in SUBSET S, \A x \in S \ A : f[x] = 0
    PROVE  SumOver(f, S) = SumOver(f, A)
<1> DEFINE G == {T \in SUBSET (S \ A) : SumOver(f, A \cup T) = SumOver(f, A)}
<1>1. {} \in G
  <2>1. A \cup {} = A
    OBVIOUS
  <2> QED BY <2>1
<1>2. ASSUME NEW T \in SUBSET (S \ A), NEW x \in T, T \ {x} \in G PROVE T \in G
  <2>1. (A \cup T) \ {x} = A \cup (T \ {x}) /\ x \in A \cup T /\ f[x] = 0
    OBVIOUS
  <2>2. IsFiniteSet(A \cup T) /\ IsFiniteSet(A \cup (T \ {x}))
    <3>1. A \cup T \in SUBSET S /\ A \cup (T \ {x}) \in SUBSET S
      OBVIOUS
    <3> QED BY <3>1, FS_Subset
  <2>3. SumOver(f, A \cup T) = f[x] + SumOver(f, (A \cup T) \ {x})
    <3>1. \A y \in A \cup T : f[y] \in Nat
      OBVIOUS
    <3> QED BY <2>1, <2>2, <3>1, SumStep
  <2>4. SumOver(f, A \cup (T \ {x})) \in Nat
    <3>1. \A y \in A \cup (T \ {x}) : f[y] \in Nat
      OBVIOUS
    <3> QED BY <2>2, <3>1, SumStep
  <2>5. SumOver(f, A \cup (T \ {x})) = SumOver(f, A)
    BY <1>2
  <2> QED BY <2>1, <2>3, <2>4, <2>5
<1>3. IsFiniteSet(S \ A)
  BY FS_Subset
<1>4. \A T \in SUBSET (S \ A) : T \in G
  <2> HIDE DEF G
  <2> QED BY <1>1, <1>2, <1>3, SubsetInduction
<1>5. A \cup (S \ A) = S /\ S \ A \in SUBSET (S \ A)
  OBVIOUS
<1>6. S \ A \in G
  <2> HIDE DEF G
  <2> QED BY <1>4, <1>5
<1> QED BY <1>5, <1>6

\* A sum may be taken group by group.
LEMMA SumGroups ==
    ASSUME NEW S, IsFiniteSet(S), NEW R, IsFiniteSet(R),
           NEW f, \A r \in R : f[r] \in Nat,
           NEW k, \A r \in R : k[r] \in S
    PROVE  SumOver([s \in S |-> SumOver(f, {r \in R : k[r] = s})], S) = SumOver(f, R)
<1> DEFINE Group(T, s) == {r \in T : k[r] = s}
           ByGroup(T) == [s \in S |-> SumOver(f, Group(T, s))]
           G == {T \in SUBSET R : SumOver(ByGroup(T), S) = SumOver(f, T)}
<1>1. ASSUME NEW T \in SUBSET R
      PROVE  /\ IsFiniteSet(T) /\ SumOver(f, T) \in Nat
             /\ \A x \in T : SumOver(f, T) = f[x] + SumOver(f, T \ {x})
             /\ T = {} => SumOver(f, T) = 0
  <2>1. IsFiniteSet(T)
    BY FS_Subset
  <2>2. \A x \in T : f[x] \in Nat
    OBVIOUS
  <2> QED BY <2>1, <2>2, SumStep
<1>2. ASSUME NEW T \in SUBSET R
      PROVE  \A s \in S : ByGroup(T)[s] \in Nat
  <2> SUFFICES ASSUME NEW s \in S PROVE SumOver(f, Group(T, s)) \in Nat
    OBVIOUS
  <2>1. Group(T, s) \in SUBSET R
    OBVIOUS
  <2> HIDE DEF Group
  <2> QED BY <2>1, <1>1
<1>3. {} \in G
  <2>1. \A s \in S : ByGroup({})[s] = 0
    <3> SUFFICES ASSUME NEW s \in S PROVE SumOver(f, Group({}, s)) = 0
      OBVIOUS
    <3>1. Group({}, s) = {}
      OBVIOUS
    <3> HIDE DEF Group
    <3> QED BY <3>1, <1>1
  <2> HIDE DEF ByGroup
  <2>2. SumOver(ByGroup({}), S) = SumOver(ByGroup({}), {})
    <3>1. \A s \in S : ByGroup({})[s] \in Nat
      BY <2>1
    <3>2. {} \in SUBSET S /\ \A s \in S \ {} : ByGroup({})[s] = 0
      BY <2>1
    <3> QED BY <3>1, <3>2, SumSupport
  <2>3. SumOver(ByGroup({}), {}) = 0
    <3>1. \A s \in {} : ByGroup({})[s] \in Nat
      OBVIOUS
    <3> QED BY <3>1, SumStep, FS_EmptySet
  <2> QED BY <2>2, <2>3, <1>1
<1>4. ASSUME NEW T \in SUBSET R, NEW x \in T, T \ {x} \in G PROVE T \in G
  <2> DEFINE U == T \ {x}
             a == k[x]
  <2>1. U \in SUBSET R /\ a \in S /\ x \in R /\ f[x] \in Nat
    OBVIOUS
  <2>2. \A s \in S \ {a} : ByGroup(T)[s] = ByGroup(U)[s]
    <3> SUFFICES ASSUME NEW s \in S, s # a PROVE SumOver(f, Group(T, s)) = SumOver(f, Group(U, s))
      OBVIOUS
    <3>1. Group(T, s) = Group(U, s)
      OBVIOUS
    <3> QED BY <3>1
  <2>3. ByGroup(T)[a] = f[x] + ByGroup(U)[a]
    <3>1. Group(T, a) \ {x} = Group(U, a) /\ x \in Group(T, a) /\ Group(T, a) \in SUBSET R
      OBVIOUS
    <3>2. ByGroup(T)[a] = SumOver(f, Group(T, a)) /\ ByGroup(U)[a] = SumOver(f, Group(U, a))
      BY <2>1
    <3> HIDE DEF Group, ByGroup, U, a
    <3> QED BY <3>1, <3>2, <1>1
  <2>4. /\ \A s \in S : ByGroup(T)[s] \in Nat
        /\ \A s \in S : ByGroup(U)[s] \in Nat
    <3> HIDE DEF ByGroup
    <3> QED BY <2>1, <1>2
  <2>5. SumOver(ByGroup(U), S) = SumOver(f, U)
    BY <1>4
  <2>6. SumOver(f, T) = f[x] + SumOver(f, U) /\ SumOver(f, U) \in Nat
    BY <1>1, <2>1
  <2> HIDE DEF ByGroup, U, a
  <2>7. SumOver(ByGroup(T), S) + ByGroup(U)[a] = SumOver(ByGroup(U), S) + ByGroup(T)[a]
    BY <2>1, <2>2, <2>4, SumChange
  <2>8. SumOver(ByGroup(T), S) \in Nat
    BY <2>4, SumStep
  <2>9. ByGroup(U)[a] \in Nat
    BY <2>1, <2>4
  <2>10. SumOver(ByGroup(T), S) = SumOver(f, T)
    BY <2>1, <2>3, <2>5, <2>6, <2>7, <2>8, <2>9
  <2> QED BY <2>10
<1>5. \A T \in SUBSET R : T \in G
  <2> HIDE DEF G
  <2> QED BY <1>3, <1>4, SubsetInduction
<1> QED BY <1>5
=============================================================================

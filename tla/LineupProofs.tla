---------------------------- MODULE LineupProofs -----------------------------
(***************************************************************************)
(* Lineups for every squad and all expected points, and what their proofs  *)
(* rest on.                                                                *)
(*                                                                         *)
(* First what the folds of the community modules compute: that the         *)
(* recursion they are defined by has a solution, what holds of every one,  *)
(* and what follows for sums, counts and orders; the proofs about other    *)
(* components use these too.  Then the elevens of lineup.py: the foremost  *)
(* of each position have the largest sum, so trying the formations finds a *)
(* best eleven.  Then the substitutions of autosub.py, starter by starter. *)
(***************************************************************************)
EXTENDS Lineups, FiniteSetTheorems, SequenceTheorems, WellFoundedInduction, TLAPS

\* A set of natural numbers has a least one.
LEMMA LeastExists ==
  ASSUME NEW S \in SUBSET Nat, S # {}
  PROVE  \E n \in S : \A m \in S : n <= m
<1> DEFINE Less == {p \in Nat \X Nat : p[1] < p[2]}
<1>1. IsWellFoundedOn(Less, Nat)
  BY NatLessThanWellFounded DEF OpToRel
<1>2. PICK n \in S : \A m \in S : ~(<<m, n>> \in Less)
  <2> HIDE DEF Less
  <2>1. QED
    BY <1>1, WFMin
<1>3. ASSUME NEW m \in S PROVE n <= m
  <2>1. m \in Nat /\ n \in Nat /\ ~(<<m, n>> \in Less)
    BY <1>2
  <2>2. ~(m < n)
    BY <2>1
  <2>3. QED
    BY <2>1, <2>2
<1>4. QED
  BY <1>3

\* Induction over the natural numbers, for a set of them.
LEMMA Induction ==
  ASSUME NEW A \in SUBSET Nat, 0 \in A, \A n \in A : n + 1 \in A
  PROVE  A = Nat
<1>1. ASSUME Nat \ A # {} PROVE FALSE
  <2>1. PICK n \in Nat \ A : \A m \in Nat \ A : n <= m
    BY <1>1, LeastExists
  <2>2. n # 0 /\ n - 1 \in Nat /\ ~(n <= n - 1)
    OBVIOUS
  <2>3. n - 1 \in A
    BY <2>1, <2>2
  <2>4. n = (n - 1) + 1
    OBVIOUS
  <2>5. QED
    BY <2>1, <2>3, <2>4
<1>2. QED
  BY <1>1

\* Max of FiniteSetsExt is what its name says, of positions.
LEMMA MaxIsLargest ==
  ASSUME NEW n \in Nat, NEW S \in SUBSET (1 .. n), S # {}
  PROVE  Max(S) \in S /\ \A x \in S : Max(S) >= x
<1> DEFINE T == {n - x : x \in S}
<1>0. ASSUME NEW x \in S PROVE x \in Nat /\ x <= n /\ n - x \in Nat
  <2>1. x \in 1 .. n
    OBVIOUS
  <2>2. QED
    BY <2>1
<1>1. T \in SUBSET Nat /\ T # {}
  BY <1>0
<1>2. PICK t \in T : \A u \in T : t <= u
  <2> HIDE DEF T
  <2>1. QED
    BY <1>1, LeastExists
<1>3. PICK x \in S : t = n - x
  OBVIOUS
<1>4. ASSUME NEW y \in S PROVE x >= y
  <2>1. t <= n - y
    BY <1>2
  <2>2. x \in Nat /\ y \in Nat
    BY <1>0
  <2>3. QED
    BY <1>3, <2>1, <2>2
<1> HIDE DEF T
<1>5. QED
  BY <1>4 DEF Max

\* Induction over a finite set, for a set of its subsets.
LEMMA SubsetInduction ==
  ASSUME NEW S, IsFiniteSet(S), NEW B, {} \in B,
         \A T \in SUBSET S, x \in S : T \in B /\ x \notin T => T \cup {x} \in B
  PROVE  \A T \in SUBSET S : T \in B
<1> DEFINE A == {n \in Nat : \A T \in SUBSET S : Cardinality(T) = n => T \in B}
<1>1. \A T \in SUBSET S : IsFiniteSet(T) /\ Cardinality(T) \in Nat
  BY FS_Subset, FS_CardinalityType
<1>2. 0 \in A
  BY <1>1, FS_EmptySet
<1>3. ASSUME NEW n \in A PROVE n + 1 \in A
  <2>1. n \in Nat /\ n + 1 \in Nat /\ n + 1 # 0
    OBVIOUS
  <2>2. ASSUME NEW T \in SUBSET S, Cardinality(T) = n + 1 PROVE T \in B
    <3>1. T # {}
      BY <2>1, <2>2, FS_EmptySet
    <3>2. PICK x \in T : TRUE
      BY <3>1
    <3>3. Cardinality(T \ {x}) = n
      BY <1>1, <2>1, <2>2, FS_RemoveElement
    <3>4. T \ {x} \in B /\ T \ {x} \in SUBSET S /\ x \in S /\ x \notin T \ {x}
      BY <3>3
    <3>5. (T \ {x}) \cup {x} = T
      BY <3>2
    <3>6. QED
      BY <3>4, <3>5
  <2>3. QED
    BY <2>1, <2>2
<1> HIDE DEF A
<1>4. A = Nat
  <2>1. A \in SUBSET Nat
    BY DEF A
  <2>2. QED
    BY <1>2, <1>3, <2>1, Induction
<1>5. QED
  BY <1>1, <1>4 DEF A

-----------------------------------------------------------------------------
(* Recursion over the subsets of a finite set, taking out one element after the other. *)

\* The element that is taken out.
Takes(c, S) == \A s \in SUBSET S : s # {} => c[s] \in s

\* Every step leads from values to values.
StepsIn(F, S, X) == \A x \in S, y \in X : F[x][y] \in X

Recurses(g, S, c, b, F) ==
  \A s \in SUBSET S : g[s] = IF s = {} THEN b ELSE F[c[s]][g[s \ {c[s]}]]

\* The recursion has a solution.
LEMMA RecursionExists ==
  ASSUME NEW S, IsFiniteSet(S), NEW c, Takes(c, S), NEW X, NEW b \in X,
         NEW F, StepsIn(F, S, X)
  PROVE  \E g \in [SUBSET S -> X] :
           Recurses(g, S, c, b, F)
<1> DEFINE Small(n) == {s \in SUBSET S : Cardinality(s) <= n}
           Solves(n, g) ==
             \A s \in Small(n) : g[s] = IF s = {} THEN b ELSE F[c[s]][g[s \ {c[s]}]]
           A == {n \in Nat : \E g \in [Small(n) -> X] : Solves(n, g)}
<1>1. \A s \in SUBSET S :
        /\ IsFiniteSet(s) /\ Cardinality(s) \in Nat
        /\ s # {} => /\ c[s] \in s /\ s \ {c[s]} \in SUBSET S
                     /\ Cardinality(s) # 0
                     /\ Cardinality(s \ {c[s]}) = Cardinality(s) - 1
  <2>1. ASSUME NEW s \in SUBSET S PROVE IsFiniteSet(s) /\ Cardinality(s) \in Nat
    BY FS_Subset, FS_CardinalityType
  <2>2. ASSUME NEW s \in SUBSET S, s # {} PROVE c[s] \in s
    BY <2>2 DEF Takes
  <2>3. QED
    BY <2>1, <2>2, FS_RemoveElement, FS_EmptySet
<1>2. 0 \in A
  <2> DEFINE g == [s \in Small(0) |-> b]
  <2>1. ASSUME NEW s \in Small(0) PROVE s = {}
    <3>1. s \in SUBSET S /\ Cardinality(s) <= 0
      OBVIOUS
    <3>2. Cardinality(s) \in Nat /\ (s # {} => Cardinality(s) # 0)
      BY <1>1, <3>1
    <3>3. QED
      BY <3>1, <3>2
  <2>2. g \in [Small(0) -> X] /\ Solves(0, g)
    BY <2>1
  <2>3. QED
    BY <2>2
<1>3. ASSUME NEW n \in A PROVE n + 1 \in A
  <2>1. PICK h \in [Small(n) -> X] : Solves(n, h)
    BY <1>3
  <2>2. n \in Nat
    OBVIOUS
  <2> DEFINE g == [s \in Small(n + 1) |-> IF s = {} THEN b ELSE F[c[s]][h[s \ {c[s]}]]]
  <2>3. ASSUME NEW s \in Small(n + 1), s # {} PROVE s \ {c[s]} \in Small(n)
    <3>1. s \in SUBSET S /\ Cardinality(s) <= n + 1
      OBVIOUS
    <3>2. /\ Cardinality(s) \in Nat /\ s \ {c[s]} \in SUBSET S
          /\ Cardinality(s \ {c[s]}) = Cardinality(s) - 1
      BY <1>1, <2>3, <3>1
    <3>3. Cardinality(s \ {c[s]}) <= n
      BY <2>2, <3>1, <3>2
    <3>4. QED
      BY <3>2, <3>3
  <2>4. g \in [Small(n + 1) -> X]
    <3>1. ASSUME NEW s \in Small(n + 1) PROVE g[s] \in X
      <4>1. CASE s = {}
        BY <4>1
      <4>2. CASE s # {}
        <5>1. c[s] \in S
          BY <1>1, <4>2
        <5>2. h[s \ {c[s]}] \in X
          BY <2>1, <2>3, <4>2
        <5>3. g[s] = F[c[s]][h[s \ {c[s]}]]
          BY <4>2
        <5>4. QED
          BY <5>1, <5>2, <5>3 DEF StepsIn
      <4>3. QED
        BY <4>1, <4>2
    <3>2. QED
      BY <3>1
  <2>5. Small(n) \subseteq Small(n + 1)
    <3>1. ASSUME NEW s \in Small(n) PROVE s \in Small(n + 1)
      <4>1. s \in SUBSET S /\ Cardinality(s) <= n
        OBVIOUS
      <4>2. Cardinality(s) \in Nat
        BY <1>1, <4>1
      <4>3. Cardinality(s) <= n + 1
        BY <2>2, <4>1, <4>2
      <4>4. QED
        BY <4>1, <4>3
    <3>2. QED
      BY <3>1
  <2>6. \A s \in Small(n) : g[s] = h[s]
    BY <2>1, <2>5
  <2>7. Solves(n + 1, g)
    BY <2>3, <2>6
  <2>8. \E k \in [Small(n + 1) -> X] : Solves(n + 1, k)
    <3> HIDE DEF g, Solves, Small
    <3>1. QED
      BY <2>4, <2>7
  <2>9. n + 1 \in Nat
    BY <2>2
  <2> HIDE DEF g, Solves, Small
  <2>10. QED
    BY <2>8, <2>9
<1>4. Cardinality(S) \in A
  <2> HIDE DEF A
  <2>1. A \in SUBSET Nat
    BY DEF A
  <2>2. A = Nat
    BY <1>2, <1>3, <2>1, Induction
  <2>3. QED
    BY <1>1, <2>2
<1>5. Small(Cardinality(S)) = SUBSET S
  BY FS_Subset
<1>6. PICK g \in [SUBSET S -> X] : Solves(Cardinality(S), g)
  BY <1>4, <1>5
<1>7. \A s \in SUBSET S : g[s] = IF s = {} THEN b ELSE F[c[s]][g[s \ {c[s]}]]
  BY <1>5, <1>6
<1>8. Recurses(g, S, c, b, F)
  BY <1>7 DEF Recurses
<1> HIDE DEF Small, Solves, A
<1>9. QED
  BY <1>6, <1>8

\* What the first value satisfies and every step preserves, all values satisfy.
LEMMA RecursionStays ==
  ASSUME NEW S, IsFiniteSet(S), NEW c, Takes(c, S), NEW X, NEW g, g[{}] \in X,
         \A s \in SUBSET S : s # {} /\ g[s \ {c[s]}] \in X => g[s] \in X
  PROVE  \A s \in SUBSET S : g[s] \in X
<1> DEFINE A == {n \in Nat : \A s \in SUBSET S : Cardinality(s) = n => g[s] \in X}
<1>1. \A s \in SUBSET S : IsFiniteSet(s) /\ Cardinality(s) \in Nat
  BY FS_Subset, FS_CardinalityType
<1>2. 0 \in A
  BY <1>1, FS_EmptySet
<1>3. ASSUME NEW n \in A PROVE n + 1 \in A
  <2>1. n \in Nat /\ n + 1 \in Nat /\ n + 1 # 0 /\ n + 1 - 1 = n
    OBVIOUS
  <2>2. \A s \in SUBSET S : Cardinality(s) = n => g[s] \in X
    OBVIOUS
  <2> HIDE DEF A
  <2>3. ASSUME NEW s \in SUBSET S, Cardinality(s) = n + 1 PROVE g[s] \in X
    <3>1. s # {}
      BY <2>1, <2>3, FS_EmptySet
    <3>2. c[s] \in s
      BY <3>1 DEF Takes
    <3>3. Cardinality(s \ {c[s]}) = Cardinality(s) - 1
      BY <1>1, <3>2, FS_RemoveElement
    <3>4. Cardinality(s \ {c[s]}) = n
      BY <2>1, <2>3, <3>3
    <3>5. g[s \ {c[s]}] \in X
      BY <2>2, <3>4
    <3>6. QED
      BY <3>1, <3>5
  <2>4. QED
    BY <2>1, <2>3 DEF A
<1> HIDE DEF A
<1>4. A = Nat
  <2>1. A \in SUBSET Nat
    BY DEF A
  <2>2. QED
    BY <1>2, <1>3, <2>1, Induction
<1>5. ASSUME NEW s \in SUBSET S PROVE g[s] \in X
  <2>1. Cardinality(s) \in A
    BY <1>1, <1>4
  <2>2. QED
    BY <2>1 DEF A
<1>6. QED
  BY <1>5

-----------------------------------------------------------------------------
(* Sums. *)

Numbers(f, S) == \A x \in S : f[x] \in Int

Chosen(s) == CHOOSE x \in s : TRUE

\* The recursion behind SumFunctionOnSet.
Iterates(f, S, g) ==
  g = [s \in SUBSET S |-> IF s = {} THEN 0 ELSE f[Chosen(s)] + g[s \ {Chosen(s)}]]

\* A sum is the last value of a solution of its recursion.
LEMMA SumIterates ==
  ASSUME NEW f, NEW S
  PROVE  SumFunctionOnSet(f, S) = (CHOOSE g : Iterates(f, S, g))[S]
BY DEF SumFunctionOnSet, FoldFunctionOnSet, MapThenFoldSet, Iterates, Chosen

\* Which exists.
LEMMA IterationExists ==
  ASSUME NEW S, IsFiniteSet(S), NEW f, Numbers(f, S)
  PROVE  \E g \in [SUBSET S -> Int] : Iterates(f, S, g)
<1> DEFINE c == [s \in SUBSET S |-> Chosen(s)]
           F == [x \in S |-> [y \in Int |-> f[x] + y]]
<1>1. Takes(c, S)
  BY DEF Takes, Chosen
<1>2. \A x \in S, y \in Int : F[x][y] \in Int /\ F[x][y] = f[x] + y
  BY DEF Numbers
<1>3. \A s \in SUBSET S : c[s] = Chosen(s)
  OBVIOUS
<1> HIDE DEF c, F
<1>4. PICK g \in [SUBSET S -> Int] :
        Recurses(g, S, c, 0, F)
  <2>1. StepsIn(F, S, Int)
    BY <1>2 DEF StepsIn
  <2>2. 0 \in Int
    OBVIOUS
  <2>3. QED
    BY <1>1, <2>1, <2>2, RecursionExists
<1>5. ASSUME NEW s \in SUBSET S
      PROVE  g[s] = IF s = {} THEN 0 ELSE f[Chosen(s)] + g[s \ {Chosen(s)}]
  <2>1. CASE s = {}
    BY <1>4, <2>1 DEF Recurses
  <2>2. CASE s # {}
    <3>1. c[s] \in S /\ g[s \ {c[s]}] \in Int /\ g[s] = F[c[s]][g[s \ {c[s]}]]
      BY <1>1, <1>4, <2>2 DEF Takes, Recurses
    <3>2. QED
      BY <1>2, <1>3, <2>2, <3>1
  <2>3. QED
    BY <2>1, <2>2
<1>6. QED
  BY <1>5 DEF Iterates

\* A solution sums, whichever element is taken first.
LEMMA IterationStep ==
  ASSUME NEW S, IsFiniteSet(S), NEW f, Numbers(f, S), NEW g, Iterates(f, S, g)
  PROVE  \A s \in SUBSET S :
           g[s] \in Int /\ \A x \in s : g[s] = f[x] + g[s \ {x}]
<1> DEFINE Sums(s) == g[s] \in Int /\ \A x \in s : g[s] = f[x] + g[s \ {x}]
           A == {n \in Nat : \A s \in SUBSET S : Cardinality(s) <= n => Sums(s)}
<1>1. \A s \in SUBSET S : IsFiniteSet(s) /\ Cardinality(s) \in Nat
  BY FS_Subset, FS_CardinalityType
<1>2. 0 \in A
  <2>1. ASSUME NEW s \in SUBSET S, Cardinality(s) <= 0 PROVE s = {}
    <3>1. Cardinality(s) = 0
      BY <1>1, <2>1
    <3>2. QED
      BY <1>1, <3>1, FS_EmptySet
  <2>2. g[{}] = 0
    BY DEF Iterates
  <2>3. QED
    BY <2>1, <2>2
<1>3. ASSUME NEW n \in A PROVE n + 1 \in A
  <2>1. n \in Nat /\ n + 1 \in Nat /\ n + 1 # 0 /\ n + 1 - 1 = n
    OBVIOUS
  <2>2. \A s \in SUBSET S : Cardinality(s) <= n => Sums(s)
    OBVIOUS
  <2> HIDE DEF A
  <2>3. ASSUME NEW s \in SUBSET S, Cardinality(s) = n + 1 PROVE Sums(s)
    <3>1. s # {}
      BY <2>1, <2>3, FS_EmptySet
    <3>2. ASSUME NEW x \in s PROVE Sums(s \ {x}) /\ \A y \in s : Sums((s \ {x}) \ {y})
      <4>1. IsFiniteSet(s)
        BY <1>1
      <4>2. Cardinality(s \ {x}) = n /\ IsFiniteSet(s \ {x})
        <5>1. Cardinality(s \ {x}) = Cardinality(s) - 1 /\ IsFiniteSet(s \ {x})
          BY <4>1, FS_RemoveElement
        <5>2. QED
          BY <2>1, <2>3, <5>1
      <4>3. ASSUME NEW y \in s PROVE Cardinality((s \ {x}) \ {y}) <= n
        <5>1. Cardinality((s \ {x}) \ {y}) \in {n, n - 1}
          BY <4>2, FS_RemoveElement
        <5>2. QED
          BY <2>1, <5>1
      <4>4. QED
        BY <2>1, <2>2, <4>2, <4>3
    <3> DEFINE c == Chosen(s)
    <3>3. c \in s /\ f[c] \in Int
      BY <3>1 DEF Chosen, Numbers
    <3>4. g[s] = f[c] + g[s \ {c}]
      BY <3>1 DEF Iterates
    <3> HIDE DEF c
    <3>5. Sums(s \ {c})
      BY <2>2, <3>2, <3>3
    <3>6. ASSUME NEW x \in s PROVE g[s] = f[x] + g[s \ {x}]
      <4>1. CASE x = c
        BY <3>4, <4>1
      <4>2. CASE x # c
        <5>1. x \in s \ {c} /\ c \in s \ {x} /\ f[x] \in Int
          BY <3>3, <4>2 DEF Numbers
        <5>2. Sums(s \ {x})
          BY <2>2, <3>2
        <5>3. (s \ {c}) \ {x} = (s \ {x}) \ {c}
          OBVIOUS
        <5>4. g[s \ {c}] = f[x] + g[(s \ {c}) \ {x}]
          BY <3>5, <5>1
        <5>5. g[s \ {x}] = f[c] + g[(s \ {c}) \ {x}] /\ g[s \ {x}] \in Int
          BY <5>1, <5>2, <5>3
        <5>6. g[(s \ {c}) \ {x}] \in Int
          BY <3>2, <3>3
        <5>7. QED
          BY <3>3, <3>4, <5>1, <5>4, <5>5, <5>6
      <4>3. QED
        BY <4>1, <4>2
    <3>7. g[s] \in Int
      BY <3>3, <3>4, <3>5
    <3>8. QED
      BY <3>6, <3>7
  <2>4. ASSUME NEW s \in SUBSET S, Cardinality(s) <= n + 1 PROVE Sums(s)
    <3>1. Cardinality(s) = n + 1 \/ Cardinality(s) <= n
      BY <1>1, <2>1, <2>4
    <3>2. QED
      BY <2>2, <2>3, <3>1
  <2>5. QED
    BY <2>1, <2>4 DEF A
<1> HIDE DEF A
<1>4. A = Nat
  <2>1. A \in SUBSET Nat
    BY DEF A
  <2>2. QED
    BY <1>2, <1>3, <2>1, Induction
<1>5. ASSUME NEW s \in SUBSET S PROVE Sums(s)
  <2>1. Cardinality(s) \in A /\ Cardinality(s) <= Cardinality(s)
    BY <1>1, <1>4
  <2>2. QED
    BY <2>1 DEF A
<1>6. QED
  BY <1>5

\* Two solutions agree where their numbers do.
LEMMA IterationsAgree ==
  ASSUME NEW U, IsFiniteSet(U), NEW S, U \subseteq S, NEW T, U \subseteq T,
         NEW f, NEW h, \A x \in U : f[x] = h[x],
         NEW g, Iterates(f, S, g), NEW k, Iterates(h, T, k)
  PROVE  g[U] = k[U]
<1> DEFINE A == {n \in Nat : \A s \in SUBSET U : Cardinality(s) = n => g[s] = k[s]}
<1>1. \A s \in SUBSET U : IsFiniteSet(s) /\ Cardinality(s) \in Nat
  BY FS_Subset, FS_CardinalityType
<1>2. 0 \in A
  <2>1. \A s \in SUBSET U : Cardinality(s) = 0 => s = {}
    BY <1>1, FS_EmptySet
  <2>2. g[{}] = 0 /\ k[{}] = 0
    BY DEF Iterates
  <2>3. QED
    BY <2>1, <2>2
<1>3. ASSUME NEW n \in A PROVE n + 1 \in A
  <2>1. n \in Nat /\ n + 1 \in Nat /\ n + 1 # 0 /\ n + 1 - 1 = n
    OBVIOUS
  <2>2. \A s \in SUBSET U : Cardinality(s) = n => g[s] = k[s]
    OBVIOUS
  <2> HIDE DEF A
  <2>3. ASSUME NEW s \in SUBSET U, Cardinality(s) = n + 1 PROVE g[s] = k[s]
    <3> DEFINE c == Chosen(s)
    <3>1. s # {}
      BY <2>1, <2>3, FS_EmptySet
    <3>2. c \in s
      BY <3>1 DEF Chosen
    <3>3. g[s] = f[c] + g[s \ {c}] /\ k[s] = h[c] + k[s \ {c}]
      BY <3>1 DEF Iterates
    <3> HIDE DEF c
    <3>4. Cardinality(s \ {c}) = Cardinality(s) - 1
      BY <1>1, <3>2, FS_RemoveElement
    <3>5. Cardinality(s \ {c}) = n
      BY <2>1, <2>3, <3>4
    <3>6. g[s \ {c}] = k[s \ {c}]
      BY <2>2, <3>5
    <3>7. QED
      BY <3>2, <3>3, <3>6
  <2>4. QED
    BY <2>1, <2>3 DEF A
<1> HIDE DEF A
<1>4. A = Nat
  <2>1. A \in SUBSET Nat
    BY DEF A
  <2>2. QED
    BY <1>2, <1>3, <2>1, Induction
<1>5. Cardinality(U) \in A
  BY <1>1, <1>4
<1>6. QED
  BY <1>5 DEF A

Sum(f, S) == SumFunctionOnSet(f, S)

\* The sum of a finite set is that of a solution.
LEMMA SumSolves ==
  ASSUME NEW S, IsFiniteSet(S), NEW f, Numbers(f, S)
  PROVE  \E g : Iterates(f, S, g) /\ Sum(f, S) = g[S]
BY IterationExists, SumIterates DEF Sum

\* Nothing sums to zero.
LEMMA SumOfNone == ASSUME NEW f PROVE Sum(f, {}) = 0
<1>1. Numbers(f, {}) /\ IsFiniteSet({})
  BY FS_EmptySet DEF Numbers
<1>2. QED
  BY <1>1, SumSolves DEF Iterates

\* The sum depends on the numbers summed only.
LEMMA SumsAgree ==
  ASSUME NEW S, IsFiniteSet(S), NEW f, Numbers(f, S), NEW h, \A x \in S : f[x] = h[x]
  PROVE  Sum(f, S) = Sum(h, S)
<1>1. Numbers(h, S)
  BY DEF Numbers
<1>2. QED
  BY <1>1, SumSolves, IterationsAgree

\* Any element may be taken out first.
LEMMA SumTakesOut ==
  ASSUME NEW S, IsFiniteSet(S), NEW f, Numbers(f, S), NEW x \in S
  PROVE  Sum(f, S) = f[x] + Sum(f, S \ {x})
<1> DEFINE T == S \ {x}
<1>1. IsFiniteSet(T) /\ Numbers(f, T)
  BY FS_Subset DEF Numbers
<1>2. PICK g : Iterates(f, S, g) /\ Sum(f, S) = g[S]
  BY SumSolves
<1>3. PICK k : Iterates(f, T, k) /\ Sum(f, T) = k[T]
  BY <1>1, SumSolves
<1>4. g[T] = k[T]
  BY <1>1, <1>2, <1>3, IterationsAgree
<1>5. g[S] = f[x] + g[S \ {x}]
  BY <1>2, IterationStep
<1>6. QED
  BY <1>2, <1>3, <1>4, <1>5

\* A sum of numbers is a number.
LEMMA SumIsNumber ==
  ASSUME NEW S, IsFiniteSet(S), NEW f, Numbers(f, S)
  PROVE  Sum(f, S) \in Int
BY SumSolves, IterationStep

\* An element is added.
LEMMA SumAdds ==
  ASSUME NEW S, IsFiniteSet(S), NEW f, NEW x, x \notin S, Numbers(f, S \cup {x})
  PROVE  Sum(f, S \cup {x}) = f[x] + Sum(f, S)
<1>1. IsFiniteSet(S \cup {x}) /\ (S \cup {x}) \ {x} = S
  BY FS_AddElement
<1>2. QED
  BY <1>1, SumTakesOut

\* A larger set of what is not negative has no smaller sum.
LEMMA SumGrows ==
  ASSUME NEW S, IsFiniteSet(S), NEW f, Numbers(f, S), \A x \in S : f[x] >= 0,
         NEW T \in SUBSET S
  PROVE  0 <= Sum(f, T) /\ Sum(f, T) <= Sum(f, S)
<1>1. ASSUME NEW R \in SUBSET S PROVE IsFiniteSet(R) /\ Numbers(f, R) /\ Sum(f, R) \in Int
  <2>1. IsFiniteSet(R) /\ Numbers(f, R)
    BY FS_Subset DEF Numbers
  <2>2. QED
    BY <2>1, SumIsNumber
<1> DEFINE B == {R \in SUBSET S : 0 <= Sum(f, R)}
           C == {R \in SUBSET S : Sum(f, T) <= Sum(f, T \cup R)}
<1>2. ASSUME NEW R \in SUBSET S, NEW x \in S, x \notin R
      PROVE  Sum(f, R) <= Sum(f, R \cup {x})
  <2>1. R \cup {x} \in SUBSET S
    BY <1>2
  <2>2. IsFiniteSet(R) /\ Numbers(f, R \cup {x}) /\ Sum(f, R) \in Int /\ f[x] \in Int
    BY <1>1, <2>1 DEF Numbers
  <2>3. Sum(f, R \cup {x}) = f[x] + Sum(f, R)
    BY <1>2, <2>2, SumAdds
  <2>4. f[x] >= 0
    OBVIOUS
  <2>5. QED
    BY <2>2, <2>3, <2>4
<1>3. T \in B
  <2>1. {} \in B
    BY SumOfNone
  <2>2. ASSUME NEW R \in SUBSET S, NEW x \in S, R \in B, x \notin R PROVE R \cup {x} \in B
    <3>1. R \cup {x} \in SUBSET S /\ 0 <= Sum(f, R)
      BY <2>2
    <3>2. Sum(f, R) \in Int /\ Sum(f, R \cup {x}) \in Int
      BY <1>1, <3>1
    <3>3. Sum(f, R) <= Sum(f, R \cup {x})
      BY <1>2, <2>2
    <3>4. QED
      BY <3>1, <3>2, <3>3
  <2> HIDE DEF B
  <2>3. QED
    BY <2>1, <2>2, SubsetInduction
<1>4. S \in C
  <2>1. {} \in C
    BY <1>1
  <2>2. ASSUME NEW R \in SUBSET S, NEW x \in S, R \in C, x \notin R PROVE R \cup {x} \in C
    <3>1. /\ R \cup {x} \in SUBSET S /\ T \cup R \in SUBSET S
          /\ T \cup (R \cup {x}) = (T \cup R) \cup {x} /\ (T \cup R) \cup {x} \in SUBSET S
          /\ Sum(f, T) <= Sum(f, T \cup R)
      BY <2>2
    <3>2. /\ Sum(f, T) \in Int /\ Sum(f, T \cup R) \in Int
          /\ Sum(f, (T \cup R) \cup {x}) \in Int
      BY <1>1, <3>1
    <3>3. CASE x \in T \cup R
      <4>1. T \cup (R \cup {x}) = T \cup R
        BY <3>3
      <4>2. QED
        BY <3>1, <4>1
    <3>4. CASE x \notin T \cup R
      <4>1. Sum(f, T \cup R) <= Sum(f, (T \cup R) \cup {x})
        BY <1>2, <3>1, <3>4
      <4>2. Sum(f, T) <= Sum(f, T \cup (R \cup {x}))
        BY <3>1, <3>2, <4>1
      <4>3. QED
        BY <3>1, <4>2
    <3>5. QED
      BY <3>3, <3>4
  <2> HIDE DEF C
  <2>3. QED
    BY <2>1, <2>2, SubsetInduction
<1>5. T \cup S = S
  OBVIOUS
<1>6. QED
  BY <1>3, <1>4, <1>5

Image(e, S) == {e[x] : x \in S}

\* Renaming what is summed, one to one, does not change the sum.
LEMMA SumOfImage ==
  ASSUME NEW S, IsFiniteSet(S), NEW f, Numbers(f, S), NEW e, NEW h,
         \A x, y \in S : e[x] = e[y] => x = y,
         \A x \in S : h[e[x]] = f[x]
  PROVE  Sum(h, Image(e, S)) = Sum(f, S)
<1> DEFINE B == {R \in SUBSET S : /\ IsFiniteSet(Image(e, R))
                                  /\ Sum(h, Image(e, R)) = Sum(f, R)}
<1>1. {} \in B
  <2>1. Image(e, {}) = {}
    BY DEF Image
  <2>2. QED
    BY <2>1, SumOfNone, FS_EmptySet
<1>2. ASSUME NEW R \in SUBSET S, NEW x \in S, R \in B, x \notin R PROVE R \cup {x} \in B
  <2>1. Image(e, R \cup {x}) = Image(e, R) \cup {e[x]}
    BY DEF Image
  <2>2. e[x] \notin Image(e, R)
    BY <1>2 DEF Image
  <2>3. IsFiniteSet(Image(e, R)) /\ Sum(h, Image(e, R)) = Sum(f, R) /\ R \cup {x} \in SUBSET S
    BY <1>2
  <2>4. IsFiniteSet(Image(e, R) \cup {e[x]})
    BY <2>3, FS_AddElement
  <2>5. Numbers(f, R \cup {x}) /\ Numbers(h, Image(e, R) \cup {e[x]})
    BY <2>3 DEF Numbers, Image
  <2>6. IsFiniteSet(R)
    BY FS_Subset
  <2>7. Sum(f, R \cup {x}) = f[x] + Sum(f, R)
    BY <1>2, <2>5, <2>6, SumAdds
  <2>8. Sum(h, Image(e, R) \cup {e[x]}) = h[e[x]] + Sum(h, Image(e, R))
    BY <2>2, <2>3, <2>5, SumAdds
  <2>9. h[e[x]] = f[x]
    OBVIOUS
  <2>10. QED
    BY <2>1, <2>3, <2>4, <2>7, <2>8, <2>9
<1> HIDE DEF B
<1>3. S \in B
  BY <1>1, <1>2, SubsetInduction
<1>4. QED
  BY <1>3 DEF B

-----------------------------------------------------------------------------
(* Counts, sequences, sums and orders. *)

OneToOne(f, S) == \A x, y \in S : f[x] = f[y] => x = y

Onto(f, S, T) == \A t \in T : \E x \in S : f[x] = t

\* Between sets of the same size what is one-to-one is onto.
LEMMA OneToOneIsOnto ==
  ASSUME NEW S, IsFiniteSet(S), NEW T, IsFiniteSet(T), Cardinality(S) = Cardinality(T),
         NEW f \in [S -> T], OneToOne(f, S)
  PROVE  Onto(f, S, T)
<1>1. f \in Injection(S, T)
  BY DEF Injection, IsInjective, OneToOne
<1>2. f \in Surjection(S, T)
  BY <1>1, FS_Injection
<1>3. QED
  BY <1>2 DEF Surjection, Onto

\* What is one-to-one and onto keeps the size.
LEMMA OneToOneCounts ==
  ASSUME NEW S, IsFiniteSet(S), NEW T, NEW f \in [S -> T], OneToOne(f, S), Onto(f, S, T)
  PROVE  IsFiniteSet(T) /\ Cardinality(T) = Cardinality(S)
<1>1. f \in Bijection(S, T)
  BY DEF Bijection, Injection, IsInjective, Surjection, OneToOne, Onto
<1>2. ExistsBijection(S, T)
  BY <1>1 DEF ExistsBijection
<1>3. QED
  BY <1>2, FS_Bijection

\* In a strict order of a finite set every rank is taken once.
LEMMA RanksAreTaken ==
  ASSUME NEW S, IsFiniteSet(S), NEW up \in [S -> SUBSET S], \A i \in S : i \notin up[i],
         \A i, j \in S : i # j => \/ i \in up[j] /\ up[i] \subseteq up[j]
                                  \/ j \in up[i] /\ up[j] \subseteq up[i]
  PROVE  /\ \A i \in S : Cardinality(up[i]) \in 0 .. Cardinality(S) - 1
         /\ \A i, j \in S : i \in up[j] <=> Cardinality(up[i]) < Cardinality(up[j])
         /\ \A k \in 0 .. Cardinality(S) - 1 : \E i \in S : Cardinality(up[i]) = k
<1> DEFINE n == Cardinality(S)
<1>1. n \in Nat
  BY FS_CardinalityType
<1>2. ASSUME NEW i \in S PROVE IsFiniteSet(up[i]) /\ Cardinality(up[i]) \in 0 .. n - 1
  <2>1. up[i] \in SUBSET (S \ {i})
    OBVIOUS
  <2>2. IsFiniteSet(S \ {i}) /\ Cardinality(S \ {i}) = n - 1
    BY FS_RemoveElement
  <2>3. IsFiniteSet(up[i]) /\ Cardinality(up[i]) <= n - 1
    BY <2>1, <2>2, FS_Subset
  <2>4. QED
    BY <1>1, <2>3, FS_CardinalityType
<1>3. ASSUME NEW i \in S, NEW j \in S, i \in up[j], up[i] \subseteq up[j]
      PROVE  Cardinality(up[i]) < Cardinality(up[j])
  <2>1. IsFiniteSet(up[j]) /\ up[i] \in SUBSET up[j] /\ up[i] # up[j]
    BY <1>2, <1>3
  <2>2. Cardinality(up[i]) <= Cardinality(up[j]) /\ Cardinality(up[i]) # Cardinality(up[j])
    BY <2>1, FS_Subset
  <2>3. Cardinality(up[i]) \in Nat /\ Cardinality(up[j]) \in Nat
    BY <1>2
  <2>4. QED
    BY <2>2, <2>3
<1>4. ASSUME NEW i \in S, NEW j \in S
      PROVE  i \in up[j] <=> Cardinality(up[i]) < Cardinality(up[j])
  <2>1. Cardinality(up[i]) \in Nat /\ Cardinality(up[j]) \in Nat
    BY <1>2
  <2>2. CASE i = j
    BY <2>1, <2>2
  <2>3. CASE i # j
    <3>1. CASE i \in up[j] /\ up[i] \subseteq up[j]
      BY <1>3, <3>1
    <3>2. CASE j \in up[i] /\ up[j] \subseteq up[i]
      <4>1. Cardinality(up[j]) < Cardinality(up[i])
        BY <1>3, <3>2
      <4>2. i \notin up[j]
        BY <3>2
      <4>3. QED
        BY <2>1, <4>1, <4>2
    <3>3. QED
      BY <2>3, <3>1, <3>2
  <2>4. QED
    BY <2>2, <2>3
<1>5. \A k \in 0 .. n - 1 : \E i \in S : Cardinality(up[i]) = k
  <2> DEFINE rank == [i \in S |-> Cardinality(up[i])]
             T == 0 .. n - 1
  <2>1. rank \in [S -> T]
    BY <1>2
  <2>2. ASSUME NEW i \in S, NEW j \in S, rank[i] = rank[j] PROVE i = j
    <3>1. Cardinality(up[i]) = Cardinality(up[j]) /\ Cardinality(up[i]) \in Nat
      BY <1>2, <2>2
    <3>2. i \notin up[j] /\ j \notin up[i]
      BY <1>4, <3>1
    <3>3. QED
      BY <3>2
  <2>3. IsFiniteSet(T) /\ Cardinality(S) = Cardinality(T)
    BY <1>1, FS_Interval
  <2>4. OneToOne(rank, S)
    BY <2>2 DEF OneToOne
  <2> HIDE DEF rank, n, T
  <2>5. Onto(rank, S, T)
    BY <2>1, <2>3, <2>4, OneToOneIsOnto
  <2>6. QED
    BY <2>5 DEF rank, T, Onto
<1>6. QED
  BY <1>2, <1>4, <1>5

\* The sum over two sets that have nothing in common.
LEMMA SumOfUnion ==
  ASSUME NEW S, IsFiniteSet(S), NEW T, IsFiniteSet(T), S \cap T = {}, NEW f,
         Numbers(f, S \cup T)
  PROVE  Sum(f, S \cup T) = Sum(f, S) + Sum(f, T)
<1> DEFINE B == {R \in SUBSET S : Sum(f, R \cup T) = Sum(f, R) + Sum(f, T)}
<1>1. {} \in B
  <2>1. Numbers(f, T)
    BY DEF Numbers
  <2>2. Sum(f, T) \in Int /\ Sum(f, {}) = 0 /\ {} \cup T = T
    BY <2>1, SumIsNumber, SumOfNone
  <2>3. QED
    BY <2>2
<1>2. \A R \in SUBSET S, x \in S : R \in B /\ x \notin R => R \cup {x} \in B
  <2> SUFFICES ASSUME NEW R \in SUBSET S, NEW x \in S, R \in B, x \notin R
               PROVE  R \cup {x} \in B
    OBVIOUS
  <2>1. IsFiniteSet(R) /\ IsFiniteSet(R \cup T)
    BY FS_Subset, FS_Union
  <2>2. x \notin R \cup T /\ (R \cup {x}) \cup T = (R \cup T) \cup {x}
    OBVIOUS
  <2>3. /\ Numbers(f, R) /\ Numbers(f, T) /\ f[x] \in Int
        /\ Numbers(f, R \cup {x}) /\ Numbers(f, (R \cup T) \cup {x})
    BY DEF Numbers
  <2>4. Sum(f, R \cup {x}) = f[x] + Sum(f, R)
    BY <2>1, <2>3, SumAdds
  <2>5. Sum(f, (R \cup T) \cup {x}) = f[x] + Sum(f, R \cup T)
    BY <2>1, <2>2, <2>3, SumAdds
  <2>6. Sum(f, R) \in Int /\ Sum(f, T) \in Int
    BY <2>1, <2>3, SumIsNumber
  <2>7. Sum(f, R \cup T) = Sum(f, R) + Sum(f, T)
    OBVIOUS
  <2>8. Sum(f, (R \cup T) \cup {x}) = Sum(f, R \cup {x}) + Sum(f, T)
    BY <2>3, <2>4, <2>5, <2>6, <2>7
  <2>9. QED
    BY <2>2, <2>8
<1> HIDE DEF B
<1>3. \A R \in SUBSET S : R \in B
  BY <1>1, <1>2, SubsetInduction
<1>4. QED
  BY <1>3 DEF B

Exceeds(f, S, T) == \A x \in S, y \in T : f[x] >= f[y]

Equals(f, S, T) == \A x \in S, y \in T : f[x] = f[y]

\* If everybody in S has as much as everybody in T, so have as many of S as of T, and
\* more unless they all have the same.
LEMMA SumDominates ==
  ASSUME NEW S, IsFiniteSet(S), NEW T, IsFiniteSet(T), NEW f, Numbers(f, S \cup T),
         Exceeds(f, S, T), Cardinality(S) = Cardinality(T)
  PROVE  /\ Sum(f, S) >= Sum(f, T)
         /\ Sum(f, S) = Sum(f, T) => Equals(f, S, T)
<1> DEFINE Outweighs(R, Q) == /\ Sum(f, R) >= Sum(f, Q)
                              /\ Sum(f, R) = Sum(f, Q) => Equals(f, R, Q)
           B == {R \in SUBSET S :
                   \A Q \in SUBSET T : Cardinality(R) = Cardinality(Q) => Outweighs(R, Q)}
<1>1. {} \in B
  <2> SUFFICES ASSUME NEW Q \in SUBSET T, Cardinality({}) = Cardinality(Q)
               PROVE  Outweighs({}, Q)
    OBVIOUS
  <2>1. IsFiniteSet(Q)
    BY FS_Subset
  <2>2. Q = {}
    BY <2>1, FS_EmptySet
  <2>3. Sum(f, {}) = 0
    BY SumOfNone
  <2>4. QED
    BY <2>2, <2>3 DEF Equals
<1>2. \A R \in SUBSET S, x \in S : R \in B /\ x \notin R => R \cup {x} \in B
  <2> SUFFICES ASSUME NEW R \in SUBSET S, NEW x \in S, R \in B, x \notin R,
                      NEW Q \in SUBSET T, Cardinality(R \cup {x}) = Cardinality(Q)
               PROVE  Outweighs(R \cup {x}, Q)
    OBVIOUS
  <2>1. IsFiniteSet(R) /\ IsFiniteSet(Q) /\ Cardinality(R) \in Nat
    BY FS_Subset, FS_CardinalityType
  <2>2. Cardinality(Q) = Cardinality(R) + 1
    BY <2>1, FS_AddElement
  <2>3. Q # {}
    BY <2>1, <2>2, FS_EmptySet
  <2>4. PICK y \in Q : TRUE
    BY <2>3
  <2> DEFINE P == Q \ {y}
  <2>5. IsFiniteSet(P) /\ Cardinality(P) = Cardinality(R) /\ P \in SUBSET T
    <3>1. IsFiniteSet(P) /\ Cardinality(P) = Cardinality(Q) - 1
      BY <2>1, FS_RemoveElement
    <3>2. QED
      BY <2>1, <2>2, <3>1
  <2>6. Outweighs(R, P)
    BY <2>5
  <2>7. /\ Numbers(f, R) /\ Numbers(f, P) /\ Numbers(f, Q) /\ Numbers(f, R \cup {x})
        /\ f[x] \in Int /\ f[y] \in Int
    BY DEF Numbers
  <2>8. Sum(f, R) \in Int /\ Sum(f, P) \in Int
    BY <2>1, <2>5, <2>7, SumIsNumber
  <2>9. Sum(f, R \cup {x}) = f[x] + Sum(f, R)
    BY <2>1, <2>7, SumAdds
  <2>10. Sum(f, Q) = f[y] + Sum(f, P)
    BY <2>1, <2>7, SumTakesOut
  <2>11. f[x] >= f[y]
    BY DEF Exceeds
  <2>12. Sum(f, R \cup {x}) >= Sum(f, Q)
    BY <2>6, <2>7, <2>8, <2>9, <2>10, <2>11
  <2>13. ASSUME Sum(f, R \cup {x}) = Sum(f, Q) PROVE Equals(f, R \cup {x}, Q)
    <3>1. f[x] = f[y] /\ Sum(f, R) = Sum(f, P)
      BY <2>6, <2>7, <2>8, <2>9, <2>10, <2>11, <2>13
    <3>2. Equals(f, R, P)
      BY <2>6, <3>1
    <3>3. ASSUME NEW u \in R PROVE f[u] = f[y] /\ \A v \in P : f[u] = f[v]
      <4>1. \A v \in P : f[u] = f[v]
        BY <3>2 DEF Equals
      <4>2. P # {}
        BY <2>1, <2>5, FS_EmptySet
      <4>3. PICK v \in P : TRUE
        BY <4>2
      <4>4. f[u] >= f[y] /\ f[x] >= f[v]
        BY <2>5 DEF Exceeds
      <4>5. f[u] \in Int /\ f[v] \in Int
        BY <2>7 DEF Numbers
      <4>6. QED
        BY <2>7, <3>1, <4>1, <4>4, <4>5
    <3>4. ASSUME NEW v \in P PROVE f[x] = f[v]
      <4>1. R # {}
        BY <2>5, FS_EmptySet
      <4>2. PICK u \in R : TRUE
        BY <4>1
      <4>3. f[u] = f[y] /\ f[u] = f[v]
        BY <3>3
      <4>4. QED
        BY <3>1, <4>3
    <3>5. QED
      BY <3>1, <3>3, <3>4 DEF Equals
  <2>14. QED
    BY <2>12, <2>13
<1> HIDE DEF B
<1>3. \A R \in SUBSET S : R \in B
  BY <1>1, <1>2, SubsetInduction
<1>4. QED
  BY <1>3 DEF B

LEMMA DisjointCount ==
  ASSUME NEW S, IsFiniteSet(S), NEW T, IsFiniteSet(T), S \cap T = {}
  PROVE  Cardinality(S \cup T) = Cardinality(S) + Cardinality(T)
<1>1. Cardinality(S \cap T) = 0
  BY FS_EmptySet
<1>2. Cardinality(S) \in Nat /\ Cardinality(T) \in Nat
  BY FS_CardinalityType
<1>3. Cardinality(S \cup T) = Cardinality(S) + Cardinality(T) - Cardinality(S \cap T)
  BY FS_Union
<1>4. QED
  BY <1>1, <1>2, <1>3

\* Two, three and five different things.
LEMMA TwoThings ==
  ASSUME NEW a, NEW b, a # b
  PROVE  IsFiniteSet({a, b}) /\ Cardinality({a, b}) = 2
<1>1. IsFiniteSet({a}) /\ Cardinality({a}) = 1 /\ b \notin {a} /\ {a, b} = {a} \cup {b}
  BY FS_Singleton
<1>2. IsFiniteSet({a} \cup {b}) /\ Cardinality({a} \cup {b}) = Cardinality({a}) + 1
  BY <1>1, FS_AddElement
<1>3. QED
  BY <1>1, <1>2

LEMMA ThreeThings ==
  ASSUME NEW a, NEW b, NEW c, a # b, a # c, b # c
  PROVE  IsFiniteSet({a, b, c}) /\ Cardinality({a, b, c}) = 3
<1>1. /\ IsFiniteSet({a, b}) /\ Cardinality({a, b}) = 2
      /\ c \notin {a, b} /\ {a, b, c} = {a, b} \cup {c}
  BY TwoThings
<1>2. /\ IsFiniteSet({a, b} \cup {c})
      /\ Cardinality({a, b} \cup {c}) = Cardinality({a, b}) + 1
  BY <1>1, FS_AddElement
<1>3. QED
  BY <1>1, <1>2

LEMMA FiveThings ==
  ASSUME NEW a, NEW b, NEW c, NEW d, NEW e,
         a # b, a # c, a # d, a # e, b # c, b # d, b # e, c # d, c # e, d # e
  PROVE  Cardinality({a, b, c, d, e}) = 5
<1>1. /\ IsFiniteSet({a, b, c}) /\ Cardinality({a, b, c}) = 3
      /\ d \notin {a, b, c} /\ {a, b, c, d} = {a, b, c} \cup {d}
  BY ThreeThings
<1>2. IsFiniteSet({a, b, c, d}) /\ Cardinality({a, b, c, d}) = 3 + 1
  BY <1>1, FS_AddElement
<1>3. e \notin {a, b, c, d} /\ {a, b, c, d, e} = {a, b, c, d} \cup {e}
  OBVIOUS
<1>4. Cardinality({a, b, c, d} \cup {e}) = 3 + 1 + 1
  BY ONLY <1>2, <1>3, FS_AddElement
<1>5. QED
  BY <1>3, <1>4

LEMMA FunctionsAreSequences ==
  ASSUME NEW n \in Nat, NEW T, NEW f \in [1 .. n -> T]
  PROVE  f \in Seq(T) /\ Len(f) = n
<1>1. f \in Seq(T)
  BY SeqDef
<1>2. DOMAIN f = 1 .. n
  OBVIOUS
<1>3. DOMAIN f = 1 .. Len(f) /\ Len(f) \in Nat
  BY <1>1, LenProperties
<1>4. QED
  BY <1>1, <1>2, <1>3

Joins(v, a, b) ==
  \A i \in 1 .. Len(a) + Len(b) : v[i] = IF i <= Len(a) THEN a[i] ELSE b[i - Len(a)]

LEMMA TwoPartsJoin ==
  ASSUME NEW T, NEW a \in Seq(T), NEW b \in Seq(T)
  PROVE  /\ a \o b \in Seq(T) /\ Len(a \o b) = Len(a) + Len(b)
         /\ Joins(a \o b, a, b)
  BY ConcatProperties DEF Joins

\* What Append does.
LEMMA Appended ==
  ASSUME NEW T, NEW s \in Seq(T), NEW p \in T
  PROVE  /\ Append(s, p) \in Seq(T) /\ Len(Append(s, p)) = Len(s) + 1
         /\ \A k \in 1 .. Len(s) : Append(s, p)[k] = s[k]
         /\ Append(s, p)[Len(s) + 1] = p
         /\ Range(Append(s, p)) = Range(s) \cup {p}
<1>1. /\ Append(s, p) \in Seq(T) /\ Len(Append(s, p)) = Len(s) + 1
      /\ \A k \in 1 .. Len(s) : Append(s, p)[k] = s[k]
      /\ Append(s, p)[Len(s) + 1] = p
  OBVIOUS
<1>2. DOMAIN Append(s, p) = 1 .. Len(s) + 1 /\ DOMAIN s = 1 .. Len(s) /\ Len(s) \in Nat
  BY <1>1, LenProperties
<1>3. \A k \in 1 .. Len(s) + 1 : k \in 1 .. Len(s) \/ k = Len(s) + 1
  BY <1>2
<1>4. Range(Append(s, p)) = Range(s) \cup {p}
  BY <1>1, <1>2, <1>3 DEF Range
<1>5. QED
  BY <1>1, <1>4

Top(n) == [s \in SUBSET (1 .. n) |-> Max(s)]

\* A fold takes the last element off.
LEMMA TopsAreTaken ==
  ASSUME NEW n \in Nat
  PROVE  /\ IsFiniteSet(1 .. n) /\ Takes(Top(n), 1 .. n)
         /\ \A k \in 1 .. n : Max(1 .. k) = k /\ (1 .. k) \ {k} = 1 .. k - 1
<1>1. \A s \in SUBSET (1 .. n) : s # {} => Max(s) \in s
  BY MaxIsLargest
<1>2. Takes(Top(n), 1 .. n)
  BY <1>1 DEF Takes, Top
<1>3. ASSUME NEW k \in 1 .. n
      PROVE  Max(1 .. k) = k /\ (1 .. k) \ {k} = 1 .. k - 1
  <2>1. k \in Nat /\ 1 .. k \in SUBSET (1 .. k) /\ k \in 1 .. k
    OBVIOUS
  <2>2. Max(1 .. k) \in 1 .. k /\ Max(1 .. k) >= k
    BY <2>1, MaxIsLargest
  <2>3. QED
    BY <2>1, <2>2
<1>4. IsFiniteSet(1 .. n)
  BY FS_Interval
<1>5. QED
  BY <1>2, <1>3, <1>4

\* A difference is summed by summing what is subtracted.
LEMMA SumOfDifference ==
  ASSUME NEW S, IsFiniteSet(S), NEW f, Numbers(f, S), NEW h, Numbers(h, S),
         NEW d, \A x \in S : d[x] = f[x] - h[x]
  PROVE  Sum(d, S) = Sum(f, S) - Sum(h, S)
<1> DEFINE B == {T \in SUBSET S : Sum(d, T) = Sum(f, T) - Sum(h, T)}
<1>1. {} \in B
  BY SumOfNone
<1>2. ASSUME NEW T \in SUBSET S, NEW x \in S, T \in B, x \notin T
      PROVE  T \cup {x} \in B
  <2>1. IsFiniteSet(T)
    BY FS_Subset
  <2>2. \A y \in S : f[y] \in Int /\ h[y] \in Int /\ d[y] \in Int
    BY DEF Numbers
  <2>3. Numbers(f, T \cup {x}) /\ Numbers(h, T \cup {x}) /\ Numbers(d, T \cup {x})
    BY <2>2 DEF Numbers
  <2>4. Numbers(f, T) /\ Numbers(h, T)
    BY <2>2 DEF Numbers
  <2>5. Sum(f, T \cup {x}) = f[x] + Sum(f, T)
    BY <1>2, <2>1, <2>3, SumAdds
  <2>6. Sum(h, T \cup {x}) = h[x] + Sum(h, T)
    BY <1>2, <2>1, <2>3, SumAdds
  <2>7. Sum(d, T \cup {x}) = d[x] + Sum(d, T)
    BY <1>2, <2>1, <2>3, SumAdds
  <2>8. Sum(f, T) \in Int /\ Sum(h, T) \in Int
    BY <2>1, <2>4, SumIsNumber
  <2>9. Sum(d, T) = Sum(f, T) - Sum(h, T) /\ d[x] = f[x] - h[x]
    BY <1>2
  <2>10. Sum(d, T \cup {x}) = Sum(f, T \cup {x}) - Sum(h, T \cup {x})
    BY <2>2, <2>5, <2>6, <2>7, <2>8, <2>9
  <2>11. QED
    BY <2>10
<1> HIDE DEF B
<1>3. \A T \in SUBSET S : T \in B
  BY <1>1, <1>2, SubsetInduction
<1>4. S \in B
  BY <1>3
<1>5. QED
  BY <1>4 DEF B

\* What holds at first and is kept by every element, holds after the last.
LEMMA PrefixesStay ==
  ASSUME NEW n \in Nat, NEW h, NEW R, h[{}] \in R[0],
         \A k \in 0 .. n - 1 : h[1 .. k] \in R[k] => h[1 .. k + 1] \in R[k + 1]
  PROVE  h[1 .. n] \in R[n]
<1> DEFINE A == {k \in Nat : k <= n => h[1 .. k] \in R[k]}
<1>1. 0 \in A
  <2>1. 1 .. 0 = {}
    OBVIOUS
  <2>2. QED
    BY <2>1
<1>2. ASSUME NEW k \in A PROVE k + 1 \in A
  <2>1. CASE k + 1 <= n
    <3>1. k \in 0 .. n - 1 /\ k <= n
      BY <2>1
    <3>2. QED
      BY <3>1
  <2>2. CASE ~(k + 1 <= n)
    BY <2>2
  <2>3. QED
    BY <2>1, <2>2
<1>3. A = Nat
  <2>1. A \in SUBSET Nat
    OBVIOUS
  <2> HIDE DEF A
  <2>2. QED
    BY <1>1, <1>2, <2>1, Induction
<1>4. QED
  BY <1>3

\* The next element of a fold over 1 .. n, and what is left without it.
LEMMA NextTop ==
  ASSUME NEW n \in Nat, NEW k \in 0 .. n - 1
  PROVE  /\ 1 .. k + 1 \in SUBSET (1 .. n) /\ 1 .. k + 1 # {}
         /\ Max(1 .. k + 1) = k + 1 /\ (1 .. k + 1) \ {k + 1} = 1 .. k
<1>1. k + 1 \in 1 .. n /\ k \in Nat /\ (k + 1) - 1 = k
  OBVIOUS
<1>2. Max(1 .. k + 1) = k + 1 /\ (1 .. k + 1) \ {k + 1} = 1 .. (k + 1) - 1
  BY <1>1, TopsAreTaken
<1>3. k + 1 \in 1 .. k + 1 /\ \A j \in 1 .. k + 1 : j \in 1 .. n
  BY <1>1
<1>4. QED
  BY <1>1, <1>2, <1>3

\* A fold over 1 .. n whose steps stay in a set has a solution.
Folds(g, n, X, b, F) ==
  /\ g \in [SUBSET (1 .. n) -> X]
  /\ \A s \in SUBSET (1 .. n) :
       /\ g[s] = IF s = {} THEN b ELSE F[Max(s)][g[s \ {Max(s)}]]
       /\ s # {} => Max(s) \in 1 .. n /\ g[s \ {Max(s)}] \in X

LEMMA FoldsExist ==
  ASSUME NEW n \in Nat, NEW X, NEW b \in X, NEW F, StepsIn(F, 1 .. n, X)
  PROVE  \E g : Folds(g, n, X, b, F)
<1> DEFINE S == 1 .. n
<1>1. IsFiniteSet(S) /\ Takes(Top(n), S)
  BY TopsAreTaken
<1>2. \A s \in SUBSET S : Top(n)[s] = Max(s)
  BY DEF Top
<1>3. \A s \in SUBSET S : s # {} => Max(s) \in S
  BY <1>1, <1>2 DEF Takes
<1> HIDE DEF S
<1>4. StepsIn(F, S, X)
  BY DEF S
<1>5. PICK g \in [SUBSET S -> X] : Recurses(g, S, Top(n), b, F)
  BY <1>1, <1>4, RecursionExists
<1>6. \A s \in SUBSET S : g[s] = IF s = {} THEN b ELSE F[Max(s)][g[s \ {Max(s)}]]
  BY <1>2, <1>5 DEF Recurses
<1>7. Folds(g, n, X, b, F)
  BY <1>3, <1>5, <1>6 DEF S, Folds
<1>8. QED
  BY <1>7

\* In a strict order of a finite set somebody is first.
LEMMA SomebodyIsFirst ==
  ASSUME NEW S, IsFiniteSet(S), S # {}, NEW up \in [S -> SUBSET S], \A i \in S : i \notin up[i],
         \A i, j \in S : i # j => \/ i \in up[j] /\ up[i] \subseteq up[j]
                                  \/ j \in up[i] /\ up[j] \subseteq up[i]
  PROVE  \E i \in S : \A j \in S \ {i} : i \in up[j]
<1>1. /\ \A i, j \in S : i \in up[j] <=> Cardinality(up[i]) < Cardinality(up[j])
      /\ \A k \in 0 .. Cardinality(S) - 1 : \E i \in S : Cardinality(up[i]) = k
  BY RanksAreTaken
<1>2. Cardinality(S) \in Nat /\ Cardinality(S) # 0
  BY FS_CardinalityType, FS_EmptySet
<1>3. PICK i \in S : Cardinality(up[i]) = 0
  <2>1. 0 \in 0 .. Cardinality(S) - 1
    BY <1>2
  <2>2. QED
    BY <1>1, <2>1
<1>4. up[i] = {}
  <2>1. IsFiniteSet(up[i])
    BY FS_Subset
  <2>2. QED
    BY <1>3, <2>1, FS_EmptySet
<1>5. QED
  BY <1>4

LEMMA ImageIsFinite ==
  ASSUME NEW S, IsFiniteSet(S), NEW f
  PROVE  IsFiniteSet(Image(f, S))
<1> DEFINE g == [x \in S |-> f[x]]
<1>1. g \in Surjection(S, Image(f, S))
  BY DEF Surjection, Image
<1>2. QED
  BY <1>1, FS_Surjection

\* Of finitely many somebody is first.
LEMMA SomebodyIsUnbeaten ==
  ASSUME NEW S, IsFiniteSet(S), S # {}, NEW up \in [S -> SUBSET S], \A x \in S : x \notin up[x],
         \A x \in S : \A y \in up[x] : \A z \in up[y] : z \in up[x]
  PROVE  \E x \in S : up[x] = {}
<1> DEFINE B == {T \in SUBSET S : T = {} \/ \E x \in T : up[x] \cap T = {}}
<1>1. {} \in B
  OBVIOUS
<1>2. ASSUME NEW T \in SUBSET S, NEW x \in S, T \in B, x \notin T PROVE T \cup {x} \in B
  <2>1. CASE T = {}
    BY <2>1
  <2>2. ASSUME NEW t \in T, up[t] \cap T = {} PROVE T \cup {x} \in B
    <3>1. CASE x \notin up[t]
      BY <2>2, <3>1
    <3>2. CASE x \in up[t]
      <4>1. up[x] \cap (T \cup {x}) = {}
        BY <2>2, <3>2
      <4>2. QED
        BY <4>1
    <3>3. QED
      BY <3>1, <3>2
  <2>3. QED
    BY <1>2, <2>1, <2>2
<1> HIDE DEF B
<1>3. S \in B
  BY <1>1, <1>2, SubsetInduction
<1>4. QED
  BY <1>3 DEF B

\* R is an order of V.
Orders(R, V) ==
  /\ \A u \in V : <<u, u>> \notin R
  /\ \A u, v, w \in V : <<u, v>> \in R /\ <<v, w>> \in R => <<u, w>> \in R

\* Of two sequences of n elements the one that is less where they differ first.
Lexical(R, n, a, b) ==
  \E k \in 1 .. n : <<a[k], b[k]>> \in R /\ \A j \in 1 .. k - 1 : a[j] = b[j]

LEMMA LexicalOrders ==
  ASSUME NEW V, NEW R, Orders(R, V), NEW n \in Nat,
         NEW a \in [1 .. n -> V], NEW b \in [1 .. n -> V], NEW c \in [1 .. n -> V]
  PROVE  /\ ~Lexical(R, n, a, a)
         /\ Lexical(R, n, a, b) /\ Lexical(R, n, b, c) => Lexical(R, n, a, c)
<1>1. ~Lexical(R, n, a, a)
  BY DEF Lexical, Orders
<1>2. ASSUME Lexical(R, n, a, b), Lexical(R, n, b, c) PROVE Lexical(R, n, a, c)
  <2>1. PICK k \in 1 .. n : <<a[k], b[k]>> \in R /\ \A j \in 1 .. k - 1 : a[j] = b[j]
    BY <1>2 DEF Lexical
  <2>2. PICK l \in 1 .. n : <<b[l], c[l]>> \in R /\ \A j \in 1 .. l - 1 : b[j] = c[j]
    BY <1>2 DEF Lexical
  <2>3. CASE k < l
    <3>1. k \in 1 .. l - 1 /\ \A j \in 1 .. k - 1 : j \in 1 .. l - 1
      BY <2>3
    <3>2. <<a[k], c[k]>> \in R /\ \A j \in 1 .. k - 1 : a[j] = c[j]
      BY <2>1, <2>2, <3>1
    <3>3. QED
      BY <3>2 DEF Lexical
  <2>4. CASE l < k
    <3>1. l \in 1 .. k - 1 /\ \A j \in 1 .. l - 1 : j \in 1 .. k - 1
      BY <2>4
    <3>2. <<a[l], c[l]>> \in R /\ \A j \in 1 .. l - 1 : a[j] = c[j]
      BY <2>1, <2>2, <3>1
    <3>3. QED
      BY <3>2 DEF Lexical
  <2>5. CASE k = l
    <3>1. a[k] \in V /\ b[k] \in V /\ c[k] \in V
      OBVIOUS
    <3>2. <<a[k], c[k]>> \in R
      BY <2>1, <2>2, <2>5, <3>1 DEF Orders
    <3>3. QED
      BY <2>1, <2>2, <2>5, <3>2 DEF Lexical
  <2>6. QED
    BY <2>3, <2>4, <2>5
<1>3. QED
  BY <1>1, <1>2

\* Different sequences differ first somewhere.
Differ(n, a, b) == \E k \in 1 .. n : a[k] # b[k]

LEMMA FirstDifference ==
  ASSUME NEW n \in Nat, NEW a, NEW b, Differ(n, a, b)
  PROVE  \E k \in 1 .. n : a[k] # b[k] /\ \A j \in 1 .. k - 1 : a[j] = b[j]
<1> DEFINE D == {k \in 1 .. n : a[k] # b[k]}
<1>1. D \in SUBSET Nat /\ D # {}
  BY DEF Differ
<1>2. PICK k \in D : \A m \in D : k <= m
  BY <1>1, LeastExists
<1>3. ASSUME NEW j \in 1 .. k - 1 PROVE a[j] = b[j]
  <2>1. j \in 1 .. n /\ ~(k <= j)
    OBVIOUS
  <2>2. QED
    BY <1>2, <2>1
<1>4. QED
  BY <1>2, <1>3

LEMMA LexicalIsTotal ==
  ASSUME NEW V, NEW R, \A u, v \in V : u # v => <<u, v>> \in R \/ <<v, u>> \in R,
         NEW n \in Nat, NEW a \in [1 .. n -> V], NEW b \in [1 .. n -> V],
         Differ(n, a, b)
  PROVE  Lexical(R, n, a, b) \/ Lexical(R, n, b, a)
<1>1. PICK k \in 1 .. n : a[k] # b[k] /\ \A j \in 1 .. k - 1 : a[j] = b[j]
  BY FirstDifference
<1>2. a[k] \in V /\ b[k] \in V
  OBVIOUS
<1>3. <<a[k], b[k]>> \in R \/ <<b[k], a[k]>> \in R
  BY <1>1, <1>2
<1>4. QED
  BY <1>1, <1>3 DEF Lexical

LEMMA ImageCounts ==
  ASSUME NEW S, IsFiniteSet(S), NEW e, OneToOne(e, S)
  PROVE  IsFiniteSet(Image(e, S)) /\ Cardinality(Image(e, S)) = Cardinality(S)
<1> DEFINE f == [x \in S |-> e[x]]
<1>1. f \in [S -> Image(e, S)] /\ OneToOne(f, S) /\ Onto(f, S, Image(e, S))
  BY DEF Image, OneToOne, Onto
<1> HIDE DEF f
<1>2. QED
  BY <1>1, OneToOneCounts

LEMMA MaxExists ==
  ASSUME NEW S \in SUBSET Int, IsFiniteSet(S), S # {}
  PROVE  Max(S) \in S /\ \A x \in S : x <= Max(S)
<1> DEFINE up == [x \in S |-> {y \in S : y > x}]
<1>1. PICK x \in S : up[x] = {}
  <2>1. /\ up \in [S -> SUBSET S] /\ \A x \in S : x \notin up[x]
        /\ \A x \in S : \A y \in up[x] : \A z \in up[y] : z \in up[x]
    OBVIOUS
  <2> HIDE DEF up
  <2>2. QED
    BY <2>1, SomebodyIsUnbeaten
<1>2. \A y \in S : x >= y
  BY <1>1
<1>3. QED
  BY <1>2 DEF Max

\* What is summed with the other sign.
LEMMA SumOfNegative ==
  ASSUME NEW S, IsFiniteSet(S), NEW f, Numbers(f, S), NEW h, \A x \in S : h[x] = 0 - f[x]
  PROVE  Sum(h, S) = 0 - Sum(f, S)
<1> DEFINE z == [x \in S |-> 0]
<1>1. Numbers(z, S) /\ \A x \in S : z[x] = f[x] - f[x]
  BY DEF Numbers
<1>2. \A x \in S : h[x] = z[x] - f[x]
  OBVIOUS
<1> HIDE DEF z
<1>3. Sum(z, S) = Sum(f, S) - Sum(f, S)
  BY ONLY <1>1, SumOfDifference, IsFiniteSet(S), Numbers(f, S)
<1>4. Sum(h, S) = Sum(z, S) - Sum(f, S)
  BY <1>1, <1>2, SumOfDifference
<1>5. Sum(f, S) \in Int
  BY SumIsNumber
<1>6. QED
  BY <1>3, <1>4, <1>5

-----------------------------------------------------------------------------
(* Elevens. *)

\* Who is ahead of whom.
Leads(xp, S) == [i \in S |-> {j \in S : Ahead(xp, j, i)}]

LEMMA AheadIsOrder ==
  ASSUME NEW S \in SUBSET Int, NEW xp, Numbers(xp, S)
  PROVE  /\ Leads(xp, S) \in [S -> SUBSET S]
         /\ \A i \in S : i \notin Leads(xp, S)[i]
         /\ \A i, j \in S : i # j =>
              \/ i \in Leads(xp, S)[j] /\ Leads(xp, S)[i] \subseteq Leads(xp, S)[j]
              \/ j \in Leads(xp, S)[i] /\ Leads(xp, S)[j] \subseteq Leads(xp, S)[i]
<1>1. \A i, j, k \in S : Ahead(xp, i, j) /\ Ahead(xp, j, k) => Ahead(xp, i, k)
  BY DEF Ahead, Numbers
<1>2. \A i, j \in S : i # j => Ahead(xp, i, j) \/ Ahead(xp, j, i)
  BY DEF Ahead, Numbers
<1>3. \A i \in S : ~Ahead(xp, i, i)
  BY DEF Ahead, Numbers
<1>4. QED
  BY <1>1, <1>2, <1>3 DEF Leads

\* The ranks in a set of slots.
LEMMA RanksOfSlots ==
  ASSUME NEW S \in SUBSET Int, IsFiniteSet(S), NEW xp, Numbers(xp, S)
  PROVE  /\ \A i \in S : Cardinality({j \in S : Ahead(xp, j, i)}) \in 0 .. Cardinality(S) - 1
         /\ \A i, j \in S : Ahead(xp, i, j) <=>
              Cardinality({h \in S : Ahead(xp, h, i)}) < Cardinality({h \in S : Ahead(xp, h, j)})
         /\ \A k \in 0 .. Cardinality(S) - 1 :
              \E i \in S : Cardinality({j \in S : Ahead(xp, j, i)}) = k
<1> DEFINE up == Leads(xp, S)
<1>1. \A i \in S : up[i] = {j \in S : Ahead(xp, j, i)}
  BY DEF Leads
<1>2. \A i, j \in S : i \in up[j] <=> Ahead(xp, i, j)
  BY <1>1
<1>3. /\ up \in [S -> SUBSET S]
      /\ \A i \in S : i \notin up[i]
      /\ \A i, j \in S : i # j => \/ i \in up[j] /\ up[i] \subseteq up[j]
                                  \/ j \in up[i] /\ up[j] \subseteq up[i]
  BY AheadIsOrder
<1> HIDE DEF up
<1>4. /\ \A i \in S : Cardinality(up[i]) \in 0 .. Cardinality(S) - 1
      /\ \A i, j \in S : i \in up[j] <=> Cardinality(up[i]) < Cardinality(up[j])
      /\ \A k \in 0 .. Cardinality(S) - 1 : \E i \in S : Cardinality(up[i]) = k
  BY <1>3, RanksAreTaken
<1>5. QED
  BY <1>1, <1>2, <1>4

\* Who is ranked: every slot of the set once, nobody before one who is ahead of him.
LEMMA RankedIsOrder ==
  ASSUME NEW S \in SUBSET Int, IsFiniteSet(S), NEW xp, Numbers(xp, S)
  PROVE  /\ Ranked(xp, S) \in [1 .. Cardinality(S) -> S]
         /\ \A k, l \in 1 .. Cardinality(S) :
              k < l => Ahead(xp, Ranked(xp, S)[k], Ranked(xp, S)[l])
         /\ \A k, l \in 1 .. Cardinality(S) : Ranked(xp, S)[k] = Ranked(xp, S)[l] => k = l
         /\ \A i \in S : \E k \in 1 .. Cardinality(S) : Ranked(xp, S)[k] = i
<1> DEFINE n == Cardinality(S)
           Above(i) == Cardinality({j \in S : Ahead(xp, j, i)})
           r == Ranked(xp, S)
<1>1. n \in Nat
  BY FS_CardinalityType
<1>2. /\ \A i \in S : Above(i) \in 0 .. n - 1
      /\ \A i, j \in S : Ahead(xp, i, j) <=> Above(i) < Above(j)
      /\ \A k \in 0 .. n - 1 : \E i \in S : Above(i) = k
  BY RanksOfSlots
<1>3. r = [k \in 1 .. n |-> CHOOSE i \in S : Above(i) = k - 1]
  BY DEF Ranked
<1> HIDE DEF Above, r, n
<1>4. ASSUME NEW k \in 1 .. n PROVE r[k] \in S /\ Above(r[k]) = k - 1
  <2>1. k - 1 \in 0 .. n - 1
    BY <1>1
  <2>2. \E i \in S : Above(i) = k - 1
    BY <1>2, <2>1
  <2>3. r[k] = CHOOSE i \in S : Above(i) = k - 1
    BY <1>3
  <2>4. QED
    BY <2>2, <2>3
<1>5. r \in [1 .. n -> S]
  BY <1>3, <1>4
<1>6. ASSUME NEW k \in 1 .. n, NEW l \in 1 .. n, k < l PROVE Ahead(xp, r[k], r[l])
  <2>1. r[k] \in S /\ r[l] \in S /\ Above(r[k]) = k - 1 /\ Above(r[l]) = l - 1
    BY <1>4
  <2>2. Above(r[k]) < Above(r[l])
    BY <1>1, <1>6, <2>1
  <2>3. QED
    BY <1>2, <2>1, <2>2
<1>7. \A k, l \in 1 .. n : r[k] = r[l] => k = l
  BY <1>1, <1>4
<1>8. ASSUME NEW i \in S PROVE \E k \in 1 .. n : r[k] = i
  <2>1. Above(i) \in 0 .. n - 1
    BY <1>2
  <2>2. PICK k \in 1 .. n : Above(i) = k - 1
    BY <1>1, <2>1
  <2>3. r[k] \in S /\ Above(r[k]) = Above(i) /\ Above(i) \in Int
    BY <1>1, <1>4, <2>1, <2>2
  <2>4. ~(Above(i) < Above(r[k])) /\ ~(Above(r[k]) < Above(i))
    BY <2>3
  <2>5. ~Ahead(xp, i, r[k]) /\ ~Ahead(xp, r[k], i)
    BY <1>2, <2>3, <2>4
  <2>6. xp[i] \in Int /\ xp[r[k]] \in Int /\ i \in Int /\ r[k] \in Int
    BY <2>3 DEF Numbers
  <2>7. r[k] = i
    BY <2>5, <2>6 DEF Ahead
  <2>8. QED
    BY <2>7
<1>9. QED
  BY <1>5, <1>6, <1>7, <1>8 DEF r, n

\* The first k of a set are k, and everyone in the set who is not among them is behind.
LEMMA FirstAreAhead ==
  ASSUME NEW S \in SUBSET Int, IsFiniteSet(S), NEW xp, Numbers(xp, S),
         NEW k \in 0 .. Cardinality(S)
  PROVE  /\ FirstOf(xp, S, k) \in SUBSET S
         /\ IsFiniteSet(FirstOf(xp, S, k)) /\ Cardinality(FirstOf(xp, S, k)) = k
         /\ \A i \in FirstOf(xp, S, k), j \in S \ FirstOf(xp, S, k) : Ahead(xp, i, j)
<1> DEFINE n == Cardinality(S)
           Above(i) == Cardinality({j \in S : Ahead(xp, j, i)})
           F == FirstOf(xp, S, k)
<1>1. n \in Nat /\ k \in Nat /\ k <= n
  BY FS_CardinalityType
<1>2. /\ \A i \in S : Above(i) \in 0 .. n - 1
      /\ \A i, j \in S : Ahead(xp, i, j) <=> Above(i) < Above(j)
      /\ \A m \in 0 .. n - 1 : \E i \in S : Above(i) = m
  BY RanksOfSlots
<1>3. F = {i \in S : Above(i) < k}
  BY DEF FirstOf
<1> HIDE DEF Above, F, n
<1>4. IsFiniteSet(F)
  BY <1>3, FS_Subset
<1>5. Cardinality(F) = k
  <2> DEFINE rank == [i \in F |-> Above(i)]
             T == 0 .. k - 1
  <2>1. rank \in [F -> T]
    <3>1. ASSUME NEW i \in F PROVE Above(i) \in T
      BY <1>1, <1>2, <1>3
    <3>2. QED
      BY <3>1
  <2>2. ASSUME NEW i \in F, NEW j \in F, rank[i] = rank[j] PROVE i = j
    <3>1. i \in S /\ j \in S /\ Above(i) = Above(j) /\ Above(i) \in 0 .. n - 1
      BY <1>2, <1>3, <2>2
    <3>2. ~Ahead(xp, i, j) /\ ~Ahead(xp, j, i)
      BY <1>2, <3>1
    <3>3. QED
      BY <3>1, <3>2 DEF Ahead, Numbers
  <2>3. ASSUME NEW m \in T PROVE \E i \in F : rank[i] = m
    <3>1. m \in 0 .. n - 1 /\ m < k
      BY <1>1
    <3>2. PICK i \in S : Above(i) = m
      BY <1>2, <3>1
    <3>3. QED
      BY <1>3, <3>1, <3>2
  <2>4. Cardinality(T) = k
    BY <1>1, FS_Interval
  <2>5. OneToOne(rank, F) /\ Onto(rank, F, T)
    BY <2>2, <2>3 DEF OneToOne, Onto
  <2> HIDE DEF rank, T
  <2>6. Cardinality(T) = Cardinality(F)
    BY <1>4, <2>1, <2>5, OneToOneCounts
  <2>7. QED
    BY <2>4, <2>6
<1>6. \A i \in F, j \in S \ F : Ahead(xp, i, j)
  <2> TAKE i \in F, j \in S \ F
  <2>1. i \in S /\ Above(i) < k /\ ~(Above(j) < k) /\ Above(i) \in Int /\ Above(j) \in Int
    BY <1>1, <1>2, <1>3
  <2>2. Above(i) < Above(j)
    BY <1>1, <2>1
  <2>3. QED
    BY <1>2, <2>1, <2>2
<1>7. QED
  BY <1>3, <1>4, <1>5, <1>6 DEF F

\* Of as many from a set none have more than the first; who have as much are not earlier.
LEMMA FirstAreBest ==
  ASSUME NEW S \in SUBSET Int, IsFiniteSet(S), NEW xp, Numbers(xp, S),
         NEW T \in SUBSET S, NEW F, F = FirstOf(xp, S, Cardinality(T))
  PROVE  /\ Sum(xp, F) >= Sum(xp, T)
         /\ Sum(xp, F) = Sum(xp, T) => \A j \in T \ F : \E i \in F \ T : i < j
<1> DEFINE k == Cardinality(T)
<1>1. IsFiniteSet(T) /\ k \in 0 .. Cardinality(S)
  <2>1. IsFiniteSet(T) /\ k <= Cardinality(S)
    BY FS_Subset
  <2>2. k \in Nat /\ Cardinality(S) \in Nat
    BY <2>1, FS_CardinalityType
  <2>3. QED
    BY <2>1, <2>2
<1>2. /\ F \in SUBSET S /\ IsFiniteSet(F) /\ Cardinality(F) = Cardinality(T)
      /\ \A i \in F, j \in S \ F : Ahead(xp, i, j)
  BY <1>1, FirstAreAhead
<1> DEFINE I == F \cap T
           P == F \ T
           Q == T \ F
<1>3. IsFiniteSet(I) /\ IsFiniteSet(P) /\ IsFiniteSet(Q) /\ Cardinality(P) = Cardinality(Q)
  <2>1. IsFiniteSet(I) /\ IsFiniteSet(P) /\ IsFiniteSet(Q)
    BY <1>1, <1>2, FS_Subset
  <2>2. Cardinality(P) = Cardinality(F) - Cardinality(F \cap T)
    BY <1>2, FS_Difference
  <2>3. Cardinality(Q) = Cardinality(T) - Cardinality(T \cap F)
    BY <1>1, FS_Difference
  <2>4. F \cap T = T \cap F
    OBVIOUS
  <2>5. QED
    BY <1>2, <2>1, <2>2, <2>3, <2>4
<1>4. Numbers(xp, I) /\ Numbers(xp, P) /\ Numbers(xp, Q) /\ Numbers(xp, P \cup Q)
      /\ Numbers(xp, I \cup P) /\ Numbers(xp, I \cup Q)
  BY <1>2 DEF Numbers
<1>5. Sum(xp, I) \in Int /\ Sum(xp, P) \in Int /\ Sum(xp, Q) \in Int
  BY <1>3, <1>4, SumIsNumber
<1>6. Sum(xp, F) = Sum(xp, I) + Sum(xp, P)
  <2>1. I \cup P = F /\ I \cap P = {}
    OBVIOUS
  <2>2. Sum(xp, I \cup P) = Sum(xp, I) + Sum(xp, P)
    BY <1>3, <1>4, <2>1, SumOfUnion
  <2>3. QED
    BY <2>1, <2>2
<1>7. Sum(xp, T) = Sum(xp, I) + Sum(xp, Q)
  <2>1. I \cup Q = T /\ I \cap Q = {}
    OBVIOUS
  <2>2. Sum(xp, I \cup Q) = Sum(xp, I) + Sum(xp, Q)
    BY <1>3, <1>4, <2>1, SumOfUnion
  <2>3. QED
    BY <2>1, <2>2
<1>8. \A i \in P, j \in Q : Ahead(xp, i, j)
  BY <1>2
<1>9. Exceeds(xp, P, Q)
  BY <1>4, <1>8 DEF Exceeds, Ahead, Numbers
<1>10. Sum(xp, P) >= Sum(xp, Q) /\ (Sum(xp, P) = Sum(xp, Q) => Equals(xp, P, Q))
  BY <1>3, <1>4, <1>9, SumDominates
<1>11. /\ Sum(xp, F) >= Sum(xp, T)
       /\ Sum(xp, F) = Sum(xp, T) => Sum(xp, P) = Sum(xp, Q)
  <2> HIDE DEF I, P, Q
  <2>1. QED
    BY <1>5, <1>6, <1>7, <1>10
<1>12. ASSUME Sum(xp, F) = Sum(xp, T), NEW j \in Q PROVE \E i \in P : i < j
  <2>1. Equals(xp, P, Q)
    BY <1>10, <1>11, <1>12
  <2>2. P # {}
    BY <1>3, FS_EmptySet
  <2>3. PICK i \in P : TRUE
    BY <2>2
  <2>4. xp[i] = xp[j] /\ Ahead(xp, i, j) /\ xp[i] \in Int
    BY <1>4, <1>8, <2>1 DEF Equals, Numbers
  <2>5. QED
    BY <2>4 DEF Ahead
<1>13. QED
  BY <1>11, <1>12

\* The slots hold two goalkeepers, five defenders, five midfielders and three forwards.
Formed(pos) ==
  /\ pos \in [Slots -> Positions]
  /\ \A q \in Positions : Cardinality(At(pos, Slots, q)) = PositionCounts[q]

IsEleven(pos, S) ==
  /\ S \subseteq Slots /\ Cardinality(S) = 11
  /\ IsLegalStartingXI(pos, S)

LEMMA PointsAreSums == \A xp, S : Points(xp, S) = Sum(xp, S)
  BY DEF Points, Sum

LEMMA SlotsAreFinite ==
  /\ IsFiniteSet(Slots) /\ Slots \in SUBSET Int
  /\ \A S \in SUBSET Slots : IsFiniteSet(S) /\ Cardinality(S) \in Nat /\ S \in SUBSET Int
<1>1. IsFiniteSet(Slots) /\ Slots \in SUBSET Int
  <2>1. \A n \in Int : IsFiniteSet(1 .. n)
    BY FS_Interval
  <2>2. PICK n \in Int : n = 15
    OBVIOUS
  <2>3. Slots = 1 .. n
    BY <2>2 DEF Slots
  <2>4. IsFiniteSet(Slots)
    BY <2>1, <2>3
  <2>5. Slots \in SUBSET Int
    BY <2>3
  <2>6. QED
    BY <2>4, <2>5
<1>2. QED
  BY <1>1, FS_Subset, FS_CardinalityType

\* What a set of slots is worth and how large it is, position by position.
LEMMA ByPosition ==
  ASSUME NEW pos \in [Slots -> Positions], NEW S \in SUBSET Slots, NEW xp, Numbers(xp, Slots)
  PROVE  /\ Cardinality(S) = Cardinality(At(pos, S, "GK")) + Cardinality(At(pos, S, "DEF"))
              + Cardinality(At(pos, S, "MID")) + Cardinality(At(pos, S, "FWD"))
         /\ Points(xp, S) = Points(xp, At(pos, S, "GK")) + Points(xp, At(pos, S, "DEF"))
              + Points(xp, At(pos, S, "MID")) + Points(xp, At(pos, S, "FWD"))
         /\ \A q \in Positions : Points(xp, At(pos, S, q)) \in Int
<1> DEFINE A == At(pos, S, "GK")
           B == At(pos, S, "DEF")
           C == At(pos, S, "MID")
           D == At(pos, S, "FWD")
<1>1. /\ A \in SUBSET Slots /\ B \in SUBSET Slots /\ C \in SUBSET Slots /\ D \in SUBSET Slots
      /\ A \cap B = {} /\ (A \cup B) \cap C = {} /\ ((A \cup B) \cup C) \cap D = {}
  BY DEF At
<1>2. S = ((A \cup B) \cup C) \cup D
  BY DEF At, Positions
<1> HIDE DEF A, B, C, D
<1>3. /\ IsFiniteSet(A) /\ IsFiniteSet(B) /\ IsFiniteSet(C) /\ IsFiniteSet(D)
      /\ IsFiniteSet(A \cup B) /\ IsFiniteSet((A \cup B) \cup C)
      /\ Cardinality(A) \in Nat /\ Cardinality(B) \in Nat
      /\ Cardinality(C) \in Nat /\ Cardinality(D) \in Nat
  BY <1>1, SlotsAreFinite, FS_Union
<1>4. Cardinality(S) = Cardinality(A) + Cardinality(B) + Cardinality(C) + Cardinality(D)
  <2>1. Cardinality(A \cup B) = Cardinality(A) + Cardinality(B)
    BY <1>1, <1>3, DisjointCount
  <2>2. Cardinality((A \cup B) \cup C) = Cardinality(A \cup B) + Cardinality(C)
    BY <1>1, <1>3, DisjointCount
  <2>3. Cardinality(((A \cup B) \cup C) \cup D) = Cardinality((A \cup B) \cup C) + Cardinality(D)
    BY <1>1, <1>3, DisjointCount
  <2>4. QED
    BY <1>2, <2>1, <2>2, <2>3
<1>5. \A R \in SUBSET Slots : Numbers(xp, R)
  BY DEF Numbers
<1>6. /\ Sum(xp, A) \in Int /\ Sum(xp, B) \in Int /\ Sum(xp, C) \in Int /\ Sum(xp, D) \in Int
  BY <1>1, <1>3, <1>5, SumIsNumber
<1>7. Sum(xp, S) = Sum(xp, A) + Sum(xp, B) + Sum(xp, C) + Sum(xp, D)
  <2>1. /\ Numbers(xp, A \cup B) /\ Numbers(xp, (A \cup B) \cup C)
        /\ Numbers(xp, ((A \cup B) \cup C) \cup D)
    BY <1>1, <1>5
  <2>2. Sum(xp, A \cup B) = Sum(xp, A) + Sum(xp, B)
    BY <1>1, <1>3, <2>1, SumOfUnion
  <2>3. Sum(xp, (A \cup B) \cup C) = Sum(xp, A \cup B) + Sum(xp, C)
    BY <1>1, <1>3, <2>1, SumOfUnion
  <2>4. Sum(xp, ((A \cup B) \cup C) \cup D) = Sum(xp, (A \cup B) \cup C) + Sum(xp, D)
    BY <1>1, <1>3, <2>1, SumOfUnion
  <2>5. QED
    BY <1>2, <2>2, <2>3, <2>4
<1>8. QED
  BY <1>4, <1>6, <1>7, PointsAreSums DEF A, B, C, D, Positions

\* What the formations of recommend_lineup have in common.
LEMMA FormationsAreLegal ==
  ASSUME NEW f \in Formations
  PROVE  /\ \A q \in Positions : f[q] \in 0 .. PositionCounts[q]
         /\ f["GK"] = 1 /\ f["DEF"] >= 3 /\ f["FWD"] >= 1
         /\ f["GK"] + f["DEF"] + f["MID"] + f["FWD"] = 11
<1>1. PICK d \in 3 .. 5, n \in 1 .. 3 : f = Formation(d, n) /\ f["MID"] \in 2 .. 5
  BY DEF Formations
<1>2. f["GK"] = 1 /\ f["DEF"] = d /\ f["FWD"] = n /\ f["MID"] = 10 - d - n
  BY <1>1 DEF Formation, Positions
<1>3. /\ PositionCounts["GK"] = 2 /\ PositionCounts["DEF"] = 5
      /\ PositionCounts["MID"] = 5 /\ PositionCounts["FWD"] = 3
  BY DEF PositionCounts, Positions
<1>4. QED
  BY <1>1, <1>2, <1>3 DEF Positions

\* The eleven of a formation has of each position the first.
LEMMA ElevenFits ==
  ASSUME NEW pos, Formed(pos), NEW xp, Numbers(xp, Slots), NEW f \in Formations
  PROVE  /\ \A q \in Positions :
              /\ At(pos, Eleven(pos, xp, f), q) = FirstOf(xp, At(pos, Slots, q), f[q])
              /\ Cardinality(At(pos, Eleven(pos, xp, f), q)) = f[q]
         /\ IsEleven(pos, Eleven(pos, xp, f))
<1> DEFINE E == Eleven(pos, xp, f)
           F(q) == FirstOf(xp, At(pos, Slots, q), f[q])
<1>1. ASSUME NEW q \in Positions
      PROVE  F(q) \in SUBSET At(pos, Slots, q) /\ Cardinality(F(q)) = f[q]
  <2>1. At(pos, Slots, q) \in SUBSET Slots
    BY DEF At
  <2>2. /\ At(pos, Slots, q) \in SUBSET Int /\ IsFiniteSet(At(pos, Slots, q))
        /\ Numbers(xp, At(pos, Slots, q))
    BY <2>1, SlotsAreFinite DEF Numbers
  <2>3. f[q] \in 0 .. Cardinality(At(pos, Slots, q))
    BY FormationsAreLegal DEF Formed
  <2>4. QED
    BY <2>2, <2>3, FirstAreAhead
<1>2. E = UNION {F(q) : q \in Positions}
  BY DEF Eleven
<1> HIDE DEF F
<1>3. ASSUME NEW q \in Positions PROVE At(pos, E, q) = F(q)
  <2>1. ASSUME NEW i \in At(pos, E, q) PROVE i \in F(q)
    <3>1. i \in E /\ pos[i] = q
      BY DEF At
    <3>2. PICK r \in Positions : i \in F(r)
      BY <1>2, <3>1
    <3>3. pos[i] = r
      BY <1>1, <3>2 DEF At
    <3>4. QED
      BY <3>1, <3>2, <3>3
  <2>2. ASSUME NEW i \in F(q) PROVE i \in At(pos, E, q)
    <3>1. pos[i] = q
      BY <1>1 DEF At
    <3>2. i \in E
      BY <1>2
    <3>3. QED
      BY <3>1, <3>2 DEF At
  <2>3. QED
    BY <2>1, <2>2
<1>4. E \in SUBSET Slots
  BY <1>1, <1>2 DEF At
<1> HIDE DEF E
<1>5. \A q \in Positions : Cardinality(At(pos, E, q)) = f[q]
  BY <1>1, <1>3
<1>6. "GK" \in Positions /\ "DEF" \in Positions /\ "MID" \in Positions /\ "FWD" \in Positions
  BY DEF Positions
<1>7. Cardinality(E) = f["GK"] + f["DEF"] + f["MID"] + f["FWD"]
  BY <1>4, <1>5, <1>6, ByPosition DEF Formed
<1>8. IsEleven(pos, E)
  BY <1>4, <1>5, <1>6, <1>7, FormationsAreLegal DEF IsEleven, IsLegalStartingXI
<1>9. QED
  BY <1>3, <1>5, <1>8 DEF E, F

\* Every legal eleven has one of the formations.
LEMMA ElevensAreFormations ==
  ASSUME NEW pos, Formed(pos), NEW S, IsEleven(pos, S)
  PROVE  \E f \in Formations : \A q \in Positions : f[q] = Cardinality(At(pos, S, q))
<1> DEFINE c(q) == Cardinality(At(pos, S, q))
           f == Formation(c("DEF"), c("FWD"))
           xp == [i \in Slots |-> 0]
<1>1. S \in SUBSET Slots /\ pos \in [Slots -> Positions] /\ Numbers(xp, Slots)
  BY DEF IsEleven, Formed, Numbers
<1>2. Cardinality(S) = c("GK") + c("DEF") + c("MID") + c("FWD")
  <2> HIDE DEF xp
  <2>1. QED
    BY <1>1, ByPosition
<1>3. ASSUME NEW q \in Positions PROVE c(q) \in Nat /\ c(q) <= PositionCounts[q]
  <2>1. /\ At(pos, Slots, q) \in SUBSET Slots /\ At(pos, S, q) \in SUBSET Slots
        /\ At(pos, S, q) \in SUBSET At(pos, Slots, q)
    BY <1>1 DEF At
  <2>2. IsFiniteSet(At(pos, Slots, q)) /\ c(q) \in Nat
    BY <2>1, SlotsAreFinite
  <2>3. c(q) <= Cardinality(At(pos, Slots, q))
    BY <2>1, <2>2, FS_Subset
  <2>4. QED
    BY <2>2, <2>3 DEF Formed
<1>4. c("GK") = 1 /\ c("DEF") >= 3 /\ c("FWD") >= 1 /\ Cardinality(S) = 11
  BY DEF IsEleven, IsLegalStartingXI
<1>5. /\ PositionCounts["GK"] = 2 /\ PositionCounts["DEF"] = 5
      /\ PositionCounts["MID"] = 5 /\ PositionCounts["FWD"] = 3
  BY DEF PositionCounts, Positions
<1>6. "GK" \in Positions /\ "DEF" \in Positions /\ "MID" \in Positions /\ "FWD" \in Positions
  BY DEF Positions
<1> HIDE DEF c
<1>7. /\ c("DEF") \in 3 .. 5 /\ c("FWD") \in 1 .. 3 /\ c("MID") \in 2 .. 5
      /\ c("MID") = 10 - c("DEF") - c("FWD")
  BY <1>2, <1>3, <1>4, <1>5, <1>6
<1>8. f["GK"] = 1 /\ f["DEF"] = c("DEF") /\ f["FWD"] = c("FWD") /\ f["MID"] = c("MID")
  BY <1>7 DEF Formation, Positions
<1>9. f \in Formations
  BY <1>7, <1>8 DEF Formations
<1> HIDE DEF f
<1>10. \A q \in Positions : f[q] = c(q)
  BY <1>4, <1>8 DEF Positions
<1>11. QED
  BY <1>9, <1>10 DEF c

\* More points, or as many and earlier slots.
Beats(xp, S, T) ==
  Points(xp, S) > Points(xp, T) \/ (Points(xp, S) = Points(xp, T) /\ Earlier(S, T))

LEMMA EarlierIsOrder ==
  ASSUME NEW S \in SUBSET Nat, NEW T \in SUBSET Nat
  PROVE  /\ ~(Earlier(S, T) /\ Earlier(T, S))
         /\ S # T => Earlier(S, T) \/ Earlier(T, S)
         /\ \A U \in SUBSET Nat : Earlier(S, T) /\ Earlier(T, U) => Earlier(S, U)
<1>1. S \in SUBSET Nat /\ T \in SUBSET Nat
  OBVIOUS
<1>2. ~(Earlier(S, T) /\ Earlier(T, S))
  <2> SUFFICES ASSUME NEW i \in S \ T, \A j \in T \ S : i < j,
                      NEW k \in T \ S, \A j \in S \ T : k < j
               PROVE  FALSE
    BY DEF Earlier
  <2>1. i < k /\ k < i /\ i \in Nat /\ k \in Nat
    BY <1>1
  <2>2. QED
    BY <2>1
<1>3. ASSUME S # T PROVE Earlier(S, T) \/ Earlier(T, S)
  <2> DEFINE D == (S \ T) \cup (T \ S)
  <2>1. D \in SUBSET Nat /\ D # {}
    BY <1>1, <1>3
  <2>2. PICK i \in D : \A j \in D : i <= j
    BY <2>1, LeastExists
  <2>3. CASE i \in S \ T
    <3>1. ASSUME NEW j \in T \ S PROVE i < j
      <4>1. i <= j /\ i # j /\ i \in Nat /\ j \in Nat
        BY <1>1, <2>2, <2>3
      <4>2. QED
        BY <4>1
    <3>2. QED
      BY <2>3, <3>1 DEF Earlier
  <2>4. CASE i \in T \ S
    <3>1. ASSUME NEW j \in S \ T PROVE i < j
      <4>1. i <= j /\ i # j /\ i \in Nat /\ j \in Nat
        BY <1>1, <2>2, <2>4
      <4>2. QED
        BY <4>1
    <3>2. QED
      BY <2>4, <3>1 DEF Earlier
  <2>5. QED
    BY <2>3, <2>4
<1>4. ASSUME NEW U \in SUBSET Nat, Earlier(S, T), Earlier(T, U) PROVE Earlier(S, U)
  <2>1. PICK i \in S \ T : \A j \in T \ S : i < j
    BY <1>4 DEF Earlier
  <2>2. PICK k \in T \ U : \A j \in U \ T : k < j
    BY <1>4 DEF Earlier
  <2>3. i \in Nat /\ k \in Nat /\ i # k /\ U \in SUBSET Nat
    BY <1>1, <2>1, <2>2
  <2>4. CASE i < k
    <3>1. i \in S \ U
      <4>1. i \in U => k < i
        BY <2>1, <2>2
      <4>2. QED
        BY <2>1, <2>3, <2>4, <4>1
    <3>2. ASSUME NEW j \in U \ S PROVE i < j
      <4>1. j \in T => i < j
        BY <2>1
      <4>2. j \notin T => k < j
        BY <2>2
      <4>3. j \in Nat
        BY <2>3
      <4>4. QED
        BY <2>3, <2>4, <4>1, <4>2, <4>3
    <3>3. QED
      BY <3>1, <3>2 DEF Earlier
  <2>5. CASE k < i
    <3>1. k \in S \ U
      <4>1. k \notin S => i < k
        BY <2>1, <2>2
      <4>2. QED
        BY <2>2, <2>3, <2>5, <4>1
    <3>2. ASSUME NEW j \in U \ S PROVE k < j
      <4>1. j \in T => i < j
        BY <2>1
      <4>2. j \notin T => k < j
        BY <2>2
      <4>3. j \in Nat
        BY <2>3
      <4>4. QED
        BY <2>3, <2>5, <4>1, <4>2, <4>3
    <3>3. QED
      BY <3>1, <3>2 DEF Earlier
  <2>6. QED
    BY <2>3, <2>4, <2>5
<1>5. QED
  BY <1>2, <1>3, <1>4

LEMMA PointsAreWhole ==
  ASSUME NEW xp, Numbers(xp, Slots), NEW S \in SUBSET Slots
  PROVE  Points(xp, S) \in Int
<1>1. IsFiniteSet(S) /\ Numbers(xp, S)
  BY SlotsAreFinite DEF Numbers
<1>2. QED
  BY <1>1, SumIsNumber, PointsAreSums

LEMMA BeatsIsOrder ==
  ASSUME NEW xp, Numbers(xp, Slots)
  PROVE  \A S, T \in SUBSET Slots :
           /\ ~(Beats(xp, S, T) /\ Beats(xp, T, S))
           /\ S # T => Beats(xp, S, T) \/ Beats(xp, T, S)
           /\ \A U \in SUBSET Slots : Beats(xp, S, T) /\ Beats(xp, T, U) => Beats(xp, S, U)
<1> SUFFICES ASSUME NEW S \in SUBSET Slots, NEW T \in SUBSET Slots
             PROVE  /\ ~(Beats(xp, S, T) /\ Beats(xp, T, S))
                    /\ S # T => Beats(xp, S, T) \/ Beats(xp, T, S)
                    /\ \A U \in SUBSET Slots :
                         Beats(xp, S, T) /\ Beats(xp, T, U) => Beats(xp, S, U)
  OBVIOUS
<1>1. \A U \in SUBSET Slots : Points(xp, U) \in Int
  BY PointsAreWhole
<1>2. /\ ~(Earlier(S, T) /\ Earlier(T, S))
      /\ S # T => Earlier(S, T) \/ Earlier(T, S)
      /\ \A U \in SUBSET Slots : Earlier(S, T) /\ Earlier(T, U) => Earlier(S, U)
  <2>1. S \in SUBSET Nat /\ T \in SUBSET Nat /\ \A U \in SUBSET Slots : U \in SUBSET Nat
    BY DEF Slots
  <2>2. QED
    BY <2>1, EarlierIsOrder
<1>3. ~(Beats(xp, S, T) /\ Beats(xp, T, S))
  BY <1>1, <1>2 DEF Beats
<1>4. S # T => Beats(xp, S, T) \/ Beats(xp, T, S)
  BY <1>1, <1>2 DEF Beats
<1>5. ASSUME NEW U \in SUBSET Slots, Beats(xp, S, T), Beats(xp, T, U) PROVE Beats(xp, S, U)
  <2>1. Points(xp, S) \in Int /\ Points(xp, T) \in Int /\ Points(xp, U) \in Int
    BY <1>1
  <2>2. QED
    BY <1>2, <1>5, <2>1 DEF Beats
<1>6. QED
  BY <1>3, <1>4, <1>5

\* The eleven of a formation beats every other of that formation.
LEMMA ElevenBeats ==
  ASSUME NEW pos, Formed(pos), NEW xp, Numbers(xp, Slots), NEW f \in Formations,
         NEW S, IsEleven(pos, S), \A q \in Positions : f[q] = Cardinality(At(pos, S, q))
  PROVE  S = Eleven(pos, xp, f) \/ Beats(xp, Eleven(pos, xp, f), S)
<1> DEFINE E == Eleven(pos, xp, f)
           F(q) == At(pos, E, q)
           T(q) == At(pos, S, q)
<1>1. /\ \A q \in Positions : F(q) = FirstOf(xp, At(pos, Slots, q), f[q])
      /\ IsEleven(pos, E)
  BY ElevenFits
<1>2. E \in SUBSET Slots /\ S \in SUBSET Slots /\ pos \in [Slots -> Positions]
  BY <1>1 DEF IsEleven, Formed
<1> HIDE DEF E
<1>3. ASSUME NEW q \in Positions
      PROVE  /\ Points(xp, F(q)) >= Points(xp, T(q))
             /\ Points(xp, F(q)) = Points(xp, T(q)) =>
                  \A j \in T(q) \ F(q) : \E i \in F(q) \ T(q) : i < j
  <2> DEFINE A == At(pos, Slots, q)
             P == F(q)
             Q == T(q)
  <2>1. A \in SUBSET Slots /\ T(q) \in SUBSET A
    BY <1>2 DEF At
  <2>2. A \in SUBSET Int /\ IsFiniteSet(A) /\ Numbers(xp, A)
    BY <2>1, SlotsAreFinite DEF Numbers
  <2>3. P = FirstOf(xp, A, Cardinality(Q)) /\ Q \in SUBSET A
    BY <1>1, <2>1
  <2> HIDE DEF A, P, Q
  <2>4. /\ Sum(xp, P) >= Sum(xp, Q)
        /\ Sum(xp, P) = Sum(xp, Q) => \A j \in Q \ P : \E i \in P \ Q : i < j
    BY <2>2, <2>3, FirstAreBest
  <2>5. QED
    BY <2>4, PointsAreSums DEF P, Q
<1>4. "GK" \in Positions /\ "DEF" \in Positions /\ "MID" \in Positions /\ "FWD" \in Positions
  BY DEF Positions
<1>5. \A q \in Positions : Points(xp, F(q)) \in Int /\ Points(xp, T(q)) \in Int
  BY <1>2, ByPosition
<1>6. /\ Points(xp, E) = Points(xp, F("GK")) + Points(xp, F("DEF")) + Points(xp, F("MID"))
                          + Points(xp, F("FWD"))
      /\ Points(xp, S) = Points(xp, T("GK")) + Points(xp, T("DEF")) + Points(xp, T("MID"))
                          + Points(xp, T("FWD"))
  BY <1>2, ByPosition
<1>7. ASSUME Points(xp, E) = Points(xp, S), S # E PROVE Earlier(E, S)
  <2> HIDE DEF F, T
  <2>1. \A q \in Positions : Points(xp, F(q)) = Points(xp, T(q))
    <3>1. /\ Points(xp, F("GK")) >= Points(xp, T("GK"))
          /\ Points(xp, F("DEF")) >= Points(xp, T("DEF"))
          /\ Points(xp, F("MID")) >= Points(xp, T("MID"))
          /\ Points(xp, F("FWD")) >= Points(xp, T("FWD"))
      BY <1>3, <1>4
    <3>2. /\ Points(xp, F("GK")) \in Int /\ Points(xp, T("GK")) \in Int
          /\ Points(xp, F("DEF")) \in Int /\ Points(xp, T("DEF")) \in Int
          /\ Points(xp, F("MID")) \in Int /\ Points(xp, T("MID")) \in Int
          /\ Points(xp, F("FWD")) \in Int /\ Points(xp, T("FWD")) \in Int
      BY <1>4, <1>5
    <3>3. /\ Points(xp, F("GK")) = Points(xp, T("GK"))
          /\ Points(xp, F("DEF")) = Points(xp, T("DEF"))
          /\ Points(xp, F("MID")) = Points(xp, T("MID"))
          /\ Points(xp, F("FWD")) = Points(xp, T("FWD"))
      BY <1>6, <1>7, <3>1, <3>2
    <3>4. QED
      BY <3>3 DEF Positions
  <2> USE DEF F, T
  <2>2. ASSUME NEW j \in S \ E PROVE \E i \in E \ S : i < j
    <3>1. pos[j] \in Positions /\ j \in T(pos[j]) \ F(pos[j])
      BY <1>2 DEF At
    <3>2. PICK i \in F(pos[j]) \ T(pos[j]) : i < j
      BY <1>3, <2>1, <3>1
    <3>3. QED
      BY <3>2 DEF At
  <2>3. E \ S # {}
    BY <1>7, <2>2
  <2>4. E \ S \in SUBSET Nat /\ S \in SUBSET Nat
    BY <1>2 DEF Slots
  <2>5. PICK m \in E \ S : \A i \in E \ S : m <= i
    BY <2>3, <2>4, LeastExists
  <2>6. ASSUME NEW j \in S \ E PROVE m < j
    <3>1. PICK i \in E \ S : i < j
      BY <2>2
    <3>2. m <= i /\ m \in Nat /\ i \in Nat /\ j \in Nat
      BY <2>4, <2>5
    <3>3. QED
      BY <3>1, <3>2
  <2>7. QED
    BY <2>5, <2>6 DEF Earlier
<1>8. Points(xp, E) >= Points(xp, S)
  <2>1. /\ Points(xp, F("GK")) >= Points(xp, T("GK"))
        /\ Points(xp, F("DEF")) >= Points(xp, T("DEF"))
        /\ Points(xp, F("MID")) >= Points(xp, T("MID"))
        /\ Points(xp, F("FWD")) >= Points(xp, T("FWD"))
    BY <1>3, <1>4
  <2> HIDE DEF F, T
  <2>2. QED
    BY <1>4, <1>5, <1>6, <2>1
<1>9. Points(xp, E) \in Int /\ Points(xp, S) \in Int
  BY <1>2, PointsAreWhole
<1>10. QED
  BY <1>7, <1>8, <1>9 DEF Beats, E

\* Of elevens with their points the strongest beats every other.
LEMMA StrongestBeats ==
  ASSUME NEW xp, Numbers(xp, Slots), NEW X \in SUBSET (SUBSET Slots), X # {}
  PROVE  \E S \in X : /\ S = Strongest({<<Points(xp, T), T>> : T \in X})
                      /\ \A T \in X \ {S} : Beats(xp, S, T)
<1>1. IsFiniteSet(X)
  BY SlotsAreFinite, FS_SUBSET, FS_Subset
<1>2. Cardinality(X) \in Nat \ {0}
  BY <1>1, FS_CardinalityType, FS_EmptySet
<1> DEFINE up == [T \in X |-> {S \in X : Beats(xp, S, T)}]
<1>3. up \in [X -> SUBSET X] /\ \A T \in X : T \notin up[T]
  BY BeatsIsOrder
<1>4. \A S, T \in X : S # T => \/ S \in up[T] /\ up[S] \subseteq up[T]
                               \/ T \in up[S] /\ up[T] \subseteq up[S]
  <2> SUFFICES ASSUME NEW S \in X, NEW T \in X, S # T
               PROVE  \/ S \in up[T] /\ up[S] \subseteq up[T]
                      \/ T \in up[S] /\ up[T] \subseteq up[S]
    OBVIOUS
  <2>1. Beats(xp, S, T) \/ Beats(xp, T, S)
    BY BeatsIsOrder
  <2>2. ASSUME Beats(xp, S, T), NEW U \in up[S] PROVE U \in up[T]
    <3>1. U \in X /\ Beats(xp, U, S)
      OBVIOUS
    <3>2. Beats(xp, U, T)
      BY <2>2, <3>1, BeatsIsOrder
    <3>3. QED
      BY <3>1, <3>2
  <2>3. ASSUME Beats(xp, T, S), NEW U \in up[T] PROVE U \in up[S]
    <3>1. U \in X /\ Beats(xp, U, T)
      OBVIOUS
    <3>2. Beats(xp, U, S)
      BY <2>3, <3>1, BeatsIsOrder
    <3>3. QED
      BY <3>1, <3>2
  <2>4. QED
    BY <2>1, <2>2, <2>3
<1>5. \A T \in X : \A S \in X : S \in up[T] <=> Beats(xp, S, T)
  OBVIOUS
<1> HIDE DEF up
<1>6. \A k \in 0 .. Cardinality(X) - 1 : \E T \in X : Cardinality(up[T]) = k
  BY <1>1, <1>3, <1>4, RanksAreTaken
<1>7. PICK S \in X : Cardinality(up[S]) = 0
  BY <1>2, <1>6
<1>8. up[S] = {}
  <2>1. IsFiniteSet(up[S])
    BY <1>1, <1>3, FS_Subset
  <2>2. QED
    BY <1>7, <2>1, FS_EmptySet
<1>9. \A T \in X \ {S} : Beats(xp, S, T)
  BY <1>5, <1>8, BeatsIsOrder
<1> DEFINE scored == {<<Points(xp, T), T>> : T \in X}
           Highest(s) == \A t \in scored \ {s} : s[1] > t[1] \/ (s[1] = t[1] /\ Earlier(s[2], t[2]))
<1>10. <<Points(xp, S), S>> \in scored /\ Highest(<<Points(xp, S), S>>)
  BY <1>9 DEF Beats
<1>11. ASSUME NEW s \in scored, Highest(s) PROVE s = <<Points(xp, S), S>>
  <2>1. PICK T \in X : s = <<Points(xp, T), T>>
    OBVIOUS
  <2>2. SUFFICES ASSUME T # S PROVE FALSE
    BY <2>1
  <2>3. Beats(xp, T, S)
    BY <1>10, <1>11, <2>1, <2>2 DEF Beats
  <2>4. QED
    BY <1>9, <2>2, <2>3, BeatsIsOrder
<1> DEFINE best == CHOOSE s \in scored : Highest(s)
<1>12. Strongest(scored) = best[2]
  BY DEF Strongest
<1> HIDE DEF scored, Highest
<1>13. best = <<Points(xp, S), S>>
  BY <1>10, <1>11
<1> HIDE DEF best
<1>14. Strongest(scored) = S
  BY <1>12, <1>13
<1>15. QED
  BY <1>9, <1>14 DEF scored

\* The starters are an eleven the rules allow and beat every other.
LEMMA StartersBeatAll ==
  ASSUME NEW pos, Formed(pos), NEW xp, Numbers(xp, Slots)
  PROVE  /\ IsEleven(pos, Starters(pos, xp))
         /\ \A S : IsEleven(pos, S) /\ S # Starters(pos, xp) => Beats(xp, Starters(pos, xp), S)
<1> DEFINE X == {Eleven(pos, xp, f) : f \in Formations}
           T == Starters(pos, xp)
<1>1. \A E \in X : IsEleven(pos, E) /\ E \in SUBSET Slots
  BY ElevenFits DEF IsEleven
<1>2. X # {}
  <2>1. Formation(4, 3) \in Formations
    <3>1. Formation(4, 3)["MID"] \in 2 .. 5
      BY DEF Formation, Positions
    <3>2. QED
      BY <3>1 DEF Formations
  <2>2. QED
    BY <2>1
<1>3. T = Strongest({<<Points(xp, S), S>> : S \in X})
  BY DEF Starters
<1> HIDE DEF X, T
<1>4. PICK S \in X : /\ S = Strongest({<<Points(xp, R), R>> : R \in X})
                     /\ \A R \in X \ {S} : Beats(xp, S, R)
  BY <1>1, <1>2, StrongestBeats
<1>5. T \in X /\ \A R \in X \ {T} : Beats(xp, T, R)
  BY <1>3, <1>4
<1>6. ASSUME NEW R, IsEleven(pos, R), R # T PROVE Beats(xp, T, R)
  <2>1. PICK f \in Formations : \A q \in Positions : f[q] = Cardinality(At(pos, R, q))
    BY <1>6, ElevensAreFormations
  <2> DEFINE E == Eleven(pos, xp, f)
  <2>2. R = E \/ Beats(xp, E, R)
    BY <1>6, <2>1, ElevenBeats
  <2>3. E \in X
    BY DEF X
  <2> HIDE DEF E
  <2>4. E = T \/ Beats(xp, T, E)
    BY <1>5, <2>3
  <2>5. R \in SUBSET Slots /\ E \in SUBSET Slots /\ T \in SUBSET Slots
    BY <1>1, <1>5, <1>6, <2>3 DEF IsEleven
  <2>6. QED
    BY <1>6, <2>2, <2>4, <2>5, BeatsIsOrder
<1>7. QED
  BY <1>1, <1>5, <1>6 DEF T

\* Only the starters beat every other.
LEMMA StartersAreUnique ==
  ASSUME NEW pos, Formed(pos), NEW xp, Numbers(xp, Slots), NEW T, IsEleven(pos, T),
         \A S : IsEleven(pos, S) /\ S # T => Beats(xp, T, S)
  PROVE  Starters(pos, xp) = T
<1> DEFINE R == Starters(pos, xp)
<1>1. IsEleven(pos, R) /\ (T # R => Beats(xp, R, T))
  BY StartersBeatAll
<1> HIDE DEF R
<1>2. R # T => Beats(xp, T, R)
  BY <1>1
<1>3. R \in SUBSET Slots /\ T \in SUBSET Slots
  BY <1>1 DEF IsEleven
<1>4. R = T
  BY <1>1, <1>2, <1>3, BeatsIsOrder
<1>5. QED
  BY <1>4 DEF R

\* The elevens the rules allow: a goalkeeper and ten others.
LEMMA LegalElevensAreElevens ==
  ASSUME NEW pos, Formed(pos), NEW S
  PROVE  S \in LegalElevens(pos) <=> IsEleven(pos, S)
<1> DEFINE K == At(pos, Slots, "GK")
           O == Slots \ K
           Fine(F) == Cardinality(At(pos, F, "DEF")) >= 3 /\ Cardinality(At(pos, F, "FWD")) >= 1
<1>1. K \in SUBSET Slots /\ \A i \in Slots : i \in K <=> pos[i] = "GK"
  BY DEF At
<1>2. S \in LegalElevens(pos) <=>
        \E G \in {{i} : i \in K}, F \in {H \in kSubset(10, O) : Fine(H)} : S = G \cup F
  BY DEF LegalElevens
<1>3. ASSUME S \in LegalElevens(pos) PROVE IsEleven(pos, S)
  <2>1. PICK i \in K, F \in kSubset(10, O) : S = {i} \cup F /\ Fine(F)
    <3> HIDE DEF K, O, Fine
    <3>1. PICK G \in {{i} : i \in K}, F \in {H \in kSubset(10, O) : Fine(H)} : S = G \cup F
      BY <1>2, <1>3
    <3>2. QED
      BY <3>1
  <2>2. F \in SUBSET O /\ Cardinality(F) = 10
    BY DEF kSubset
  <2>3. F \in SUBSET Slots /\ i \in Slots /\ i \notin F
    BY <1>1, <2>2
  <2>4. IsFiniteSet(F)
    BY <2>3, SlotsAreFinite
  <2>5. Cardinality(F \cup {i}) = 11
    <3>1. Cardinality(F \cup {i}) = Cardinality(F) + 1
      BY <2>3, <2>4, FS_AddElement
    <3>2. QED
      BY <2>2, <3>1
  <2>6. S = F \cup {i} /\ S \subseteq Slots
    BY <2>1, <2>3
  <2>7. At(pos, S, "GK") = {i}
    BY <1>1, <2>2, <2>3, <2>6 DEF At
  <2>8. At(pos, S, "DEF") = At(pos, F, "DEF") /\ At(pos, S, "FWD") = At(pos, F, "FWD")
    BY <1>1, <2>3, <2>6 DEF At
  <2>9. Cardinality(At(pos, S, "GK")) = 1
    BY <2>7, FS_Singleton
  <2>10. QED
    BY <2>1, <2>5, <2>6, <2>8, <2>9 DEF IsEleven, IsLegalStartingXI
<1>4. ASSUME IsEleven(pos, S) PROVE S \in LegalElevens(pos)
  <2>1. S \in SUBSET Slots /\ Cardinality(S) = 11 /\ Cardinality(At(pos, S, "GK")) = 1
    BY <1>4 DEF IsEleven, IsLegalStartingXI
  <2>2. At(pos, S, "GK") \in SUBSET Slots
    BY <2>1 DEF At
  <2>3. PICK i : At(pos, S, "GK") = {i}
    BY <2>1, <2>2, SlotsAreFinite, FS_Singleton
  <2> DEFINE F == S \ {i}
  <2>4. i \in K /\ i \in S /\ S = {i} \cup F /\ F \in SUBSET O
    BY <1>1, <2>1, <2>3 DEF At
  <2>5. Cardinality(F) = 10
    <3>1. Cardinality(F) = Cardinality(S) - 1
      BY <2>1, <2>4, SlotsAreFinite, FS_RemoveElement
    <3>2. QED
      BY <2>1, <3>1
  <2>6. At(pos, S, "DEF") = At(pos, F, "DEF") /\ At(pos, S, "FWD") = At(pos, F, "FWD")
    BY <1>1, <2>1, <2>4 DEF At
  <2>7. F \in kSubset(10, O)
    BY <2>4, <2>5 DEF kSubset
  <2>8. Fine(F)
    BY <1>4, <2>6 DEF IsEleven, IsLegalStartingXI
  <2> HIDE DEF F, Fine, K, O
  <2>9. {i} \in {{j} : j \in K} /\ F \in {H \in kSubset(10, O) : Fine(H)}
    BY <2>4, <2>7, <2>8
  <2>10. QED
    BY <1>2, <2>4, <2>9
<1>5. QED
  BY <1>3, <1>4

\* Who is ranked first is ahead of all others.
LEMMA FirstIsAhead ==
  ASSUME NEW S \in SUBSET Int, IsFiniteSet(S), S # {}, NEW xp, Numbers(xp, S)
  PROVE  /\ Ranked(xp, S)[1] \in S
         /\ \A i \in S \ {Ranked(xp, S)[1]} : Ahead(xp, Ranked(xp, S)[1], i)
<1> DEFINE n == Cardinality(S)
           r == Ranked(xp, S)
<1>1. n \in Nat \ {0}
  BY FS_CardinalityType, FS_EmptySet
<1>2. /\ r \in [1 .. n -> S]
      /\ \A k, l \in 1 .. n : k < l => Ahead(xp, r[k], r[l])
      /\ \A i \in S : \E k \in 1 .. n : r[k] = i
  BY RankedIsOrder
<1> HIDE DEF n, r
<1>3. 1 \in 1 .. n /\ \A k \in 1 .. n : k # 1 => 1 < k
  BY <1>1
<1>4. r[1] \in S /\ \A i \in S \ {r[1]} : Ahead(xp, r[1], i)
  BY <1>2, <1>3
<1>5. QED
  BY <1>4 DEF r

\* A captain no starter beats.
LEMMA CaptainIsBest ==
  ASSUME NEW pos, Formed(pos), NEW xp, Numbers(xp, Slots)
  PROVE  /\ RecommendLineup(pos, xp).starters = Starters(pos, xp)
         /\ RecommendLineup(pos, xp).captain \in Starters(pos, xp)
         /\ \A i \in Starters(pos, xp) \ {RecommendLineup(pos, xp).captain} :
              Ahead(xp, RecommendLineup(pos, xp).captain, i)
         /\ \A i \in Starters(pos, xp) : xp[i] <= xp[RecommendLineup(pos, xp).captain]
<1> DEFINE T == Starters(pos, xp)
           c == RecommendLineup(pos, xp).captain
<1>1. RecommendLineup(pos, xp).starters = T /\ c = Ranked(xp, T)[1]
  BY DEF RecommendLineup, Led, Lineup
<1>2. T \in SUBSET Slots /\ Cardinality(T) = 11
  BY StartersBeatAll DEF IsEleven
<1> HIDE DEF T, c
<1>3. T \in SUBSET Int /\ IsFiniteSet(T) /\ Numbers(xp, T) /\ T # {}
  BY <1>2, SlotsAreFinite, FS_EmptySet DEF Numbers
<1>4. c \in T /\ \A i \in T \ {c} : Ahead(xp, c, i)
  BY <1>1, <1>3, FirstIsAhead
<1>5. \A i \in T : xp[i] <= xp[c]
  BY <1>3, <1>4 DEF Ahead, Numbers
<1>6. QED
  BY <1>1, <1>4, <1>5 DEF T, c

LEMMA PointsAgree ==
  ASSUME NEW xp, Numbers(xp, Slots), NEW xq, NEW S \in SUBSET Slots, \A i \in S : xp[i] = xq[i]
  PROVE  Points(xp, S) = Points(xq, S)
<1>1. IsFiniteSet(S) /\ Numbers(xp, S)
  BY SlotsAreFinite DEF Numbers
<1>2. QED
  BY <1>1, SumsAgree, PointsAreSums

\* Who is on the bench and does not lose points changes nothing by not playing.
LEMMA BenchIsNotMissed ==
  ASSUME NEW pos, Formed(pos), NEW xp \in [Slots -> Int],
         NEW i \in Slots \ Starters(pos, xp), xp[i] >= 0
  PROVE  ~RoleScenario(pos, xp, i).changed /\ ~RoleScenario(pos, xp, i).captain
<1> DEFINE T == Starters(pos, xp)
           xq == Without(xp, i)
<1>1. xq \in [Slots -> Int] /\ xq[i] = 0 /\ \A j \in Slots \ {i} : xq[j] = xp[j]
  BY DEF Without
<1>2. Numbers(xp, Slots)
  BY DEF Numbers
<1>3. Numbers(xq, Slots)
  BY <1>1 DEF Numbers
<1>4. /\ IsEleven(pos, T) /\ T \in SUBSET Slots
      /\ \A S : IsEleven(pos, S) /\ S # T => Beats(xp, T, S)
  BY <1>2, StartersBeatAll DEF IsEleven
<1> HIDE DEF xq, T
<1>5. i \notin T
  BY DEF T
<1>6. ASSUME NEW S \in SUBSET Slots PROVE Points(xq, S) <= Points(xp, S)
  <2>1. Points(xq, S) \in Int /\ Points(xp, S) \in Int
    BY <1>2, <1>3, PointsAreWhole
  <2>2. CASE i \notin S
    <3>1. \A j \in S : xp[j] = xq[j]
      BY <1>1, <2>2
    <3>2. QED
      BY <1>2, <2>1, <3>1, PointsAgree
  <2>3. CASE i \in S
    <3> DEFINE R == S \ {i}
    <3>1. R \in SUBSET Slots /\ \A j \in R : xp[j] = xq[j]
      BY <1>1
    <3> HIDE DEF R
    <3>2. Points(xp, R) = Points(xq, R)
      BY <1>2, <3>1, PointsAgree
    <3>3. IsFiniteSet(S) /\ Numbers(xp, S) /\ Numbers(xq, S)
      BY <1>2, <1>3, SlotsAreFinite DEF Numbers
    <3>4. Sum(xp, S) = xp[i] + Sum(xp, R)
      BY <2>3, <3>3, SumTakesOut DEF R
    <3>5. Sum(xq, S) = xq[i] + Sum(xq, R)
      BY <2>3, <3>3, SumTakesOut DEF R
    <3>6. Points(xp, R) \in Int
      BY <1>2, <3>1, PointsAreWhole
    <3>7. Points(xp, S) = xp[i] + Points(xp, R) /\ Points(xq, S) = xq[i] + Points(xp, R)
      BY <3>2, <3>4, <3>5, PointsAreSums
    <3>8. xp[i] \in Int
      OBVIOUS
    <3>9. QED
      BY <1>1, <3>6, <3>7, <3>8
  <2>4. QED
    BY <2>2, <2>3
<1>7. Points(xq, T) = Points(xp, T)
  <2>1. \A j \in T : xp[j] = xq[j]
    BY <1>1, <1>4, <1>5
  <2>2. QED
    BY <1>2, <1>4, <2>1, PointsAgree
<1>8. ASSUME NEW S, IsEleven(pos, S), S # T PROVE Beats(xq, T, S)
  <2>1. S \in SUBSET Slots /\ Beats(xp, T, S)
    BY <1>4, <1>8 DEF IsEleven
  <2>2. /\ Points(xq, S) \in Int /\ Points(xp, S) \in Int /\ Points(xp, T) \in Int
        /\ Points(xq, S) <= Points(xp, S)
    BY <1>2, <1>3, <1>4, <1>6, <2>1, PointsAreWhole
  <2>3. QED
    BY <1>7, <2>1, <2>2 DEF Beats
<1>9. Starters(pos, xq) = T
  BY <1>3, <1>4, <1>8, StartersAreUnique
<1> DEFINE c == RecommendLineup(pos, xp).captain
           d == RecommendLineup(pos, xq).captain
<1>10. /\ RecommendLineup(pos, xp).starters = T /\ RecommendLineup(pos, xq).starters = T
       /\ c \in T /\ \A j \in T \ {c} : Ahead(xp, c, j)
       /\ d \in T /\ \A j \in T \ {d} : Ahead(xq, d, j)
  BY <1>2, <1>3, <1>9, CaptainIsBest DEF T
<1> HIDE DEF c, d
<1>11. c = d
  <2>1. \A j, k \in T : Ahead(xq, j, k) <=> Ahead(xp, j, k)
    BY <1>1, <1>4, <1>5 DEF Ahead
  <2>2. ASSUME c # d PROVE Ahead(xp, c, d) /\ Ahead(xp, d, c)
    BY <1>10, <2>1, <2>2
  <2>3. xp[c] \in Int /\ xp[d] \in Int /\ c \in Int /\ d \in Int
    BY <1>4, <1>10 DEF Slots
  <2>4. QED
    BY <2>2, <2>3 DEF Ahead
<1>12. QED
  BY <1>10, <1>11 DEF RoleScenario, Difference, xq, c, d

LineupSlots(lineup) ==
  InSlotOrder(lineup.starters) \o <<lineup.benchKeeper>> \o lineup.bench

\* Eleven, one and three make fifteen.
InParts(a, k, c) == [i \in Slots |-> IF i <= 11 THEN a[i] ELSE IF i = 12 THEN k ELSE c[i - 12]]

LEMMA PartsJoin ==
  ASSUME NEW T, NEW a \in Seq(T), Len(a) = 11, NEW k \in T, NEW c \in Seq(T), Len(c) = 3
  PROVE  a \o <<k>> \o c = InParts(a, k, c)
<1>1. PICK b \in Seq(T) : b = <<k>> /\ Len(b) = 1 /\ b[1] = k
  <2>1. <<k>> \in Seq(T)
    OBVIOUS
  <2>2. Len(<<k>>) = 1 /\ <<k>>[1] = k
    OBVIOUS
  <2>3. QED
    BY <2>1, <2>2, Zenon
<1> DEFINE u == a \o b
<1>2. u \in Seq(T) /\ Len(u) = Len(a) + Len(b)
  BY TwoPartsJoin
<1>3. Joins(u, a, b)
  BY TwoPartsJoin
<1> HIDE DEF u
<1>4. \A i \in 1 .. 12 : u[i] = IF i <= 11 THEN a[i] ELSE k
  BY <1>1, <1>3 DEF Joins
<1> DEFINE v == u \o c
<1>5. v \in Seq(T) /\ Len(v) = Len(u) + Len(c)
  BY <1>2, TwoPartsJoin
<1>6. Joins(v, u, c)
  BY <1>2, TwoPartsJoin
<1> HIDE DEF v
<1>7. Len(u) = 12 /\ Len(v) = 15
  BY <1>1, <1>2, <1>5
<1>8. \A i \in 1 .. 15 : v[i] = IF i <= 12 THEN u[i] ELSE c[i - 12]
  BY <1>6, <1>7 DEF Joins
<1>9. \A i \in 1 .. 15 : v[i] = IF i <= 11 THEN a[i] ELSE IF i = 12 THEN k ELSE c[i - 12]
  BY <1>4, <1>8
<1>10. v = InParts(a, k, c)
  <2>1. DOMAIN v = 1 .. 15 /\ v = [i \in DOMAIN v |-> v[i]]
    BY <1>5, <1>7, LenProperties
  <2>2. QED
    BY <1>9, <2>1 DEF InParts, Slots
<1>11. QED
  BY <1>1, <1>10 DEF u, v

\* Nobody at all is expected to score more than the captain.
LEMMA CaptainBeatsAll ==
  ASSUME NEW pos, Formed(pos), NEW xp, Numbers(xp, Slots), NEW i \in Slots
  PROVE  xp[i] <= xp[RecommendLineup(pos, xp).captain]
<1>1. PICK S, c : S = Starters(pos, xp) /\ c = RecommendLineup(pos, xp).captain
  OBVIOUS
<1>2. IsEleven(pos, S) /\ \A T : IsEleven(pos, T) /\ T # S => Beats(xp, S, T)
  BY <1>1, StartersBeatAll
<1>3. c \in S /\ \A j \in S : xp[j] <= xp[c]
  BY <1>1, CaptainIsBest
<1>4. PICK f \in Formations : \A q \in Positions : f[q] = Cardinality(At(pos, S, q))
  BY <1>2, ElevensAreFormations
<1>5. PICK T : T = Eleven(pos, xp, f)
  OBVIOUS
<1>6. /\ IsEleven(pos, T)
      /\ \A q \in Positions : At(pos, T, q) = FirstOf(xp, At(pos, Slots, q), f[q])
  BY <1>5, ElevenFits
<1>7. S = T
  <2>1. S = T \/ Beats(xp, T, S)
    BY <1>2, <1>4, <1>5, ElevenBeats
  <2>2. S = T \/ Beats(xp, S, T)
    BY <1>2, <1>6
  <2>3. S \in SUBSET Slots /\ T \in SUBSET Slots
    BY <1>2, <1>6 DEF IsEleven
  <2>4. QED
    BY <2>1, <2>2, <2>3, BeatsIsOrder
<1>8. CASE i \in S
  BY <1>1, <1>3, <1>8
<1>9. CASE i \notin S
  <2>1. PICK q \in Positions : pos[i] = q
    BY DEF Formed
  <2>2. PICK A : A = At(pos, Slots, q)
    OBVIOUS
  <2>3. /\ A \in SUBSET Int /\ IsFiniteSet(A) /\ A \subseteq Slots
        /\ Numbers(xp, A) /\ Cardinality(A) = PositionCounts[q]
    BY <2>2, SlotsAreFinite DEF At, Formed, Numbers
  <2>4. f[q] \in 0 .. Cardinality(A) /\ f[q] > 0
    <3>1. f[q] \in 0 .. PositionCounts[q]
      BY FormationsAreLegal
    <3>2. f["GK"] = 1 /\ f["DEF"] >= 3 /\ f["FWD"] >= 1
      BY FormationsAreLegal
    <3>3. f["MID"] \in 2 .. 5
      BY DEF Formations
    <3>4. f[q] > 0
      BY <3>1, <3>2, <3>3 DEF Positions
    <3>5. QED
      BY <2>3, <3>1, <3>4
  <2>5. /\ FirstOf(xp, A, f[q]) \in SUBSET A
        /\ Cardinality(FirstOf(xp, A, f[q])) = f[q]
        /\ \A u \in FirstOf(xp, A, f[q]), j \in A \ FirstOf(xp, A, f[q]) : Ahead(xp, u, j)
    BY <2>3, <2>4, FirstAreAhead
  <2>6. FirstOf(xp, A, f[q]) = At(pos, S, q)
    BY <1>6, <1>7, <2>2
  <2>7. PICK u : u \in FirstOf(xp, A, f[q])
    <3>1. FirstOf(xp, A, f[q]) # {}
      BY <2>4, <2>5, FS_EmptySet
    <3>2. QED
      BY <3>1
  <2>8. i \in A /\ i \notin FirstOf(xp, A, f[q]) /\ u \in S
    BY <1>9, <2>1, <2>2, <2>6, <2>7 DEF At
  <2>9. Ahead(xp, u, i) /\ xp[u] <= xp[c]
    BY <1>3, <2>5, <2>7, <2>8
  <2>10. u \in Slots /\ c \in Slots
    BY <1>2, <1>3, <2>8 DEF IsEleven
  <2>11. xp[u] \in Int /\ xp[c] \in Int /\ xp[i] \in Int
    BY <2>10 DEF Numbers
  <2>12. xp[u] >= xp[i]
    BY <2>9, <2>11 DEF Ahead
  <2>13. xp[i] <= xp[c]
    BY <2>9, <2>11, <2>12
  <2>14. QED
    BY <1>1, <2>13
<1>10. QED
  BY <1>8, <1>9

LEMMA FoundElevens ==
  ASSUME NEW pos, Formed(pos), NEW por, Formed(por), NEW xp, Numbers(xp, Slots),
         NEW xq, Numbers(xq, Slots), NEW e, OneToOne(e, Slots),
         \A i \in Slots : e[i] \in Slots /\ por[e[i]] = pos[i] /\ xq[e[i]] = xp[i],
         NEW S, IsEleven(pos, S)
  PROVE  IsEleven(por, Image(e, S)) /\ Points(xq, Image(e, S)) = Points(xp, S)
<1>1. /\ S \subseteq Slots /\ IsFiniteSet(S) /\ OneToOne(e, S)
      /\ Cardinality(S) = 11 /\ IsLegalStartingXI(pos, S)
  BY SlotsAreFinite DEF IsEleven, OneToOne
<1>2. Image(e, S) \subseteq Slots /\ Cardinality(Image(e, S)) = 11
  <2>1. Cardinality(Image(e, S)) = Cardinality(S)
    BY <1>1, ImageCounts
  <2>2. QED
    BY <1>1, <2>1 DEF Image
<1>3. ASSUME NEW q PROVE Cardinality(At(por, Image(e, S), q)) = Cardinality(At(pos, S, q))
  <2>1. At(por, Image(e, S), q) = Image(e, At(pos, S, q))
    BY <1>1 DEF At, Image
  <2>2. IsFiniteSet(At(pos, S, q)) /\ OneToOne(e, At(pos, S, q))
    BY <1>1, FS_Subset DEF At, OneToOne
  <2>3. QED
    BY <2>1, <2>2, ImageCounts
<1>4. IsLegalStartingXI(por, Image(e, S))
  BY <1>1, <1>3 DEF IsLegalStartingXI
<1>5. Points(xq, Image(e, S)) = Points(xp, S)
  <2>1. Numbers(xp, S) /\ \A x, y \in S : e[x] = e[y] => x = y
    BY <1>1 DEF Numbers, OneToOne
  <2>2. \A x \in S : xq[e[x]] = xp[x]
    BY <1>1
  <2>3. Sum(xq, Image(e, S)) = Sum(xp, S)
    BY <1>1, <2>1, <2>2, SumOfImage
  <2>4. QED
    BY <2>3, PointsAreSums
<1>6. QED
  BY <1>2, <1>4, <1>5 DEF IsEleven

\* Where the players are found again, their lineup is worth no less.
LEMMA FoundIsNoWorse ==
  ASSUME NEW pos, Formed(pos), NEW por, Formed(por), NEW xp, Numbers(xp, Slots),
         NEW xq, Numbers(xq, Slots), NEW e, OneToOne(e, Slots),
         \A i \in Slots : e[i] \in Slots /\ por[e[i]] = pos[i] /\ xq[e[i]] = xp[i]
  PROVE  RecommendLineup(pos, xp).total <= RecommendLineup(por, xq).total
<1>1. PICK S, T, c, d : /\ S = Starters(pos, xp) /\ c = RecommendLineup(pos, xp).captain
                        /\ T = Starters(por, xq) /\ d = RecommendLineup(por, xq).captain
  OBVIOUS
<1>2. IsEleven(pos, S) /\ IsEleven(por, T)
  BY <1>1, StartersBeatAll
<1>3. PICK U : U = Image(e, S)
  OBVIOUS
<1>4. IsEleven(por, U) /\ Points(xq, U) = Points(xp, S)
  BY <1>2, <1>3, FoundElevens
<1>5. U = T \/ Beats(xq, T, U)
  BY <1>1, <1>4, StartersBeatAll
<1>6. /\ Points(xq, T) \in Int /\ Points(xp, S) \in Int
      /\ Points(xq, T) >= Points(xp, S)
  <2>1. Points(xq, T) \in Int /\ Points(xp, S) \in Int
    BY <1>2, PointsAreWhole DEF IsEleven
  <2>2. QED
    BY <1>4, <1>5, <2>1 DEF Beats
<1>7. c \in Slots /\ d \in Slots
  BY <1>1, <1>2, CaptainIsBest DEF IsEleven
<1>8. xp[c] \in Int /\ xq[d] \in Int /\ xp[c] <= xq[d]
  <2>1. xq[e[c]] <= xq[d] /\ xq[e[c]] = xp[c]
    BY <1>1, <1>7, CaptainBeatsAll
  <2>2. QED
    BY <1>7, <2>1 DEF Numbers
<1>9. /\ RecommendLineup(pos, xp).total = Points(xp, S) + xp[c]
      /\ RecommendLineup(por, xq).total = Points(xq, T) + xq[d]
  BY <1>1 DEF RecommendLineup, Led, Lineup
<1>10. QED
  BY <1>6, <1>8, <1>9

\* The positions one by one.
LEMMA PositionsSum ==
  ASSUME NEW f, Numbers(f, Positions)
  PROVE  Sum(f, Positions) = f["GK"] + f["DEF"] + f["MID"] + f["FWD"]
<1>1. /\ f["GK"] \in Int /\ f["DEF"] \in Int /\ f["MID"] \in Int /\ f["FWD"] \in Int
  BY DEF Numbers, Positions
<1>2. IsFiniteSet({}) /\ IsFiniteSet({"GK"}) /\ IsFiniteSet({"GK", "DEF"})
      /\ IsFiniteSet({"GK", "DEF", "MID"})
  BY FS_EmptySet, FS_Singleton, TwoThings, ThreeThings
<1>3. Sum(f, {"GK"}) = f["GK"]
  <2>1. Numbers(f, {} \cup {"GK"}) /\ {} \cup {"GK"} = {"GK"}
    BY <1>1 DEF Numbers
  <2>2. Sum(f, {} \cup {"GK"}) = f["GK"] + Sum(f, {})
    BY <1>2, <2>1, SumAdds
  <2>3. QED
    BY <1>1, <2>1, <2>2, SumOfNone
<1>4. Sum(f, {"GK", "DEF"}) = f["DEF"] + Sum(f, {"GK"})
  <2>1. Numbers(f, {"GK"} \cup {"DEF"}) /\ {"GK"} \cup {"DEF"} = {"GK", "DEF"}
        /\ "DEF" \notin {"GK"}
    BY <1>1 DEF Numbers
  <2>2. QED
    BY <1>2, <2>1, SumAdds
<1>5. Sum(f, {"GK", "DEF", "MID"}) = f["MID"] + Sum(f, {"GK", "DEF"})
  <2>1. Numbers(f, {"GK", "DEF"} \cup {"MID"}) /\ {"GK", "DEF"} \cup {"MID"} = {"GK", "DEF", "MID"}
        /\ "MID" \notin {"GK", "DEF"}
    BY <1>1 DEF Numbers
  <2>2. QED
    BY <1>2, <2>1, SumAdds
<1>6. Sum(f, Positions) = f["FWD"] + Sum(f, {"GK", "DEF", "MID"})
  <2>1. {"GK", "DEF", "MID"} \cup {"FWD"} = Positions /\ "FWD" \notin {"GK", "DEF", "MID"}
    BY DEF Positions
  <2>2. QED
    BY <1>2, <2>1, SumAdds
<1>7. QED
  BY <1>1, <1>3, <1>4, <1>5, <1>6

-----------------------------------------------------------------------------
(* Substitutions. *)

\* What a team kicks off with: an eleven, and players who are no goalkeepers on the bench.
KicksOff(pos, lineup) ==
  /\ Formed(pos) /\ IsEleven(pos, lineup.starters)
  /\ DOMAIN lineup.bench \in SUBSET Nat
  /\ Range(lineup.bench) \in SUBSET (Slots \ lineup.starters)
  /\ \A j \in Range(lineup.bench) : pos[j] # "GK"

\* Who is still on the bench.
Spare(lineup, team) == Range(lineup.bench) \ DOMAIN team.used

\* Why nobody comes on for i: the goalkeeper's place is his own, the bench is empty, or the
\* team has as few of his position as it may have and nobody on the bench is of it.
Irreplaceable(pos, lineup, team, i) ==
  \/ pos[i] = "GK"
  \/ Spare(lineup, team) = {}
  \/ /\ pos[i] = "DEF" /\ Cardinality(At(pos, team.field, "DEF")) = 3
     /\ At(pos, Spare(lineup, team), "DEF") = {}
  \/ /\ pos[i] = "FWD" /\ Cardinality(At(pos, team.field, "FWD")) = 1
     /\ At(pos, Spare(lineup, team), "FWD") = {}

\* The team when the turn of the starters in P has come.
TeamOK(pos, lineup, blanks, P, team) ==
  /\ DOMAIN team.used \in SUBSET Range(lineup.bench)
  /\ OneToOne(team.used, DOMAIN team.used)
  /\ Range(team.used) \in SUBSET (P \cap blanks)
  /\ \A i \in Range(team.used) : pos[i] # "GK"
  /\ team.field = (lineup.starters \ Range(team.used)) \cup DOMAIN team.used
  /\ IsLegalStartingXI(pos, team.field)
  /\ \A i \in (P \cap blanks) \ Range(team.used) : Irreplaceable(pos, lineup, team, i)

\* How many of a position there are when some leave and others come.
Counted(pos, F, off, on, q) ==
  /\ Cardinality(At(pos, F, q)) \in Nat /\ Cardinality(At(pos, off, q)) \in Nat
  /\ Cardinality(At(pos, on, q)) \in Nat
  /\ Cardinality(At(pos, (F \ off) \cup on, q))
       = Cardinality(At(pos, F, q)) - Cardinality(At(pos, off, q))
           + Cardinality(At(pos, on, q))

LEMMA ChangesCount ==
  ASSUME NEW pos, NEW F \in SUBSET Slots, NEW off \in SUBSET F, NEW on \in SUBSET (Slots \ F),
         NEW q
  PROVE  Counted(pos, F, off, on, q)
<1> DEFINE A == At(pos, F, q)
           B == At(pos, off, q)
           C == At(pos, on, q)
           D == At(pos, (F \ off) \cup on, q)
<1>1. /\ A = B \cup (A \ B) /\ B \cap (A \ B) = {} /\ D = (A \ B) \cup C /\ (A \ B) \cap C = {}
      /\ A \in SUBSET Slots /\ B \in SUBSET Slots /\ C \in SUBSET Slots
      /\ A \ B \in SUBSET Slots
  BY DEF At
<1> HIDE DEF A, B, C, D
<1>2. /\ IsFiniteSet(A) /\ IsFiniteSet(B) /\ IsFiniteSet(C) /\ IsFiniteSet(A \ B)
      /\ Cardinality(A) \in Nat /\ Cardinality(B) \in Nat /\ Cardinality(C) \in Nat
      /\ Cardinality(A \ B) \in Nat
  BY <1>1, SlotsAreFinite
<1>3. Cardinality(B \cup (A \ B)) = Cardinality(B) + Cardinality(A \ B)
  BY <1>1, <1>2, DisjointCount
<1>4. Cardinality((A \ B) \cup C) = Cardinality(A \ B) + Cardinality(C)
  BY <1>1, <1>2, DisjointCount
<1>5. Cardinality(D) = Cardinality(A) - Cardinality(B) + Cardinality(C)
  <2>1. Cardinality(A) = Cardinality(B) + Cardinality(A \ B)
    BY <1>1, <1>3
  <2>2. Cardinality(D) = Cardinality(A \ B) + Cardinality(C)
    BY <1>1, <1>4
  <2>3. QED
    BY ONLY <1>2, <2>1, <2>2
<1>6. QED
  BY <1>2, <1>5 DEF A, B, C, D, Counted

\* One of one.
LEMMA OneCounts ==
  ASSUME NEW pos, NEW i, NEW q
  PROVE  Cardinality(At(pos, {i}, q)) = IF pos[i] = q THEN 1 ELSE 0
<1>1. CASE pos[i] = q
  <2>1. At(pos, {i}, q) = {i}
    BY <1>1 DEF At
  <2>2. QED
    BY <1>1, <2>1, FS_Singleton
<1>2. CASE pos[i] # q
  <2>1. At(pos, {i}, q) = {}
    BY <1>2 DEF At
  <2>2. QED
    BY <1>2, <2>1, FS_EmptySet
<1>3. QED
  BY <1>1, <1>2

\* Who may come on for whom.
MayReplace(pos, F, i, j) ==
  /\ pos[i] # "GK"
  /\ pos[i] = "DEF" /\ Cardinality(At(pos, F, "DEF")) = 3 => pos[j] = "DEF"
  /\ pos[i] = "FWD" /\ Cardinality(At(pos, F, "FWD")) = 1 => pos[j] = "FWD"

LEMMA SwapIsLegal ==
  ASSUME NEW pos, NEW F \in SUBSET Slots, IsLegalStartingXI(pos, F),
         NEW i \in F, NEW j \in Slots \ F, pos[j] # "GK"
  PROVE  /\ IsLegalStartingXI(pos, (F \ {i}) \cup {j}) <=> MayReplace(pos, F, i, j)
         /\ \A q : Cardinality(At(pos, (F \ {i}) \cup {j}, q))
                     = Cardinality(At(pos, F, q)) - (IF pos[i] = q THEN 1 ELSE 0)
                         + (IF pos[j] = q THEN 1 ELSE 0)
<1>1. {i} \in SUBSET F /\ {j} \in SUBSET (Slots \ F)
  OBVIOUS
<1>2. ASSUME NEW q
      PROVE  /\ Cardinality(At(pos, F, q)) \in Nat
             /\ Cardinality(At(pos, (F \ {i}) \cup {j}, q))
                  = Cardinality(At(pos, F, q)) - (IF pos[i] = q THEN 1 ELSE 0)
                      + (IF pos[j] = q THEN 1 ELSE 0)
  <2>1. PICK off, on : off = {i} /\ on = {j}
    OBVIOUS
  <2>2. Counted(pos, F, off, on, q)
    <3>1. off \in SUBSET F /\ on \in SUBSET (Slots \ F) /\ F \in SUBSET Slots
      BY <1>1, <2>1
    <3>2. QED
      BY ONLY <3>1, ChangesCount
  <2>3. /\ Cardinality(At(pos, off, q)) = IF pos[i] = q THEN 1 ELSE 0
        /\ Cardinality(At(pos, on, q)) = IF pos[j] = q THEN 1 ELSE 0
    BY <2>1, OneCounts
  <2>4. QED
    BY <2>1, <2>2, <2>3 DEF Counted
<1>3. /\ Cardinality(At(pos, F, "GK")) = 1 /\ Cardinality(At(pos, F, "DEF")) >= 3
      /\ Cardinality(At(pos, F, "FWD")) >= 1
  BY DEF IsLegalStartingXI
<1>4. IsLegalStartingXI(pos, (F \ {i}) \cup {j}) <=> MayReplace(pos, F, i, j)
  BY <1>2, <1>3 DEF IsLegalStartingXI, MayReplace
<1>5. QED
  BY <1>2, <1>4

\* When nobody may come on, there is a reason, and when there is one nobody may.
LEMMA NobodyReplaces ==
  ASSUME NEW pos, NEW lineup, NEW team, NEW i,
         IsLegalStartingXI(pos, team.field)
  PROVE  (\A j \in Spare(lineup, team) : ~MayReplace(pos, team.field, i, j))
           <=> Irreplaceable(pos, lineup, team, i)
BY DEF MayReplace, Irreplaceable, At

\* What is known of a team.
LEMMA TeamFacts ==
  ASSUME NEW pos, NEW lineup, KicksOff(pos, lineup), NEW blanks \in SUBSET lineup.starters,
         NEW P, NEW team, TeamOK(pos, lineup, blanks, P, team)
  PROVE  /\ team.field \in SUBSET Slots /\ IsLegalStartingXI(pos, team.field)
         /\ \A i \in lineup.starters \ Range(team.used) : i \in team.field
         /\ \A j \in Spare(lineup, team) : j \in Slots \ team.field /\ pos[j] # "GK"
BY DEF KicksOff, TeamOK, Spare, IsEleven

\* Nobody has come on at kick-off.
KickOff(lineup) == [field |-> lineup.starters, used |-> <<>>]

LEMMA KickOffIsOK ==
  ASSUME NEW pos, NEW lineup, KicksOff(pos, lineup), NEW blanks
  PROVE  TeamOK(pos, lineup, blanks, {}, KickOff(lineup))
<1>1. DOMAIN KickOff(lineup).used = {} /\ Range(KickOff(lineup).used) = {}
  BY DEF KickOff, Range
<1>2. KickOff(lineup).field = lineup.starters
  BY DEF KickOff
<1>3. QED
  BY <1>1, <1>2 DEF TeamOK, OneToOne, KicksOff, IsEleven

\* Who could come on for a starter, in the order of the bench.
Fitting(pos, bench, team, starter) ==
  {k \in DOMAIN bench :
     /\ bench[k] \notin DOMAIN team.used
     /\ IsLegalStartingXI(pos, (team.field \ {starter}) \cup {bench[k]})}

\* The team after j came on for i.
Changed(team, i, j) ==
  [field |-> (team.field \ {i}) \cup {j},
   used |-> [on \in DOMAIN team.used \cup {j} |-> IF on = j THEN i ELSE team.used[on]]]

\* A turn changes nothing or brings somebody on.
Substitutes(pos, lineup, blanks, team, i, t) ==
  \/ /\ i \notin blanks \/ Fitting(pos, lineup.bench, team, i) = {}
     /\ t = team
  \/ /\ i \in blanks
     /\ \E k \in Fitting(pos, lineup.bench, team, i) : t = Changed(team, i, lineup.bench[k])

LEMMA TurnsChange ==
  ASSUME NEW pos, NEW lineup, DOMAIN lineup.bench \in SUBSET Nat, NEW blanks, NEW team, NEW i
  PROVE  Substitutes(pos, lineup, blanks, team, i, Turn(pos, lineup, blanks, team, i))
<1> DEFINE fits == Fitting(pos, lineup.bench, team, i)
           k == CHOOSE n \in fits : \A m \in fits : n <= m
<1>1. Turn(pos, lineup, blanks, team, i)
        = IF i \notin blanks \/ fits = {} THEN team ELSE Changed(team, i, lineup.bench[k])
  BY DEF Turn, Substitute, Fitting, Changed
<1>2. fits \in SUBSET Nat
  BY DEF Fitting
<1> HIDE DEF fits
<1>3. ASSUME fits # {} PROVE k \in fits
  <2>1. \E n \in fits : \A m \in fits : n <= m
    BY <1>2, <1>3, LeastExists
  <2>2. QED
    BY <2>1
<1> HIDE DEF k
<1>4. QED
  BY <1>1, <1>3 DEF fits, Substitutes

\* A reason why nobody comes on for somebody outlasts a substitution.
LEMMA ReasonsLast ==
  ASSUME NEW pos, NEW lineup, NEW team, team.field \in SUBSET Slots,
         IsLegalStartingXI(pos, team.field),
         NEW i \in team.field, NEW j \in Spare(lineup, team), j \in Slots \ team.field,
         pos[j] # "GK",
         NEW t, t = Changed(team, i, j), IsLegalStartingXI(pos, t.field),
         NEW h, Irreplaceable(pos, lineup, team, h)
  PROVE  Irreplaceable(pos, lineup, t, h)
<1>1. /\ t.field = (team.field \ {i}) \cup {j} /\ DOMAIN t.used = DOMAIN team.used \cup {j}
  BY DEF Changed
<1>2. Spare(lineup, t) \in SUBSET Spare(lineup, team)
  BY <1>1 DEF Spare
<1>3. \A q : Cardinality(At(pos, t.field, q))
               = Cardinality(At(pos, team.field, q)) - (IF pos[i] = q THEN 1 ELSE 0)
                   + (IF pos[j] = q THEN 1 ELSE 0)
  <2>1. j \in Slots \ team.field
    OBVIOUS
  <2>2. QED
    BY <1>1, <2>1, SwapIsLegal
<1>4. CASE pos[h] = "GK"
  BY <1>4 DEF Irreplaceable
<1>5. ASSUME NEW q, NEW least \in {1, 3}, Cardinality(At(pos, team.field, q)) = least,
             At(pos, Spare(lineup, team), q) = {}, Cardinality(At(pos, t.field, q)) >= least
      PROVE  Cardinality(At(pos, t.field, q)) = least /\ At(pos, Spare(lineup, t), q) = {}
  <2>1. At(pos, Spare(lineup, t), q) = {} /\ pos[j] # q
    BY <1>2, <1>5 DEF At
  <2>2. Cardinality(At(pos, t.field, q)) = least - (IF pos[i] = q THEN 1 ELSE 0) + 0
    BY <1>3, <1>5, <2>1
  <2>3. Cardinality(At(pos, t.field, q)) \in Int
    BY <2>2
  <2>4. QED
    BY <1>5, <2>1, <2>2, <2>3
<1>6. Cardinality(At(pos, t.field, "DEF")) >= 3 /\ Cardinality(At(pos, t.field, "FWD")) >= 1
  BY DEF IsLegalStartingXI
<1>7. CASE /\ pos[h] = "DEF" /\ Cardinality(At(pos, team.field, "DEF")) = 3
           /\ At(pos, Spare(lineup, team), "DEF") = {}
  <2>1. Cardinality(At(pos, t.field, "DEF")) = 3 /\ At(pos, Spare(lineup, t), "DEF") = {}
    BY <1>5, <1>6, <1>7
  <2>2. QED
    BY <1>7, <2>1 DEF Irreplaceable
<1>8. CASE /\ pos[h] = "FWD" /\ Cardinality(At(pos, team.field, "FWD")) = 1
           /\ At(pos, Spare(lineup, team), "FWD") = {}
  <2>1. Cardinality(At(pos, t.field, "FWD")) = 1 /\ At(pos, Spare(lineup, t), "FWD") = {}
    BY <1>5, <1>6, <1>8
  <2>2. QED
    BY <1>8, <2>1 DEF Irreplaceable
<1>9. Spare(lineup, team) # {}
  OBVIOUS
<1>10. QED
  BY <1>4, <1>7, <1>8, <1>9 DEF Irreplaceable

\* A turn keeps the team in order.
LEMMA TurnKeepsTeam ==
  ASSUME NEW pos, NEW lineup, KicksOff(pos, lineup), NEW blanks \in SUBSET lineup.starters,
         NEW P, NEW team, TeamOK(pos, lineup, blanks, P, team),
         NEW i \in lineup.starters \ P,
         NEW t, t = Turn(pos, lineup, blanks, team, i)
  PROVE  TeamOK(pos, lineup, blanks, P \cup {i}, t)
<1>1. /\ team.field \in SUBSET Slots /\ IsLegalStartingXI(pos, team.field)
      /\ \A h \in lineup.starters \ Range(team.used) : h \in team.field
      /\ \A j \in Spare(lineup, team) : j \in Slots \ team.field /\ pos[j] # "GK"
  BY TeamFacts
<1>2. /\ Range(team.used) \in SUBSET (P \cap blanks) /\ i \notin P /\ i \in team.field
      /\ i \notin Range(team.used) /\ i \in lineup.starters
  BY <1>1 DEF TeamOK
<1>3. DOMAIN lineup.bench \in SUBSET Nat
  BY DEF KicksOff
<1>4. CASE /\ i \notin blanks \/ Fitting(pos, lineup.bench, team, i) = {}
           /\ t = team
  <2>1. ASSUME i \in blanks PROVE Irreplaceable(pos, lineup, team, i)
    <3>1. Fitting(pos, lineup.bench, team, i) = {}
      BY <1>4, <2>1
    <3>2. SUFFICES ASSUME NEW j \in Spare(lineup, team) PROVE ~MayReplace(pos, team.field, i, j)
      BY <1>1, NobodyReplaces
    <3>3. ~IsLegalStartingXI(pos, (team.field \ {i}) \cup {j})
      BY <3>1, <3>2 DEF Fitting, Spare, Range
    <3>4. j \in Slots \ team.field /\ pos[j] # "GK"
      BY <1>1
    <3>5. QED
      BY <1>1, <1>2, <3>3, <3>4, SwapIsLegal
  <2>2. \A h \in ((P \cup {i}) \cap blanks) \ Range(team.used) : Irreplaceable(pos, lineup, team, h)
    BY <2>1 DEF TeamOK
  <2>3. QED
    BY <1>4, <2>2 DEF TeamOK
<1>5. ASSUME NEW k \in Fitting(pos, lineup.bench, team, i), i \in blanks,
             t = Changed(team, i, lineup.bench[k])
      PROVE  TeamOK(pos, lineup, blanks, P \cup {i}, t)
  <2>1. PICK j : j = lineup.bench[k]
    OBVIOUS
  <2>2. /\ j \in Spare(lineup, team) /\ IsLegalStartingXI(pos, (team.field \ {i}) \cup {j})
    BY <1>5, <2>1 DEF Fitting, Spare, Range
  <2>3. j \in Slots \ team.field /\ pos[j] # "GK" /\ j \notin lineup.starters
        /\ j \in Range(lineup.bench) /\ j \notin DOMAIN team.used
    BY <1>1, <2>2 DEF KicksOff, Spare
  <2>4. t = Changed(team, i, j)
    BY <1>5, <2>1
  <2>5. /\ t.field = (team.field \ {i}) \cup {j} /\ DOMAIN t.used = DOMAIN team.used \cup {j}
        /\ t.used[j] = i /\ \A on \in DOMAIN team.used : t.used[on] = team.used[on]
    BY <2>3, <2>4 DEF Changed
  <2>6. Range(t.used) = Range(team.used) \cup {i}
    BY <2>3, <2>5 DEF Range
  <2>7. MayReplace(pos, team.field, i, j)
    BY <1>1, <1>2, <2>2, <2>3, SwapIsLegal
  <2>8. pos[i] # "GK"
    BY <2>7 DEF MayReplace
  <2>9. OneToOne(t.used, DOMAIN t.used)
    <3>1. OneToOne(team.used, DOMAIN team.used)
      BY DEF TeamOK
    <3>2. \A on \in DOMAIN team.used : team.used[on] # i
      BY <1>2 DEF Range
    <3>3. QED
      BY <2>3, <2>5, <3>1, <3>2 DEF OneToOne
  <2>10. t.field = (lineup.starters \ Range(t.used)) \cup DOMAIN t.used
    <3>1. team.field = (lineup.starters \ Range(team.used)) \cup DOMAIN team.used
      BY DEF TeamOK
    <3>2. DOMAIN team.used \cap lineup.starters = {}
      BY DEF TeamOK, KicksOff
    <3>3. QED
      BY <1>2, <2>3, <2>5, <2>6, <3>1, <3>2
  <2>11. ASSUME NEW h \in ((P \cup {i}) \cap blanks) \ Range(t.used)
         PROVE  Irreplaceable(pos, lineup, t, h)
    <3>1. h \in (P \cap blanks) \ Range(team.used)
      BY <2>6, <2>11
    <3>2. Irreplaceable(pos, lineup, team, h)
      BY <3>1 DEF TeamOK
    <3>3. IsLegalStartingXI(pos, t.field)
      BY <2>2, <2>5
    <3>4. QED
      BY <1>1, <1>2, <2>2, <2>3, <2>4, <3>2, <3>3, ReasonsLast
  <2>12. DOMAIN t.used \in SUBSET Range(lineup.bench)
    BY <2>3, <2>5 DEF TeamOK
  <2>13. /\ Range(t.used) \in SUBSET ((P \cup {i}) \cap blanks)
         /\ \A h \in Range(t.used) : pos[h] # "GK"
    BY <1>2, <1>5, <2>6, <2>8 DEF TeamOK
  <2>14. IsLegalStartingXI(pos, t.field)
    BY <2>2, <2>5
  <2>15. QED
    BY <2>9, <2>10, <2>11, <2>12, <2>13, <2>14 DEF TeamOK
<1>6. QED
  BY <1>3, <1>4, <1>5, TurnsChange DEF Substitutes

\* The starters whose turn came up to the k-th.
Called(lineup, k) == {InSlotOrder(lineup.starters)[j] : j \in 1 .. k}

LEMMA StartersAreCalled ==
  ASSUME NEW S \in SUBSET Slots, Cardinality(S) = 11
  PROVE  /\ InSlotOrder(S) \in [1 .. 11 -> S]
         /\ OneToOne(InSlotOrder(S), 1 .. 11)
         /\ Onto(InSlotOrder(S), 1 .. 11, S)
<1> DEFINE zero == [i \in Slots |-> 0]
           a == InSlotOrder(S)
<1>1. Numbers(zero, S)
  BY DEF Numbers
<1>2. a = Ranked(zero, S)
  BY DEF InSlotOrder
<1>3. S \in SUBSET Int /\ IsFiniteSet(S)
  BY SlotsAreFinite
<1> HIDE DEF zero, a
<1>4. PICK n \in Nat : n = 11 /\ n = Cardinality(S)
  OBVIOUS
<1>5. /\ a \in [1 .. n -> S] /\ \A i, j \in 1 .. n : a[i] = a[j] => i = j
      /\ \A i \in S : \E k \in 1 .. n : a[k] = i
  <2>1. /\ Ranked(zero, S) \in [1 .. Cardinality(S) -> S]
        /\ \A k, l \in 1 .. Cardinality(S) :
             k < l => Ahead(zero, Ranked(zero, S)[k], Ranked(zero, S)[l])
        /\ \A k, l \in 1 .. Cardinality(S) : Ranked(zero, S)[k] = Ranked(zero, S)[l] => k = l
        /\ \A i \in S : \E k \in 1 .. Cardinality(S) : Ranked(zero, S)[k] = i
    BY ONLY <1>1, <1>3, RankedIsOrder
  <2>2. QED
    BY ONLY <1>2, <1>4, <2>1
<1>6. QED
  BY <1>4, <1>5 DEF a, OneToOne, Onto

Teams == [field : SUBSET Slots, used : UNION {[A -> Slots] : A \in SUBSET Slots}]

LEMMA TurnsStayTeams ==
  ASSUME NEW pos, NEW lineup, KicksOff(pos, lineup), NEW blanks, NEW team \in Teams,
         NEW i \in lineup.starters
  PROVE  Turn(pos, lineup, blanks, team, i) \in Teams
<1>1. i \in Slots /\ DOMAIN lineup.bench \in SUBSET Nat
  BY DEF KicksOff, IsEleven
<1>2. ASSUME NEW k \in Fitting(pos, lineup.bench, team, i)
      PROVE  Changed(team, i, lineup.bench[k]) \in Teams
  <2>1. PICK j \in Slots : j = lineup.bench[k]
    BY DEF KicksOff, Fitting, Range
  <2>2. /\ team.field \in SUBSET Slots
        /\ DOMAIN team.used \in SUBSET Slots /\ team.used \in [DOMAIN team.used -> Slots]
    BY DEF Teams
  <2>3. PICK A \in SUBSET Slots : A = DOMAIN team.used \cup {j}
    BY <2>2
  <2>4. [on \in A |-> IF on = j THEN i ELSE team.used[on]] \in [A -> Slots]
    BY <1>1, <2>2, <2>3
  <2>5. (team.field \ {i}) \cup {j} \in SUBSET Slots
    BY <2>2
  <2>6. QED
    BY <2>1, <2>3, <2>4, <2>5 DEF Teams, Changed
<1>3. QED
  <2>1. DOMAIN lineup.bench \in SUBSET Nat
    BY <1>1
  <2>2. Substitutes(pos, lineup, blanks, team, i, Turn(pos, lineup, blanks, team, i))
    BY ONLY <2>1, TurnsChange
  <2>3. QED
    BY <1>2, <2>2 DEF Substitutes

Turns(pos, lineup, blanks, g) ==
  g = [T \in SUBSET (1 .. 11) |->
         IF T = {} THEN KickOff(lineup)
         ELSE Turn(pos, lineup, blanks, g[T \ {Max(T)}], InSlotOrder(lineup.starters)[Max(T)])]

LEMMA SubstitutionsAreFold ==
  ASSUME NEW pos, NEW lineup, NEW blanks, DOMAIN InSlotOrder(lineup.starters) = 1 .. 11
  PROVE  ResolveSubstitutions(pos, lineup, blanks)
           = (CHOOSE g : Turns(pos, lineup, blanks, g))[1 .. 11]
BY DEF ResolveSubstitutions, FoldLeft, MapThenFoldSet, Turns, KickOff

\* When every starter's turn has come the team is in order.
LEMMA SubstitutionsAreOK ==
  ASSUME NEW pos, NEW lineup, KicksOff(pos, lineup), NEW blanks \in SUBSET lineup.starters
  PROVE  TeamOK(pos, lineup, blanks, lineup.starters, ResolveSubstitutions(pos, lineup, blanks))
<1>1. PICK n, seq, b : n = 11 /\ seq = InSlotOrder(lineup.starters) /\ b = KickOff(lineup)
  OBVIOUS
<1>2. n \in Nat /\ lineup.starters \in SUBSET Slots /\ Cardinality(lineup.starters) = 11
  BY <1>1 DEF KicksOff, IsEleven
<1>3. seq \in [1 .. n -> lineup.starters] /\ OneToOne(seq, 1 .. n) /\ Onto(seq, 1 .. n, lineup.starters)
  BY <1>1, <1>2, StartersAreCalled
<1> DEFINE F == [k \in 1 .. n |-> [y \in Teams |-> Turn(pos, lineup, blanks, y, seq[k])]]
           h == CHOOSE g : Turns(pos, lineup, blanks, g)
           C(k) == {seq[j] : j \in 1 .. k}
           R == [k \in 0 .. n |-> {y \in Teams : TeamOK(pos, lineup, blanks, C(k), y)}]
<1>4. b \in Teams /\ TeamOK(pos, lineup, blanks, {}, b)
  <2>1. <<>> \in [{} -> Slots] /\ {} \in SUBSET Slots
    OBVIOUS
  <2>2. b \in Teams
    BY <1>1, <1>2, <2>1 DEF Teams, KickOff
  <2>3. QED
    BY <1>1, <2>2, KickOffIsOK
<1>5. StepsIn(F, 1 .. n, Teams)
  BY <1>3, TurnsStayTeams DEF StepsIn
<1>6. PICK g : Folds(g, n, Teams, b, F)
  <2> HIDE DEF F
  <2>1. n \in Nat /\ b \in Teams /\ StepsIn(F, 1 .. n, Teams)
    BY <1>2, <1>4, <1>5
  <2>2. \E g : Folds(g, n, Teams, b, F)
    BY ONLY <2>1, FoldsExist
  <2>3. QED
    BY <2>2
<1>7. Turns(pos, lineup, blanks, g)
  BY <1>1, <1>6 DEF Turns, Folds
<1>8. Turns(pos, lineup, blanks, h)
  BY <1>7
<1> HIDE DEF h
<1>9. h[{}] \in R[0]
  <2>1. h[{}] = b
    BY <1>1, <1>8 DEF Turns
  <2>2. C(0) = {} /\ 0 \in 0 .. n
    BY <1>1
  <2>3. QED
    BY <1>4, <2>1, <2>2
<1>10. ASSUME NEW k \in 0 .. n - 1, h[1 .. k] \in R[k] PROVE h[1 .. k + 1] \in R[k + 1]
  <2>1. /\ 1 .. k + 1 \in SUBSET (1 .. n) /\ 1 .. k + 1 # {}
        /\ Max(1 .. k + 1) = k + 1 /\ (1 .. k + 1) \ {k + 1} = 1 .. k
    BY <1>2, NextTop
  <2>2. h[1 .. k + 1] = Turn(pos, lineup, blanks, h[1 .. k], seq[k + 1])
    BY <1>1, <1>8, <2>1 DEF Turns
  <2>3. k \in Nat /\ k \in 0 .. n /\ k + 1 \in 0 .. n /\ k + 1 \in 1 .. n
    BY <1>2
  <2>4. h[1 .. k] \in Teams /\ TeamOK(pos, lineup, blanks, C(k), h[1 .. k])
    BY <1>10, <2>3
  <2>5. C(k + 1) = C(k) \cup {seq[k + 1]} /\ seq[k + 1] \in lineup.starters \ C(k)
    <3>1. \A j \in 1 .. k + 1 : j \in 1 .. k \/ j = k + 1
      BY <2>3
    <3>2. \A j \in 1 .. k : j \in 1 .. k + 1 /\ j \in 1 .. n /\ j # k + 1
      BY <1>2, <2>3
    <3>3. k + 1 \in 1 .. k + 1
      BY <2>3
    <3>4. QED
      BY <1>3, <2>3, <3>1, <3>2, <3>3 DEF OneToOne
  <2> HIDE DEF C
  <2>6. PICK team, i, P : team = h[1 .. k] /\ i = seq[k + 1] /\ P = C(k)
    OBVIOUS
  <2>7. /\ KicksOff(pos, lineup) /\ blanks \in SUBSET lineup.starters
        /\ TeamOK(pos, lineup, blanks, P, team) /\ i \in lineup.starters \ P
        /\ h[1 .. k + 1] = Turn(pos, lineup, blanks, team, i)
    BY <2>2, <2>4, <2>5, <2>6
  <2>8. TeamOK(pos, lineup, blanks, P \cup {i}, h[1 .. k + 1])
    BY ONLY <2>7, TurnKeepsTeam
  <2>9. h[1 .. k + 1] \in Teams
    BY <2>4, <2>6, <2>7, TurnsStayTeams
  <2>10. TeamOK(pos, lineup, blanks, C(k + 1), h[1 .. k + 1])
    BY <2>5, <2>6, <2>8
  <2>11. QED
    BY <2>3, <2>9, <2>10
<1>11. h[1 .. n] \in R[n]
  <2> HIDE DEF R
  <2>1. QED
    BY <1>2, <1>9, <1>10, PrefixesStay
<1>12. C(n) = lineup.starters
  BY <1>3 DEF Onto
<1>13. ResolveSubstitutions(pos, lineup, blanks) = h[1 .. n]
  BY <1>1, <1>3, SubstitutionsAreFold DEF h
<1>14. TeamOK(pos, lineup, blanks, C(n), h[1 .. n])
  BY <1>2, <1>11
<1>15. QED
  BY <1>12, <1>13, <1>14

\* Nobody on the bench is passed over who could have come on.
LEMMA NobodyIsPassedOver ==
  ASSUME NEW pos, NEW lineup, KicksOff(pos, lineup), NEW blanks \in SUBSET lineup.starters,
         NEW team, TeamOK(pos, lineup, blanks, lineup.starters, team),
         NEW i \in blanks \ Range(team.used), NEW j \in Spare(lineup, team)
  PROVE  ~IsLegalStartingXI(pos, (team.field \ {i}) \cup {j})
<1>1. /\ team.field \in SUBSET Slots /\ IsLegalStartingXI(pos, team.field)
      /\ \A h \in lineup.starters \ Range(team.used) : h \in team.field
      /\ j \in Slots \ team.field /\ pos[j] # "GK"
  BY TeamFacts
<1>2. i \in team.field
  BY <1>1
<1>3. Irreplaceable(pos, lineup, team, i)
  BY DEF TeamOK
<1>4. ~MayReplace(pos, team.field, i, j)
  BY <1>1, <1>3, NobodyReplaces
<1>5. QED
  BY <1>1, <1>2, <1>4, SwapIsLegal

\* Who comes on and who goes off.
Outfield(pos, blanks) == blanks \ At(pos, blanks, "GK")

Replaces(pos, lineup, blanks, r) ==
  /\ r \in [on : SUBSET Range(lineup.bench), off : SUBSET Outfield(pos, blanks)]
  /\ Cardinality(r.on) = Cardinality(r.off)
  /\ IsLegalStartingXI(pos, (lineup.starters \ r.off) \cup r.on)

LEMMA ReplacementFacts ==
  ASSUME NEW pos, NEW lineup, NEW blanks, NEW r
  PROVE  r \in Replacements(pos, lineup, blanks) <=> Replaces(pos, lineup, blanks, r)
BY DEF Replacements, Outfield, Replaces

\* As many come on as go off.
LEMMA OnAndOff ==
  ASSUME NEW pos, NEW lineup, KicksOff(pos, lineup), NEW blanks \in SUBSET lineup.starters,
         NEW team, TeamOK(pos, lineup, blanks, lineup.starters, team)
  PROVE  /\ DOMAIN team.used \in SUBSET (Slots \ lineup.starters)
         /\ Range(team.used) \in SUBSET Outfield(pos, blanks)
         /\ Range(team.used) \in SUBSET lineup.starters
         /\ IsFiniteSet(DOMAIN team.used) /\ IsFiniteSet(Range(team.used))
         /\ Cardinality(DOMAIN team.used) = Cardinality(Range(team.used))
<1>1. /\ DOMAIN team.used \in SUBSET (Slots \ lineup.starters)
      /\ Range(team.used) \in SUBSET Outfield(pos, blanks)
      /\ Range(team.used) \in SUBSET lineup.starters
      /\ OneToOne(team.used, DOMAIN team.used)
  BY DEF TeamOK, KicksOff, Outfield, At
<1>2. DOMAIN team.used \in SUBSET Slots
  BY <1>1
<1>3. IsFiniteSet(DOMAIN team.used)
  BY <1>2, SlotsAreFinite
<1>4. PICK S, e : S = DOMAIN team.used /\ e = team.used
  OBVIOUS
<1>5. IsFiniteSet(Image(e, S)) /\ Cardinality(Image(e, S)) = Cardinality(S)
  BY <1>1, <1>3, <1>4, ImageCounts
<1>6. Image(e, S) = Range(team.used)
  BY <1>4 DEF Image, Range
<1>7. QED
  BY <1>1, <1>3, <1>4, <1>5, <1>6

\* What the substitutions did is one of the ways to bring players on.
LEMMA TeamIsReplacement ==
  ASSUME NEW pos, NEW lineup, KicksOff(pos, lineup), NEW blanks \in SUBSET lineup.starters,
         NEW team, TeamOK(pos, lineup, blanks, lineup.starters, team)
  PROVE  [on |-> DOMAIN team.used, off |-> Range(team.used)]
           \in Replacements(pos, lineup, blanks)
<1>1. PICK r : r = [on |-> DOMAIN team.used, off |-> Range(team.used)]
  OBVIOUS
<1>2. /\ DOMAIN team.used \in SUBSET Range(lineup.bench)
      /\ team.field = (lineup.starters \ Range(team.used)) \cup DOMAIN team.used
      /\ IsLegalStartingXI(pos, team.field)
  BY DEF TeamOK
<1>3. /\ Range(team.used) \in SUBSET Outfield(pos, blanks)
      /\ Cardinality(DOMAIN team.used) = Cardinality(Range(team.used))
  BY OnAndOff
<1>4. r.on = DOMAIN team.used /\ r.off = Range(team.used)
  BY <1>1
<1>5. r \in [on : SUBSET Range(lineup.bench), off : SUBSET Outfield(pos, blanks)]
  BY <1>1, <1>2, <1>3
<1>6. QED
  BY <1>1, <1>2, <1>3, <1>4, <1>5, ReplacementFacts DEF Replaces

\* Of no position does any other choice take more off.
LEMMA NoMoreGoOff ==
  ASSUME NEW pos, NEW lineup, KicksOff(pos, lineup), NEW blanks \in SUBSET lineup.starters,
         NEW team, TeamOK(pos, lineup, blanks, lineup.starters, team),
         Spare(lineup, team) # {},
         NEW r \in Replacements(pos, lineup, blanks),
         NEW q \in {"DEF", "MID", "FWD"}
  PROVE  Cardinality(At(pos, r.off, q)) <= Cardinality(At(pos, Range(team.used), q))
<1>1. /\ DOMAIN team.used \in SUBSET (Slots \ lineup.starters)
      /\ Range(team.used) \in SUBSET lineup.starters
      /\ lineup.starters \in SUBSET Slots
  BY OnAndOff DEF KicksOff, IsEleven
<1>2. /\ r.on \in SUBSET Range(lineup.bench) /\ r.off \in SUBSET Outfield(pos, blanks)
      /\ IsLegalStartingXI(pos, (lineup.starters \ r.off) \cup r.on)
  <2>1. Replaces(pos, lineup, blanks, r)
    BY ReplacementFacts
  <2>2. r \in [on : SUBSET Range(lineup.bench), off : SUBSET Outfield(pos, blanks)]
    BY <2>1 DEF Replaces
  <2>3. QED
    BY <2>1, <2>2 DEF Replaces
<1>3. r.on \in SUBSET (Slots \ lineup.starters) /\ r.off \in SUBSET lineup.starters
      /\ r.off \in SUBSET blanks
  BY <1>2 DEF KicksOff, Outfield
<1>4. CASE At(pos, blanks, q) \in SUBSET Range(team.used)
  <2>1. At(pos, r.off, q) \in SUBSET At(pos, Range(team.used), q)
    BY <1>3, <1>4 DEF At
  <2>2. At(pos, Range(team.used), q) \in SUBSET Slots
    BY <1>1 DEF At
  <2>3. QED
    BY <2>1, <2>2, SlotsAreFinite, FS_Subset
<1>5. ASSUME NEW i \in At(pos, blanks, q), i \notin Range(team.used)
      PROVE  Cardinality(At(pos, r.off, q)) <= Cardinality(At(pos, Range(team.used), q))
  <2>1. Irreplaceable(pos, lineup, team, i) /\ pos[i] = q
    BY <1>5 DEF TeamOK, At
  <2>2. PICK least \in {1, 3} :
          /\ q \in {"DEF", "FWD"} /\ least = IF q = "DEF" THEN 3 ELSE 1
          /\ Cardinality(At(pos, team.field, q)) = least
          /\ At(pos, Spare(lineup, team), q) = {}
    BY <2>1 DEF Irreplaceable
  <2>3. team.field = (lineup.starters \ Range(team.used)) \cup DOMAIN team.used
    BY DEF TeamOK
  <2>4. PICK S, O, U : S = lineup.starters /\ O = Range(team.used) /\ U = DOMAIN team.used
    OBVIOUS
  <2>5. Counted(pos, S, O, U, q)
    <3>1. S \in SUBSET Slots /\ O \in SUBSET S /\ U \in SUBSET (Slots \ S)
      BY <1>1, <2>4
    <3>2. QED
      BY ONLY <3>1, ChangesCount
  <2>6. PICK off, on : off = r.off /\ on = r.on
    OBVIOUS
  <2>7. Counted(pos, S, off, on, q)
    <3>1. S \in SUBSET Slots /\ off \in SUBSET S /\ on \in SUBSET (Slots \ S)
      BY <1>1, <1>3, <2>4, <2>6
    <3>2. QED
      BY ONLY <3>1, ChangesCount
  <2>8. Cardinality(At(pos, on, q)) <= Cardinality(At(pos, U, q))
    <3>1. At(pos, on, q) \in SUBSET At(pos, U, q)
      BY <1>2, <2>2, <2>4, <2>6 DEF At, Spare
    <3>2. At(pos, U, q) \in SUBSET Slots
      BY <1>1, <2>4 DEF At
    <3>3. QED
      BY <3>1, <3>2, SlotsAreFinite, FS_Subset
  <2>9. Cardinality(At(pos, (S \ off) \cup on, q)) >= least
    BY <1>2, <2>2, <2>4, <2>6 DEF IsLegalStartingXI
  <2>10. Cardinality(At(pos, (S \ O) \cup U, q)) = least
    BY <2>2, <2>3, <2>4
  <2>11. Cardinality(At(pos, off, q)) <= Cardinality(At(pos, O, q))
    BY ONLY <2>2, <2>5, <2>7, <2>8, <2>9, <2>10 DEF Counted
  <2>12. QED
    BY <2>4, <2>6, <2>11
<1>6. QED
  BY <1>4, <1>5

\* No other choice brings more players on.
LEMMA NoMoreComeOn ==
  ASSUME NEW pos, NEW lineup, KicksOff(pos, lineup), NEW blanks \in SUBSET lineup.starters,
         NEW team, TeamOK(pos, lineup, blanks, lineup.starters, team),
         NEW r \in Replacements(pos, lineup, blanks)
  PROVE  Cardinality(r.on) <= Cardinality(DOMAIN team.used)
<1>1. /\ DOMAIN team.used \in SUBSET (Slots \ lineup.starters)
      /\ Range(team.used) \in SUBSET Outfield(pos, blanks)
      /\ Range(team.used) \in SUBSET lineup.starters
      /\ Cardinality(DOMAIN team.used) = Cardinality(Range(team.used))
      /\ lineup.starters \in SUBSET Slots /\ pos \in [Slots -> Positions]
  BY OnAndOff DEF KicksOff, IsEleven, Formed
<1>2. /\ r.on \in SUBSET Range(lineup.bench) /\ r.off \in SUBSET Outfield(pos, blanks)
      /\ Cardinality(r.on) = Cardinality(r.off)
  <2>1. Replaces(pos, lineup, blanks, r)
    BY ReplacementFacts
  <2>2. r \in [on : SUBSET Range(lineup.bench), off : SUBSET Outfield(pos, blanks)]
    BY <2>1 DEF Replaces
  <2>3. QED
    BY <2>1, <2>2 DEF Replaces
<1>3. CASE Spare(lineup, team) = {}
  <2>1. r.on \in SUBSET DOMAIN team.used
    BY <1>2, <1>3 DEF Spare
  <2>2. IsFiniteSet(DOMAIN team.used)
    BY OnAndOff
  <2>3. QED
    BY <2>1, <2>2, FS_Subset
<1>4. CASE Spare(lineup, team) # {}
  <2>1. PICK off, O : off = r.off /\ O = Range(team.used)
    OBVIOUS
  <2>2. off \in SUBSET Slots /\ O \in SUBSET Slots
    BY <1>1, <1>2, <2>1 DEF Outfield
  <2>3. /\ Cardinality(At(pos, off, "DEF")) <= Cardinality(At(pos, O, "DEF"))
        /\ Cardinality(At(pos, off, "MID")) <= Cardinality(At(pos, O, "MID"))
        /\ Cardinality(At(pos, off, "FWD")) <= Cardinality(At(pos, O, "FWD"))
    BY <1>4, <2>1, NoMoreGoOff
  <2>4. At(pos, off, "GK") = {} /\ At(pos, O, "GK") = {}
    BY <1>1, <1>2, <2>1 DEF Outfield, At
  <2>5. Cardinality(At(pos, off, "GK")) = 0 /\ Cardinality(At(pos, O, "GK")) = 0
    BY <2>4, FS_EmptySet
  <2>6. PICK zero : zero = [i \in Slots |-> 0]
    OBVIOUS
  <2>7. Numbers(zero, Slots)
    BY <2>6 DEF Numbers
  <2>8. /\ Cardinality(off) = Cardinality(At(pos, off, "GK")) + Cardinality(At(pos, off, "DEF"))
                                + Cardinality(At(pos, off, "MID")) + Cardinality(At(pos, off, "FWD"))
        /\ Cardinality(O) = Cardinality(At(pos, O, "GK")) + Cardinality(At(pos, O, "DEF"))
                              + Cardinality(At(pos, O, "MID")) + Cardinality(At(pos, O, "FWD"))
    BY <1>1, <2>2, <2>7, ByPosition
  <2>9. \A S \in SUBSET Slots : \A q : Cardinality(At(pos, S, q)) \in Nat
    BY SlotsAreFinite DEF At
  <2>10. Cardinality(off) <= Cardinality(O)
    BY <2>2, <2>3, <2>5, <2>8, <2>9
  <2>11. QED
    BY <1>1, <1>2, <2>1, <2>10
<1>5. QED
  BY <1>3, <1>4

\* Who came on, and the goalkeeper if he was needed.
Entered(pos, lineup, blanks, on) ==
  on \cup {i \in {lineup.benchKeeper} : At(pos, blanks, "GK") # {}}

LEMMA BenchIsWorth ==
  ASSUME NEW pos, NEW lineup, KicksOff(pos, lineup),
         lineup.benchKeeper \in Slots \ Range(lineup.bench),
         NEW xp, Numbers(xp, Slots), NEW blanks \in SUBSET lineup.starters,
         NEW team, team = ResolveSubstitutions(pos, lineup, blanks)
  PROVE  BenchPoints(pos, lineup, xp, blanks)
           = Points(xp, Entered(pos, lineup, blanks, DOMAIN team.used))
<1>1. PICK on, k : on = DOMAIN team.used /\ k = lineup.benchKeeper
  OBVIOUS
<1>2. TeamOK(pos, lineup, blanks, lineup.starters, team)
  BY SubstitutionsAreOK
<1>3. on \in SUBSET Range(lineup.bench) /\ on \in SUBSET Slots /\ k \in Slots /\ k \notin on
  BY <1>1, <1>2 DEF TeamOK, KicksOff
<1>4. IsFiniteSet(on) /\ Numbers(xp, on \cup {k})
  BY <1>3, SlotsAreFinite DEF Numbers
<1>5. BenchPoints(pos, lineup, xp, blanks)
        = Points(xp, on) + IF At(pos, blanks, "GK") # {} THEN xp[k] ELSE 0
  BY <1>1 DEF BenchPoints
<1>6. Points(xp, on) \in Int /\ xp[k] \in Int
  BY <1>3, PointsAreWhole DEF Numbers
<1>7. Points(xp, on \cup {k}) = xp[k] + Points(xp, on)
  BY <1>3, <1>4, SumAdds, PointsAreSums
<1>8. CASE At(pos, blanks, "GK") = {}
  <2>1. Entered(pos, lineup, blanks, on) = on
    BY <1>8 DEF Entered
  <2>2. QED
    BY <1>1, <1>5, <1>6, <1>8, <2>1
<1>9. CASE At(pos, blanks, "GK") # {}
  <2>1. Entered(pos, lineup, blanks, on) = on \cup {k}
    BY <1>1, <1>9 DEF Entered
  <2>2. BenchPoints(pos, lineup, xp, blanks) = Points(xp, on) + xp[k]
    BY <1>5, <1>9
  <2>3. Points(xp, on) + xp[k] = Points(xp, on \cup {k})
    BY ONLY <1>6, <1>7
  <2>4. QED
    BY <1>1, <2>1, <2>2, <2>3
<1>10. QED
  BY <1>8, <1>9

LEMMA SlotsCount == Cardinality(Slots) = 15
<1>1. PICK n \in Nat : n = 15
  OBVIOUS
<1>2. Cardinality(1 .. n) = IF 1 <= n THEN n - 1 + 1 ELSE 0
  BY FS_Interval
<1>3. QED
  BY <1>1, <1>2 DEF Slots

\* Eleven starters, one goalkeeper and three others on the bench.
LEMMA BenchIsComplete ==
  ASSUME NEW pos, Formed(pos), NEW S, IsEleven(pos, S)
  PROVE  /\ IsFiniteSet(At(pos, Slots \ S, "GK")) /\ Cardinality(At(pos, Slots \ S, "GK")) = 1
         /\ Cardinality((Slots \ S) \ At(pos, Slots \ S, "GK")) = 3
<1> DEFINE K == At(pos, Slots, "GK")
           A == At(pos, S, "GK")
           B == At(pos, Slots \ S, "GK")
           R == (Slots \ S) \ B
<1>1. /\ S \in SUBSET Slots /\ Cardinality(S) = 11 /\ Cardinality(A) = 1 /\ Cardinality(K) = 2
  BY DEF IsEleven, IsLegalStartingXI, Formed, PositionCounts, Positions
<1>2. /\ K = A \cup B /\ A \cap B = {} /\ Slots = (S \cup B) \cup R
      /\ S \cap B = {} /\ (S \cup B) \cap R = {}
      /\ A \in SUBSET Slots /\ B \in SUBSET Slots /\ R \in SUBSET Slots
      /\ S \cup B \in SUBSET Slots
  BY <1>1 DEF At
<1>3. Cardinality(Slots) = 15
  BY SlotsCount
<1> HIDE DEF K, A, B, R
<1>4. /\ IsFiniteSet(S) /\ IsFiniteSet(A) /\ IsFiniteSet(B) /\ IsFiniteSet(R)
      /\ IsFiniteSet(S \cup B)
      /\ Cardinality(B) \in Nat /\ Cardinality(R) \in Nat /\ Cardinality(S \cup B) \in Nat
  BY <1>1, <1>2, SlotsAreFinite
<1>5. Cardinality(A \cup B) = Cardinality(A) + Cardinality(B)
  BY <1>2, <1>4, DisjointCount
<1>6. Cardinality(S \cup B) = Cardinality(S) + Cardinality(B)
  BY <1>2, <1>4, DisjointCount
<1>7. Cardinality((S \cup B) \cup R) = Cardinality(S \cup B) + Cardinality(R)
  BY <1>2, <1>4, DisjointCount
<1>8. Cardinality(B) = 1
  BY <1>1, <1>2, <1>4, <1>5
<1>9. Cardinality(R) = 3
  BY <1>1, <1>2, <1>3, <1>4, <1>6, <1>7, <1>8
<1>10. QED
  BY <1>4, <1>8, <1>9 DEF B, R

\* A lineup puts every slot somewhere.
LEMMA LineupIsPermutation ==
  ASSUME NEW pos, Formed(pos), NEW xp, Numbers(xp, Slots),
         NEW lineup, lineup = RecommendLineup(pos, xp)
  PROVE  /\ LineupSlots(lineup) \in [Slots -> Slots]
         /\ OneToOne(LineupSlots(lineup), Slots)
<1> DEFINE S == Starters(pos, xp)
           K == At(pos, Slots \ S, "GK")
           B == (Slots \ S) \ K
           k == CHOOSE i \in K : TRUE
           a == InSlotOrder(S)
           c == Ranked(xp, B)
           p == InParts(a, k, c)
<1>1. lineup.starters = S /\ lineup.benchKeeper = k /\ lineup.bench = c
  BY DEF RecommendLineup, Led, Lineup
<1>2. IsEleven(pos, S)
  BY StartersBeatAll
<1> HIDE DEF S, p
<1>3. /\ S \in SUBSET Slots /\ Cardinality(S) = 11
      /\ IsFiniteSet(K) /\ Cardinality(K) = 1 /\ Cardinality(B) = 3
  BY <1>2, BenchIsComplete DEF IsEleven
<1>4. K \in SUBSET (Slots \ S) /\ B \in SUBSET Slots /\ B \cap S = {} /\ B \cap K = {}
  BY DEF At
<1> HIDE DEF K, B
<1>5. k \in K
  <2>1. K # {}
    BY <1>3, FS_EmptySet
  <2>2. QED
    BY <2>1
<1>6. /\ a \in [1 .. 11 -> S] /\ \A i, j \in 1 .. 11 : a[i] = a[j] => i = j
  <2> DEFINE zero == [i \in Slots |-> 0]
  <2>1. Numbers(zero, S)
    BY <1>3 DEF Numbers
  <2>2. a = Ranked(zero, S)
    BY DEF InSlotOrder
  <2>3. S \in SUBSET Int /\ IsFiniteSet(S)
    BY <1>3, SlotsAreFinite
  <2> HIDE DEF zero, a
  <2>4. PICK n \in Nat : n = 11 /\ n = Cardinality(S)
    BY <1>3
  <2>5. a \in [1 .. n -> S] /\ \A i, j \in 1 .. n : a[i] = a[j] => i = j
    BY <2>1, <2>2, <2>3, <2>4, RankedIsOrder
  <2>6. QED
    BY <2>4, <2>5
<1>7. /\ c \in [1 .. 3 -> B] /\ \A i, j \in 1 .. 3 : c[i] = c[j] => i = j
  <2>1. Numbers(xp, B)
    BY <1>4 DEF Numbers
  <2>2. B \in SUBSET Int /\ IsFiniteSet(B)
    BY <1>4, SlotsAreFinite
  <2> HIDE DEF c
  <2>3. PICK n \in Nat : n = 3 /\ n = Cardinality(B)
    BY <1>3
  <2>4. c \in [1 .. n -> B] /\ \A i, j \in 1 .. n : c[i] = c[j] => i = j
    BY <2>1, <2>2, <2>3, RankedIsOrder DEF c
  <2>5. QED
    BY <2>3, <2>4
<1> HIDE DEF k, a, c
<1>8. LineupSlots(lineup) = p
  <2>1. LineupSlots(lineup) = a \o <<k>> \o c
    BY <1>1 DEF LineupSlots, a
  <2>2. a \in [1 .. 11 -> Slots] /\ k \in Slots /\ c \in [1 .. 3 -> Slots]
    BY <1>3, <1>4, <1>5, <1>6, <1>7
  <2>3. a \in Seq(Slots) /\ Len(a) = 11 /\ c \in Seq(Slots) /\ Len(c) = 3
    BY <2>2, FunctionsAreSequences
  <2>4. QED
    BY <2>1, <2>2, <2>3, PartsJoin DEF p
<1>9. \A i \in Slots : /\ i <= 11 => p[i] \in S /\ p[i] = a[i] /\ i \in 1 .. 11
                       /\ i = 12 => p[i] \in K
                       /\ i > 12 => p[i] \in B /\ p[i] = c[i - 12] /\ i - 12 \in 1 .. 3
  BY <1>5, <1>6, <1>7 DEF Slots, p, InParts
<1>10. p \in [Slots -> Slots]
  <2>1. \A i \in Slots : i <= 11 \/ i = 12 \/ i > 12
    BY DEF Slots
  <2>2. \A i \in Slots : p[i] \in Slots
    BY <1>3, <1>4, <1>9, <2>1
  <2>3. QED
    BY <2>2 DEF p, InParts
<1>11. ASSUME NEW i \in Slots, NEW j \in Slots, p[i] = p[j] PROVE i = j
  <2>1. CASE i <= 11 /\ j <= 11
    BY <1>6, <1>9, <1>11, <2>1
  <2>2. CASE i > 12 /\ j > 12
    <3>1. i - 12 \in 1 .. 3 /\ j - 12 \in 1 .. 3 /\ c[i - 12] = c[j - 12]
      BY <1>9, <1>11, <2>2
    <3>2. i - 12 = j - 12
      BY <1>7, <3>1
    <3>3. QED
      BY <3>2 DEF Slots
  <2>3. CASE i = 12 /\ j = 12
    BY <2>3
  <2>4. ~(p[i] \in S /\ p[j] \in K) /\ ~(p[i] \in S /\ p[j] \in B) /\ ~(p[i] \in K /\ p[j] \in B)
        /\ ~(p[j] \in S /\ p[i] \in K) /\ ~(p[j] \in S /\ p[i] \in B) /\ ~(p[j] \in K /\ p[i] \in B)
    BY <1>4, <1>11
  <2>5. i <= 11 \/ i = 12 \/ i > 12
    BY DEF Slots
  <2>6. j <= 11 \/ j = 12 \/ j > 12
    BY DEF Slots
  <2>7. QED
    BY <1>9, <2>1, <2>2, <2>3, <2>4, <2>5, <2>6
<1>12. QED
  BY <1>8, <1>10, <1>11 DEF OneToOne

\* What the substitutions of a Gameweek promise.
SubbedFairly(pos, xp, lineup, blanks, team, worth) ==
  /\ IsLegalStartingXI(pos, team.field)
  /\ Range(team.used) \subseteq blanks
  /\ \A r \in Replacements(pos, lineup, blanks) :
       Cardinality(r.on) <= Cardinality(DOMAIN team.used)
  /\ \E r \in Replacements(pos, lineup, blanks) :
       worth = Points(xp, Entered(pos, lineup, blanks, r.on))
  /\ \A i \in blanks \ Range(team.used), j \in Range(lineup.bench) \ DOMAIN team.used :
       ~IsLegalStartingXI(pos, (team.field \ {i}) \cup {j})
==============================================================================

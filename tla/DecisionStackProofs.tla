------------------------- MODULE DecisionStackProofs -------------------------
(***************************************************************************)
(* The decisions are sound for every market, every squad and every budget: *)
(* the lineup is a best one the rules allow, substitutions leave a legal   *)
(* team and pass nobody over, plans spend neither money nor transfers they *)
(* do not have, promise no less than doing nothing and give nothing up     *)
(* that the beam had room for, advice can be followed, moving players      *)
(* creates no money, a wildcard is worth playing, a squad is rated fairly, *)
(* and a search with room for it finds every squad there is to find.       *)
(*                                                                         *)
(* LineupProofs has what holds of lineups.  The order here is that of the  *)
(* code's calls: the slots and rosters of a search, squads and the moves   *)
(* that change them, plans week by week, wildcards, the state machine's    *)
(* invariant with one lemma for each action, what a benchmark samples and  *)
(* how it rates, what plans promise: the order they are kept in, week      *)
(* after week however narrow the beam, and what that means for a wildcard, *)
(* what substitutions leave, the paths that a wide beam keeps, the advice  *)
(* of a single week, and at last the search again: what a wide beam finds, *)
(* and that its audit is clean.                                            *)
(***************************************************************************)
EXTENDS DecisionStack, LineupProofs

-----------------------------------------------------------------------------
(* The players of a squad. *)

\* The slots of a provisional squad, and the order in which they are filled.
LEMMA LayoutIsFormed == Formed(Layout) /\ Formed(Order)
<1>1. Layout \in [Slots -> Positions] /\ Order \in [Slots -> Positions]
  BY DEF Layout, Order, Slots, Positions
<1>2. /\ At(Layout, Slots, "GK") = {1, 12}
      /\ At(Layout, Slots, "DEF") = {2, 3, 4, 13, 14}
      /\ At(Layout, Slots, "MID") = {5, 6, 7, 8, 15}
      /\ At(Layout, Slots, "FWD") = {9, 10, 11}
  BY DEF At, Layout, Slots
<1>3. /\ At(Order, Slots, "GK") = {14, 15}
      /\ At(Order, Slots, "DEF") = {9, 10, 11, 12, 13}
      /\ At(Order, Slots, "MID") = {4, 5, 6, 7, 8}
      /\ At(Order, Slots, "FWD") = {1, 2, 3}
  BY DEF At, Order, Slots
<1>4. /\ PositionCounts["GK"] = 2 /\ PositionCounts["DEF"] = 5
      /\ PositionCounts["MID"] = 5 /\ PositionCounts["FWD"] = 3
  BY DEF PositionCounts, Positions
<1>5. Cardinality({1, 12}) = 2 /\ Cardinality({14, 15}) = 2
  <2>1. Cardinality({1, 12}) = 2
    <3>1. PICK a, b : a = 1 /\ b = 12
      OBVIOUS
    <3>2. a # b
      BY <3>1
    <3>3. Cardinality({a, b}) = 2
      BY <3>2, TwoThings
    <3>4. QED
      BY <3>1, <3>3
  <2>2. Cardinality({14, 15}) = 2
    <3>1. PICK a, b : a = 14 /\ b = 15
      OBVIOUS
    <3>2. a # b
      BY <3>1
    <3>3. Cardinality({a, b}) = 2
      BY <3>2, TwoThings
    <3>4. QED
      BY <3>1, <3>3
  <2>3. QED
    BY <2>1, <2>2
<1>6. Cardinality({9, 10, 11}) = 3 /\ Cardinality({1, 2, 3}) = 3
  <2>1. Cardinality({9, 10, 11}) = 3
    <3>1. PICK a, b, c : a = 9 /\ b = 10 /\ c = 11
      OBVIOUS
    <3>2. a # b /\ a # c /\ b # c
      BY <3>1
    <3>3. Cardinality({a, b, c}) = 3
      BY <3>2, ThreeThings
    <3>4. QED
      BY <3>1, <3>3
  <2>2. Cardinality({1, 2, 3}) = 3
    <3>1. PICK a, b, c : a = 1 /\ b = 2 /\ c = 3
      OBVIOUS
    <3>2. a # b /\ a # c /\ b # c
      BY <3>1
    <3>3. Cardinality({a, b, c}) = 3
      BY <3>2, ThreeThings
    <3>4. QED
      BY <3>1, <3>3
  <2>3. QED
    BY <2>1, <2>2
<1>7. /\ Cardinality({2, 3, 4, 13, 14}) = 5 /\ Cardinality({5, 6, 7, 8, 15}) = 5
      /\ Cardinality({9, 10, 11, 12, 13}) = 5 /\ Cardinality({4, 5, 6, 7, 8}) = 5
  <2>1. Cardinality({2, 3, 4, 13, 14}) = 5
    <3>1. PICK a, b, c, d, e : a = 2 /\ b = 3 /\ c = 4 /\ d = 13 /\ e = 14
      OBVIOUS
    <3>2. /\ a # b /\ a # c /\ a # d /\ a # e /\ b # c
          /\ b # d /\ b # e /\ c # d /\ c # e /\ d # e
      BY <3>1
    <3>3. Cardinality({a, b, c, d, e}) = 5
      BY <3>2, FiveThings
    <3>4. QED
      BY <3>1, <3>3
  <2>2. Cardinality({5, 6, 7, 8, 15}) = 5
    <3>1. PICK a, b, c, d, e : a = 5 /\ b = 6 /\ c = 7 /\ d = 8 /\ e = 15
      OBVIOUS
    <3>2. /\ a # b /\ a # c /\ a # d /\ a # e /\ b # c
          /\ b # d /\ b # e /\ c # d /\ c # e /\ d # e
      BY <3>1
    <3>3. Cardinality({a, b, c, d, e}) = 5
      BY <3>2, FiveThings
    <3>4. QED
      BY <3>1, <3>3
  <2>3. Cardinality({9, 10, 11, 12, 13}) = 5
    <3>1. PICK a, b, c, d, e : a = 9 /\ b = 10 /\ c = 11 /\ d = 12 /\ e = 13
      OBVIOUS
    <3>2. /\ a # b /\ a # c /\ a # d /\ a # e /\ b # c
          /\ b # d /\ b # e /\ c # d /\ c # e /\ d # e
      BY <3>1
    <3>3. Cardinality({a, b, c, d, e}) = 5
      BY <3>2, FiveThings
    <3>4. QED
      BY <3>1, <3>3
  <2>4. Cardinality({4, 5, 6, 7, 8}) = 5
    <3>1. PICK a, b, c, d, e : a = 4 /\ b = 5 /\ c = 6 /\ d = 7 /\ e = 8
      OBVIOUS
    <3>2. /\ a # b /\ a # c /\ a # d /\ a # e /\ b # c
          /\ b # d /\ b # e /\ c # d /\ c # e /\ d # e
      BY <3>1
    <3>3. Cardinality({a, b, c, d, e}) = 5
      BY <3>2, FiveThings
    <3>4. QED
      BY <3>1, <3>3
  <2>5. QED
    BY <2>1, <2>2, <2>3, <2>4
<1>8. QED
  BY <1>1, <1>2, <1>3, <1>4, <1>5, <1>6, <1>7 DEF Formed, Positions

\* As many of every position as a squad needs.
Filled(S) ==
  /\ S \in SUBSET Players
  /\ \A q \in Positions : Cardinality(OfPosition(S, q)) = PositionCounts[q]

\* Fifteen players in fifteen slots.
Fielded(order) == order \in [Slots -> Players] /\ OneToOne(order, Slots)

PlacesOf(order) == [i \in Slots |-> PositionOf[order[i]]]

LEMMA PlayersAreFinite ==
  /\ Players \in SUBSET Int
  /\ \A S \in SUBSET Players : IsFiniteSet(S) /\ Cardinality(S) \in Nat /\ S \in SUBSET Int
  /\ \A S \in SUBSET Players, q \in Positions : OfPosition(S, q) \in SUBSET S
<1>1. Players \in SUBSET Int /\ IsFiniteSet(Players)
  BY PlayersAssumption
<1>2. QED
  BY <1>1, FS_Subset, FS_CardinalityType DEF OfPosition

\* The slots of a position are as many as its players.
LEMMA PlacesCount ==
  ASSUME NEW order, Fielded(order), NEW q \in Positions
  PROVE  Cardinality(At(PlacesOf(order), Slots, q)) = Cardinality(OfPosition(Range(order), q))
<1> DEFINE A == At(PlacesOf(order), Slots, q)
           T == OfPosition(Range(order), q)
           f == [i \in A |-> order[i]]
<1>1. A \in SUBSET Slots
  BY DEF At
<1>2. IsFiniteSet(A)
  BY <1>1, SlotsAreFinite
<1>3. \A i \in A : order[i] \in T
  BY <1>1 DEF At, PlacesOf, Fielded, OfPosition, Range
<1>4. f \in [A -> T]
  BY <1>3
<1>5. OneToOne(f, A)
  BY <1>1 DEF OneToOne, Fielded
<1>6. Onto(f, A, T)
  <2>1. SUFFICES ASSUME NEW t \in T PROVE \E i \in A : f[i] = t
    BY DEF Onto
  <2>2. t \in Range(order) /\ PositionOf[t] = q
    BY DEF OfPosition
  <2>3. PICK i \in DOMAIN order : order[i] = t
    BY <2>2 DEF Range
  <2>4. i \in Slots
    BY <2>3 DEF Fielded
  <2>5. i \in A
    BY <2>2, <2>3, <2>4 DEF At, PlacesOf
  <2>6. QED
    BY <2>3, <2>5
<1>7. QED
  <2> HIDE DEF f, A, T
  <2>1. Cardinality(T) = Cardinality(A)
    BY <1>2, <1>4, <1>5, <1>6, OneToOneCounts
  <2>2. QED
    BY <2>1 DEF A, T

LEMMA FilledPlaces ==
  ASSUME NEW order, Fielded(order)
  PROVE  Formed(PlacesOf(order)) <=> Filled(Range(order))
<1>1. Range(order) \in SUBSET Players
  BY DEF Range, Fielded
<1>2. PlacesOf(order) \in [Slots -> Positions]
  BY PlayersAssumption DEF PlacesOf, Fielded
<1>3. QED
  BY <1>1, <1>2, PlacesCount DEF Formed, Filled

LEMMA FilledIsFifteen ==
  ASSUME NEW S, Filled(S)
  PROVE  IsFiniteSet(S) /\ Cardinality(S) = 15
<1> DEFINE A == OfPosition(S, "GK")
           B == OfPosition(S, "DEF")
           C == OfPosition(S, "MID")
           D == OfPosition(S, "FWD")
<1>1. /\ A \in SUBSET Players /\ B \in SUBSET Players /\ C \in SUBSET Players
      /\ D \in SUBSET Players
      /\ A \cap B = {} /\ (A \cup B) \cap C = {} /\ ((A \cup B) \cup C) \cap D = {}
  BY DEF OfPosition, Filled
<1>2. S = ((A \cup B) \cup C) \cup D
  BY PlayersAssumption DEF OfPosition, Positions, Filled
<1>3. /\ Cardinality(A) = 2 /\ Cardinality(B) = 5 /\ Cardinality(C) = 5 /\ Cardinality(D) = 3
  BY DEF Filled, PositionCounts, Positions
<1> HIDE DEF A, B, C, D
<1>4. /\ IsFiniteSet(A) /\ IsFiniteSet(B) /\ IsFiniteSet(C) /\ IsFiniteSet(D)
      /\ IsFiniteSet(A \cup B) /\ IsFiniteSet((A \cup B) \cup C)
  BY <1>1, PlayersAreFinite, FS_Union
<1>5. Cardinality(A \cup B) = Cardinality(A) + Cardinality(B)
  BY <1>1, <1>4, DisjointCount
<1>6. Cardinality((A \cup B) \cup C) = Cardinality(A \cup B) + Cardinality(C)
  BY <1>1, <1>4, DisjointCount
<1>7. Cardinality(((A \cup B) \cup C) \cup D) = Cardinality((A \cup B) \cup C) + Cardinality(D)
  BY <1>1, <1>4, DisjointCount
<1>8. IsFiniteSet(S)
  BY PlayersAreFinite DEF Filled
<1>9. QED
  BY <1>2, <1>3, <1>5, <1>6, <1>7, <1>8

\* How many slots of the layout up to a slot are for its position.
Turned(i) == Cardinality({j \in 1 .. i : Layout[j] = Layout[i]})

LEMMA TurnsAreCounted ==
  /\ \A i \in Slots : Turned(i) \in 1 .. PositionCounts[Layout[i]]
  /\ \A i, j \in Slots : i # j /\ Layout[i] = Layout[j] => Turned(i) # Turned(j)
<1> DEFINE P(i) == {j \in 1 .. i : Layout[j] = Layout[i]}
<1>1. Layout \in [Slots -> Positions]
  BY LayoutIsFormed DEF Formed
<1>2. ASSUME NEW i \in Slots
      PROVE  /\ P(i) \in SUBSET At(Layout, Slots, Layout[i]) /\ i \in P(i)
             /\ IsFiniteSet(P(i)) /\ Cardinality(P(i)) \in 1 .. PositionCounts[Layout[i]]
  <2>1. P(i) \in SUBSET At(Layout, Slots, Layout[i]) /\ i \in P(i)
    BY DEF At, Slots
  <2>2. At(Layout, Slots, Layout[i]) \in SUBSET Slots
    BY DEF At
  <2>3. Cardinality(At(Layout, Slots, Layout[i])) = PositionCounts[Layout[i]]
    BY <1>1, LayoutIsFormed DEF Formed
  <2> HIDE DEF P
  <2>4. IsFiniteSet(At(Layout, Slots, Layout[i]))
    BY <2>2, SlotsAreFinite
  <2>5. IsFiniteSet(P(i)) /\ Cardinality(P(i)) <= PositionCounts[Layout[i]]
    BY <2>1, <2>3, <2>4, FS_Subset
  <2>6. Cardinality(P(i)) # 0
    BY <2>1, <2>5, FS_EmptySet
  <2>7. Cardinality(P(i)) \in Nat /\ PositionCounts[Layout[i]] \in Nat
    BY <2>2, <2>3, <2>5, SlotsAreFinite, FS_CardinalityType
  <2>8. QED
    BY <2>1, <2>5, <2>6, <2>7
<1>3. ASSUME NEW i \in Slots, NEW j \in Slots, i < j, Layout[i] = Layout[j]
      PROVE  Cardinality(P(i)) # Cardinality(P(j))
  <2>1. P(i) \in SUBSET P(j) /\ j \notin P(i)
    BY <1>3 DEF Slots
  <2> HIDE DEF P
  <2>2. P(i) # P(j)
    BY <1>2, <2>1
  <2>3. QED
    BY <1>2, <2>1, <2>2, FS_Subset
<1>4. \A i, j \in Slots : i # j => i < j \/ j < i
  BY DEF Slots
<1>5. QED
  BY <1>2, <1>3, <1>4 DEF Turned

Placing(S, xp) == [i \in Slots |-> Ranked(xp, OfPosition(S, Layout[i]))[Turned(i)]]

\* The two parts of a provisional squad, one after the other.
LEMMA ProvisionalIsPlacing ==
  ASSUME NEW S, NEW xp, Placing(S, xp) \in [Slots -> S]
  PROVE  Provisional(S, xp) = Placing(S, xp)
<1> DEFINE o == Placing(S, xp)
           s == [i \in 1 .. 11 |-> o[i]]
           t == [i \in 1 .. 4 |-> o[11 + i]]
<1>1. Provisional(S, xp) = s \o t
  <2>1. \A i \in Slots : o[i] = Ranked(xp, OfPosition(S, Layout[i]))[Turned(i)]
    BY DEF Placing
  <2>2. s = [i \in 1 .. 11 |-> Ranked(xp, OfPosition(S, Layout[i]))[Turned(i)]]
    BY <2>1 DEF Slots
  <2>3. t = [i \in 1 .. 4 |-> Ranked(xp, OfPosition(S, Layout[11 + i]))[Turned(11 + i)]]
    BY <2>1 DEF Slots
  <2>4. QED
    BY <2>2, <2>3 DEF Provisional, Turned
<1> HIDE DEF o
<1>2. s \in Seq(S) /\ Len(s) = 11 /\ t \in Seq(S) /\ Len(t) = 4
  BY DEF Slots, o
<1>3. s \o t \in Seq(S) /\ Len(s \o t) = 15
  BY <1>2
<1>4. \A i \in 1 .. 15 : (s \o t)[i] = o[i]
  BY <1>2
<1>5. QED
  BY <1>1, <1>3, <1>4 DEF Slots, o

\* A provisional squad puts all the players into slots of their positions.
LEMMA ProvisionalFits ==
  ASSUME NEW S, Filled(S), NEW xp, Numbers(xp, S)
  PROVE  /\ Provisional(S, xp) \in [Slots -> S] /\ OneToOne(Provisional(S, xp), Slots)
         /\ \A i \in Slots : PositionOf[Provisional(S, xp)[i]] = Layout[i]
<1> DEFINE T(i) == OfPosition(S, Layout[i])
           o == Placing(S, xp)
<1>1. Layout \in [Slots -> Positions]
  BY LayoutIsFormed DEF Formed
<1>2. ASSUME NEW i \in Slots
      PROVE  /\ Ranked(xp, T(i)) \in [1 .. PositionCounts[Layout[i]] -> T(i)]
             /\ \A k, l \in 1 .. PositionCounts[Layout[i]] :
                  Ranked(xp, T(i))[k] = Ranked(xp, T(i))[l] => k = l
  <2>1. S \in SUBSET Players /\ Cardinality(T(i)) = PositionCounts[Layout[i]]
    BY <1>1 DEF Filled
  <2>2. T(i) \in SUBSET S /\ T(i) \in SUBSET Int /\ IsFiniteSet(T(i))
    BY <1>1, <2>1, PlayersAreFinite DEF OfPosition
  <2>3. Numbers(xp, T(i))
    BY <2>2 DEF Numbers
  <2> HIDE DEF T
  <2>4. QED
    BY <2>1, <2>2, <2>3, RankedIsOrder
<1>3. ASSUME NEW i \in Slots
      PROVE  o[i] \in T(i) /\ o[i] = Ranked(xp, T(i))[Turned(i)]
  <2>1. o[i] = Ranked(xp, T(i))[Turned(i)]
    BY DEF Placing
  <2> HIDE DEF T, o
  <2>2. Turned(i) \in 1 .. PositionCounts[Layout[i]]
    BY TurnsAreCounted
  <2>3. QED
    BY <1>2, <2>1, <2>2
<1>4. \A i \in Slots : o[i] \in S /\ PositionOf[o[i]] = Layout[i]
  BY <1>3 DEF OfPosition
<1>5. o \in [Slots -> S]
  BY <1>4 DEF Placing
<1>6. ASSUME NEW i \in Slots, NEW j \in Slots, o[i] = o[j]
      PROVE  i = j
  <2>1. Layout[i] = Layout[j]
    BY <1>4, <1>6
  <2>2. T(i) = T(j)
    BY <2>1
  <2> HIDE DEF T, o
  <2>3. Turned(i) = Turned(j)
    BY <1>2, <1>3, <1>6, <2>1, <2>2, TurnsAreCounted
  <2>4. QED
    BY <2>1, <2>3, TurnsAreCounted
<1>7. Provisional(S, xp) = o
  BY <1>5, ProvisionalIsPlacing
<1>8. QED
  <2> HIDE DEF o
  <2>1. OneToOne(o, Slots)
    BY <1>6 DEF OneToOne
  <2>2. QED
    BY <1>4, <1>5, <1>7, <2>1

\* A bought squad holds the players it was bought for.
LEMMA BoughtIsFielded ==
  ASSUME NEW offers, NEW S, Filled(S), Numbers(offers.xp[1], S), NEW budget
  PROVE  /\ Fielded(Bought(offers, S, budget).order)
         /\ Range(Bought(offers, S, budget).order) = S
<1> DEFINE xp == offers.xp[1]
           o == Provisional(S, xp)
           pos == Places([order |-> o])
           ex == Expected([order |-> o], xp)
           lineup == LineupOf([order |-> o], xp)
           p == LineupSlots(lineup)
           order == [i \in Slots |-> o[p[i]]]
<1>1. /\ o \in [Slots -> S] /\ OneToOne(o, Slots)
      /\ \A i \in Slots : PositionOf[o[i]] = Layout[i]
  BY ProvisionalFits
<1>2. S \in SUBSET Players
  BY DEF Filled
<1> HIDE DEF o
<1>3. Formed(pos)
  <2>1. pos = Layout
    BY <1>1, LayoutIsFormed DEF Places, Formed
  <2>2. QED
    BY <2>1, LayoutIsFormed
<1>4. Numbers(ex, Slots)
  BY <1>1 DEF Expected, Numbers
<1>5. p \in [Slots -> Slots] /\ OneToOne(p, Slots)
  <2>1. lineup = RecommendLineup(pos, ex)
    BY DEF LineupOf
  <2> HIDE DEF pos, ex, lineup
  <2>2. QED
    BY <1>3, <1>4, <2>1, LineupIsPermutation
<1>6. Bought(offers, S, budget).order = order
  BY DEF Bought, InLineup, Aligned, LineupSlots, o
<1> HIDE DEF p
<1>7. order \in [Slots -> S] /\ OneToOne(order, Slots)
  BY <1>1, <1>5 DEF OneToOne
<1>8. Range(order) = S
  <2>1. IsFiniteSet(S) /\ Cardinality(S) = 15
    BY FilledIsFifteen
  <2>2. IsFiniteSet(Slots) /\ Cardinality(Slots) = 15
    BY SlotsAreFinite, SlotsCount
  <2> HIDE DEF order
  <2>3. Onto(order, Slots, S)
    BY <1>7, <2>1, <2>2, OneToOneIsOnto
  <2>4. QED
    BY <1>7, <2>3 DEF Onto, Range
<1>9. QED
  <2>1. order \in [Slots -> Players]
    BY <1>2, <1>7
  <2>2. QED
    BY <1>6, <1>7, <1>8, <2>1 DEF Fielded

-----------------------------------------------------------------------------
(* The slots that are open. *)

LockedOf(rules, q) == Cardinality(OfPosition(rules.locked, q))

\* The locked players leave room.
Lockable(rules) ==
  /\ rules.locked \in SUBSET Players
  /\ \A q \in Positions : LockedOf(rules, q) <= PositionCounts[q]

IsOpen(rules) ==
  {k \in 1 .. 15 :
     Cardinality({j \in 1 .. k - 1 : Order[j] = Order[k]})
       >= Cardinality(OfPosition(rules.locked, Order[k]))}

LEMMA OpenOfPosition ==
  ASSUME NEW rules, Lockable(rules), NEW q \in Positions
  PROVE  Cardinality({k \in IsOpen(rules) : Order[k] = q}) = PositionCounts[q] - LockedOf(rules, q)
<1> DEFINE K == At(Order, Slots, q)
           zero == [i \in Slots |-> 0]
           n == LockedOf(rules, q)
           F == FirstOf(zero, K, n)
           O == {k \in IsOpen(rules) : Order[k] = q}
<1>1. K \in SUBSET Slots /\ Cardinality(K) = PositionCounts[q]
  BY LayoutIsFormed DEF At, Formed
<1>2. n \in 0 .. Cardinality(K)
  <2>1. n \in Nat
    BY PlayersAreFinite DEF LockedOf, Lockable
  <2>2. Cardinality(K) \in Nat
    BY <1>1, SlotsAreFinite
  <2>3. QED
    BY <1>1, <2>1, <2>2 DEF Lockable
<1>3. O = K \ F
  <2>1. ASSUME NEW k \in K
        PROVE  {j \in K : Ahead(zero, j, k)} = {j \in 1 .. k - 1 : Order[j] = Order[k]}
    BY DEF Ahead, At, Slots
  <2>2. \A k \in K : k \in IsOpen(rules) <=> ~(Cardinality({j \in K : Ahead(zero, j, k)}) < n)
    <3>1. SUFFICES ASSUME NEW k \in K
                   PROVE  k \in IsOpen(rules) <=> ~(Cardinality({j \in K : Ahead(zero, j, k)}) < n)
      OBVIOUS
    <3>2. k \in 1 .. 15 /\ Order[k] = q
      BY DEF At, Slots
    <3> DEFINE m == Cardinality({j \in 1 .. k - 1 : Order[j] = Order[k]})
    <3>3. k \in IsOpen(rules) <=> m >= n
      BY <3>2 DEF IsOpen, LockedOf
    <3>4. m \in Nat
      <4>1. {j \in K : Ahead(zero, j, k)} \in SUBSET Slots
        BY <1>1
      <4>2. QED
        BY <2>1, <4>1, SlotsAreFinite
    <3>5. Cardinality({j \in K : Ahead(zero, j, k)}) = m
      BY <2>1
    <3> HIDE DEF m
    <3>6. n \in Nat
      BY <1>2
    <3> HIDE DEF n
    <3>7. QED
      BY <3>3, <3>4, <3>5, <3>6
  <2>3. O \in SUBSET K
    BY DEF IsOpen, At, Slots
  <2>4. \A k \in K : k \in O <=> k \in IsOpen(rules)
    BY DEF At
  <2>5. \A k \in K : k \in F <=> Cardinality({j \in K : Ahead(zero, j, k)}) < n
    BY DEF FirstOf
  <2>6. F \in SUBSET K
    BY DEF FirstOf
  <2> HIDE DEF O, F, K
  <2>7. QED
    BY <2>2, <2>3, <2>4, <2>5, <2>6
<1>4. F \in SUBSET K /\ IsFiniteSet(F) /\ Cardinality(F) = n
  <2>1. Numbers(zero, K)
    BY <1>1 DEF Numbers
  <2>2. K \in SUBSET Int /\ IsFiniteSet(K)
    BY <1>1, SlotsAreFinite
  <2> HIDE DEF K, zero, n
  <2>3. QED
    BY <1>2, <2>1, <2>2, FirstAreAhead
<1>5. IsFiniteSet(K \ F) /\ Cardinality(K \ F) \in Nat
  BY <1>1, SlotsAreFinite
<1> HIDE DEF K, F, n, O
<1>6. Cardinality(F \cup (K \ F)) = Cardinality(F) + Cardinality(K \ F)
  BY <1>4, <1>5, DisjointCount
<1>7. F \cup (K \ F) = K
  BY <1>4
<1>8. Cardinality(K) = n + Cardinality(O)
  BY <1>3, <1>4, <1>6, <1>7
<1>9. n \in Nat /\ Cardinality(O) \in Nat
  BY <1>2, <1>3, <1>5
<1>10. Cardinality(O) = PositionCounts[q] - n
  BY <1>1, <1>8, <1>9
<1>11. QED
  BY <1>10 DEF n, O

\* How many of the open slots are for a position.
LEMMA OpenSlotsFill ==
  ASSUME NEW rules, Lockable(rules)
  PROVE  /\ OpenSlots(rules) \in Seq(Positions)
         /\ \A q \in Positions :
              Cardinality({n \in 1 .. Len(OpenSlots(rules)) : OpenSlots(rules)[n] = q})
                = PositionCounts[q] - LockedOf(rules, q)
<1> DEFINE open == IsOpen(rules)
           m == Cardinality(open)
           e == InSlotOrder(open)
           os == OpenSlots(rules)
           zero == [i \in Slots |-> 0]
<1>1. open \in SUBSET Slots
  BY DEF IsOpen, Slots
<1>2. IsFiniteSet(open) /\ m \in Nat /\ open \in SUBSET Int
  BY <1>1, SlotsAreFinite
<1>3. os = [n \in 1 .. m |-> Order[e[n]]]
  BY DEF OpenSlots, IsOpen
<1>4. /\ e \in [1 .. m -> open]
      /\ \A k, l \in 1 .. m : e[k] = e[l] => k = l
      /\ \A i \in open : \E k \in 1 .. m : e[k] = i
  <2>1. Numbers(zero, open)
    BY <1>1 DEF Numbers
  <2>2. e = Ranked(zero, open)
    BY DEF InSlotOrder
  <2> HIDE DEF open, zero, e
  <2>3. QED
    BY <1>2, <2>1, <2>2, RankedIsOrder
<1> HIDE DEF open, m, e, os
<1>5. os \in [1 .. m -> Positions]
  <2>1. Order \in [Slots -> Positions]
    BY LayoutIsFormed DEF Formed
  <2>2. QED
    BY <1>1, <1>3, <1>4, <2>1
<1>6. os \in Seq(Positions) /\ Len(os) = m
  BY <1>2, <1>5, FunctionsAreSequences
<1>7. ASSUME NEW q \in Positions
      PROVE  Cardinality({n \in 1 .. m : os[n] = q}) = PositionCounts[q] - LockedOf(rules, q)
  <2> DEFINE N == {n \in 1 .. m : os[n] = q}
             O == {k \in open : Order[k] = q}
             f == [n \in N |-> e[n]]
  <2>1. f \in [N -> O]
    BY <1>3, <1>4
  <2>2. OneToOne(f, N)
    BY <1>4 DEF OneToOne
  <2>3. Onto(f, N, O)
    BY <1>3, <1>4 DEF Onto
  <2>4. IsFiniteSet(N)
    BY <1>2, FS_Interval, FS_Subset
  <2>5. Cardinality(O) = PositionCounts[q] - LockedOf(rules, q)
    BY OpenOfPosition DEF open
  <2> HIDE DEF N, O, f
  <2>6. Cardinality(O) = Cardinality(N)
    BY <2>1, <2>2, <2>3, <2>4, OneToOneCounts
  <2>7. QED
    BY <2>5, <2>6 DEF N
<1>8. QED
  BY <1>6, <1>7 DEF os

-----------------------------------------------------------------------------
(* The squads of a search. *)

Marketable(m) ==
  /\ m.price \in [Players -> Nat] /\ DOMAIN m.club = Players
  /\ m.xp \in Seq([Players -> Int]) /\ m.xp # <<>>
  /\ m.onSale \in Seq(SUBSET Players) /\ Len(m.onSale) = Len(m.xp)

LEMMA CostIsNumber ==
  ASSUME NEW offers, Marketable(offers), NEW S \in SUBSET Players
  PROVE  /\ CostOf(offers, S) \in Nat
         /\ \A p \in Players \ S :
              CostOf(offers, S \cup {p}) = offers.price[p] + CostOf(offers, S)
<1>1. IsFiniteSet(S)
  BY PlayersAreFinite
<1>2. Numbers(offers.price, Players)
  BY DEF Numbers, Marketable
<1>3. Numbers(offers.price, S) /\ \A x \in S : offers.price[x] >= 0
  BY DEF Numbers, Marketable
<1>4. Sum(offers.price, S) \in Int /\ 0 <= Sum(offers.price, S)
  BY <1>1, <1>3, SumIsNumber, SumGrows
<1>5. ASSUME NEW p \in Players \ S
      PROVE  Sum(offers.price, S \cup {p}) = offers.price[p] + Sum(offers.price, S)
  <2>1. Numbers(offers.price, S \cup {p})
    BY <1>2 DEF Numbers
  <2>2. QED
    BY <1>1, <2>1, SumAdds
<1>6. QED
  BY <1>4, <1>5 DEF CostOf, Sum

\* What the rest of a squad costs at least is not less than nothing.
LEMMA RemainingCosts ==
  ASSUME NEW offers, Marketable(offers), NEW cands \in SUBSET Players, NEW chosen
  PROVE  MinimumRemaining(offers, cands, chosen) \in Nat
<1> DEFINE T(q) == Foremost(OfPosition(cands \ chosen, q),
                            PositionCounts[q] - Cardinality(OfPosition(chosen, q)),
                            LAMBDA p, r : \/ offers.price[p] < offers.price[r]
                                          \/ offers.price[p] = offers.price[r] /\ p < r)
           f == [q \in Positions |-> CostOf(offers, T(q))]
<1>1. ASSUME NEW q \in Positions PROVE T(q) \in SUBSET Players
  BY DEF Foremost, OfPosition
<1>2. MinimumRemaining(offers, cands, chosen) = Sum(f, Positions)
  <2>1. MinimumRemaining(offers, cands, chosen) = SumFunction(f)
    BY DEF MinimumRemaining
  <2>2. DOMAIN f = Positions
    OBVIOUS
  <2> HIDE DEF f
  <2>3. QED
    BY <2>1, <2>2 DEF SumFunction, Sum, SumFunctionOnSet
<1> HIDE DEF T
<1>3. Numbers(f, Positions) /\ \A q \in Positions : f[q] >= 0
  BY <1>1, CostIsNumber DEF Numbers
<1>4. IsFiniteSet(Positions)
  <2>1. IsFiniteSet({"GK", "DEF", "MID"})
    BY ThreeThings
  <2>2. Positions = {"GK", "DEF", "MID"} \cup {"FWD"}
    BY DEF Positions
  <2>3. QED
    BY <2>1, <2>2, FS_AddElement
<1> HIDE DEF f
<1>5. Sum(f, Positions) \in Int /\ 0 <= Sum(f, Positions)
  BY <1>3, <1>4, SumIsNumber, SumGrows
<1>6. QED
  BY <1>2, <1>5

LEMMA CandidatesAreCommon ==
  ASSUME NEW offers, NEW rules, NEW p \in CandidateIds(offers, rules)
  PROVE  p \in rules.locked \/ p \in Common(offers) \ rules.excluded
<1> DEFINE in(q) == OfPosition(Common(offers) \ rules.excluded, q)
<1>1. \A q : in(q) \in SUBSET (Common(offers) \ rules.excluded)
  BY DEF OfPosition
<1> HIDE DEF in
<1>2. \A xp, S, n : FirstOf(xp, S, n) \in SUBSET S
  BY DEF FirstOf
<1>3. p \in rules.locked \/ \E q \in Positions : p \in in(q)
  BY <1>2 DEF CandidateIds, Foremost, in
<1>4. QED
  BY <1>1, <1>3

\* A partial squad of n picks.
Picked(offers, rules, s, n) ==
  /\ s.ids \in Seq(Players) /\ Len(s.ids) = n
  /\ OneToOne(s.ids, 1 .. n)
  /\ \A k \in 1 .. n : /\ PositionOf[s.ids[k]] = OpenSlots(rules)[k]
                       /\ s.ids[k] \notin rules.locked
                       /\ s.ids[k] \in Common(offers) \ rules.excluded
  /\ Clubs(offers, rules.locked \cup Range(s.ids))
  /\ s.cost = CostOf(offers, rules.locked \cup Range(s.ids))
  /\ s.cost <= rules.budget

LEMMA SeedIsPicked ==
  ASSUME NEW offers, NEW rules, Accepts(offers, rules)
  PROVE  Picked(offers, rules, Seed(offers, rules), 0)
<1>1. Seed(offers, rules).ids = <<>> /\ Seed(offers, rules).cost = CostOf(offers, rules.locked)
  BY DEF Seed
<1>2. <<>> \in Seq(Players) /\ Len(<<>>) = 0 /\ Range(<<>>) = {} /\ 1 .. 0 = {}
  BY DEF Range
<1>3. rules.locked \cup {} = rules.locked
  OBVIOUS
<1>4. QED
  BY <1>1, <1>2, <1>3 DEF Picked, Accepts, OneToOne

\* Whoever fits is one pick more.
LEMMA ExtendedPicks ==
  ASSUME NEW offers, Marketable(offers), NEW rules, Lockable(rules), rules.budget \in Nat,
         NEW n \in Nat, n < Len(OpenSlots(rules)),
         NEW partials, \A s \in partials : Picked(offers, rules, s, n),
         NEW t \in Extended(offers, rules, CandidateIds(offers, rules), partials,
                            OpenSlots(rules)[n + 1])
  PROVE  Picked(offers, rules, t, n + 1)
<1> DEFINE cands == CandidateIds(offers, rules)
           q == OpenSlots(rules)[n + 1]
<1>1. PICK s \in partials, p \in OfPosition(cands, q) :
        /\ Fits(offers, rules, cands, s, p)
        /\ t.ids = Append(s.ids, p) /\ t.cost = s.cost + offers.price[p]
  BY DEF Extended
<1> DEFINE before == rules.locked \cup Range(s.ids)
<1>2. Picked(offers, rules, s, n)
  BY <1>1
<1>3. p \notin before /\ PositionOf[p] = q
  BY <1>1 DEF Fits, OfPosition
<1>4. p \in Common(offers) \ rules.excluded /\ p \in Players
  <2>1. p \in rules.locked \/ p \in Common(offers) \ rules.excluded
    BY <1>1, CandidatesAreCommon DEF OfPosition
  <2>2. QED
    BY <1>3, <2>1 DEF Common
<1>5. /\ Clubs(offers, before \cup {p})
      /\ s.cost + offers.price[p] + MinimumRemaining(offers, cands, before \cup {p})
           <= rules.budget
  BY <1>1 DEF Fits
<1>6. /\ t.ids \in Seq(Players) /\ Len(t.ids) = n + 1
      /\ \A k \in 1 .. n : t.ids[k] = s.ids[k]
      /\ t.ids[n + 1] = p
      /\ Range(t.ids) = Range(s.ids) \cup {p}
  BY <1>1, <1>2, <1>4, Appended DEF Picked
<1>7. \A k \in 1 .. n : s.ids[k] \in Range(s.ids)
  <2>1. DOMAIN s.ids = 1 .. n
    BY <1>2, LenProperties DEF Picked
  <2>2. QED
    BY <2>1 DEF Range
<1>8. \A k \in 1 .. n + 1 : k \in 1 .. n \/ k = n + 1
  OBVIOUS
<1>9. OneToOne(t.ids, 1 .. n + 1)
  <2>1. \A k \in 1 .. n : t.ids[k] # p
    BY <1>3, <1>6, <1>7
  <2>2. \A k, l \in 1 .. n : t.ids[k] = t.ids[l] => k = l
    BY <1>2, <1>6 DEF Picked, OneToOne
  <2>3. QED
    BY <1>6, <1>8, <2>1, <2>2 DEF OneToOne
<1>10. \A k \in 1 .. n + 1 : /\ PositionOf[t.ids[k]] = OpenSlots(rules)[k]
                            /\ t.ids[k] \notin rules.locked
                            /\ t.ids[k] \in Common(offers) \ rules.excluded
  <2>1. /\ PositionOf[p] = OpenSlots(rules)[n + 1] /\ p \notin rules.locked
        /\ p \in Common(offers) \ rules.excluded
    BY <1>3, <1>4
  <2>2. \A k \in 1 .. n : /\ PositionOf[t.ids[k]] = OpenSlots(rules)[k]
                         /\ t.ids[k] \notin rules.locked
                         /\ t.ids[k] \in Common(offers) \ rules.excluded
    BY <1>2, <1>6 DEF Picked
  <2>3. QED
    BY <1>6, <1>8, <2>1, <2>2
<1>11. rules.locked \cup Range(t.ids) = before \cup {p}
  BY <1>6
<1>12. before \in SUBSET Players
  BY <1>2, LenProperties DEF Picked, Range, Lockable
<1>13. t.cost = CostOf(offers, before \cup {p}) /\ t.cost <= rules.budget
  <2>1. CostOf(offers, before) \in Nat
    BY <1>12, CostIsNumber
  <2>2. CostOf(offers, before \cup {p}) = offers.price[p] + CostOf(offers, before)
    BY <1>3, <1>4, <1>12, CostIsNumber
  <2>3. s.cost = CostOf(offers, before)
    BY <1>2 DEF Picked
  <2>4. offers.price[p] \in Nat
    BY <1>4 DEF Marketable
  <2>5. MinimumRemaining(offers, cands, before \cup {p}) \in Nat
    <3>1. cands \in SUBSET Players
      BY CandidatesAreCommon DEF Lockable, Common
    <3>2. QED
      BY <3>1, RemainingCosts
  <2> HIDE DEF before, cands
  <2>6. QED
    BY <1>1, <1>5, <2>1, <2>2, <2>3, <2>4, <2>5
<1> HIDE DEF before, cands, q
<1>14. QED
  BY <1>5, <1>6, <1>9, <1>10, <1>11, <1>13 DEF Picked

\* What fills a slot is an extension that the beam had room for.
LEMMA FilledAreExtended ==
  ASSUME NEW offers, NEW rules, NEW cands, NEW partials, NEW q
  PROVE  FillSlot(offers, rules, cands, partials, q)
           \subseteq Extended(offers, rules, cands, partials, q)
  BY DEF FillSlot, Foremost

\* Filling a slot picks one more.
LEMMA FillPicks ==
  ASSUME NEW offers, Marketable(offers), NEW rules, Lockable(rules), rules.budget \in Nat,
         NEW n \in Nat, n < Len(OpenSlots(rules)),
         NEW partials, \A s \in partials : Picked(offers, rules, s, n),
         NEW t \in FillSlot(offers, rules, CandidateIds(offers, rules), partials,
                            OpenSlots(rules)[n + 1])
  PROVE  Picked(offers, rules, t, n + 1)
<1>1. t \in Extended(offers, rules, CandidateIds(offers, rules), partials,
                     OpenSlots(rules)[n + 1])
  BY FilledAreExtended
<1>2. QED
  BY <1>1, ExtendedPicks

\* With every slot filled the squad is legal and paid for.
LEMMA PickedFills ==
  ASSUME NEW offers, NEW rules, Lockable(rules), NEW s,
         Picked(offers, rules, s, Len(OpenSlots(rules))),
         NEW S, S = rules.locked \cup Range(s.ids)
  PROVE  Filled(S) /\ LegalSquad(offers, S) /\ CostOf(offers, S) <= rules.budget
<1> DEFINE os == OpenSlots(rules)
           n == Len(os)
           R == Range(s.ids)
<1>1. /\ s.ids \in Seq(Players) /\ DOMAIN s.ids = 1 .. n /\ n \in Nat
      /\ \A k \in 1 .. n : s.ids[k] \in Players
  BY LenProperties, ElementOfSeq DEF Picked
<1>2. R \in SUBSET Players /\ R \cap rules.locked = {} /\ S \in SUBSET Players
  BY <1>1 DEF Picked, Range, Lockable
<1>3. ASSUME NEW q \in Positions
      PROVE  Cardinality(OfPosition(S, q)) = PositionCounts[q]
  <2> DEFINE N == {k \in 1 .. n : os[k] = q}
             T == OfPosition(R, q)
             L == OfPosition(rules.locked, q)
             f == [k \in N |-> s.ids[k]]
  <2>1. f \in [N -> T]
    BY <1>1 DEF Picked, OfPosition, Range
  <2>2. OneToOne(f, N)
    BY DEF Picked, OneToOne
  <2>3. Onto(f, N, T)
    BY <1>1 DEF Onto, Picked, OfPosition, Range
  <2>4. IsFiniteSet(N)
    <3>1. IsFiniteSet(1 .. n) /\ N \in SUBSET (1 .. n)
      BY <1>1, FS_Interval
    <3> HIDE DEF N
    <3>2. QED
      BY <3>1, FS_Subset
  <2>5. Cardinality(N) = PositionCounts[q] - LockedOf(rules, q)
    BY OpenSlotsFill
  <2>6. T \cap L = {} /\ OfPosition(S, q) = T \cup L /\ T \in SUBSET Players /\ L \in SUBSET Players
    BY <1>2 DEF OfPosition, Lockable
  <2> HIDE DEF N, T, L, f
  <2>7. Cardinality(T) = Cardinality(N)
    BY <2>1, <2>2, <2>3, <2>4, OneToOneCounts
  <2>8. IsFiniteSet(T) /\ IsFiniteSet(L) /\ Cardinality(L) \in Nat
    BY <2>6, PlayersAreFinite
  <2>9. Cardinality(T \cup L) = Cardinality(T) + Cardinality(L)
    BY <2>6, <2>8, DisjointCount
  <2>10. Cardinality(L) = LockedOf(rules, q) /\ PositionCounts[q] \in Nat
    BY DEF L, LockedOf, PositionCounts
  <2>11. Cardinality(T) = PositionCounts[q] - Cardinality(L)
    BY <2>5, <2>7, <2>10
  <2>12. Cardinality(T \cup L) = PositionCounts[q]
    BY <2>8, <2>9, <2>10, <2>11
  <2>13. QED
    BY <2>6, <2>12
<1>4. QED
  BY <1>2, <1>3 DEF Filled, LegalSquad, Picked

-----------------------------------------------------------------------------
(* Folds over a sequence. *)

LEMMA WeeksAreFinite ==
  ASSUME NEW offers, Marketable(offers)
  PROVE  /\ Len(offers.xp) \in Nat \ {0} /\ Horizon(offers) = 1 .. Len(offers.xp)
         /\ IsFiniteSet(Horizon(offers)) /\ 1 \in Horizon(offers)
         /\ \A w \in Horizon(offers) : offers.xp[w] \in [Players -> Int]
<1>1. /\ offers.xp \in Seq([Players -> Int]) /\ offers.xp # <<>>
  BY DEF Marketable
<1>2. Len(offers.xp) \in Nat \ {0} /\ DOMAIN offers.xp = 1 .. Len(offers.xp)
  BY <1>1, LenProperties, EmptySeq
<1>3. \A w \in 1 .. Len(offers.xp) : offers.xp[w] \in [Players -> Int]
  BY <1>1, ElementOfSeq
<1>4. IsFiniteSet(1 .. Len(offers.xp)) /\ 1 \in 1 .. Len(offers.xp)
  <2>1. Len(offers.xp) \in Nat \ {0}
    BY <1>2
  <2>2. IsFiniteSet(1 .. Len(offers.xp))
    BY ONLY <2>1, FS_Interval
  <2>3. QED
    BY ONLY <2>1, <2>2
<1>5. Horizon(offers) = 1 .. Len(offers.xp)
  BY <1>2 DEF Horizon
<1>6. QED
  BY <1>2, <1>3, <1>4, <1>5

LEMMA OutlookIsNumber ==
  ASSUME NEW offers, Marketable(offers), NEW w, NEW p \in Players
  PROVE  Outlook(offers, w)[p] \in Int
<1> DEFINE H == {u \in Horizon(offers) : u >= w}
           f == [v \in H |-> offers.xp[v][p]]
<1>1. IsFiniteSet(H)
  BY WeeksAreFinite, FS_Subset
<1>2. Numbers(f, H)
  BY WeeksAreFinite DEF Numbers
<1>3. Outlook(offers, w)[p] = Sum(f, H)
  <2>1. Outlook(offers, w)[p] = SumFunction(f)
    BY DEF Outlook
  <2>2. DOMAIN f = H
    OBVIOUS
  <2> HIDE DEF f
  <2>3. QED
    BY <2>1, <2>2 DEF SumFunction, Sum, SumFunctionOnSet
<1> HIDE DEF f, H
<1>4. QED
  BY <1>1, <1>2, <1>3, SumIsNumber

-----------------------------------------------------------------------------
(* A search, slot after slot. *)

Partial == [ids : Seq(Players), cost : Int, proxy : Int]

FilledSlots(offers, rules, g) ==
  g = [s \in SUBSET DOMAIN OpenSlots(rules) |->
         IF s = {} THEN {Seed(offers, rules)}
         ELSE FillSlot(offers, rules, CandidateIds(offers, rules), g[s \ {Max(s)}],
                       OpenSlots(rules)[Max(s)])]

LEMMA SearchIsFold ==
  ASSUME NEW offers, NEW rules, Accepts(offers, rules)
  PROVE  Search(offers, rules)
           = (CHOOSE g : FilledSlots(offers, rules, g))[DOMAIN OpenSlots(rules)]
  BY DEF Search, FoldLeft, MapThenFoldSet, FilledSlots

LEMMA FilledSlotsExist ==
  ASSUME NEW offers, Marketable(offers), NEW rules, Lockable(rules)
  PROVE  \E g : FilledSlots(offers, rules, g)
<1> DEFINE os == OpenSlots(rules)
           n == Len(os)
           S == 1 .. n
           cands == CandidateIds(offers, rules)
           X == SUBSET Partial
           b == {Seed(offers, rules)}
           F == [x \in S |-> [y \in X |-> FillSlot(offers, rules, cands, y, os[x])]]
<1>1. os \in Seq(Positions)
  BY OpenSlotsFill
<1>2. n \in Nat /\ DOMAIN os = S
  BY <1>1, LenProperties
<1>3. \A p \in Players : Outlook(offers, 1)[p] \in Int /\ offers.price[p] \in Int
  BY OutlookIsNumber DEF Marketable
<1>4. b \in X
  <2>1. CostOf(offers, rules.locked) \in Int
    BY CostIsNumber DEF Lockable
  <2>2. Points(Outlook(offers, 1), rules.locked) \in Int
    <3>1. IsFiniteSet(rules.locked) /\ rules.locked \in SUBSET Players
      BY PlayersAreFinite DEF Lockable
    <3>2. Numbers(Outlook(offers, 1), rules.locked)
      BY <1>3, <3>1 DEF Numbers
    <3>3. QED
      BY <3>1, <3>2, SumIsNumber, PointsAreSums
  <2>3. QED
    BY <2>1, <2>2, EmptySeq DEF Seed, Partial
<1>5. cands \in SUBSET Players
  BY CandidatesAreCommon DEF Lockable, Common
<1>6. ASSUME NEW y \in X, NEW x \in S
      PROVE  FillSlot(offers, rules, cands, y, os[x]) \in X
  <2>1. SUFFICES ASSUME NEW t \in FillSlot(offers, rules, cands, y, os[x])
                 PROVE  t \in Partial
    OBVIOUS
  <2>2. PICK s \in y, p \in OfPosition(cands, os[x]) :
          t = [ids |-> Append(s.ids, p), cost |-> s.cost + offers.price[p],
               proxy |-> s.proxy + Outlook(offers, 1)[p]]
    BY DEF FillSlot, Extended, Foremost
  <2>3. s \in Partial /\ p \in Players
    BY <1>5 DEF OfPosition
  <2>4. Append(s.ids, p) \in Seq(Players)
    BY <2>3, Appended DEF Partial
  <2>5. QED
    BY <1>3, <2>2, <2>3, <2>4 DEF Partial
<1> HIDE DEF b, X, n, S, cands, os
<1>7. StepsIn(F, S, X)
  BY <1>6 DEF StepsIn
<1>8. IsFiniteSet(S) /\ Takes(Top(n), S)
  BY <1>2, TopsAreTaken DEF S
<1>9. PICK g \in [SUBSET S -> X] : Recurses(g, S, Top(n), b, F)
  <2> HIDE DEF F
  <2>1. QED
    BY <1>4, <1>7, <1>8, RecursionExists
<1>10. ASSUME NEW s \in SUBSET S
       PROVE  g[s] = IF s = {} THEN b
                     ELSE FillSlot(offers, rules, cands, g[s \ {Max(s)}], os[Max(s)])
  <2>1. g[s] = IF s = {} THEN b ELSE F[Top(n)[s]][g[s \ {Top(n)[s]}]]
    BY <1>9 DEF Recurses
  <2>2. Top(n)[s] = Max(s)
    BY DEF Top, S
  <2>3. s # {} => Max(s) \in S /\ g[s \ {Max(s)}] \in X
    BY <1>8, <2>2 DEF Takes
  <2>4. QED
    BY <2>1, <2>2, <2>3
<1>11. FilledSlots(offers, rules, g)
  BY <1>2, <1>10 DEF FilledSlots, b, cands, os
<1>12. QED
  BY <1>11

\* Whatever a search finds has filled every slot.
LEMMA SearchFills ==
  ASSUME NEW offers, Marketable(offers), NEW rules, Lockable(rules), rules.budget \in Nat,
         NEW s \in Search(offers, rules)
  PROVE  Picked(offers, rules, s, Len(OpenSlots(rules)))
<1> DEFINE os == OpenSlots(rules)
           n == Len(os)
           g == CHOOSE f : FilledSlots(offers, rules, f)
           A == {k \in Nat : k <= n => \A t \in g[1 .. k] : Picked(offers, rules, t, k)}
<1>1. Accepts(offers, rules)
  BY DEF Search
<1>2. FilledSlots(offers, rules, g)
  BY FilledSlotsExist
<1>3. os \in Seq(Positions)
  BY OpenSlotsFill
<1>4. n \in Nat /\ DOMAIN os = 1 .. n
  BY <1>3, LenProperties
<1>5. Search(offers, rules) = g[1 .. n]
  BY <1>1, <1>4, SearchIsFold
<1> HIDE DEF g
<1>6. 0 \in A
  <2>1. g[{}] = {Seed(offers, rules)}
    BY <1>2 DEF FilledSlots
  <2>2. 1 .. 0 = {}
    OBVIOUS
  <2>3. QED
    BY <1>1, <2>1, <2>2, SeedIsPicked
<1>7. ASSUME NEW k \in A PROVE k + 1 \in A
  <2>1. SUFFICES ASSUME k + 1 <= n, NEW t \in g[1 .. k + 1]
                 PROVE  Picked(offers, rules, t, k + 1)
    OBVIOUS
  <2>2. k + 1 \in 1 .. n /\ k <= n /\ k < n /\ k \in Nat
    BY <1>4, <2>1
  <2>3. Max(1 .. k + 1) = k + 1 /\ (1 .. k + 1) \ {k + 1} = 1 .. k
    <3>1. Max(1 .. k + 1) = k + 1 /\ (1 .. k + 1) \ {k + 1} = 1 .. (k + 1) - 1
      BY <1>4, <2>2, TopsAreTaken
    <3>2. (k + 1) - 1 = k
      BY <2>2
    <3>3. QED
      BY <3>1, <3>2
  <2>4. 1 .. k + 1 \in SUBSET (1 .. n) /\ 1 .. k + 1 # {}
    <3>1. k + 1 \in 1 .. k + 1 /\ \A j \in 1 .. k + 1 : j \in 1 .. n
      BY <1>4, <2>2
    <3>2. QED
      BY <3>1
  <2>5. g[1 .. k + 1] = FillSlot(offers, rules, CandidateIds(offers, rules), g[1 .. k], os[k + 1])
    BY <1>2, <1>4, <2>3, <2>4 DEF FilledSlots
  <2>6. \A u \in g[1 .. k] : Picked(offers, rules, u, k)
    BY <2>2
  <2> HIDE DEF A
  <2>7. QED
    BY <2>1, <2>2, <2>5, <2>6, FillPicks
<1>8. A = Nat
  <2>1. A \in SUBSET Nat
    OBVIOUS
  <2> HIDE DEF A
  <2>2. QED
    BY <1>6, <1>7, <2>1, Induction
<1>9. QED
  BY <1>4, <1>5, <1>8

-----------------------------------------------------------------------------
(* Squads. *)

Holding1 == [paid : Nat, sells : Nat]

SquadFields == {"order", "held", "bank", "free"}

\* A squad, or a plan for one, has fifteen players, as many of every position as the rules
\* ask for, and knows what was paid for each of them.
SquadOK(s) ==
  /\ SquadFields \subseteq DOMAIN s
  /\ Fielded(s.order) /\ Formed(Places(s))
  /\ s.held \in [Owned(s) -> Holding1]
  /\ s.bank \in Nat /\ s.free \in 0 .. MaxFree

LEMMA SquadFacts ==
  ASSUME NEW s, SquadOK(s)
  PROVE  /\ Fielded(s.order) /\ Places(s) = PlacesOf(s.order) /\ Formed(Places(s))
         /\ Filled(Owned(s)) /\ Owned(s) \in SUBSET Players /\ IsFiniteSet(Owned(s))
         /\ \A i \in Slots : s.order[i] \in Owned(s)
         /\ s.held \in [Owned(s) -> Holding1]
         /\ \A p \in Owned(s) : s.held[p] \in Holding1
         /\ s.bank \in Nat /\ s.free \in 0 .. MaxFree
<1>1. Fielded(s.order) /\ Places(s) = PlacesOf(s.order) /\ Formed(Places(s))
  BY DEF SquadOK, Places, PlacesOf
<1>2. Filled(Owned(s))
  BY <1>1, FilledPlaces DEF Owned
<1>3. Owned(s) \in SUBSET Players /\ IsFiniteSet(Owned(s))
  BY <1>2, PlayersAreFinite DEF Filled
<1>4. \A i \in Slots : s.order[i] \in Owned(s)
  BY <1>1 DEF Fielded, Owned, Range
<1>5. s.held \in [Owned(s) -> Holding1] /\ s.bank \in Nat /\ s.free \in 0 .. MaxFree
  BY DEF SquadOK
<1>6. QED
  BY <1>1, <1>2, <1>3, <1>4, <1>5

\* What a squad would sell for.
LEMMA SellingIsSum ==
  ASSUME NEW s, SquadOK(s), NEW f, \A p \in Owned(s) : f[p] = s.held[p].sells
  PROVE  SellingValue(s) = Sum(f, Owned(s)) /\ SellingValue(s) \in Nat
<1> DEFINE h == [p \in Owned(s) |-> s.held[p].sells]
<1>1. SellingValue(s) = Sum(h, Owned(s))
  <2>1. SellingValue(s) = SumFunction(h)
    BY DEF SellingValue
  <2>2. DOMAIN h = Owned(s)
    OBVIOUS
  <2> HIDE DEF h
  <2>3. QED
    BY <2>1, <2>2 DEF SumFunction, Sum, SumFunctionOnSet
<1>2. IsFiniteSet(Owned(s)) /\ \A p \in Owned(s) : h[p] \in Nat
  BY SquadFacts DEF Holding1
<1>3. \A p \in Owned(s) : h[p] = f[p]
  OBVIOUS
<1> HIDE DEF h
<1>4. Numbers(h, Owned(s)) /\ \A p \in Owned(s) : h[p] >= 0
  BY <1>2 DEF Numbers
<1>5. Sum(h, Owned(s)) = Sum(f, Owned(s))
  BY <1>2, <1>3, <1>4, SumsAgree
<1>6. Sum(h, Owned(s)) \in Int /\ 0 <= Sum(h, Owned(s))
  BY <1>2, <1>4, SumIsNumber, SumGrows
<1>7. QED
  BY <1>1, <1>5, <1>6

\* A squad that was bought is worth what it was bought with.
LEMMA BoughtIsSound ==
  ASSUME NEW offers, Marketable(offers), NEW S, Filled(S), NEW budget \in Nat,
         CostOf(offers, S) <= budget
  PROVE  /\ SquadOK(Bought(offers, S, budget)) /\ Owned(Bought(offers, S, budget)) = S
         /\ Bought(offers, S, budget).bank = budget - CostOf(offers, S)
         /\ \A p \in S : Bought(offers, S, budget).held[p].sells = offers.price[p]
<1> DEFINE b == Bought(offers, S, budget)
<1>1. S \in SUBSET Players
  BY DEF Filled
<1>2. offers.xp[1] \in [Players -> Int]
  BY WeeksAreFinite
<1>3. Numbers(offers.xp[1], S)
  BY <1>1, <1>2 DEF Numbers
<1>4. Fielded(b.order) /\ Range(b.order) = S
  BY <1>3, BoughtIsFielded
<1>5. /\ b.held = [p \in S |-> [paid |-> offers.price[p], sells |-> offers.price[p]]]
      /\ b.bank = budget - CostOf(offers, S) /\ b.free = 1 /\ b.wildcard = TRUE
      /\ b = [order |-> b.order, held |-> b.held, bank |-> b.bank, free |-> b.free,
              wildcard |-> b.wildcard]
  BY DEF Bought
<1>6. CostOf(offers, S) \in Nat
  BY <1>1, CostIsNumber
<1> HIDE DEF b
<1>7. \A p \in S : offers.price[p] \in Nat
  BY <1>1 DEF Marketable
<1>8. b.held \in [S -> Holding1]
  BY <1>5, <1>7 DEF Holding1
<1>9. b.bank \in Nat /\ b.free \in 0 .. MaxFree
  BY <1>5, <1>6 DEF MaxFree
<1>10. SquadFields \subseteq DOMAIN b
  BY <1>5 DEF SquadFields
<1>11. Formed(Places(b))
  BY <1>4, FilledPlaces DEF Places, PlacesOf
<1>12. SquadOK(b)
  BY <1>4, <1>8, <1>9, <1>10, <1>11 DEF SquadOK, Owned
<1>13. QED
  BY <1>4, <1>5, <1>12 DEF Owned, b

BoughtFor(offers, rules, s, c) ==
  c.squad = Bought(offers, rules.locked \cup Range(s.ids), rules.budget)

\* The squads of a search are bought for the partial squads it completed.
LEMMA CompletedAreBought ==
  ASSUME NEW offers, NEW rules, NEW partials, NEW c \in Completed(offers, rules, partials)
  PROVE  \E s \in partials : BoughtFor(offers, rules, s, c)
<1> DEFINE E(s) == Evaluated(offers, rules, rules.locked \cup Range(s.ids))
           frozen == {E(s) : s \in partials}
<1>1. \E d \in frozen : c.squad = d.squad
  <2>1. c \in PlannedAhead(offers, rules, frozen)
    BY DEF Completed
  <2>2. \A d \in frozen : d = [squad |-> d.squad, cost |-> d.cost, total |-> d.total,
                               hits |-> d.hits]
    <3>1. \A s : E(s) = [squad |-> E(s).squad, cost |-> E(s).cost, total |-> E(s).total,
                         hits |-> E(s).hits]
      BY DEF Evaluated, Candidate
    <3> HIDE DEF E
    <3>2. QED
      BY <3>1
  <2>3. \A d \in frozen : WithTransfers(offers, rules, d).squad = d.squad
    BY <2>2 DEF WithTransfers, Planned
  <2>4. Shortlisted(frozen, rules.shortlist) \in SUBSET frozen
    BY DEF Shortlisted, Foremost
  <2> HIDE DEF frozen
  <2>5. c \in frozen \/ \E d \in frozen : c = WithTransfers(offers, rules, d)
    BY <2>1, <2>4 DEF PlannedAhead
  <2>6. QED
    BY <2>3, <2>5
<1>2. \A s \in partials : BoughtFor(offers, rules, s, E(s))
  BY DEF Evaluated, Candidate, BoughtFor
<1> HIDE DEF E
<1>3. QED
  BY <1>1, <1>2 DEF BoughtFor

\* Whatever is chosen among them is such a squad.
LEMMA FoundIsSound ==
  ASSUME NEW offers, Marketable(offers), NEW rules, Lockable(rules), rules.budget \in Nat,
         NEW partials, \A s \in partials : Picked(offers, rules, s, Len(OpenSlots(rules))),
         NEW c \in Shortlisted(Completed(offers, rules, partials), rules.returned)
  PROVE  \E s \in partials :
           \E S : /\ S = rules.locked \cup Range(s.ids)
                  /\ Filled(S) /\ LegalSquad(offers, S) /\ CostOf(offers, S) <= rules.budget
                  /\ c.squad = Bought(offers, S, rules.budget)
                  /\ SquadOK(c.squad) /\ Owned(c.squad) = S
<1>1. c \in Completed(offers, rules, partials)
  BY DEF Shortlisted, Foremost
<1>2. PICK s \in partials : BoughtFor(offers, rules, s, c)
  BY <1>1, CompletedAreBought
<1>3. PICK S : S = rules.locked \cup Range(s.ids)
  OBVIOUS
<1>4. Filled(S) /\ LegalSquad(offers, S) /\ CostOf(offers, S) <= rules.budget
  BY <1>3, PickedFills
<1>5. SquadOK(Bought(offers, S, rules.budget)) /\ Owned(Bought(offers, S, rules.budget)) = S
  BY <1>4, BoughtIsSound
<1>6. QED
  BY <1>2, <1>3, <1>4, <1>5 DEF BoughtFor

-----------------------------------------------------------------------------
(* Transfers. *)

\* Moves that leave a squad of the same shape: who comes was not owned, takes the place of
\* one player only and plays in his position.
Movable(s, m) ==
  /\ DOMAIN m \subseteq Owned(s)
  /\ m \in [DOMAIN m -> Players \ Owned(s)]
  /\ OneToOne(m, DOMAIN m)
  /\ \A out \in DOMAIN m : PositionOf[m[out]] = PositionOf[out]

\* Nobody leaves and nobody comes.
Still(s, m) == Movable(s, m) /\ DOMAIN m = {} /\ Range(m) = {}

LEMMA NothingMoves ==
  ASSUME NEW s
  PROVE  Still(s, <<>>)
  BY DEF Still, Movable, OneToOne, Range

\* The squad after moves: the same places, the players who stay and those who come.
LEMMA MovesField ==
  ASSUME NEW offers, NEW s, SquadOK(s), NEW m, Movable(s, m),
         NEW a, a = AfterMoves(offers, s, m)
  PROVE  /\ DOMAIN a = DOMAIN s /\ \A x \in DOMAIN s \ {"order", "held", "bank"} : a[x] = s[x]
         /\ Fielded(a.order) /\ Places(a) = Places(s)
         /\ Owned(a) = (Owned(s) \ DOMAIN m) \cup Range(m)
<1>1. /\ DOMAIN a = DOMAIN s
      /\ \A x \in DOMAIN s \ {"order", "held", "bank"} : a[x] = s[x]
  BY DEF AfterMoves
<1>2. a.order = [i \in Slots |-> IF s.order[i] \in DOMAIN m THEN m[s.order[i]] ELSE s.order[i]]
  BY DEF AfterMoves, SquadOK, SquadFields
<1>3. /\ s.order \in [Slots -> Players] /\ OneToOne(s.order, Slots)
      /\ \A i \in Slots : s.order[i] \in Owned(s)
      /\ Range(s.order) = Owned(s)
  BY SquadFacts DEF Fielded, Owned
<1>4. \A out \in DOMAIN m : /\ m[out] \in Players /\ m[out] \notin Owned(s) /\ out \in Owned(s)
                            /\ PositionOf[m[out]] = PositionOf[out]
  BY DEF Movable
<1>5. a.order \in [Slots -> Players]
  BY <1>2, <1>3, <1>4
<1>6. OneToOne(a.order, Slots)
  BY <1>2, <1>3, <1>4 DEF OneToOne, Movable
<1>7. Places(a) = Places(s)
  BY <1>2, <1>4 DEF Places
<1>8. Range(a.order) \subseteq (Owned(s) \ DOMAIN m) \cup Range(m)
  BY <1>2, <1>3, <1>5 DEF Range
<1>9. Range(m) \subseteq Range(a.order)
  <2>1. ASSUME NEW out \in DOMAIN m PROVE m[out] \in Range(a.order)
    <3>1. PICK i \in Slots : s.order[i] = out
      BY <1>3, <1>4 DEF Range
    <3>2. a.order[i] = m[out]
      BY <1>2, <3>1
    <3>3. QED
      BY <1>5, <3>2 DEF Range
  <2>2. QED
    BY <2>1 DEF Range
<1>10. Owned(s) \ DOMAIN m \subseteq Range(a.order)
  <2>1. ASSUME NEW p \in Owned(s) \ DOMAIN m PROVE p \in Range(a.order)
    <3>1. PICK i \in Slots : s.order[i] = p
      BY <1>3 DEF Range
    <3>2. a.order[i] = p
      BY <1>2, <3>1
    <3>3. QED
      BY <1>5, <3>2 DEF Range
  <2>2. QED
    BY <2>1
<1>11. QED
  BY <1>1, <1>5, <1>6, <1>7, <1>8, <1>9, <1>10 DEF Fielded, Owned

\* What the squad is worth stays the same.
LEMMA MovesKeepMoney ==
  ASSUME NEW offers, Marketable(offers), NEW s, SquadOK(s), NEW m, Movable(s, m),
         NEW a, a = AfterMoves(offers, s, m)
  PROVE  /\ a.held \in [Owned(a) -> Holding1] /\ a.bank \in Int
         /\ SquadValue(a) = SquadValue(s)
<1> DEFINE D == DOMAIN m
           K == Owned(s) \ D
           R == Range(m)
<1>1. Owned(a) = K \cup R
  BY MovesField
<1>2. /\ IsFiniteSet(Owned(s)) /\ Owned(s) \in SUBSET Players /\ s.bank \in Nat
      /\ s.held \in [Owned(s) -> Holding1]
  BY SquadFacts
<1>3. D \subseteq Owned(s) /\ m \in [D -> Players \ Owned(s)] /\ OneToOne(m, D)
  BY DEF Movable
<1>4. R \in SUBSET (Players \ Owned(s))
  BY <1>3 DEF Range
<1>5. IsFiniteSet(D) /\ IsFiniteSet(K) /\ IsFiniteSet(R) /\ K \cap R = {} /\ K \cap D = {}
      /\ K \cup D = Owned(s)
  <2>1. IsFiniteSet(D)
    BY <1>2, <1>3, FS_Subset
  <2>2. IsFiniteSet(K)
    BY <1>2, FS_Subset
  <2>3. IsFiniteSet(R)
    BY <1>4, PlayersAreFinite
  <2>4. QED
    BY <1>3, <1>4, <2>1, <2>2, <2>3
<1>6. offers.price \in [Players -> Nat]
  BY DEF Marketable
<1> DEFINE f == [p \in Owned(s) |-> s.held[p].sells]
           h == [out \in D |-> offers.price[m[out]]]
           d == [out \in D |-> s.held[out].sells - offers.price[m[out]]]
           g == [p \in K \cup R |-> a.held[p].sells]
<1>7. a.held = [p \in K \cup R |-> IF p \in Owned(s) THEN s.held[p]
                                   ELSE [paid |-> offers.price[p], sells |-> offers.price[p]]]
  BY DEF AfterMoves, SquadOK, SquadFields
<1>8. a.bank = s.bank + SumFunction(d)
  BY DEF AfterMoves, SquadOK, SquadFields
<1>9. a.held \in [Owned(a) -> Holding1]
  BY <1>1, <1>2, <1>4, <1>6, <1>7 DEF Holding1
<1>10. \A p \in Owned(s) : f[p] \in Nat
  BY <1>2 DEF Holding1
<1>11. \A out \in D : h[out] \in Nat /\ d[out] = f[out] - h[out] /\ d[out] \in Int
  BY <1>3, <1>6, <1>10
<1>12. /\ \A p \in K : g[p] = f[p]
       /\ \A p \in R : g[p] = offers.price[p]
       /\ \A out \in D : h[out] = offers.price[m[out]]
  BY <1>4, <1>7
<1>13. SumFunction(d) = Sum(d, D)
  <2>1. DOMAIN d = D
    OBVIOUS
  <2> HIDE DEF d
  <2>2. QED
    BY <2>1 DEF SumFunction, Sum, SumFunctionOnSet
<1>14. SellingValue(s) = Sum(f, Owned(s))
  <2>1. \A p \in Owned(s) : f[p] = s.held[p].sells
    OBVIOUS
  <2> HIDE DEF f
  <2>2. QED
    BY <2>1, SellingIsSum
<1>15. SellingValue(a) = Sum(g, K \cup R)
  <2>1. SellingValue(a) = SumFunction(g)
    BY <1>1 DEF SellingValue
  <2>2. DOMAIN g = K \cup R
    OBVIOUS
  <2> HIDE DEF g
  <2>3. QED
    BY <2>1, <2>2 DEF SumFunction, Sum, SumFunctionOnSet
<1>16. R = Image(m, D)
  BY DEF Range, Image
<1>17. /\ \A p \in K : f[p] \in Int /\ g[p] \in Int
       /\ \A p \in R : g[p] \in Int
       /\ \A p \in D : f[p] \in Int /\ h[p] \in Int /\ d[p] \in Int
       /\ \A p \in Owned(s) : f[p] \in Int
  <2>1. K \subseteq Owned(s) /\ R \subseteq Players
    BY <1>4
  <2>2. \A p \in R : offers.price[p] \in Int
    BY <1>6, <2>1
  <2> HIDE DEF f, h, d, g, D, K, R
  <2>3. QED
    BY <1>3, <1>10, <1>11, <1>12, <2>1, <2>2
<1> HIDE DEF f, h, d, g, D, K, R
<1>18. /\ Numbers(f, K) /\ Numbers(f, D) /\ Numbers(f, K \cup D) /\ Numbers(g, K \cup R)
       /\ Numbers(h, D) /\ Numbers(d, D) /\ Numbers(g, K) /\ Numbers(g, R)
  BY <1>5, <1>17 DEF Numbers
<1>19. Sum(f, Owned(s)) = Sum(f, K) + Sum(f, D)
  BY <1>5, <1>18, SumOfUnion
<1>20. Sum(g, K \cup R) = Sum(g, K) + Sum(g, R)
  BY <1>5, <1>18, SumOfUnion
<1>21. Sum(g, K) = Sum(f, K)
  BY <1>5, <1>12, <1>18, SumsAgree
<1>22. Sum(g, R) = Sum(h, D)
  <2>1. \A x, y \in D : m[x] = m[y] => x = y
    BY <1>3 DEF OneToOne
  <2>2. \A x \in D : m[x] \in R /\ g[m[x]] = h[x]
    BY <1>12, <1>16 DEF Image
  <2>3. Sum(g, Image(m, D)) = Sum(h, D)
    BY <1>5, <1>18, <2>1, <2>2, SumOfImage
  <2>4. QED
    BY <1>16, <2>3
<1>23. Sum(d, D) = Sum(f, D) - Sum(h, D)
  BY <1>5, <1>11, <1>18, SumOfDifference
<1>24. /\ Sum(f, K) \in Int /\ Sum(f, D) \in Int /\ Sum(h, D) \in Int
  BY <1>5, <1>18, SumIsNumber
<1>25. a.bank \in Int /\ a.bank + SellingValue(a) = s.bank + SellingValue(s)
  BY <1>2, <1>8, <1>13, <1>14, <1>15, <1>19, <1>20, <1>21, <1>22, <1>23, <1>24
<1>26. QED
  BY <1>9, <1>25 DEF SquadValue

\* What can be afforded leaves a legal squad.
LEMMA MovesAreSound ==
  ASSUME NEW offers, Marketable(offers), NEW s, SquadOK(s), NEW m, Movable(s, m),
         Affordable(offers, s, m), NEW a, a = AfterMoves(offers, s, m)
  PROVE  /\ SquadOK(a) /\ LegalSquad(offers, Owned(a)) /\ SquadValue(a) = SquadValue(s)
<1>1. /\ DOMAIN a = DOMAIN s /\ \A x \in DOMAIN s \ {"order", "held", "bank"} : a[x] = s[x]
      /\ Fielded(a.order) /\ Places(a) = Places(s)
  BY MovesField
<1>2. /\ a.held \in [Owned(a) -> Holding1] /\ a.bank \in Int /\ SquadValue(a) = SquadValue(s)
  BY MovesKeepMoney
<1>3. a.bank >= 0 /\ Clubs(offers, Owned(a))
  BY DEF Affordable
<1>4. a.free = s.free
  BY <1>1 DEF SquadOK, SquadFields
<1>5. SquadOK(a)
  BY <1>1, <1>2, <1>3, <1>4 DEF SquadOK
<1>6. Filled(Owned(a))
  BY <1>5, SquadFacts
<1>7. QED
  BY <1>2, <1>3, <1>5, <1>6 DEF LegalSquad, Filled

\* To make no moves changes nothing.
LEMMA NoMovesChangeNothing ==
  ASSUME NEW offers, Marketable(offers), NEW s, SquadOK(s),
         NEW m, Still(s, m), NEW a, a = AfterMoves(offers, s, m)
  PROVE  /\ SquadOK(a) /\ Owned(a) = Owned(s) /\ SquadValue(a) = SquadValue(s)
<1>1. Movable(s, m) /\ DOMAIN m = {} /\ Range(m) = {}
  BY DEF Still
<1>2. /\ DOMAIN a = DOMAIN s /\ \A x \in DOMAIN s \ {"order", "held", "bank"} : a[x] = s[x]
      /\ Fielded(a.order) /\ Places(a) = Places(s) /\ Owned(a) = Owned(s)
  <2>1. /\ DOMAIN a = DOMAIN s /\ \A x \in DOMAIN s \ {"order", "held", "bank"} : a[x] = s[x]
        /\ Fielded(a.order) /\ Places(a) = Places(s)
        /\ Owned(a) = (Owned(s) \ DOMAIN m) \cup Range(m)
    <3>1. SquadOK(s) /\ Movable(s, m) /\ a = AfterMoves(offers, s, m)
      BY <1>1
    <3>2. QED
      BY ONLY <3>1, MovesField
  <2>2. QED
    BY <1>1, <2>1
<1>3. /\ a.held \in [Owned(a) -> Holding1] /\ a.bank \in Int /\ SquadValue(a) = SquadValue(s)
  BY <1>1, MovesKeepMoney
<1>4. a.bank = s.bank
  <2> DEFINE d == [out \in DOMAIN m |-> s.held[out].sells - offers.price[m[out]]]
  <2>1. a.bank = s.bank + SumFunction(d)
    BY DEF AfterMoves, SquadOK, SquadFields
  <2>2. DOMAIN d = {}
    BY <1>1
  <2> HIDE DEF d
  <2>3. SumFunction(d) = Sum(d, {})
    BY <2>2 DEF SumFunction, Sum, SumFunctionOnSet
  <2>4. QED
    BY <2>1, <2>3, SumOfNone DEF SquadOK
<1>5. a.free = s.free
  BY <1>2 DEF SquadOK, SquadFields
<1>6. QED
  BY <1>2, <1>3, <1>4, <1>5 DEF SquadOK

\* The players considered are on sale, are not owned and are not excluded.
LEMMA CandidatesAreOnSale ==
  ASSUME NEW offers, NEW s, NEW excluded, NEW lens, NEW w,
         NEW p \in Candidates(offers, s, excluded, lens, w)
  PROVE  p \in offers.onSale[w] /\ p \notin Owned(s) /\ p \notin excluded
<1> DEFINE eligible == (offers.onSale[w] \ Owned(s)) \ excluded
           in(q) == {r \in eligible : PositionOf[r] = q}
           two(q) == {r \in in(q) : Cardinality({u \in in(q) :
                         \/ offers.price[u] < offers.price[r]
                         \/ offers.price[u] = offers.price[r] /\ Ahead(Outlook(offers, w), u, r)})
                       < 2}
<1>1. \A xp, S, n : FirstOf(xp, S, n) \in SUBSET S
  BY DEF FirstOf
<1>2. PICK q \in Positions : p \in FirstOf(Outlook(offers, w), in(q), lens) \cup two(q)
  BY DEF Candidates
<1>3. \A v : two(v) \in SUBSET in(v) /\ in(v) \in SUBSET eligible
  OBVIOUS
<1> HIDE DEF two, in
<1>4. p \in in(q)
  BY <1>1, <1>2, <1>3
<1>5. QED
  BY <1>3, <1>4

\* Moves that were made in a week, of players who could be bought.
WeekMoves(offers, options, s, m, w) ==
  /\ Movable(s, m)
  /\ Still(s, m) \/ Affordable(offers, s, m)
  /\ Range(m) \subseteq offers.onSale[w] \ options.excluded
  /\ DOMAIN m \cap options.protected = {}
  /\ w \in options.forced => m = <<>>

LEMMA MovesAreMade ==
  ASSUME NEW offers, Marketable(offers), NEW s, SquadOK(s), NEW options,
         NEW w \in Horizon(offers), NEW m \in Moves(offers, s, options, w)
  PROVE  WeekMoves(offers, options, s, m, w)
<1> DEFINE targets == Candidates(offers, s, options.excluded, options.lens, w)
<1>1. targets \in SUBSET (Players \ Owned(s))
      /\ targets \subseteq offers.onSale[w] \ options.excluded
  <2>1. offers.onSale[w] \in SUBSET Players
    <3>1. w \in 1 .. Len(offers.onSale) /\ offers.onSale \in Seq(SUBSET Players)
      BY WeeksAreFinite DEF Marketable
    <3>2. QED
      BY <3>1, ElementOfSeq
  <2>2. QED
    BY <2>1, CandidatesAreOnSale
<1>2. Still(s, <<>>)
  BY NothingMoves
<1> HIDE DEF targets
<1>3. CASE m = <<>>
  <2>1. Still(s, m) /\ Movable(s, m) /\ Range(m) = {} /\ DOMAIN m = {}
    BY <1>2, <1>3 DEF Still
  <2>2. QED
    BY <1>3, <2>1 DEF WeekMoves
<1>4. ASSUME m \in SingleTransfers(offers, s, targets), DOMAIN m \cap options.protected = {},
             w \notin options.forced
      PROVE  WeekMoves(offers, options, s, m, w)
  <2>1. PICK out \in Owned(s) : m \in [{out} -> targets]
    BY <1>4 DEF SingleTransfers, SingleMoves
  <2>2. PositionOf[m[out]] = PositionOf[out] /\ Affordable(offers, s, m)
    BY <1>4, <2>1 DEF SingleTransfers
  <2>3. Movable(s, m)
    BY <1>1, <2>1, <2>2 DEF Movable, OneToOne
  <2>4. Range(m) \subseteq offers.onSale[w] \ options.excluded
    BY <1>1, <2>1 DEF Range
  <2>5. QED
    BY <1>4, <2>2, <2>3, <2>4 DEF WeekMoves
<1>5. ASSUME m \in Pairs(offers, s, targets, options.protected, options.shortlist, w),
             w \notin options.forced
      PROVE  WeekMoves(offers, options, s, m, w)
  <2> DEFINE two == UNION {[outs -> targets] : outs \in kSubset(2, Owned(s) \ options.protected)}
  <2>1. /\ m \in two /\ Affordable(offers, s, m)
        /\ \A a \in DOMAIN m : PositionOf[m[a]] = PositionOf[a]
        /\ \A a, b \in DOMAIN m : a # b => m[a] # m[b]
    <3> DEFINE all == {n \in two :
                /\ \A a \in DOMAIN n : PositionOf[n[a]] = PositionOf[a]
                /\ \A a, b \in DOMAIN n : a # b => n[a] # n[b]
                /\ \A a, b \in DOMAIN n : PositionOf[a] = PositionOf[b] /\ a < b => n[a] < n[b]
                /\ Affordable(offers, s, n)}
               Gain(n) == SumFunction([out \in DOMAIN n |->
                            Outlook(offers, w)[n[out]] - Outlook(offers, w)[out]])
    <3> HIDE DEF Gain
    <3>1. \E n \in all : m = <<Gain(n), n>>[2]
      BY <1>5 DEF Pairs, Gain
    <3>2. QED
      BY <3>1
  <2>2. PICK outs \in kSubset(2, Owned(s) \ options.protected) : m \in [outs -> targets]
    BY <2>1
  <2>3. outs \subseteq Owned(s) \ options.protected
    BY DEF kSubset
  <2>4. Movable(s, m)
    BY <1>1, <2>1, <2>2, <2>3 DEF Movable, OneToOne
  <2>5. Range(m) \subseteq offers.onSale[w] \ options.excluded
    BY <1>1, <2>2 DEF Range
  <2>6. DOMAIN m \cap options.protected = {}
    BY <2>2, <2>3
  <2>7. QED
    BY <1>5, <2>1, <2>4, <2>5, <2>6 DEF WeekMoves
<1>6. QED
  BY <1>3, <1>4, <1>5 DEF Moves, targets

-----------------------------------------------------------------------------
(* What moves cost, week by week. *)

\* Moves from some players to others.
Made == UNION {[S -> Players] : S \in SUBSET Players}

Account == [free : Int, cost : Int]

\* The account after one more week.
Grant(acc, moves) ==
  [free |-> Advance(acc.free, Cardinality(DOMAIN moves)),
   cost |-> acc.cost + Over(Cardinality(DOMAIN moves), acc.free) * HitCost]

Grants(weeks, free, g) ==
  g = [s \in SUBSET DOMAIN weeks |->
         IF s = {} THEN [free |-> free, cost |-> 0]
         ELSE Grant(g[s \ {Max(s)}], weeks[Max(s)])]

LEMMA GrantedIsFold ==
  ASSUME NEW plan, NEW free
  PROVE  Granted(plan, free) = (CHOOSE g : Grants(plan.weeks, free, g))[DOMAIN plan.weeks]
  BY DEF Granted, FoldLeft, MapThenFoldSet, Grants, Grant

LEMMA GrantIsAccount ==
  ASSUME NEW acc \in Account, NEW m \in Made
  PROVE  Grant(acc, m) \in Account
<1>1. IsFiniteSet(DOMAIN m) /\ Cardinality(DOMAIN m) \in Int
  BY PlayersAreFinite DEF Made
<1>2. acc.free \in Int /\ acc.cost \in Int /\ HitCost \in Int
  BY PlayersAssumption DEF Account
<1>3. Over(Cardinality(DOMAIN m), acc.free) \in Int
      /\ Advance(acc.free, Cardinality(DOMAIN m)) \in Int
  BY <1>1, <1>2 DEF Over, Advance, Least, MaxFree
<1>4. Over(Cardinality(DOMAIN m), acc.free) * HitCost \in Int
  BY <1>2, <1>3
<1>5. QED
  BY <1>2, <1>3, <1>4 DEF Grant, Account

LEMMA GrantsExist ==
  ASSUME NEW weeks \in Seq(Made), NEW free \in Int
  PROVE  \E g : /\ Grants(weeks, free, g)
                /\ \A s \in SUBSET DOMAIN weeks : g[s] \in Account
<1> DEFINE n == Len(weeks)
           S == 1 .. n
           b == [free |-> free, cost |-> 0]
           F == [x \in S |-> [y \in Account |-> Grant(y, weeks[x])]]
<1>1. n \in Nat /\ DOMAIN weeks = S /\ \A x \in S : weeks[x] \in Made
  BY LenProperties, ElementOfSeq
<1>2. b \in Account
  BY DEF Account
<1>3. \A x \in S, y \in Account : Grant(y, weeks[x]) \in Account
  BY <1>1, GrantIsAccount
<1> HIDE DEF b, n, S
<1>4. StepsIn(F, S, Account)
  BY <1>3 DEF StepsIn
<1>5. IsFiniteSet(S) /\ Takes(Top(n), S)
  BY <1>1, TopsAreTaken DEF S
<1>6. PICK g \in [SUBSET S -> Account] : Recurses(g, S, Top(n), b, F)
  <2> HIDE DEF F
  <2>1. QED
    BY <1>2, <1>4, <1>5, RecursionExists
<1>7. ASSUME NEW s \in SUBSET S
      PROVE  g[s] = IF s = {} THEN b ELSE Grant(g[s \ {Max(s)}], weeks[Max(s)])
  <2>1. g[s] = IF s = {} THEN b ELSE F[Top(n)[s]][g[s \ {Top(n)[s]}]]
    BY <1>6 DEF Recurses
  <2>2. Top(n)[s] = Max(s)
    BY DEF Top, S
  <2>3. s # {} => Max(s) \in S /\ g[s \ {Max(s)}] \in Account
    BY <1>5, <2>2 DEF Takes
  <2>4. QED
    BY <2>1, <2>2, <2>3
<1>8. Grants(weeks, free, g)
  BY <1>1, <1>7 DEF Grants, b
<1>9. QED
  BY <1>1, <1>8

\* A week that is added is the last one paid.
LEMMA GrantedAppends ==
  ASSUME NEW p, p.weeks \in Seq(Made), NEW m \in Made, NEW q, q.weeks = Append(p.weeks, m),
         NEW free \in Int
  PROVE  /\ Granted(q, free) = Grant(Granted(p, free), m)
         /\ Granted(p, free) \in Account
<1> DEFINE v == p.weeks
           w == q.weeks
           n == Len(v)
           g == CHOOSE f : Grants(v, free, f)
           h == CHOOSE f : Grants(w, free, f)
           A == {k \in Nat : k <= n => g[1 .. k] = h[1 .. k]}
<1>1. /\ n \in Nat /\ DOMAIN v = 1 .. n
      /\ w \in Seq(Made) /\ Len(w) = n + 1 /\ DOMAIN w = 1 .. n + 1
      /\ \A k \in 1 .. n : w[k] = v[k]
      /\ w[n + 1] = m
  <2>1. n \in Nat /\ DOMAIN v = 1 .. n
    BY LenProperties
  <2>2. /\ w \in Seq(Made) /\ Len(w) = n + 1
        /\ \A k \in 1 .. n : w[k] = v[k]
        /\ w[n + 1] = m
    BY Appended
  <2>3. DOMAIN w = 1 .. n + 1
    BY <2>2, LenProperties
  <2>4. QED
    BY <2>1, <2>2, <2>3
<1>2. \E f : Grants(v, free, f)
  BY GrantsExist
<1>3. Grants(v, free, g)
  BY <1>2
<1>4. Grants(w, free, h)
  <2>1. \E f : Grants(w, free, f)
    BY <1>1, GrantsExist
  <2>2. QED
    BY <2>1
<1>5. Granted(p, free) = g[1 .. n] /\ Granted(q, free) = h[1 .. n + 1]
  BY <1>1, GrantedIsFold
<1> HIDE DEF g, h, v, w, n
<1>6. 0 \in A
  <2>1. g[{}] = [free |-> free, cost |-> 0] /\ h[{}] = [free |-> free, cost |-> 0]
    BY <1>3, <1>4 DEF Grants
  <2>2. 1 .. 0 = {}
    OBVIOUS
  <2>3. QED
    BY <2>1, <2>2
<1>7. ASSUME NEW k \in Nat, k < n + 1
      PROVE  /\ h[1 .. k + 1] = Grant(h[1 .. k], w[k + 1])
             /\ k < n => g[1 .. k + 1] = Grant(g[1 .. k], v[k + 1])
  <2>1. k + 1 \in 1 .. n + 1 /\ n + 1 \in Nat
    BY <1>1, <1>7
  <2>2. Max(1 .. k + 1) = k + 1 /\ (1 .. k + 1) \ {k + 1} = 1 .. k
    <3>1. Max(1 .. k + 1) = k + 1 /\ (1 .. k + 1) \ {k + 1} = 1 .. (k + 1) - 1
      BY <2>1, TopsAreTaken
    <3>2. (k + 1) - 1 = k
      BY <1>7
    <3>3. QED
      BY <3>1, <3>2
  <2>3. 1 .. k + 1 \in SUBSET (1 .. n + 1) /\ 1 .. k + 1 # {}
    <3>1. k + 1 \in 1 .. k + 1 /\ \A j \in 1 .. k + 1 : j \in 1 .. n + 1
      BY <1>1, <2>1
    <3>2. QED
      BY <3>1
  <2>4. k < n => 1 .. k + 1 \in SUBSET (1 .. n)
    <3>1. k < n => \A j \in 1 .. k + 1 : j \in 1 .. n
      BY <1>1
    <3>2. QED
      BY <3>1
  <2>5. h[1 .. k + 1] = Grant(h[1 .. k], w[k + 1])
    BY <1>1, <1>4, <2>2, <2>3 DEF Grants
  <2>6. k < n => g[1 .. k + 1] = Grant(g[1 .. k], v[k + 1])
    BY <1>1, <1>3, <2>2, <2>3, <2>4 DEF Grants
  <2>7. QED
    BY <2>5, <2>6
<1>8. ASSUME NEW k \in A PROVE k + 1 \in A
  <2>1. SUFFICES ASSUME k + 1 <= n PROVE g[1 .. k + 1] = h[1 .. k + 1]
    OBVIOUS
  <2>2. k \in Nat /\ k < n + 1 /\ k < n /\ k + 1 \in 1 .. n
    BY <1>1, <2>1
  <2>3. g[1 .. k] = h[1 .. k] /\ w[k + 1] = v[k + 1]
    BY <1>1, <2>2
  <2>4. QED
    BY <1>7, <2>2, <2>3
<1>9. A = Nat
  <2>1. A \in SUBSET Nat
    OBVIOUS
  <2> HIDE DEF A
  <2>2. QED
    BY <1>6, <1>8, <2>1, Induction
<1>10. g[1 .. n] = h[1 .. n]
  BY <1>1, <1>9
<1>11. h[1 .. n + 1] = Grant(h[1 .. n], m)
  BY <1>1, <1>7
<1>12. g[1 .. n] \in Account
  <2> DEFINE C == {k \in Nat : k <= n => g[1 .. k] \in Account}
  <2>1. 0 \in C
    <3>1. g[{}] = [free |-> free, cost |-> 0] /\ 1 .. 0 = {}
      BY <1>3 DEF Grants
    <3>2. QED
      BY <3>1 DEF Account
  <2>2. ASSUME NEW k \in C PROVE k + 1 \in C
    <3>1. SUFFICES ASSUME k + 1 <= n PROVE g[1 .. k + 1] \in Account
      OBVIOUS
    <3>2. k \in Nat /\ k < n + 1 /\ k < n /\ k + 1 \in 1 .. n
      BY <1>1, <3>1
    <3>3. g[1 .. k] \in Account /\ v[k + 1] \in Made
      BY <1>1, <3>2, ElementOfSeq DEF v, n
    <3>4. QED
      BY <1>7, <3>2, <3>3, GrantIsAccount
  <2>3. C = Nat
    <3>1. C \in SUBSET Nat
      OBVIOUS
    <3> HIDE DEF C
    <3>2. QED
      BY <2>1, <2>2, <3>1, Induction
  <2>4. QED
    BY <1>1, <2>3
<1>13. QED
  BY <1>5, <1>10, <1>11, <1>12

\* Before the first week nothing was paid.
LEMMA GrantedNothing ==
  ASSUME NEW p, p.weeks = <<>>, NEW free \in Int
  PROVE  Granted(p, free) = [free |-> free, cost |-> 0]
<1>1. <<>> \in Seq(Made) /\ DOMAIN p.weeks = {}
  BY EmptySeq
<1>2. \E g : Grants(p.weeks, free, g)
  BY <1>1, GrantsExist
<1>3. Grants(p.weeks, free, CHOOSE g : Grants(p.weeks, free, g))
  BY <1>2
<1>4. QED
  BY <1>1, <1>3, GrantedIsFold DEF Grants

-----------------------------------------------------------------------------
(* Plans. *)

SameSquad(p, s) == p.order = s.order /\ p.held = s.held /\ p.bank = s.bank

\* What a squad may do depends on its players, their prices and its money.
LEMMA SameSquadsMove ==
  ASSUME NEW offers, NEW p, SquadFields \subseteq DOMAIN p,
         NEW s, SquadFields \subseteq DOMAIN s, SameSquad(p, s), NEW m
  PROVE  /\ Owned(p) = Owned(s) /\ SquadValue(p) = SquadValue(s)
         /\ Movable(p, m) <=> Movable(s, m)
         /\ Still(p, m) <=> Still(s, m)
         /\ Affordable(offers, p, m) <=> Affordable(offers, s, m)
<1>1. Owned(p) = Owned(s)
  BY DEF SameSquad, Owned
<1>2. SquadValue(p) = SquadValue(s)
  BY <1>1 DEF SameSquad, SquadValue, SellingValue
<1>3. (Movable(p, m) <=> Movable(s, m)) /\ (Still(p, m) <=> Still(s, m))
  BY <1>1 DEF Movable, Still
<1>4. /\ AfterMoves(offers, p, m).bank = AfterMoves(offers, s, m).bank
      /\ AfterMoves(offers, p, m).order = AfterMoves(offers, s, m).order
  BY <1>1 DEF AfterMoves, SquadFields, SameSquad
<1>5. Affordable(offers, p, m) <=> Affordable(offers, s, m)
  BY <1>4 DEF Affordable, Owned
<1>6. QED
  BY <1>1, <1>2, <1>3, <1>5

LEMMA SameSquadIsOK ==
  ASSUME NEW s, SquadOK(s), NEW p, SquadFields \subseteq DOMAIN p, SameSquad(p, s),
         p.free \in 0 .. MaxFree
  PROVE  SquadOK(p)
<1>1. Owned(p) = Owned(s) /\ Places(p) = Places(s)
  BY DEF SameSquad, Owned, Places
<1>2. QED
  BY <1>1 DEF SameSquad, SquadOK

\* The free transfers of the next week.
LEMMA FreeAdvances ==
  ASSUME NEW free \in 0 .. MaxFree, NEW n \in Nat
  PROVE  Advance(free, n) \in 0 .. MaxFree /\ Over(n, free) \in Nat
  BY DEF Advance, Over, Least, MaxFree

PlanFields == {"net", "cost", "weeks", "rank"}

\* The moves of a plan's week, whom they may bring, and when there may be none.
WeeksOK(offers, options, p) ==
  \A k \in 1 .. Len(p.weeks) :
    /\ Range(p.weeks[k]) \subseteq offers.onSale[k] \ options.excluded
    /\ k \in options.forced => p.weeks[k] = <<>>

\* How a plan starts from the squad it is for.
Starts(offers, s, p) ==
  /\ p.weeks = <<>> => SameSquad(p, s)
  /\ p.weeks # <<>> => /\ Movable(s, p.weeks[1])
                       /\ Still(s, p.weeks[1]) \/ Affordable(offers, s, p.weeks[1])

\* A plan of n weeks for a squad.
PlanOK(offers, s, options, p, n) ==
  /\ SquadOK(p) /\ PlanFields \subseteq DOMAIN p
  /\ p.weeks \in Seq(Made) /\ Len(p.weeks) = n
  /\ SquadValue(p) = SquadValue(s)
  /\ LegalSquad(offers, Owned(p)) \/ Owned(p) = Owned(s)
  /\ options.protected \subseteq Owned(p)
  /\ WeeksOK(offers, options, p)
  /\ p.cost = Granted(p, s.free).cost /\ p.free = Granted(p, s.free).free
  /\ Starts(offers, s, p)

LEMMA BegunIsPlan ==
  ASSUME NEW offers, NEW s, SquadOK(s), NEW options, options.protected \subseteq Owned(s),
         NEW p, p = Begun(offers, s)
  PROVE  PlanOK(offers, s, options, p, 0)
<1>1. /\ SquadFields \subseteq DOMAIN p /\ PlanFields \subseteq DOMAIN p
      /\ SameSquad(p, s) /\ p.free = s.free /\ p.weeks = <<>> /\ p.cost = 0
  BY DEF Begun, SquadFields, PlanFields, SameSquad
<1>2. SquadOK(p)
  BY <1>1, SameSquadIsOK DEF SquadOK
<1>3. Owned(p) = Owned(s) /\ SquadValue(p) = SquadValue(s)
  BY <1>1, SameSquadsMove DEF SquadOK
<1>4. p.weeks \in Seq(Made) /\ Len(p.weeks) = 0
  BY <1>1, EmptySeq
<1>5. WeeksOK(offers, options, p)
  BY <1>4 DEF WeeksOK
<1>6. s.free \in Int
  BY DEF SquadOK, MaxFree
<1>7. Granted(p, s.free) = [free |-> s.free, cost |-> 0]
  BY <1>1, <1>6, GrantedNothing
<1>8. QED
  BY <1>1, <1>2, <1>3, <1>4, <1>5, <1>7 DEF PlanOK, Starts

\* What a step of a plan changes.
\* Moves leave everything but the players and the money.
LeavesRest(p, a) ==
  DOMAIN a = DOMAIN p /\ \A x \in DOMAIN p \ {"order", "held", "bank"} : a[x] = p[x]

\* What a week leaves of the squad and the accounts.
Stepped(p, m, a, q) ==
  /\ DOMAIN q = DOMAIN p /\ SameSquad(q, a)
  /\ q.free = Advance(p.free, Cardinality(DOMAIN m))
  /\ q.cost = p.cost + Cost(p, Cardinality(DOMAIN m))
  /\ q.weeks = Append(p.weeks, m)

LEMMA StepFields ==
  ASSUME NEW offers, NEW p, SquadOK(p), PlanFields \subseteq DOMAIN p, NEW m, NEW w,
         NEW a, a = AfterMoves(offers, p, m), LeavesRest(p, a),
         NEW q, q = Step(offers, p, m, w)
  PROVE  Stepped(p, m, a, q)
<1> DEFINE n == Cardinality(DOMAIN m)
           next == [a EXCEPT !.free = Advance(p.free, n),
                             !.cost = @ + Cost(p, n),
                             !.net = @ + LineupOf(a, offers.xp[w]).total - Cost(p, n),
                             !.weeks = Append(@, m)]
<1>1. q = [next EXCEPT !.rank = Ranking(offers, next, w)]
  BY DEF Step
<1>2. /\ DOMAIN next = DOMAIN p /\ SameSquad(next, a)
      /\ next.free = Advance(p.free, n)
      /\ next.cost = a.cost + Cost(p, n)
      /\ next.weeks = Append(a.weeks, m)
  BY DEF SameSquad, PlanFields, SquadOK, SquadFields, LeavesRest
<1>3. a.cost = p.cost /\ a.weeks = p.weeks
  BY DEF PlanFields, LeavesRest
<1> HIDE DEF next
<1>4. /\ DOMAIN q = DOMAIN next /\ SameSquad(q, next)
      /\ q.free = next.free /\ q.cost = next.cost /\ q.weeks = next.weeks
  BY <1>1, <1>2 DEF SameSquad, PlanFields, SquadOK, SquadFields
<1>5. QED
  BY <1>2, <1>3, <1>4 DEF SameSquad, Stepped

\* One more week of a plan.
LEMMA StepIsPlan ==
  ASSUME NEW offers, Marketable(offers), NEW s, SquadOK(s), NEW options, NEW n \in Nat,
         n + 1 \in Horizon(offers), NEW p, PlanOK(offers, s, options, p, n),
         NEW m, WeekMoves(offers, options, p, m, n + 1),
         NEW q, q = Step(offers, p, m, n + 1)
  PROVE  PlanOK(offers, s, options, q, n + 1)
<1>1. PICK a : a = AfterMoves(offers, p, m)
  OBVIOUS
<1>2. /\ SquadOK(p) /\ PlanFields \subseteq DOMAIN p /\ Movable(p, m)
      /\ p.weeks \in Seq(Made) /\ Len(p.weeks) = n
  BY DEF PlanOK, WeekMoves
<1>3. /\ DOMAIN a = DOMAIN p /\ \A x \in DOMAIN p \ {"order", "held", "bank"} : a[x] = p[x]
      /\ Owned(a) = (Owned(p) \ DOMAIN m) \cup Range(m)
  <2>1. SquadOK(p) /\ Movable(p, m) /\ a = AfterMoves(offers, p, m)
    BY <1>1, <1>2
  <2>2. QED
    BY ONLY <2>1, MovesField
<1>4. /\ SquadOK(a) /\ SquadValue(a) = SquadValue(p)
      /\ LegalSquad(offers, Owned(a)) \/ Owned(a) = Owned(p)
  <2>1. CASE Still(p, m)
    BY <1>1, <1>2, <2>1, NoMovesChangeNothing
  <2>2. CASE Affordable(offers, p, m)
    BY <1>1, <1>2, <2>2, MovesAreSound
  <2>3. QED
    BY <2>1, <2>2 DEF WeekMoves
<1>5. /\ DOMAIN q = DOMAIN p /\ SameSquad(q, a)
      /\ q.free = Advance(p.free, Cardinality(DOMAIN m))
      /\ q.cost = p.cost + Cost(p, Cardinality(DOMAIN m))
      /\ q.weeks = Append(p.weeks, m)
  <2>1. PICK w : w = n + 1
    OBVIOUS
  <2>2. /\ SquadOK(p) /\ PlanFields \subseteq DOMAIN p /\ a = AfterMoves(offers, p, m)
        /\ LeavesRest(p, a) /\ q = Step(offers, p, m, w)
    BY <1>1, <1>2, <1>3, <2>1 DEF LeavesRest
  <2>3. Stepped(p, m, a, q)
    BY ONLY <2>2, StepFields
  <2>4. QED
    BY <2>3 DEF Stepped
<1>6. m \in Made /\ Cardinality(DOMAIN m) \in Nat
  <2>1. DOMAIN m \in SUBSET Players /\ m \in [DOMAIN m -> Players]
    BY <1>2, SquadFacts DEF Movable
  <2>2. QED
    BY <2>1, PlayersAreFinite DEF Made
<1>7. q.free \in 0 .. MaxFree
  BY <1>2, <1>5, <1>6, FreeAdvances DEF SquadOK
<1>8. SquadFields \subseteq DOMAIN q /\ SquadFields \subseteq DOMAIN a
  BY <1>2, <1>3, <1>5 DEF SquadOK
<1>9. SquadOK(q) /\ Owned(q) = Owned(a) /\ SquadValue(q) = SquadValue(a)
  BY <1>4, <1>5, <1>7, <1>8, SameSquadIsOK, SameSquadsMove
<1>10. /\ q.weeks \in Seq(Made) /\ Len(q.weeks) = n + 1
       /\ \A k \in 1 .. n : q.weeks[k] = p.weeks[k]
       /\ q.weeks[n + 1] = m
  <2>1. /\ p.weeks \in Seq(Made) /\ Len(p.weeks) = n /\ q.weeks = Append(p.weeks, m)
        /\ m \in Made
    BY <1>2, <1>5, <1>6
  <2>2. QED
    BY ONLY <2>1, Appended
<1>11. SquadValue(q) = SquadValue(s)
  BY <1>4, <1>9 DEF PlanOK
<1>12. LegalSquad(offers, Owned(q)) \/ Owned(q) = Owned(s)
  BY <1>4, <1>9 DEF PlanOK
<1>13. options.protected \subseteq Owned(q)
  BY <1>3, <1>9 DEF PlanOK, WeekMoves
<1>14. WeeksOK(offers, options, q)
  <2>1. \A k \in 1 .. n + 1 : k \in 1 .. n \/ k = n + 1
    OBVIOUS
  <2>2. QED
    BY <1>2, <1>10, <2>1 DEF WeeksOK, PlanOK, WeekMoves
<1>15. q.cost = Granted(q, s.free).cost /\ q.free = Granted(q, s.free).free
  <2>1. s.free \in Int
    BY DEF SquadOK, MaxFree
  <2>2. Granted(q, s.free) = Grant(Granted(p, s.free), m)
    BY <1>2, <1>5, <1>6, <2>1, GrantedAppends
  <2>3. p.cost = Granted(p, s.free).cost /\ p.free = Granted(p, s.free).free
    BY DEF PlanOK
  <2>4. QED
    BY <1>5, <2>2, <2>3 DEF Grant, Cost
<1>16. Starts(offers, s, q)
  <2>1. q.weeks # <<>>
    BY <1>10, EmptySeq
  <2>2. CASE n = 0
    <3>1. p.weeks = <<>>
      BY <1>2, <2>2, EmptySeq
    <3>2. SameSquad(p, s) /\ q.weeks[1] = m
      BY <1>10, <2>2, <3>1 DEF PlanOK, Starts
    <3>3. /\ Movable(p, m) <=> Movable(s, m)
          /\ Still(p, m) <=> Still(s, m)
          /\ Affordable(offers, p, m) <=> Affordable(offers, s, m)
      BY <1>2, <3>2, SameSquadsMove DEF SquadOK
    <3>4. QED
      BY <2>1, <3>2, <3>3 DEF Starts, WeekMoves
  <2>3. CASE n # 0
    <3>1. p.weeks # <<>> /\ q.weeks[1] = p.weeks[1]
      BY <1>2, <1>10, <2>3, EmptySeq
    <3>2. QED
      BY <2>1, <3>1 DEF PlanOK, Starts
  <2>4. QED
    BY <2>2, <2>3
<1>17. QED
  BY <1>2, <1>5, <1>9, <1>10, <1>11, <1>12, <1>13, <1>14, <1>15, <1>16 DEF PlanOK

\* One more week of all plans.
LEMMA WeekIsPlanned ==
  ASSUME NEW offers, Marketable(offers), NEW s, SquadOK(s), NEW options, NEW n \in Nat,
         n + 1 \in Horizon(offers), NEW plans, \A p \in plans : PlanOK(offers, s, options, p, n),
         NEW q \in PlanWeek(offers, plans, options, n + 1)
  PROVE  PlanOK(offers, s, options, q, n + 1)
<1>1. q \in Expanded(offers, plans, options, n + 1)
  BY DEF PlanWeek, Kept, Distinct
<1>2. PICK p \in plans :
        \E m \in Moves(offers, p, options, n + 1) : q = Step(offers, p, m, n + 1)
  BY <1>1 DEF Expanded
<1>3. PlanOK(offers, s, options, p, n) /\ SquadOK(p)
  BY <1>2 DEF PlanOK
<1>4. PICK m \in Moves(offers, p, options, n + 1) : q = Step(offers, p, m, n + 1)
  BY <1>2
<1>5. WeekMoves(offers, options, p, m, n + 1)
  BY <1>3, <1>4, MovesAreMade
<1>6. QED
  BY <1>3, <1>4, <1>5, StepIsPlan

-----------------------------------------------------------------------------
(* The wildcard. *)

MarketFields == {"price", "club", "xp", "onSale"}

LEMMA MarketsAreMarketable ==
  ASSUME NEW m \in Markets
  PROVE  Marketable(m) /\ MarketFields \subseteq DOMAIN m
<1>1. m = [price |-> m.price, club |-> m.club, xp |-> m.xp, onSale |-> m.onSale]
  BY MarketsAssumption
<1>2. Marketable(m)
  BY MarketsAssumption DEF Marketable
<1>3. MarketFields \subseteq DOMAIN m
  BY <1>1 DEF MarketFields
<1>4. QED
  BY <1>2, <1>3

\* The prices of a wildcard are those of the market, but for who is owned.
LEMMA PricedIsMarketable ==
  ASSUME NEW offers, Marketable(offers), MarketFields \subseteq DOMAIN offers,
         NEW s, SquadOK(s), NEW priced, priced = Priced(offers, s)
  PROVE  /\ Marketable(priced) /\ priced.club = offers.club
         /\ \A p \in Players : priced.price[p] = Retained(offers, s, p)
<1>1. /\ priced.club = offers.club /\ priced.xp = offers.xp /\ priced.onSale = offers.onSale
      /\ priced.price = [p \in Players |-> Retained(offers, s, p)]
  BY DEF Priced, MarketFields
<1>2. \A p \in Owned(s) : s.held[p] \in Holding1
  BY SquadFacts
<1>3. \A p \in Players : Retained(offers, s, p) \in Nat
  BY <1>2 DEF Retained, Holding1, Marketable
<1>4. QED
  BY <1>1, <1>3 DEF Marketable

\* A squad is worth what it would sell for and what is in the bank.
LEMMA ValueIsNumber ==
  ASSUME NEW s, SquadOK(s)
  PROVE  SquadValue(s) \in Nat
<1> DEFINE f == [p \in Owned(s) |-> s.held[p].sells]
<1>1. \A p \in Owned(s) : f[p] = s.held[p].sells
  OBVIOUS
<1> HIDE DEF f
<1>2. SellingValue(s) \in Nat
  BY <1>1, SellingIsSum
<1>3. QED
  BY <1>2 DEF SquadValue, SquadOK

\* The team that a wildcard buys is worth what the team was worth.
\* A squad of these players that is worth what another is worth.
WorthAs(s, S, r) ==
  SquadOK(r) /\ Owned(r) = S /\ SquadValue(r) = SquadValue(s) /\ r.free = s.free

LEMMA RestoredIsSound ==
  ASSUME NEW offers, Marketable(offers), MarketFields \subseteq DOMAIN offers,
         NEW s, SquadOK(s), NEW priced, priced = Priced(offers, s),
         NEW S, Filled(S), CostOf(priced, S) <= SquadValue(s),
         NEW b, b = Bought(priced, S, SquadValue(s)),
         NEW r, r = Restored(offers, s, b)
  PROVE  WorthAs(s, S, r)
<1>1. /\ Marketable(priced) /\ priced.club = offers.club
      /\ \A p \in Players : priced.price[p] = Retained(offers, s, p)
  BY PricedIsMarketable
<1>2. SquadValue(s) \in Nat
  BY ValueIsNumber
<1>3. SquadOK(b) /\ Owned(b) = S /\ b.bank = SquadValue(s) - CostOf(priced, S)
  BY <1>1, <1>2, BoughtIsSound
<1>4. b = [order |-> b.order, held |-> b.held, bank |-> b.bank, free |-> b.free,
           wildcard |-> b.wildcard]
  BY DEF Bought
<1>5. /\ SquadFields \subseteq DOMAIN r /\ r.order = b.order /\ r.bank = b.bank
      /\ r.free = s.free
      /\ r.held = [p \in S |-> IF p \in Owned(s) THEN s.held[p]
                               ELSE [paid |-> offers.price[p], sells |-> offers.price[p]]]
  BY <1>3, <1>4 DEF Restored, SquadFields
<1>6. S \in SUBSET Players /\ IsFiniteSet(S)
  BY PlayersAreFinite DEF Filled
<1>7. Owned(r) = S
  BY <1>3, <1>5 DEF Owned
<1>8. r.held \in [S -> Holding1]
  <2>1. \A p \in Owned(s) : s.held[p] \in Holding1
    BY SquadFacts
  <2>2. \A p \in S : offers.price[p] \in Nat
    BY <1>6 DEF Marketable
  <2>3. QED
    BY <1>5, <2>1, <2>2 DEF Holding1
<1>9. SquadOK(r)
  BY <1>3, <1>5, <1>7, <1>8 DEF SquadOK, Places
<1>10. \A p \in S : priced.price[p] = r.held[p].sells
  BY <1>1, <1>5, <1>6 DEF Retained
<1>11. SellingValue(r) = CostOf(priced, S)
  BY <1>7, <1>9, <1>10, SellingIsSum DEF CostOf, Sum
<1>12. CostOf(priced, S) \in Nat
  BY <1>1, <1>6, CostIsNumber
<1>13. SquadValue(r) = SquadValue(s)
  BY <1>2, <1>3, <1>5, <1>11, <1>12 DEF SquadValue
<1>14. QED
  BY <1>5, <1>7, <1>9, <1>13 DEF WorthAs

\* Only rules that are accepted find anything.
LEMMA SearchesAreAccepted ==
  ASSUME NEW offers, NEW rules, NEW s \in Search(offers, rules)
  PROVE  Accepts(offers, rules)
  BY DEF Search

\* The candidates of a wildcard.
LEMMA WildcardsAreSound ==
  ASSUME NEW offers, Marketable(offers), MarketFields \subseteq DOMAIN offers,
         NEW s, SquadOK(s), "wildcard" \in DOMAIN s, NEW rules \in Ruled,
         NEW c \in WildcardCandidates(offers, s, rules)
  PROVE  /\ SquadOK(c) /\ "wildcard" \in DOMAIN c
         /\ LegalSquad(offers, Owned(c)) /\ SquadValue(c) = SquadValue(s) /\ c.free = s.free
         /\ rules.locked \subseteq Owned(c) /\ rules.excluded \cap Owned(c) = {}
<1>1. PICK priced : priced = Priced(offers, s)
  OBVIOUS
<1>2. PICK asked : asked = [rules EXCEPT !.budget = SquadValue(s), !.planned = FALSE]
  OBVIOUS
<1> DEFINE found == {Restored(offers, s, d.squad) : d \in OptimizeInitialSquad(priced, asked)}
<1>3. CASE c \in found
  <2>1. PICK d \in OptimizeInitialSquad(priced, asked) : c = Restored(offers, s, d.squad)
    BY <1>3
  <2>2. Marketable(priced) /\ priced.club = offers.club
    BY <1>1, PricedIsMarketable
  <2>3. /\ asked.budget = SquadValue(s) /\ asked.budget \in Nat
        /\ asked.locked = rules.locked /\ asked.excluded = rules.excluded
        /\ asked.locked \in SUBSET Players
    BY <1>2, ValueIsNumber DEF Ruled
  <2>4. PICK partials : partials = Search(priced, asked)
    OBVIOUS
  <2>5. d \in Shortlisted(Completed(priced, asked, partials), asked.returned)
    BY <2>1, <2>4 DEF OptimizeInitialSquad
  <2>6. \E t \in partials : BoughtFor(priced, asked, t, d)
    <3>1. d \in Completed(priced, asked, partials)
      BY <2>5 DEF Shortlisted, Foremost
    <3>2. QED
      BY <3>1, CompletedAreBought
  <2>7. Accepts(priced, asked) /\ Lockable(asked)
    <3>1. Accepts(priced, asked)
      BY <2>4, <2>6, SearchesAreAccepted
    <3>2. QED
      BY <2>3, <3>1 DEF Accepts, Lockable, LockedOf
  <2>8. \A t \in partials : Picked(priced, asked, t, Len(OpenSlots(asked)))
    BY <2>2, <2>3, <2>4, <2>7, SearchFills
  <2>9. PICK t \in partials :
          \E S : /\ S = asked.locked \cup Range(t.ids)
                 /\ Filled(S) /\ LegalSquad(priced, S) /\ CostOf(priced, S) <= asked.budget
                 /\ d.squad = Bought(priced, S, asked.budget)
                 /\ SquadOK(d.squad) /\ Owned(d.squad) = S
    BY <2>2, <2>3, <2>5, <2>7, <2>8, FoundIsSound
  <2>10. PICK S : /\ S = asked.locked \cup Range(t.ids)
                  /\ Filled(S) /\ LegalSquad(priced, S) /\ CostOf(priced, S) <= asked.budget
                  /\ d.squad = Bought(priced, S, asked.budget)
    BY <2>9
  <2>11. /\ SquadOK(c) /\ Owned(c) = S /\ SquadValue(c) = SquadValue(s) /\ c.free = s.free
    <3>1. /\ Marketable(offers) /\ MarketFields \subseteq DOMAIN offers /\ SquadOK(s)
          /\ priced = Priced(offers, s) /\ Filled(S)
          /\ CostOf(priced, S) <= SquadValue(s)
          /\ d.squad = Bought(priced, S, SquadValue(s))
          /\ c = Restored(offers, s, d.squad)
      BY <1>1, <2>1, <2>3, <2>10
    <3>2. WorthAs(s, S, c)
      BY ONLY <3>1, RestoredIsSound
    <3>3. QED
      BY <3>2 DEF WorthAs
  <2>12. LegalSquad(offers, S)
    <3>1. priced.club = offers.club /\ LegalSquad(priced, S)
      BY <2>2, <2>10
    <3>2. QED
      BY ONLY <3>1 DEF LegalSquad, Clubs
  <2>13. "wildcard" \in DOMAIN c
    BY <2>1, <2>10 DEF Restored, Bought
  <2>14. rules.locked \subseteq S /\ rules.excluded \cap S = {}
    <3>1. Picked(priced, asked, t, Len(OpenSlots(asked)))
      BY <2>8
    <3>2. Range(t.ids) \cap asked.excluded = {}
      <4>1. DOMAIN t.ids = 1 .. Len(OpenSlots(asked))
        BY <3>1, LenProperties DEF Picked
      <4>2. QED
        BY <3>1, <4>1 DEF Picked, Range
    <3>3. asked.locked \cap asked.excluded = {}
      BY <2>7 DEF Accepts
    <3>4. QED
      BY <2>3, <2>10, <3>2, <3>3
  <2>15. QED
    BY <2>11, <2>12, <2>13, <2>14
<1>4. CASE c \notin found
  <2>1. /\ c = [s EXCEPT !.wildcard = FALSE]
        /\ rules.locked \subseteq Owned(s) /\ rules.excluded \cap Owned(s) = {}
        /\ Clubs(offers, Owned(s))
    <3>1. c \in OrOwned(offers, s, rules, found)
      BY <1>1, <1>2 DEF WildcardCandidates
    <3> HIDE DEF found
    <3>2. QED
      BY <1>4, <3>1 DEF OrOwned
  <2>2. SquadFields \subseteq DOMAIN c /\ "wildcard" \in DOMAIN c
        /\ SameSquad(c, s) /\ c.free = s.free
    BY <2>1 DEF SquadOK, SquadFields, SameSquad
  <2>3. SquadOK(c)
    BY <2>2, SameSquadIsOK DEF SquadOK
  <2>4. Owned(c) = Owned(s) /\ SquadValue(c) = SquadValue(s)
    BY <2>2, SameSquadsMove DEF SquadOK
  <2>5. Filled(Owned(s))
    BY SquadFacts
  <2>6. QED
    BY <2>1, <2>2, <2>3, <2>4, <2>5 DEF LegalSquad, Filled
<1>5. QED
  BY <1>3, <1>4

\* The squad that a comparison proposes is one of the candidates.
LEMMA ComparedAreCandidates ==
  ASSUME NEW offers, NEW s, NEW candidates, NEW roll,
         NEW compared \in CompareWildcard(offers, s, candidates, roll)
  PROVE  compared.squad \in candidates
<1> DEFINE scored == {<<WildcardObjective(offers, c, roll), c>> : c \in candidates}
<1>1. PICK best \in HighestOf(scored) : compared.squad = best[2]
  BY DEF CompareWildcard, Compared
<1>2. best \in scored
  BY <1>1 DEF HighestOf
<1>3. QED
  BY <1>1, <1>2

\* A squad in a new release sells for other prices.
LEMMA ResoldIsSound ==
  ASSUME NEW m, Marketable(m), NEW s, SquadOK(s), NEW t,
         t = [s EXCEPT !.held = [p \in DOMAIN @ |->
                [paid |-> @[p].paid, sells |-> SellingPrice(@[p].paid, m.price[p])]]]
  PROVE  SquadOK(t) /\ Owned(t) = Owned(s) /\ DOMAIN t = DOMAIN s
<1>1. /\ DOMAIN t = DOMAIN s /\ t.order = s.order /\ t.bank = s.bank /\ t.free = s.free
      /\ t.held = [p \in Owned(s) |-> [paid |-> s.held[p].paid,
                                       sells |-> SellingPrice(s.held[p].paid, m.price[p])]]
  BY DEF SquadOK, SquadFields
<1>2. Owned(t) = Owned(s) /\ Places(t) = Places(s)
  BY <1>1 DEF Owned, Places
<1>3. \A p \in Owned(s) : /\ s.held[p].paid \in Nat /\ m.price[p] \in Nat
                          /\ SellingPrice(s.held[p].paid, m.price[p]) \in Nat
  <2>1. \A p \in Owned(s) : s.held[p].paid \in Nat /\ m.price[p] \in Nat
    BY SquadFacts DEF Holding1, Marketable
  <2>2. \A a, b \in Nat : SellingPrice(a, b) \in Nat
    BY DEF SellingPrice
  <2>3. QED
    BY <2>1, <2>2
<1>4. t.held \in [Owned(t) -> Holding1]
  <2>1. \A p \in Owned(s) : [paid |-> s.held[p].paid,
                              sells |-> SellingPrice(s.held[p].paid, m.price[p])] \in Holding1
    BY <1>3 DEF Holding1
  <2>2. QED
    BY <1>1, <1>2, <2>1
<1>5. QED
  BY <1>1, <1>2, <1>4 DEF SquadOK

-----------------------------------------------------------------------------
(* The inductive invariant. *)

\* Whoever has a squad has fifteen players who fill it.
SquadsAreOK ==
  squad # NoSquad => SquadOK(squad) /\ "wildcard" \in DOMAIN squad

\* After n slots every partial squad has n picks, one for each of them.
SearchesAreOK ==
  task.kind = "search" =>
    /\ squad = NoSquad
    /\ task.rules \in Rules /\ Accepts(market, task.rules)
    /\ task = [kind |-> "search", rules |-> task.rules, slot |-> task.slot,
               partials |-> task.partials]
    /\ task.slot \in 1 .. Len(OpenSlots(task.rules)) + 1
    /\ \A s \in task.partials : Picked(market, task.rules, s, task.slot - 1)

FoundAreOK ==
  task.kind = "found" =>
    /\ squad # NoSquad
    /\ task.rules \in Rules /\ Accepts(market, task.rules)
    /\ \A s \in task.partials : Picked(market, task.rules, s, Len(OpenSlots(task.rules)))

\* After n weeks every plan has n weeks.
PlansAreOK ==
  task.kind = "plan" =>
    /\ squad # NoSquad
    /\ task = [kind |-> "plan", options |-> task.options, week |-> task.week,
               plans |-> task.plans]
    /\ task.week \in 1 .. Len(market.xp) + 1
    /\ \A p \in task.plans : PlanOK(market, squad, task.options, p, task.week - 1)

\* A wildcard leaves a legal squad.
WildcardsAreLegal ==
  task.kind = "wildcard" =>
    /\ LegalSquad(market, Owned(squad)) /\ squad.free = task.before.free
    /\ SquadValue(squad) = SquadValue(task.before)
    /\ task.rules.locked \subseteq Owned(squad) /\ task.rules.excluded \cap Owned(squad) = {}

StackInv ==
  /\ market \in Markets
  /\ SquadsAreOK /\ SearchesAreOK /\ FoundAreOK /\ PlansAreOK /\ WildcardsAreLegal

LEMMA InitStack == Init => StackInv
<1> SUFFICES ASSUME Init PROVE StackInv
  OBVIOUS
<1>1. task.kind = "idle"
  BY DEF Init, Idle
<1>2. QED
  BY <1>1 DEF Init, StackInv, SquadsAreOK, SearchesAreOK, FoundAreOK, PlansAreOK,
              WildcardsAreLegal

\* A task of another kind keeps the invariant.
LEMMA OtherTasks ==
  ASSUME StackInv, market' \in Markets,
         squad' # NoSquad => SquadOK(squad') /\ "wildcard" \in DOMAIN squad',
         task'.kind \notin {"search", "found", "plan", "wildcard"}
  PROVE  StackInv'
  BY DEF StackInv, SquadsAreOK, SearchesAreOK, FoundAreOK, PlansAreOK, WildcardsAreLegal

LEMMA OtherTasksOnly ==
  ASSUME StackInv, UNCHANGED <<market, squad>>,
         task'.kind \notin {"search", "found", "plan", "wildcard"}
  PROVE  StackInv'
<1>1. market' \in Markets
  BY DEF StackInv
<1>2. squad' # NoSquad => SquadOK(squad') /\ "wildcard" \in DOMAIN squad'
  BY DEF StackInv, SquadsAreOK
<1>3. QED
  BY <1>1, <1>2, OtherTasks

LEMMA AcceptedAreLockable ==
  ASSUME NEW m, NEW rules \in Rules, Accepts(m, rules)
  PROVE  Lockable(rules) /\ rules.budget \in Nat
<1>1. rules \in Ruled
  BY RequestsAssumption
<1>2. QED
  BY <1>1 DEF Accepts, Lockable, LockedOf, Ruled

LEMMA SearchStarts ==
  ASSUME StackInv, NEW rules \in Rules, StartSearch(rules)
  PROVE  StackInv'
<1>1. /\ Accepts(market, rules) /\ squad = NoSquad /\ market' = market /\ squad' = squad
      /\ task' = [kind |-> "search", rules |-> rules, slot |-> 1,
                  partials |-> {Seed(market, rules)}]
  BY DEF StartSearch
<1>2. Picked(market, rules, Seed(market, rules), 0)
  BY <1>1, SeedIsPicked
<1>3. Len(OpenSlots(rules)) \in Nat
  <2>1. Lockable(rules)
    BY <1>1, AcceptedAreLockable
  <2>2. OpenSlots(rules) \in Seq(Positions)
    BY <2>1, OpenSlotsFill
  <2>3. QED
    BY <2>2, LenProperties
<1>4. SearchesAreOK'
  <2>1. 1 \in 1 .. Len(OpenSlots(rules)) + 1 /\ 1 - 1 = 0
    BY <1>3
  <2>2. \A s \in task'.partials : Picked(market, rules, s, task'.slot - 1)
    BY <1>1, <1>2, <2>1
  <2>3. QED
    BY <1>1, <2>1, <2>2 DEF SearchesAreOK
<1>5. task'.kind = "search"
  BY <1>1
<1>6. QED
  BY <1>1, <1>4, <1>5 DEF StackInv, SquadsAreOK, FoundAreOK, PlansAreOK, WildcardsAreLegal

LEMMA SearchContinues ==
  ASSUME StackInv, SearchSlot
  PROVE  StackInv'
<1> DEFINE rules == task.rules
           n == task.slot - 1
           os == OpenSlots(rules)
<1>1. /\ task.kind = "search" /\ task.slot <= Len(os) /\ market' = market /\ squad' = squad
      /\ task' = [task EXCEPT
                   !.slot = @ + 1,
                   !.partials = FillSlot(market, rules, CandidateIds(market, rules), @,
                                         os[task.slot])]
  BY DEF SearchSlot
<1>2. /\ squad = NoSquad /\ rules \in Rules /\ Accepts(market, rules)
      /\ task = [kind |-> "search", rules |-> task.rules, slot |-> task.slot,
                 partials |-> task.partials]
      /\ task.slot \in 1 .. Len(os) + 1
      /\ \A s \in task.partials : Picked(market, rules, s, n)
  BY <1>1 DEF StackInv, SearchesAreOK
<1>3. Lockable(rules) /\ rules.budget \in Nat /\ Marketable(market)
  BY <1>2, AcceptedAreLockable, MarketsAreMarketable DEF StackInv
<1>4. Len(os) \in Nat
  <2>1. os \in Seq(Positions)
    BY <1>3, OpenSlotsFill
  <2>2. QED
    BY <2>1, LenProperties
<1>5. n \in Nat /\ n < Len(os) /\ task.slot = n + 1 /\ n + 2 \in 1 .. Len(os) + 1
      /\ (n + 2) - 1 = n + 1 /\ task.slot + 1 = n + 2
  BY <1>1, <1>2, <1>4
<1> DEFINE filled == FillSlot(market, rules, CandidateIds(market, rules), task.partials, os[n + 1])
<1>6. \A t \in filled : Picked(market, rules, t, n + 1)
  BY <1>2, <1>3, <1>5, FillPicks
<1>7. task' = [kind |-> "search", rules |-> rules, slot |-> n + 2, partials |-> filled]
  BY <1>1, <1>2, <1>5
<1> HIDE DEF filled, os, n
<1>8. task'.kind = "search" /\ task'.rules = rules /\ task'.slot = n + 2 /\ task'.partials = filled
  BY <1>7
<1>9. SearchesAreOK'
  <2>1. squad' = NoSquad /\ task'.rules \in Rules /\ Accepts(market', task'.rules)
    BY <1>1, <1>2, <1>8
  <2>2. task'.slot \in 1 .. Len(OpenSlots(task'.rules)) + 1
    BY <1>5, <1>8 DEF os
  <2>3. \A s \in task'.partials : Picked(market', task'.rules, s, task'.slot - 1)
    BY <1>1, <1>5, <1>6, <1>8
  <2>4. task' = [kind |-> "search", rules |-> task'.rules, slot |-> task'.slot,
                 partials |-> task'.partials]
    BY <1>7, <1>8
  <2>5. QED
    BY <2>1, <2>2, <2>3, <2>4 DEF SearchesAreOK
<1>10. QED
  BY <1>1, <1>2, <1>8, <1>9 DEF StackInv, SquadsAreOK, FoundAreOK, PlansAreOK, WildcardsAreLegal

LEMMA SquadIsTaken ==
  ASSUME StackInv, TakeSquad
  PROVE  StackInv'
<1> DEFINE rules == task.rules
           os == OpenSlots(rules)
<1>1. /\ task.kind = "search" /\ task.slot > Len(os) /\ market' = market
  BY DEF TakeSquad
<1>2. /\ squad = NoSquad /\ rules \in Rules /\ Accepts(market, rules)
      /\ task.slot \in 1 .. Len(os) + 1
      /\ \A s \in task.partials : Picked(market, rules, s, task.slot - 1)
  BY <1>1 DEF StackInv, SearchesAreOK
<1>3. Lockable(rules) /\ rules.budget \in Nat /\ Marketable(market)
  BY <1>2, AcceptedAreLockable, MarketsAreMarketable DEF StackInv
<1>4. Len(os) \in Nat
  <2>1. os \in Seq(Positions)
    BY <1>3, OpenSlotsFill
  <2>2. QED
    BY <2>1, LenProperties
<1>5. task.slot - 1 = Len(os)
  BY <1>1, <1>2, <1>4
<1>6. \A s \in task.partials : Picked(market, rules, s, Len(os))
  BY <1>2, <1>5
<1>7. PICK best \in Best(Shortlisted(Completed(market, rules, task.partials), rules.returned)) :
        /\ \E free \in FreeTransfers : squad' = [best.squad EXCEPT !.free = free]
        /\ task' = [kind |-> "found", rules |-> rules, partials |-> task.partials,
                    best |-> best]
  BY DEF TakeSquad
<1>8. PICK free \in FreeTransfers : squad' = [best.squad EXCEPT !.free = free]
  BY <1>7
<1>9. best \in Shortlisted(Completed(market, rules, task.partials), rules.returned)
  BY <1>7 DEF Best
<1>10. PICK S : best.squad = Bought(market, S, rules.budget) /\ SquadOK(best.squad)
  BY <1>3, <1>6, <1>9, FoundIsSound, SMTT(30)
<1>11. /\ SquadFields \subseteq DOMAIN squad' /\ "wildcard" \in DOMAIN squad'
       /\ SameSquad(squad', best.squad) /\ squad'.free = free
  BY <1>8, <1>10 DEF Bought, SquadFields, SameSquad
<1>12. SquadOK(squad')
  <2>1. free \in 0 .. MaxFree
    BY <1>8, RequestsAssumption
  <2>2. QED
    BY <1>10, <1>11, <2>1, SameSquadIsOK
<1>13. squad' # NoSquad
  <2>1. Fielded(squad'.order)
    BY <1>12 DEF SquadOK
  <2>2. NoSquad.order = <<>> /\ DOMAIN <<>> = {} /\ 1 \in Slots
    BY DEF NoSquad, Slots
  <2>3. DOMAIN squad'.order = Slots
    BY <2>1 DEF Fielded
  <2>4. QED
    BY <2>2, <2>3
<1>14. task'.kind = "found" /\ task'.rules = rules /\ task'.partials = task.partials
  BY <1>7
<1>15. FoundAreOK'
  BY <1>1, <1>2, <1>6, <1>13, <1>14 DEF FoundAreOK
<1>16. QED
  BY <1>1, <1>11, <1>12, <1>14, <1>15 DEF StackInv, SquadsAreOK, SearchesAreOK, PlansAreOK, WildcardsAreLegal

LEMMA PlanStarts ==
  ASSUME StackInv, NEW options \in Options, StartPlan(options)
  PROVE  StackInv'
<1>1. /\ squad # NoSquad /\ options.protected \subseteq Owned(squad)
      /\ market' = market /\ squad' = squad
      /\ task' = [kind |-> "plan", options |-> options, week |-> 1,
                  plans |-> {Begun(market, squad)}]
  BY DEF StartPlan
<1>2. SquadOK(squad) /\ Marketable(market)
  BY <1>1, MarketsAreMarketable DEF StackInv, SquadsAreOK
<1>3. PlanOK(market, squad, options, Begun(market, squad), 0)
  BY <1>1, <1>2, BegunIsPlan
<1>4. Len(market.xp) \in Nat
  BY <1>2, WeeksAreFinite
<1>5. task'.kind = "plan" /\ task'.options = options /\ task'.week = 1
      /\ task'.plans = {Begun(market, squad)}
  BY <1>1
<1>6. PlansAreOK'
  <2>1. 1 \in 1 .. Len(market.xp) + 1 /\ 1 - 1 = 0
    BY <1>4
  <2>2. \A p \in task'.plans : PlanOK(market', squad', options, p, task'.week - 1)
    BY <1>1, <1>3, <1>5, <2>1
  <2>3. QED
    BY <1>1, <1>5, <2>1, <2>2 DEF PlansAreOK
<1>7. QED
  BY <1>1, <1>5, <1>6 DEF StackInv, SquadsAreOK, SearchesAreOK, FoundAreOK, WildcardsAreLegal

LEMMA PlanContinues ==
  ASSUME StackInv, PlanGameweek
  PROVE  StackInv'
<1> DEFINE options == task.options
           n == task.week - 1
<1>1. /\ task.kind = "plan" /\ task.week <= Len(market.xp) /\ market' = market /\ squad' = squad
      /\ task' = [task EXCEPT !.week = @ + 1,
                              !.plans = PlanWeek(market, @, options, task.week)]
  BY DEF PlanGameweek
<1>2. /\ squad # NoSquad
      /\ task = [kind |-> "plan", options |-> task.options, week |-> task.week,
                 plans |-> task.plans]
      /\ task.week \in 1 .. Len(market.xp) + 1
      /\ \A p \in task.plans : PlanOK(market, squad, options, p, n)
  BY <1>1 DEF StackInv, PlansAreOK
<1>3. SquadOK(squad) /\ Marketable(market)
  BY <1>2, MarketsAreMarketable DEF StackInv, SquadsAreOK
<1>4. Len(market.xp) \in Nat /\ Horizon(market) = 1 .. Len(market.xp)
  BY <1>3, WeeksAreFinite
<1>5. n \in Nat /\ n + 1 \in Horizon(market) /\ task.week = n + 1
      /\ n + 2 \in 1 .. Len(market.xp) + 1 /\ (n + 2) - 1 = n + 1 /\ task.week + 1 = n + 2
  BY <1>1, <1>2, <1>4
<1> DEFINE planned == PlanWeek(market, task.plans, options, n + 1)
<1>6. \A q \in planned : PlanOK(market, squad, options, q, n + 1)
  BY <1>2, <1>3, <1>5, WeekIsPlanned
<1>7. task' = [kind |-> "plan", options |-> options, week |-> n + 2, plans |-> planned]
  BY <1>1, <1>2, <1>5
<1> HIDE DEF planned, n
<1>8. task'.kind = "plan" /\ task'.options = options /\ task'.week = n + 2 /\ task'.plans = planned
  BY <1>7
<1>9. PlansAreOK'
  <2>1. task' = [kind |-> "plan", options |-> task'.options, week |-> task'.week,
                 plans |-> task'.plans]
    BY <1>7, <1>8
  <2>2. \A p \in task'.plans : PlanOK(market', squad', task'.options, p, task'.week - 1)
    BY <1>1, <1>5, <1>6, <1>8
  <2>3. squad' # NoSquad /\ task'.week \in 1 .. Len(market'.xp) + 1
    BY <1>1, <1>2, <1>5, <1>8
  <2>4. QED
    BY <2>1, <2>2, <2>3 DEF PlansAreOK
<1>10. QED
  BY <1>1, <1>8, <1>9 DEF StackInv, SquadsAreOK, SearchesAreOK, FoundAreOK, WildcardsAreLegal

\* Moves that are made.
LEMMA MadeIsSound ==
  ASSUME NEW m, Marketable(m), NEW s, SquadOK(s), NEW moves, Movable(s, moves),
         Still(s, moves) \/ Affordable(m, s, moves),
         NEW a, a = AfterMoves(m, s, moves)
  PROVE  SquadOK(a) /\ SquadValue(a) = SquadValue(s) /\ DOMAIN a = DOMAIN s
<1>1. DOMAIN a = DOMAIN s
  BY DEF AfterMoves
<1>2. CASE Still(s, moves)
  BY <1>1, <1>2, NoMovesChangeNothing
<1>3. CASE Affordable(m, s, moves)
  BY <1>1, <1>3, MovesAreSound
<1>4. QED
  BY <1>2, <1>3

LEMMA TransfersAreMade ==
  ASSUME StackInv, MakeTransfers
  PROVE  StackInv' /\ SquadValue(squad') = SquadValue(squad)
<1>1. /\ task.kind = "plan" /\ task.week > Len(market.xp)
      /\ task' = Decided /\ market' = market
  BY DEF MakeTransfers
<1>2. PICK plan \in Returned(task.plans) :
        squad' = [AfterMoves(market, squad, plan.weeks[1])
                    EXCEPT !.free = Advance(squad.free, Cardinality(DOMAIN plan.weeks[1]))]
  BY DEF MakeTransfers
<1>3. /\ squad # NoSquad /\ task.week \in 1 .. Len(market.xp) + 1
      /\ \A p \in task.plans : PlanOK(market, squad, task.options, p, task.week - 1)
  BY <1>1 DEF StackInv, PlansAreOK
<1>4. SquadOK(squad) /\ "wildcard" \in DOMAIN squad /\ Marketable(market)
  BY <1>3, MarketsAreMarketable DEF StackInv, SquadsAreOK
<1>5. Len(market.xp) \in Nat \ {0}
  BY <1>4, WeeksAreFinite
<1>6. task.week - 1 = Len(market.xp)
  BY <1>1, <1>3, <1>5
<1>7. PlanOK(market, squad, task.options, plan, Len(market.xp))
  BY <1>2, <1>3, <1>6 DEF Returned
<1>8. PICK moves : moves = plan.weeks[1]
  OBVIOUS
<1>9. /\ Movable(squad, moves)
      /\ Still(squad, moves) \/ Affordable(market, squad, moves)
  <2>1. plan.weeks # <<>>
    BY <1>5, <1>7, EmptySeq DEF PlanOK
  <2>2. QED
    BY <1>7, <1>8, <2>1 DEF PlanOK, Starts
<1>10. PICK a : a = AfterMoves(market, squad, moves)
  OBVIOUS
<1>11. SquadOK(a) /\ SquadValue(a) = SquadValue(squad) /\ DOMAIN a = DOMAIN squad
  <2>1. /\ Marketable(market) /\ SquadOK(squad) /\ Movable(squad, moves)
        /\ Still(squad, moves) \/ Affordable(market, squad, moves)
        /\ a = AfterMoves(market, squad, moves)
    BY <1>4, <1>9, <1>10
  <2>2. QED
    BY ONLY <2>1, MadeIsSound
<1>12. /\ squad' = [a EXCEPT !.free = Advance(squad.free, Cardinality(DOMAIN moves))]
  BY <1>2, <1>8, <1>10
<1>13. /\ SquadFields \subseteq DOMAIN a /\ SquadFields \subseteq DOMAIN squad'
       /\ "wildcard" \in DOMAIN squad' /\ SameSquad(squad', a)
       /\ squad'.free = Advance(squad.free, Cardinality(DOMAIN moves))
  BY <1>4, <1>11, <1>12 DEF SquadOK, SquadFields, SameSquad
<1>14. Cardinality(DOMAIN moves) \in Nat
  <2>1. Owned(squad) \in SUBSET Players
    BY <1>4, SquadFacts
  <2>2. DOMAIN moves \in SUBSET Players
    BY <1>9, <2>1 DEF Movable
  <2>3. QED
    BY <2>2, PlayersAreFinite
<1>15. squad'.free \in 0 .. MaxFree
  BY <1>4, <1>13, <1>14, FreeAdvances DEF SquadOK
<1>16. SquadOK(squad') /\ SquadValue(squad') = SquadValue(squad)
  BY <1>11, <1>13, <1>15, SameSquadIsOK, SameSquadsMove
<1>17. task'.kind = "decided"
  BY <1>1 DEF Decided
<1>18. market' \in Markets
  BY <1>1 DEF StackInv
<1>19. StackInv'
  BY <1>13, <1>16, <1>17, <1>18, OtherTasks
<1>20. QED
  BY <1>16, <1>19

LEMMA WildcardIsPlayed ==
  ASSUME StackInv, NEW w \in WildcardRules, PlayWildcard(w)
  PROVE  StackInv' /\ SquadValue(squad') = SquadValue(squad)
<1>1. market' = market /\ squad.wildcard
  BY DEF PlayWildcard
<1>2. squad # NoSquad
  BY <1>1 DEF NoSquad
<1>3. /\ SquadOK(squad) /\ "wildcard" \in DOMAIN squad
      /\ Marketable(market) /\ MarketFields \subseteq DOMAIN market
  BY <1>2, MarketsAreMarketable DEF StackInv, SquadsAreOK
<1>4. PICK compared :
        /\ compared.squad \in WildcardCandidates(market, squad, w.rules)
        /\ squad' = compared.squad
        /\ task' = [kind |-> "wildcard", rules |-> w.rules, compared |-> compared,
                    before |-> squad]
  <2>1. PICK candidates : /\ candidates = WildcardCandidates(market, squad, w.rules)
                          /\ \E compared \in CompareWildcard(market, squad, candidates, w.roll) :
                               /\ squad' = compared.squad
                               /\ task' = [kind |-> "wildcard", rules |-> w.rules,
                                           compared |-> compared, before |-> squad]
    BY DEF PlayWildcard
  <2>2. QED
    BY <2>1, ComparedAreCandidates
<1>5. w.rules \in Ruled
  BY RequestsAssumption
<1>6. /\ SquadOK(squad') /\ "wildcard" \in DOMAIN squad'
      /\ LegalSquad(market, Owned(squad')) /\ SquadValue(squad') = SquadValue(squad)
      /\ squad'.free = squad.free
      /\ w.rules.locked \subseteq Owned(squad') /\ w.rules.excluded \cap Owned(squad') = {}
  BY <1>3, <1>4, <1>5, WildcardsAreSound
<1>7. task'.kind = "wildcard" /\ task'.rules = w.rules /\ task'.before = squad
  BY <1>4
<1>8. WildcardsAreLegal'
  BY <1>1, <1>6, <1>7 DEF WildcardsAreLegal
<1>9. StackInv'
  BY <1>1, <1>6, <1>7, <1>8 DEF StackInv, SquadsAreOK, SearchesAreOK, FoundAreOK, PlansAreOK
<1>10. QED
  BY <1>6, <1>9

LEMMA ReleaseIsNew ==
  ASSUME StackInv, NEW m \in Markets, NewRelease(m)
  PROVE  StackInv' /\ market' # market
<1>1. /\ squad # NoSquad /\ market' = m /\ m # market /\ task' = Idle
      /\ squad' = [squad EXCEPT !.held = [p \in DOMAIN @ |->
                     [paid |-> @[p].paid, sells |-> SellingPrice(@[p].paid, m.price[p])]]]
  BY DEF NewRelease
<1>2. SquadOK(squad) /\ "wildcard" \in DOMAIN squad /\ Marketable(m)
  BY <1>1, MarketsAreMarketable DEF StackInv, SquadsAreOK
<1>3. SquadOK(squad') /\ DOMAIN squad' = DOMAIN squad
  BY <1>1, <1>2, ResoldIsSound
<1>4. task'.kind = "idle"
  BY <1>1 DEF Idle
<1>5. StackInv'
  BY <1>1, <1>2, <1>3, <1>4, OtherTasks
<1>6. QED
  BY <1>1, <1>5

\* Rating, for one budget or from a release, leaves the market and the squad alone.
Benchmarking ==
  \/ \E budget : StartBenchmark(budget) \/ RateReleased(budget)
  \/ StartMaster \/ DrawSquad \/ CloseAnchor \/ RateSquad

LEMMA BenchmarksOnly ==
  ASSUME Benchmarking
  PROVE  /\ UNCHANGED <<market, squad>>
         /\ task'.kind \in {"benchmark", "released", "rated"}
<1>1. ASSUME NEW budget, StartBenchmark(budget) \/ RateReleased(budget)
      PROVE  UNCHANGED <<market, squad>> /\ task'.kind \in {"benchmark", "rated"}
  BY <1>1 DEF StartBenchmark, RateReleased, Building, Rating
<1>2. ASSUME StartMaster
      PROVE  UNCHANGED <<market, squad>> /\ task'.kind = "benchmark"
  BY <1>2 DEF StartMaster, Building
<1>3. ASSUME DrawSquad
      PROVE  UNCHANGED <<market, squad>> /\ task'.kind = "benchmark"
  <2>1. UNCHANGED <<market, squad>> /\ task.kind = "benchmark"
        /\ \E S : task' = [task EXCEPT !.sampled = @ \cup {S}]
    BY <1>3 DEF DrawSquad
  <2>2. QED
    BY <2>1
<1>4. ASSUME CloseAnchor
      PROVE  UNCHANGED <<market, squad>> /\ task'.kind \in {"benchmark", "released"}
  BY <1>4 DEF CloseAnchor, Building
<1>5. ASSUME RateSquad
      PROVE  UNCHANGED <<market, squad>> /\ task'.kind = "rated"
  BY <1>5 DEF RateSquad, Rating
<1>6. QED
  BY <1>1, <1>2, <1>3, <1>4, <1>5 DEF Benchmarking

\* The other actions leave the market and the squad alone.
LEMMA OthersKeepStack ==
  ASSUME StackInv,
         \/ SearchFails
         \/ AdviseTransfer
         \/ \E blanks : PlayGameweek(blanks)
         \/ Benchmarking \/ Finish
  PROVE  StackInv' /\ UNCHANGED <<market, squad>>
<1>1. CASE SearchFails
  BY <1>1, OtherTasksOnly DEF SearchFails, Idle
<1>2. CASE AdviseTransfer
  <2>1. UNCHANGED <<market, squad>> /\ task'.kind = "advice"
    BY <1>2 DEF AdviseTransfer
  <2>2. QED
    BY <2>1, OtherTasksOnly
<1>3. ASSUME NEW blanks, PlayGameweek(blanks)
      PROVE  StackInv' /\ UNCHANGED <<market, squad>>
  <2>1. UNCHANGED <<market, squad>> /\ task'.kind = "played"
    BY <1>3 DEF PlayGameweek
  <2>2. QED
    BY <2>1, OtherTasksOnly
<1>4. CASE Benchmarking
  BY <1>4, BenchmarksOnly, OtherTasksOnly
<1>5. CASE Finish
  <2>1. UNCHANGED <<market, squad>> /\ task'.kind \in {"idle", "decided"}
    BY <1>5 DEF Finish, Idle, Decided
  <2>2. QED
    BY <2>1, OtherTasksOnly
<1>6. QED
  BY <1>1, <1>2, <1>3, <1>4, <1>5

\* A step keeps the invariant and, as long as prices do not change, what the squad is worth.
MoneyStep == squad # NoSquad /\ market' = market => SquadValue(squad') = SquadValue(squad)

LEMMA NextKeepsStack ==
  ASSUME StackInv, Next
  PROVE  StackInv' /\ MoneyStep
<1>1. ASSUME NEW rules \in Rules, StartSearch(rules) PROVE StackInv' /\ MoneyStep
  <2>1. squad = NoSquad
    BY <1>1 DEF StartSearch
  <2>2. QED
    BY <1>1, <2>1, SearchStarts DEF MoneyStep
<1>2. CASE SearchSlot
  <2>1. squad' = squad
    BY <1>2 DEF SearchSlot
  <2>2. QED
    BY <1>2, <2>1, SearchContinues DEF MoneyStep
<1>3. CASE TakeSquad
  <2>1. task.kind = "search"
    BY <1>3 DEF TakeSquad
  <2>2. squad = NoSquad
    BY <2>1 DEF StackInv, SearchesAreOK
  <2>3. QED
    BY <1>3, <2>2, SquadIsTaken DEF MoneyStep
<1>4. ASSUME NEW options \in Options, StartPlan(options) PROVE StackInv' /\ MoneyStep
  <2>1. squad' = squad
    BY <1>4 DEF StartPlan
  <2>2. QED
    BY <1>4, <2>1, PlanStarts DEF MoneyStep
<1>5. CASE PlanGameweek
  <2>1. squad' = squad
    BY <1>5 DEF PlanGameweek
  <2>2. QED
    BY <1>5, <2>1, PlanContinues DEF MoneyStep
<1>6. CASE MakeTransfers
  BY <1>6, TransfersAreMade DEF MoneyStep
<1>7. ASSUME NEW w \in WildcardRules, PlayWildcard(w) PROVE StackInv' /\ MoneyStep
  BY <1>7, WildcardIsPlayed DEF MoneyStep
<1>8. ASSUME NEW m \in Markets, NewRelease(m) PROVE StackInv' /\ MoneyStep
  BY <1>8, ReleaseIsNew DEF MoneyStep
<1>9. ASSUME \/ SearchFails
             \/ AdviseTransfer
             \/ \E blanks : PlayGameweek(blanks)
             \/ Benchmarking \/ Finish
      PROVE  StackInv' /\ MoneyStep
  <2>1. StackInv' /\ squad' = squad
    BY <1>9, OthersKeepStack
  <2>2. QED
    BY <2>1 DEF MoneyStep
<1>10. QED
  BY <1>1, <1>2, <1>3, <1>4, <1>5, <1>6, <1>7, <1>8, <1>9 DEF Next, Benchmarking

\* The invariant holds in every state of every behaviour.
THEOREM StackIsInvariant == Spec => []StackInv
<1>1. StackInv /\ UNCHANGED vars => StackInv'
  BY DEF StackInv, vars, SquadsAreOK, SearchesAreOK, FoundAreOK, PlansAreOK, WildcardsAreLegal
<1>2. StackInv /\ [Next]_vars => StackInv'
  BY <1>1, NextKeepsStack
<1>3. QED
  BY <1>2, InitStack, PTL DEF Spec

\* As long as prices do not change no decision makes or loses money: the property of the
\* run, for every release, every squad and every request.
THEOREM MoneyIsAlwaysKept == Spec => MoneyIsKept
<1>1. StackInv /\ [Next]_vars =>
        [squad # NoSquad /\ market' = market => SquadValue(squad') = SquadValue(squad)]_vars
  BY NextKeepsStack DEF MoneyStep
<1>2. QED
  BY <1>1, StackIsInvariant, PTL DEF Spec, MoneyIsKept

\* Every plan of the beam could be played: the property of the run.
THEOREM PlansAreAlwaysSound == Spec => []PlansAreSound
<1>1. StackInv => PlansAreSound
  <2>1. SUFFICES ASSUME StackInv, task.kind = "plan", NEW p \in task.plans
        PROVE  /\ p.bank >= 0 /\ p.free \in 0 .. MaxFree
               /\ LegalSquad(market, Owned(p)) \/ Owned(p) = Owned(squad)
               /\ SquadValue(p) = SquadValue(squad)
               /\ task.options.protected \subseteq Owned(p)
               /\ \A k \in DOMAIN p.weeks :
                    /\ Range(p.weeks[k]) \subseteq market.onSale[k] \ task.options.excluded
                    /\ k \in task.options.forced => p.weeks[k] = <<>>
               /\ p.cost = Granted(p, squad.free).cost
               /\ p.free = Granted(p, squad.free).free
    BY DEF PlansAreSound
  <2>2. PlanOK(market, squad, task.options, p, task.week - 1)
    BY <2>1 DEF StackInv, PlansAreOK
  <2>3. DOMAIN p.weeks = 1 .. Len(p.weeks)
    BY <2>2, LenProperties DEF PlanOK
  <2>4. p.bank >= 0 /\ p.free \in 0 .. MaxFree
    BY <2>2 DEF PlanOK, SquadOK
  <2>5. QED
    BY <2>2, <2>3, <2>4 DEF PlanOK, WeeksOK
<1>2. QED
  BY <1>1, StackIsInvariant, PTL

\* The lineup of the squad that was found is the best of all legal elevens, and a captain
\* no starter beats leads it: the property of the run.
THEOREM LineupIsAlwaysBest == Spec => []LineupIsBest
<1>1. StackInv => LineupIsBest
  <2> SUFFICES ASSUME StackInv, task.kind = "found", NEW w \in Horizon(market),
                      NEW pos, pos = Places(squad), NEW xp, xp = Expected(squad, market.xp[w]),
                      NEW lineup, lineup = RecommendLineup(pos, xp)
        PROVE  /\ lineup.starters \in LegalElevens(pos)
               /\ \A S \in LegalElevens(pos) : Points(xp, S) <= Points(xp, lineup.starters)
               /\ \A i \in lineup.starters : xp[i] <= xp[lineup.captain]
               /\ \A i \in {j \in Slots \ lineup.starters : xp[j] >= 0} :
                    ~RoleScenario(pos, xp, i).changed /\ ~RoleScenario(pos, xp, i).captain
    BY DEF LineupIsBest
  <2>1. SquadOK(squad) /\ Marketable(market)
    BY MarketsAreMarketable DEF StackInv, FoundAreOK, SquadsAreOK
  <2>2. Formed(pos)
    BY <2>1 DEF SquadOK
  <2>3. xp \in [Slots -> Int]
    <3>1. market.xp[w] \in [Players -> Int]
      BY <2>1, WeeksAreFinite
    <3>2. squad.order \in [Slots -> Players]
      BY <2>1 DEF SquadOK, Fielded
    <3>3. QED
      BY <3>1, <3>2 DEF Expected
  <2>4. Numbers(xp, Slots)
    BY <2>3 DEF Numbers
  <2>5. /\ lineup.starters = Starters(pos, xp)
        /\ \A i \in Starters(pos, xp) : xp[i] <= xp[lineup.captain]
    BY <2>2, <2>4, CaptainIsBest
  <2>6. IsEleven(pos, lineup.starters)
    BY <2>2, <2>4, <2>5, StartersBeatAll
  <2>7. lineup.starters \in LegalElevens(pos)
    BY <2>2, <2>6, LegalElevensAreElevens
  <2>8. ASSUME NEW S \in LegalElevens(pos)
        PROVE  Points(xp, S) <= Points(xp, lineup.starters)
    <3>1. IsEleven(pos, S)
      BY <2>2, LegalElevensAreElevens
    <3>2. S = lineup.starters \/ Beats(xp, lineup.starters, S)
      BY <2>2, <2>4, <2>5, <3>1, StartersBeatAll
    <3>3. Points(xp, S) \in Int /\ Points(xp, lineup.starters) \in Int
      BY <2>4, <2>6, <3>1, PointsAreWhole DEF IsEleven
    <3>4. QED
      BY <3>2, <3>3 DEF Beats
  <2>9. ASSUME NEW i \in Slots \ lineup.starters, xp[i] >= 0
        PROVE  ~RoleScenario(pos, xp, i).changed /\ ~RoleScenario(pos, xp, i).captain
    BY <2>2, <2>3, <2>5, <2>9, BenchIsNotMissed
  <2>10. QED
    BY <2>5, <2>7, <2>8, <2>9
<1>2. QED
  BY <1>1, StackIsInvariant, PTL

-----------------------------------------------------------------------------
(* What the sampler may draw. *)

\* After k slots: as many players of each position as slots so far, no club over the limit,
\* and nothing that cannot be paid.
Sampled(offers, budget, k) ==
  {S \in SUBSET Common(offers) :
     /\ \A q \in Positions :
          Cardinality(OfPosition(S, q)) = Cardinality({j \in 1 .. k : Order[j] = q})
     /\ Clubs(offers, S)
     /\ k > 0 => CostOf(offers, S) <= budget}

LEMMA MinimumIsNumber ==
  ASSUME NEW offers, Marketable(offers), NEW slot
  PROVE  MinimumAfter(offers, slot) \in Nat
<1> DEFINE T(q) == Foremost(OfPosition(Common(offers), q),
                            Cardinality({k \in slot + 1 .. 15 : Order[k] = q}),
                            LAMBDA p, r : \/ offers.price[p] < offers.price[r]
                                          \/ offers.price[p] = offers.price[r] /\ p < r)
           f == [q \in Positions |-> CostOf(offers, T(q))]
<1>1. ASSUME NEW q \in Positions PROVE T(q) \in SUBSET Players
  BY DEF Foremost, OfPosition, Common
<1>2. MinimumAfter(offers, slot) = Sum(f, Positions)
  <2>1. MinimumAfter(offers, slot) = SumFunction(f)
    BY DEF MinimumAfter
  <2>2. DOMAIN f = Positions
    OBVIOUS
  <2> HIDE DEF f
  <2>3. QED
    BY <2>1, <2>2 DEF SumFunction, Sum, SumFunctionOnSet
<1> HIDE DEF T
<1>3. Numbers(f, Positions) /\ \A q \in Positions : f[q] >= 0
  BY <1>1, CostIsNumber DEF Numbers
<1>4. IsFiniteSet(Positions)
  <2>1. IsFiniteSet({"GK", "DEF", "MID"})
    BY ThreeThings
  <2>2. Positions = {"GK", "DEF", "MID"} \cup {"FWD"}
    BY DEF Positions
  <2>3. QED
    BY <2>1, <2>2, FS_AddElement
<1> HIDE DEF f
<1>5. Sum(f, Positions) \in Int /\ 0 <= Sum(f, Positions)
  BY <1>3, <1>4, SumIsNumber, SumGrows
<1>6. QED
  BY <1>2, <1>5

\* A club that has room keeps to the limit with one player more.
LEMMA ClubsHaveRoom ==
  ASSUME NEW offers, Marketable(offers), NEW S \in SUBSET Players, Clubs(offers, S),
         NEW p \in Players,
         Cardinality({r \in S : offers.club[r] = offers.club[p]}) < ClubLimit
  PROVE  Clubs(offers, S \cup {p})
<1> SUFFICES ASSUME NEW c \in Range(offers.club)
             PROVE  Cardinality({r \in S \cup {p} : offers.club[r] = c}) <= ClubLimit
  BY DEF Clubs
<1> DEFINE A == {r \in S : offers.club[r] = c}
<1>1. A \in SUBSET Players /\ IsFiniteSet(A) /\ Cardinality(A) \in Nat
  <2>1. A \in SUBSET Players
    OBVIOUS
  <2>2. QED
    BY <2>1, PlayersAreFinite
<1>2. Cardinality(A) <= ClubLimit
  BY DEF Clubs
<1>3. CASE offers.club[p] = c
  <2>1. {r \in S \cup {p} : offers.club[r] = c} = A \cup {p}
    BY <1>3
  <2>2. Cardinality(A) < ClubLimit
    BY <1>3
  <2> HIDE DEF A
  <2>3. Cardinality(A \cup {p}) <= Cardinality(A) + 1
    BY <1>1, FS_AddElement
  <2>4. Cardinality(A \cup {p}) \in Nat
    BY <1>1, FS_AddElement, FS_CardinalityType
  <2>5. QED
    BY <1>1, <2>1, <2>2, <2>3, <2>4 DEF ClubLimit
<1>4. CASE offers.club[p] # c
  <2>1. {r \in S \cup {p} : offers.club[r] = c} = A
    BY <1>4
  <2>2. QED
    BY <1>2, <2>1
<1>5. QED
  BY <1>3, <1>4

\* One more slot.
LEMMA SampleGrows ==
  ASSUME NEW offers, Marketable(offers), NEW budget \in Nat, NEW k \in 0 .. 14,
         NEW S \in Sampled(offers, budget, k),
         NEW p, Viable(offers, budget, S, k + 1, p)
  PROVE  S \cup {p} \in Sampled(offers, budget, k + 1)
<1> DEFINE T == S \cup {p}
<1>1. /\ S \in SUBSET Common(offers) /\ S \in SUBSET Players /\ Clubs(offers, S)
      /\ \A q \in Positions :
           Cardinality(OfPosition(S, q)) = Cardinality({j \in 1 .. k : Order[j] = q})
  BY DEF Sampled, Common
<1>2. /\ p \in Common(offers) /\ p \in Players /\ p \notin S /\ PositionOf[p] = Order[k + 1]
      /\ Cardinality({r \in S : offers.club[r] = offers.club[p]}) < ClubLimit
      /\ CostOf(offers, T) + MinimumAfter(offers, k + 1) <= budget
  BY DEF Viable, OfPosition, Common
<1>3. CostOf(offers, T) <= budget
  <2>1. T \in SUBSET Players
    BY <1>1, <1>2
  <2> HIDE DEF T
  <2>2. CostOf(offers, T) \in Nat /\ MinimumAfter(offers, k + 1) \in Nat
    BY <2>1, CostIsNumber, MinimumIsNumber
  <2>3. QED
    BY <1>2, <2>2
<1>4. Clubs(offers, T)
  BY <1>1, <1>2, ClubsHaveRoom
<1>5. ASSUME NEW q \in Positions
      PROVE  Cardinality(OfPosition(T, q)) = Cardinality({j \in 1 .. k + 1 : Order[j] = q})
  <2> DEFINE A == OfPosition(S, q)
             J == {j \in 1 .. k : Order[j] = q}
  <2>1. IsFiniteSet(A) /\ IsFiniteSet(J) /\ Cardinality(A) = Cardinality(J)
    <3>1. A \in SUBSET S
      BY DEF OfPosition
    <3>2. IsFiniteSet(A)
      BY <1>1, <3>1, PlayersAreFinite
    <3>3. k \in Nat
      OBVIOUS
    <3>4. IsFiniteSet(1 .. k)
      BY ONLY <3>3, FS_Interval
    <3>5. IsFiniteSet(J)
      BY <3>4, FS_Subset
    <3>6. QED
      BY <1>1, <3>2, <3>5
  <2>2. CASE Order[k + 1] = q
    <3>1. OfPosition(T, q) = A \cup {p} /\ p \notin A
      BY <1>2, <2>2 DEF OfPosition
    <3>2. {j \in 1 .. k + 1 : Order[j] = q} = J \cup {k + 1} /\ k + 1 \notin J
      BY <2>2
    <3> HIDE DEF A, J
    <3>3. /\ Cardinality(A \cup {p}) = Cardinality(A) + 1
          /\ Cardinality(J \cup {k + 1}) = Cardinality(J) + 1
      BY ONLY <2>1, <3>1, <3>2, FS_AddElement
    <3>4. QED
      BY <2>1, <3>1, <3>2, <3>3
  <2>3. CASE Order[k + 1] # q
    <3>1. OfPosition(T, q) = A
      BY <1>2, <2>3 DEF OfPosition
    <3>2. {j \in 1 .. k + 1 : Order[j] = q} = J
      BY <2>3
    <3>3. QED
      BY <2>1, <3>1, <3>2
  <2>4. QED
    BY <2>2, <2>3
<1>6. QED
  BY <1>1, <1>2, <1>3, <1>4, <1>5 DEF Sampled

\* A squad that could be bought for the budget.
Fair(offers, budget) ==
  {S \in SUBSET Common(offers) :
     Filled(S) /\ Clubs(offers, S) /\ CostOf(offers, S) <= budget}

LEMMA FullSamplesAreFair ==
  ASSUME NEW offers, NEW budget, NEW S \in Sampled(offers, budget, 15)
  PROVE  S \in Fair(offers, budget)
<1>1. /\ S \in SUBSET Common(offers) /\ S \in SUBSET Players /\ Clubs(offers, S)
      /\ CostOf(offers, S) <= budget
      /\ \A q \in Positions :
           Cardinality(OfPosition(S, q)) = Cardinality({j \in 1 .. 15 : Order[j] = q})
  BY DEF Sampled, Common
<1>2. \A q \in Positions : Cardinality({j \in 1 .. 15 : Order[j] = q}) = PositionCounts[q]
  BY LayoutIsFormed DEF Formed, At, Slots
<1>3. QED
  BY <1>1, <1>2 DEF Fair, Filled

\* One slot of every squad.
Draw(offers, budget, squads, slot) ==
  UNION {{S \cup {p} : p \in {r \in Players : Viable(offers, budget, S, slot, r)}} :
         S \in squads}

Draws(offers, budget, g) ==
  g = [s \in SUBSET (1 .. 15) |->
         IF s = {} THEN {{}} ELSE Draw(offers, budget, g[s \ {Max(s)}], Max(s))]

LEMMA SamplesAreFold ==
  ASSUME NEW offers, NEW budget
  PROVE  Samples(offers, budget) = (CHOOSE g : Draws(offers, budget, g))[1 .. 15]
<1> DEFINE seq == [k \in 1 .. 15 |-> k]
           It(g) == g = [s \in SUBSET DOMAIN seq |->
                           IF s = {} THEN {{}}
                           ELSE Draw(offers, budget, g[s \ {Max(s)}], seq[Max(s)])]
<1>1. Samples(offers, budget) = (CHOOSE g : It(g))[DOMAIN seq]
  BY DEF Samples, FoldLeft, MapThenFoldSet, Draw
<1>2. DOMAIN seq = 1 .. 15
  OBVIOUS
<1>3. \A s \in SUBSET (1 .. 15) : s # {} => seq[Max(s)] = Max(s)
  <2>1. \A s \in SUBSET (1 .. 15) : s # {} => Max(s) \in 1 .. 15
    BY MaxIsLargest
  <2>2. QED
    BY <2>1
<1> HIDE DEF seq
<1>4. ASSUME NEW g PROVE It(g) <=> Draws(offers, budget, g)
  <2> DEFINE f == [s \in SUBSET DOMAIN seq |->
                     IF s = {} THEN {{}}
                     ELSE Draw(offers, budget, g[s \ {Max(s)}], seq[Max(s)])]
             h == [s \in SUBSET (1 .. 15) |->
                     IF s = {} THEN {{}} ELSE Draw(offers, budget, g[s \ {Max(s)}], Max(s))]
  <2>1. f = h
    BY <1>2, <1>3
  <2>2. QED
    BY <2>1 DEF Draws
<1> HIDE DEF It
<1>5. (CHOOSE g : It(g)) = (CHOOSE g : Draws(offers, budget, g))
  BY <1>4
<1>6. QED
  BY <1>1, <1>2, <1>5

\* Whatever the draws, the squad is one of fifteen, legal and within the budget.
LEMMA SamplesAreFair ==
  ASSUME NEW offers, Marketable(offers), NEW budget \in Nat
  PROVE  Samples(offers, budget) \in SUBSET Fair(offers, budget)
<1> DEFINE X == SUBSET (SUBSET Players)
           F == [k \in 1 .. 15 |-> [y \in X |-> Draw(offers, budget, y, k)]]
           h == CHOOSE g : Draws(offers, budget, g)
           R == [k \in 0 .. 15 |-> SUBSET Sampled(offers, budget, k)]
<1>1. ASSUME NEW y \in X, NEW k PROVE Draw(offers, budget, y, k) \in X
  BY DEF Draw
<1>2. {{}} \in X
  OBVIOUS
<1> HIDE DEF X
<1>3. StepsIn(F, 1 .. 15, X)
  BY <1>1 DEF StepsIn
<1>4. PICK g : Folds(g, 15, X, {{}}, F)
  <2> HIDE DEF F
  <2>1. PICK b, n : b = {{}} /\ n = 15
    OBVIOUS
  <2>2. n \in Nat /\ b \in X /\ StepsIn(F, 1 .. n, X)
    BY <1>2, <1>3, <2>1
  <2>3. \E g : Folds(g, n, X, b, F)
    BY ONLY <2>2, FoldsExist
  <2>4. QED
    BY <2>1, <2>3
<1>5. Draws(offers, budget, g)
  BY <1>4 DEF Draws, Folds
<1>6. Draws(offers, budget, h)
  BY <1>5
<1> HIDE DEF h
<1>7. h[{}] \in R[0]
  <2>1. h[{}] = {{}}
    BY <1>6 DEF Draws
  <2>2. {} \in Sampled(offers, budget, 0)
    <3>1. Cardinality({}) = 0
      BY FS_EmptySet
    <3>2. \A q : OfPosition({}, q) = {} /\ {j \in 1 .. 0 : Order[j] = q} = {}
      BY DEF OfPosition
    <3>3. Clubs(offers, {})
      <4>1. \A c : {p \in {} : offers.club[p] = c} = {}
        OBVIOUS
      <4>2. QED
        BY <3>1, <4>1 DEF Clubs, ClubLimit
    <3>4. \A q \in Positions :
            Cardinality(OfPosition({}, q)) = Cardinality({j \in 1 .. 0 : Order[j] = q})
      BY <3>2
    <3>5. ~(0 > 0) /\ {} \in SUBSET Common(offers)
      OBVIOUS
    <3>6. QED
      BY ONLY <3>3, <3>4, <3>5 DEF Sampled
  <2>3. QED
    BY <2>1, <2>2
<1>8. ASSUME NEW k \in 0 .. 15 - 1, h[1 .. k] \in R[k] PROVE h[1 .. k + 1] \in R[k + 1]
  <2>1. /\ 1 .. k + 1 \in SUBSET (1 .. 15) /\ 1 .. k + 1 # {}
        /\ Max(1 .. k + 1) = k + 1 /\ (1 .. k + 1) \ {k + 1} = 1 .. k
    BY NextTop
  <2>2. h[1 .. k + 1] = Draw(offers, budget, h[1 .. k], k + 1)
    BY <1>6, <2>1 DEF Draws
  <2>3. k \in 0 .. 14 /\ k \in 0 .. 15 /\ k + 1 \in 0 .. 15
    OBVIOUS
  <2>4. h[1 .. k] \in SUBSET Sampled(offers, budget, k)
    BY <1>8, <2>3
  <2>5. Draw(offers, budget, h[1 .. k], k + 1) \in SUBSET Sampled(offers, budget, k + 1)
    <3>1. SUFFICES ASSUME NEW S \in h[1 .. k],
                          NEW p \in {r \in Players : Viable(offers, budget, S, k + 1, r)}
                   PROVE  S \cup {p} \in Sampled(offers, budget, k + 1)
      BY DEF Draw
    <3>2. S \in Sampled(offers, budget, k) /\ Viable(offers, budget, S, k + 1, p)
      BY <2>4
    <3>3. QED
      BY <2>3, <3>2, SampleGrows
  <2>6. QED
    BY <2>2, <2>3, <2>5
<1>9. h[1 .. 15] \in R[15]
  <2> HIDE DEF R
  <2>1. QED
    BY <1>7, <1>8, PrefixesStay
<1>10. Samples(offers, budget) = h[1 .. 15]
  BY SamplesAreFold DEF h
<1>11. h[1 .. 15] \in SUBSET Sampled(offers, budget, 15)
  BY <1>9
<1>12. QED
  BY <1>10, <1>11, FullSamplesAreFair

-----------------------------------------------------------------------------
(* What is left of the budget is spent. *)

LEMMA RanksAreNumbers ==
  ASSUME NEW offers, NEW p
  PROVE  ScoreRank(offers, p) \in Nat
<1> DEFINE A == {r \in OfPosition(Common(offers), PositionOf[p]) :
                   Ahead(Outlook(offers, 1), r, p)}
<1>1. A \in SUBSET Players
  BY DEF OfPosition, Common
<1>2. ScoreRank(offers, p) = 1 + Cardinality(A)
  BY DEF ScoreRank
<1> HIDE DEF A
<1>3. Cardinality(A) \in Nat
  BY <1>1, PlayersAreFinite
<1>4. QED
  BY <1>2, <1>3

\* The swap that spends most is one, unless there is none.
LEMMA SwapsAreOrdered ==
  ASSUME NEW offers, Marketable(offers), NEW budget, NEW S \in SUBSET Players,
         Swaps(offers, budget, S) # {}
  PROVE  \E s \in Swaps(offers, budget, S) :
           \A t \in Swaps(offers, budget, S) \ {s} : SwapBefore(offers, s, t)
<1> DEFINE W == Swaps(offers, budget, S)
           up == [t \in W |-> {s \in W : SwapBefore(offers, s, t)}]
           rise(u) == offers.price[u[2]] - offers.price[u[1]]
           rank(u) == ScoreRank(offers, u[2])
<1>1. W \in SUBSET (S \X (Common(offers) \ S)) /\ W \in SUBSET (Players \X Players)
  BY DEF Swaps, Common
<1>2. IsFiniteSet(W)
  <2>1. IsFiniteSet(S) /\ IsFiniteSet(Common(offers) \ S)
    <3>1. Common(offers) \ S \in SUBSET Players
      BY DEF Common
    <3>2. QED
      BY <3>1, PlayersAreFinite
  <2>2. IsFiniteSet(S \X (Common(offers) \ S))
    BY <2>1, FS_Product
  <2>3. QED
    BY <1>1, <2>2, FS_Subset
<1>3. \A s, t : SwapBefore(offers, s, t) <=>
        \/ rise(s) > rise(t)
        \/ /\ rise(s) = rise(t)
           /\ \/ rank(s) < rank(t)
              \/ rank(s) = rank(t) /\ Precedes(s, t)
  BY DEF SwapBefore
<1>4. \A s \in W : /\ s \in Players \X Players /\ rise(s) \in Int /\ rank(s) \in Int
                   /\ s[1] \in Int /\ s[2] \in Int /\ s = <<s[1], s[2]>>
  <2>1. SUFFICES ASSUME NEW s \in W
        PROVE  /\ s \in Players \X Players /\ rise(s) \in Int /\ rank(s) \in Int
               /\ s[1] \in Int /\ s[2] \in Int /\ s = <<s[1], s[2]>>
    OBVIOUS
  <2>2. s \in Players \X Players /\ s[1] \in Players /\ s[2] \in Players /\ s = <<s[1], s[2]>>
    BY <1>1
  <2>3. offers.price[s[1]] \in Nat /\ offers.price[s[2]] \in Nat
    BY <2>2 DEF Marketable
  <2>4. rank(s) \in Nat
    BY RanksAreNumbers
  <2>5. s[1] \in Nat /\ s[2] \in Nat
    BY <2>2, PlayersAssumption
  <2>6. QED
    BY <2>2, <2>3, <2>4, <2>5
<1> HIDE DEF W, rise, rank
<1>5. \A s \in W : ~SwapBefore(offers, s, s)
  BY <1>3, <1>4 DEF Precedes
<1>6. \A s, t \in W : s # t => SwapBefore(offers, s, t) \/ SwapBefore(offers, t, s)
  <2>1. SUFFICES ASSUME NEW s \in W, NEW t \in W, s # t
                 PROVE  SwapBefore(offers, s, t) \/ SwapBefore(offers, t, s)
    OBVIOUS
  <2>2. s[1] # t[1] \/ s[2] # t[2]
    BY <1>4, <2>1
  <2>3. QED
    BY <1>3, <1>4, <2>2 DEF Precedes
<1>7. \A s, t, u \in W :
        SwapBefore(offers, s, t) /\ SwapBefore(offers, t, u) => SwapBefore(offers, s, u)
  BY <1>3, <1>4 DEF Precedes
<1>8. /\ up \in [W -> SUBSET W] /\ \A i \in W : i \notin up[i]
      /\ \A i, j \in W : i # j => \/ i \in up[j] /\ up[i] \subseteq up[j]
                                  \/ j \in up[i] /\ up[j] \subseteq up[i]
  BY <1>5, <1>6, <1>7
<1>9. PICK i \in W : \A j \in W \ {i} : i \in up[j]
  <2>1. W # {}
    BY DEF W
  <2> HIDE DEF up
  <2>2. QED
    BY <1>2, <1>8, <2>1, SomebodyIsFirst
<1>10. \A j \in W \ {i} : SwapBefore(offers, i, j)
  BY <1>9
<1>11. QED
  BY <1>10 DEF W

\* A swap keeps the squad fair.
LEMMA SwapsAreFair ==
  ASSUME NEW offers, Marketable(offers), NEW budget, NEW S \in Fair(offers, budget),
         NEW s \in Swaps(offers, budget, S)
  PROVE  (S \ {s[1]}) \cup {s[2]} \in Fair(offers, budget)
<1> DEFINE T == (S \ {s[1]}) \cup {s[2]}
<1>1. /\ S \in SUBSET Common(offers) /\ S \in SUBSET Players /\ Filled(S) /\ Clubs(offers, S)
  BY DEF Fair, Common
<1>2. /\ s[1] \in S /\ s[2] \in Common(offers) \ S /\ s[1] \in Players /\ s[2] \in Players
      /\ PositionOf[s[2]] = PositionOf[s[1]]
      /\ CostOf(offers, T) <= budget
      /\ \/ offers.club[s[2]] = offers.club[s[1]]
         \/ Cardinality({r \in S : offers.club[r] = offers.club[s[2]]}) < ClubLimit
  BY <1>1 DEF Swaps, SpendsMore, Common
<1>3. T \in SUBSET Common(offers) /\ T \in SUBSET Players
  BY <1>1, <1>2
<1>4. ASSUME NEW q \in Positions PROVE Cardinality(OfPosition(T, q)) = PositionCounts[q]
  <2> DEFINE A == OfPosition(S, q)
  <2>1. A \in SUBSET Players /\ Cardinality(A) = PositionCounts[q]
    BY <1>1 DEF Filled, OfPosition
  <2>2. CASE PositionOf[s[1]] = q
    <3>1. s[1] \in A /\ s[2] \notin A /\ OfPosition(T, q) = (A \ {s[1]}) \cup {s[2]}
      BY <1>2, <2>2 DEF OfPosition
    <3> HIDE DEF A
    <3>2. IsFiniteSet(A) /\ Cardinality(A) \in Nat
      BY <2>1, PlayersAreFinite
    <3>3. IsFiniteSet(A \ {s[1]}) /\ Cardinality(A \ {s[1]}) = Cardinality(A) - 1
      BY <3>1, <3>2, FS_RemoveElement
    <3>4. s[2] \notin A \ {s[1]}
      BY <3>1
    <3>5. Cardinality((A \ {s[1]}) \cup {s[2]}) = Cardinality(A \ {s[1]}) + 1
      BY <3>3, <3>4, FS_AddElement
    <3>6. Cardinality((A \ {s[1]}) \cup {s[2]}) = Cardinality(A)
      BY ONLY <3>2, <3>3, <3>5
    <3>7. QED
      BY ONLY <2>1, <3>1, <3>6
  <2>3. CASE PositionOf[s[1]] # q
    <3>1. OfPosition(T, q) = A
      BY <1>2, <2>3 DEF OfPosition
    <3>2. QED
      BY <2>1, <3>1
  <2>4. QED
    BY <2>2, <2>3
<1>5. Clubs(offers, T)
  <2>1. CASE Cardinality({r \in S : offers.club[r] = offers.club[s[2]]}) < ClubLimit
    <3>1. Clubs(offers, S \cup {s[2]})
      BY <1>1, <1>2, <2>1, ClubsHaveRoom
    <3>2. ASSUME NEW c \in Range(offers.club)
          PROVE  Cardinality({r \in T : offers.club[r] = c}) <= ClubLimit
      <4> DEFINE B == {r \in S \cup {s[2]} : offers.club[r] = c}
                 D == {r \in T : offers.club[r] = c}
      <4>1. Cardinality(B) <= ClubLimit
        BY <3>1 DEF Clubs
      <4>2. D \in SUBSET B /\ B \in SUBSET Players
        BY <1>1, <1>2
      <4> HIDE DEF B, D
      <4>3. IsFiniteSet(B) /\ Cardinality(B) \in Nat /\ Cardinality(D) \in Nat
        BY <4>2, PlayersAreFinite
      <4>4. Cardinality(D) <= Cardinality(B)
        BY <4>2, <4>3, FS_Subset
      <4>5. Cardinality(D) <= ClubLimit
        BY <4>1, <4>3, <4>4 DEF ClubLimit
      <4>6. QED
        BY <4>5 DEF D
    <3>3. QED
      BY <3>2 DEF Clubs
  <2>2. CASE offers.club[s[2]] = offers.club[s[1]]
    <3>1. ASSUME NEW c \in Range(offers.club)
          PROVE  Cardinality({r \in T : offers.club[r] = c}) <= ClubLimit
      <4> DEFINE B == {r \in S : offers.club[r] = c}
      <4>1. Cardinality(B) <= ClubLimit /\ B \in SUBSET Players
        BY <1>1 DEF Clubs
      <4>2. IsFiniteSet(B) /\ Cardinality(B) \in Nat
        BY <4>1, PlayersAreFinite
      <4>3. CASE offers.club[s[1]] = c
        <5>1. /\ s[1] \in B /\ s[2] \notin B
              /\ {r \in T : offers.club[r] = c} = (B \ {s[1]}) \cup {s[2]}
          BY <1>2, <2>2, <4>3
        <5> HIDE DEF B
        <5>2. IsFiniteSet(B \ {s[1]}) /\ Cardinality(B \ {s[1]}) = Cardinality(B) - 1
          BY <4>2, <5>1, FS_RemoveElement
        <5>3. s[2] \notin B \ {s[1]}
          BY <5>1
        <5>4. Cardinality((B \ {s[1]}) \cup {s[2]}) = Cardinality(B \ {s[1]}) + 1
          BY <5>2, <5>3, FS_AddElement
        <5>5. Cardinality((B \ {s[1]}) \cup {s[2]}) = Cardinality(B)
          BY ONLY <4>2, <5>2, <5>4
        <5>6. QED
          BY ONLY <4>1, <5>1, <5>5
      <4>4. CASE offers.club[s[1]] # c
        <5>1. {r \in T : offers.club[r] = c} = B
          BY <1>2, <2>2, <4>4
        <5>2. QED
          BY <4>1, <5>1
      <4>5. QED
        BY <4>3, <4>4
    <3>2. QED
      BY <3>1 DEF Clubs
  <2>3. QED
    BY <1>2, <2>1, <2>2
<1>6. QED
  BY <1>2, <1>3, <1>4, <1>5 DEF Fair, Filled

LEMMA UpgradeOnceIsFair ==
  ASSUME NEW offers, Marketable(offers), NEW budget, NEW S \in Fair(offers, budget)
  PROVE  UpgradeOnce(offers, budget, S) \in Fair(offers, budget)
<1> DEFINE W == Swaps(offers, budget, S)
           best == CHOOSE s \in W : \A t \in W \ {s} : SwapBefore(offers, s, t)
<1>1. \/ UpgradeOnce(offers, budget, S) = S
      \/ W # {} /\ UpgradeOnce(offers, budget, S) = (S \ {best[1]}) \cup {best[2]}
  BY DEF UpgradeOnce
<1>2. ASSUME W # {} PROVE best \in W
  <2>1. S \in SUBSET Players
    BY DEF Fair, Common
  <2>2. \E s \in W : \A t \in W \ {s} : SwapBefore(offers, s, t)
    BY <1>2, <2>1, SwapsAreOrdered
  <2> HIDE DEF W
  <2>3. QED
    BY <2>2
<1> HIDE DEF best
<1>3. QED
  BY <1>1, <1>2, SwapsAreFair

Upgrades(offers, budget, S, n, g) ==
  g = [s \in SUBSET (1 .. n) |->
         IF s = {} THEN S ELSE UpgradeOnce(offers, budget, g[s \ {Max(s)}])]

LEMMA UpgradeIsFold ==
  ASSUME NEW offers, NEW budget, NEW S, NEW n,
         n = Over(budget - SpendBand, CostOf(offers, S))
  PROVE  Upgrade(offers, budget, S) = (CHOOSE g : Upgrades(offers, budget, S, n, g))[1 .. n]
<1> DEFINE seq == [k \in 1 .. n |-> k]
           It(g) == g = [s \in SUBSET DOMAIN seq |->
                           IF s = {} THEN S ELSE UpgradeOnce(offers, budget, g[s \ {Max(s)}])]
<1>1. Upgrade(offers, budget, S) = (CHOOSE g : It(g))[DOMAIN seq]
  BY DEF Upgrade, FoldLeft, MapThenFoldSet
<1>2. DOMAIN seq = 1 .. n
  OBVIOUS
<1> HIDE DEF seq
<1>3. QED
  BY <1>1, <1>2 DEF Upgrades

\* Whatever is left to spend, the squad stays one of fifteen, legal and within the budget.
LEMMA UpgradesAreFair ==
  ASSUME NEW offers, Marketable(offers), NEW budget \in Nat, NEW S \in Fair(offers, budget)
  PROVE  Upgrade(offers, budget, S) \in Fair(offers, budget)
<1> DEFINE n == Over(budget - SpendBand, CostOf(offers, S))
           X == Fair(offers, budget)
           F == [k \in 1 .. n |-> [y \in X |-> UpgradeOnce(offers, budget, y)]]
           h == CHOOSE g : Upgrades(offers, budget, S, n, g)
           R == [k \in 0 .. n |-> X]
<1>1. n \in Nat
  <2>1. S \in SUBSET Players
    BY DEF Fair, Common
  <2>2. CostOf(offers, S) \in Nat
    BY <2>1, CostIsNumber
  <2>3. QED
    BY <2>2, RatingAssumption DEF Over
<1>2. \A y \in X : UpgradeOnce(offers, budget, y) \in X
  BY UpgradeOnceIsFair
<1>3. S \in X
  OBVIOUS
<1> HIDE DEF X, n
<1>4. StepsIn(F, 1 .. n, X)
  BY <1>2 DEF StepsIn
<1>5. PICK g : Folds(g, n, X, S, F)
  <2> HIDE DEF F
  <2>1. n \in Nat /\ S \in X /\ StepsIn(F, 1 .. n, X)
    BY <1>1, <1>3, <1>4
  <2>2. QED
    BY ONLY <2>1, FoldsExist
<1>6. Upgrades(offers, budget, S, n, g)
  BY <1>5 DEF Upgrades, Folds
<1>7. Upgrades(offers, budget, S, n, h)
  BY <1>6
<1> HIDE DEF h
<1>8. h[{}] \in R[0]
  <2>1. h[{}] = S
    BY <1>7 DEF Upgrades
  <2>2. 0 \in 0 .. n
    BY <1>1
  <2>3. QED
    BY <1>3, <2>1, <2>2
<1>9. ASSUME NEW k \in 0 .. n - 1, h[1 .. k] \in R[k] PROVE h[1 .. k + 1] \in R[k + 1]
  <2>1. /\ 1 .. k + 1 \in SUBSET (1 .. n) /\ 1 .. k + 1 # {}
        /\ Max(1 .. k + 1) = k + 1 /\ (1 .. k + 1) \ {k + 1} = 1 .. k
    BY <1>1, NextTop
  <2>2. h[1 .. k + 1] = UpgradeOnce(offers, budget, h[1 .. k])
    BY <1>7, <2>1 DEF Upgrades
  <2>3. k \in 0 .. n /\ k + 1 \in 0 .. n
    BY <1>1
  <2>4. h[1 .. k] \in X
    BY <1>9, <2>3
  <2>5. QED
    BY <1>2, <2>2, <2>3, <2>4
<1>10. h[1 .. n] \in R[n]
  <2> HIDE DEF R
  <2>1. QED
    BY <1>1, <1>8, <1>9, PrefixesStay
<1>11. n \in 0 .. n
  BY <1>1
<1>12. h[1 .. n] \in X
  BY <1>10, <1>11
<1>13. Upgrade(offers, budget, S) = h[1 .. n]
  BY UpgradeIsFold DEF n, h
<1>14. QED
  BY <1>12, <1>13 DEF X

-----------------------------------------------------------------------------
(* The population. *)

\* The first n of a set are n, or all of them.
LEMMA ForemostCount ==
  ASSUME NEW S, IsFiniteSet(S), NEW up \in [S -> SUBSET S], \A i \in S : i \notin up[i],
         \A i, j \in S : i # j => \/ i \in up[j] /\ up[i] \subseteq up[j]
                                  \/ j \in up[i] /\ up[j] \subseteq up[i],
         NEW n \in Nat
  PROVE  /\ IsFiniteSet({i \in S : Cardinality(up[i]) < n})
         /\ Cardinality({i \in S : Cardinality(up[i]) < n}) = Least(n, Cardinality(S))
<1> DEFINE F == {i \in S : Cardinality(up[i]) < n}
           c == Cardinality(S)
           m == Least(n, c)
           T == 0 .. m - 1
           rank == [i \in F |-> Cardinality(up[i])]
<1>1. c \in Nat /\ m \in Nat /\ m <= n /\ m <= c /\ (m = n \/ m = c)
  BY FS_CardinalityType DEF Least
<1>2. /\ \A i \in S : Cardinality(up[i]) \in 0 .. c - 1
      /\ \A i, j \in S : i \in up[j] <=> Cardinality(up[i]) < Cardinality(up[j])
      /\ \A k \in 0 .. c - 1 : \E i \in S : Cardinality(up[i]) = k
  BY RanksAreTaken
<1>3. IsFiniteSet(F)
  BY FS_Subset
<1> HIDE DEF c, m
<1>4. rank \in [F -> T]
  <2>1. ASSUME NEW i \in F PROVE Cardinality(up[i]) \in T
    <3>1. Cardinality(up[i]) \in 0 .. c - 1 /\ Cardinality(up[i]) < n
      BY <1>2
    <3>2. QED
      BY <1>1, <3>1
  <2>2. QED
    BY <2>1
<1>5. OneToOne(rank, F)
  <2>1. SUFFICES ASSUME NEW i \in F, NEW j \in F, rank[i] = rank[j] PROVE i = j
    BY DEF OneToOne
  <2>2. Cardinality(up[i]) = Cardinality(up[j]) /\ Cardinality(up[i]) \in 0 .. c - 1
    BY <1>2, <2>1
  <2>3. i \notin up[j] /\ j \notin up[i]
    BY <1>2, <2>2
  <2>4. QED
    BY <2>3
<1>6. Onto(rank, F, T)
  <2>1. SUFFICES ASSUME NEW k \in T PROVE \E i \in F : rank[i] = k
    BY DEF Onto
  <2>2. k \in 0 .. c - 1 /\ k < n
    BY <1>1
  <2>3. PICK i \in S : Cardinality(up[i]) = k
    BY <1>2, <2>2
  <2>4. QED
    BY <2>2, <2>3
<1>7. Cardinality(T) = m
  BY <1>1, FS_Interval
<1> HIDE DEF F, T, rank
<1>8. Cardinality(T) = Cardinality(F)
  BY <1>3, <1>4, <1>5, <1>6, OneToOneCounts
<1>9. QED
  BY <1>3, <1>7, <1>8 DEF F, m, c

\* The dearer first, of the same price the earlier.
DearerOf(offers, S, T) ==
  \/ CostOf(offers, S) > CostOf(offers, T)
  \/ CostOf(offers, S) = CostOf(offers, T) /\ Earlier(S, T)

\* The n of which fewer than n are dearer.
Topmost(offers, Q, n) == {S \in Q : Cardinality({T \in Q : DearerOf(offers, T, S)}) < n}

LEMMA DearestCount ==
  ASSUME NEW offers, Marketable(offers), NEW Q \in SUBSET (SUBSET Players), IsFiniteSet(Q),
         NEW n \in Nat
  PROVE  /\ IsFiniteSet(Topmost(offers, Q, n))
         /\ Cardinality(Topmost(offers, Q, n)) = Least(n, Cardinality(Q))
<1> DEFINE up == [S \in Q |-> {T \in Q : DearerOf(offers, T, S)}]
<1>1. \A S \in Q : CostOf(offers, S) \in Nat /\ S \in SUBSET Nat
  BY CostIsNumber, PlayersAssumption
<1>2. \A S, T \in Q : /\ ~(Earlier(S, T) /\ Earlier(T, S))
                      /\ S # T => Earlier(S, T) \/ Earlier(T, S)
                      /\ \A U \in Q : Earlier(S, T) /\ Earlier(T, U) => Earlier(S, U)
  BY <1>1, EarlierIsOrder
<1>3. \A S \in Q : ~DearerOf(offers, S, S)
  BY <1>1, <1>2 DEF DearerOf
<1>4. \A S, T \in Q : S # T => DearerOf(offers, S, T) \/ DearerOf(offers, T, S)
  BY <1>1, <1>2 DEF DearerOf
<1>5. ASSUME NEW S \in Q, NEW T \in Q, NEW U \in Q,
             DearerOf(offers, S, T), DearerOf(offers, T, U)
      PROVE  DearerOf(offers, S, U)
  <2>1. CostOf(offers, S) \in Nat /\ CostOf(offers, T) \in Nat /\ CostOf(offers, U) \in Nat
    BY <1>1
  <2>2. Earlier(S, T) /\ Earlier(T, U) => Earlier(S, U)
    BY <1>2
  <2>3. QED
    BY <1>5, <2>1, <2>2 DEF DearerOf
<1>6. /\ up \in [Q -> SUBSET Q] /\ \A i \in Q : i \notin up[i]
      /\ \A i, j \in Q : i # j => \/ i \in up[j] /\ up[i] \subseteq up[j]
                                  \/ j \in up[i] /\ up[j] \subseteq up[i]
  BY <1>3, <1>4, <1>5
<1>7. Topmost(offers, Q, n) = {S \in Q : Cardinality(up[S]) < n}
  BY DEF Topmost
<1> HIDE DEF up
<1>8. /\ IsFiniteSet({S \in Q : Cardinality(up[S]) < n})
      /\ Cardinality({S \in Q : Cardinality(up[S]) < n}) = Least(n, Cardinality(Q))
  BY <1>6, ForemostCount
<1>9. QED
  BY <1>7, <1>8

\* Who is passed over for one of them costs no more than he.
LEMMA DearestAreDear ==
  ASSUME NEW offers, Marketable(offers), NEW Q \in SUBSET (SUBSET Players), IsFiniteSet(Q),
         NEW n \in Nat, NEW S \in Topmost(offers, Q, n), NEW T \in Q \ Topmost(offers, Q, n)
  PROVE  CostOf(offers, S) >= CostOf(offers, T)
<1> DEFINE up(U) == {V \in Q : DearerOf(offers, V, U)}
<1>1. \A U \in Q : CostOf(offers, U) \in Nat
  BY CostIsNumber
<1>2. S \in Q /\ Cardinality(up(S)) < n /\ ~(Cardinality(up(T)) < n)
  BY DEF Topmost
<1>3. ASSUME CostOf(offers, S) < CostOf(offers, T)
      PROVE  up(T) \in SUBSET up(S)
  BY <1>1, <1>2, <1>3 DEF DearerOf
<1>4. IsFiniteSet(up(S)) /\ IsFiniteSet(up(T))
  BY FS_Subset
<1> HIDE DEF up
<1>5. Cardinality(up(S)) \in Nat /\ Cardinality(up(T)) \in Nat
  BY <1>4, FS_CardinalityType
<1>6. ~(CostOf(offers, S) < CostOf(offers, T))
  <2>1. SUFFICES ASSUME CostOf(offers, S) < CostOf(offers, T) PROVE FALSE
    OBVIOUS
  <2>2. Cardinality(up(T)) <= Cardinality(up(S))
    BY <1>3, <1>4, <2>1, FS_Subset
  <2>3. QED
    BY <1>2, <1>5, <2>2
<1>7. QED
  BY <1>1, <1>2, <1>6

\* Of any n squads one is no dearer than he.
LEMMA DearestAreReached ==
  ASSUME NEW offers, Marketable(offers), NEW Q \in SUBSET (SUBSET Players), IsFiniteSet(Q),
         NEW n \in Nat, NEW S \in Topmost(offers, Q, n),
         NEW P \in SUBSET Q, Cardinality(P) >= n
  PROVE  \E U \in P : CostOf(offers, U) <= CostOf(offers, S)
<1> DEFINE up == {V \in Q : DearerOf(offers, V, S)}
<1>1. \A U \in Q : CostOf(offers, U) \in Nat
  BY CostIsNumber
<1>2. S \in Q /\ Cardinality(up) < n
  BY DEF Topmost
<1>3. ASSUME \A U \in P : ~(CostOf(offers, U) <= CostOf(offers, S))
      PROVE  P \in SUBSET up
  BY <1>1, <1>2, <1>3 DEF DearerOf
<1>4. IsFiniteSet(up) /\ IsFiniteSet(P)
  BY FS_Subset
<1> HIDE DEF up
<1>5. Cardinality(up) \in Nat /\ Cardinality(P) \in Nat
  BY <1>4, FS_CardinalityType
<1>6. SUFFICES ASSUME \A U \in P : ~(CostOf(offers, U) <= CostOf(offers, S)) PROVE FALSE
  OBVIOUS
<1>7. Cardinality(P) <= Cardinality(up)
  BY <1>3, <1>4, <1>6, FS_Subset
<1>8. QED
  BY <1>2, <1>5, <1>7

\* The squads of a benchmark that cost what must be spent, and the dearest of the others.
Near(offers, budget, sampled) ==
  {S \in sampled : CostOf(offers, S) >= Floor(offers, budget, sampled)}

LEMMA PopulationIs ==
  ASSUME NEW offers, NEW budget, NEW sampled,
         NEW population \in Populations(offers, budget, sampled)
  PROVE  LET near == Near(offers, budget, sampled) IN
           IF Cardinality(near) >= TargetPopulation
           THEN population \in kSubset(TargetPopulation, near)
           ELSE population = near \cup Topmost(offers, sampled \ near,
                                               TargetPopulation - Cardinality(near))
  BY DEF Populations, Near, Foremost, Topmost, DearerOf

\* The dearest squads that were sampled are counted.
LEMMA PopulationCount ==
  ASSUME NEW offers, Marketable(offers), NEW budget,
         NEW sampled \in SUBSET (SUBSET Players), IsFiniteSet(sampled),
         NEW population \in Populations(offers, budget, sampled)
  PROVE  /\ population \in SUBSET sampled /\ IsFiniteSet(population)
         /\ Cardinality(population) = Least(TargetPopulation, Cardinality(sampled))
<1> DEFINE near == Near(offers, budget, sampled)
           rest == sampled \ near
           n == TargetPopulation - Cardinality(near)
           others == Topmost(offers, rest, n)
<1>1. IF Cardinality(near) >= TargetPopulation THEN population \in kSubset(TargetPopulation, near)
      ELSE population = near \cup others
  BY PopulationIs
<1>2. near \in SUBSET sampled
  BY DEF Near
<1> HIDE DEF near
<1>3. /\ IsFiniteSet(near) /\ IsFiniteSet(rest) /\ near \cap rest = {} /\ sampled = near \cup rest
      /\ rest \in SUBSET (SUBSET Players)
  BY <1>2, FS_Subset
<1>4. /\ Cardinality(near) \in Nat /\ Cardinality(rest) \in Nat
      /\ Cardinality(sampled) = Cardinality(near) + Cardinality(rest)
  <2>1. Cardinality(near \cup rest) = Cardinality(near) + Cardinality(rest)
    BY ONLY <1>3, DisjointCount
  <2>2. QED
    BY <1>3, <2>1, FS_CardinalityType
<1>5. TargetPopulation \in Nat
  BY RatingAssumption
<1> HIDE DEF rest
<1>6. CASE Cardinality(near) >= TargetPopulation
  <2>1. population \in SUBSET near /\ Cardinality(population) = TargetPopulation
    BY <1>1, <1>6 DEF kSubset
  <2>2. Least(TargetPopulation, Cardinality(sampled)) = TargetPopulation
    BY <1>4, <1>5, <1>6 DEF Least
  <2>3. IsFiniteSet(population) /\ population \in SUBSET sampled
    BY <1>2, <1>3, <2>1, FS_Subset
  <2>4. QED
    BY <2>1, <2>2, <2>3
<1>7. CASE ~(Cardinality(near) >= TargetPopulation)
  <2>1. n \in Nat /\ n = TargetPopulation - Cardinality(near)
    BY <1>4, <1>5, <1>7
  <2> HIDE DEF n
  <2>2. IsFiniteSet(others) /\ Cardinality(others) = Least(n, Cardinality(rest))
    BY <1>3, <2>1, DearestCount
  <2>3. others \in SUBSET rest
    BY DEF Topmost
  <2> HIDE DEF others
  <2>4. population = near \cup others /\ near \cap others = {}
    BY <1>1, <1>3, <1>7, <2>3
  <2>5. Cardinality(near \cup others) = Cardinality(near) + Cardinality(others)
    BY ONLY <1>3, <2>2, <2>4, DisjointCount
  <2>6. IsFiniteSet(near \cup others)
    BY ONLY <1>3, <2>2, FS_Union
  <2>7. Cardinality(near) + Least(n, Cardinality(rest))
          = Least(TargetPopulation, Cardinality(sampled))
    BY <1>4, <1>5, <2>1 DEF Least
  <2>8. population \in SUBSET sampled
    BY <1>3, <2>3, <2>4
  <2>9. QED
    BY <2>2, <2>4, <2>5, <2>6, <2>7, <2>8
<1>8. QED
  BY <1>6, <1>7

LEMMA FloorIsNumber ==
  ASSUME NEW offers, Marketable(offers), NEW budget \in Nat,
         NEW sampled \in SUBSET (SUBSET Players), IsFiniteSet(sampled), sampled # {}
  PROVE  Floor(offers, budget, sampled) \in Int
<1> DEFINE cost == [S \in sampled |-> CostOf(offers, S)]
           costs == {CostOf(offers, S) : S \in sampled}
<1>1. costs = Image(cost, sampled)
  BY DEF Image
<1>2. costs \in SUBSET Int /\ costs # {}
  BY CostIsNumber
<1> HIDE DEF cost
<1>3. IsFiniteSet(Image(cost, sampled))
  BY ImageIsFinite
<1>4. IsFiniteSet(costs)
  BY <1>1, <1>3
<1>5. Floor(offers, budget, sampled) = Least(budget, Max(costs)) - SpendBand
  BY DEF Floor
<1> HIDE DEF costs
<1>6. Max(costs) \in Int
  BY <1>2, <1>4, MaxExists
<1>7. QED
  BY <1>5, <1>6, RatingAssumption DEF Least

\* Squads of which the one spends no less than the other, or both what must be spent.
Passes(offers, budget, sampled, S, T) ==
  \/ CostOf(offers, S) >= CostOf(offers, T)
  \/ Least(CostOf(offers, S), CostOf(offers, T)) >= Floor(offers, budget, sampled)

\* Of what was sampled no squad is passed over for one that spends less.
LEMMA PopulationPasses ==
  ASSUME NEW offers, Marketable(offers), NEW budget \in Nat,
         NEW sampled \in SUBSET (SUBSET Players), IsFiniteSet(sampled),
         NEW population \in Populations(offers, budget, sampled),
         NEW S \in population, NEW T \in sampled \ population
  PROVE  Passes(offers, budget, sampled, S, T)
<1> DEFINE near == Near(offers, budget, sampled)
           rest == sampled \ near
           n == TargetPopulation - Cardinality(near)
           floor == Floor(offers, budget, sampled)
<1>1. population \in SUBSET sampled
  BY PopulationCount
<1>2. CostOf(offers, S) \in Nat /\ CostOf(offers, T) \in Nat /\ floor \in Int
  BY <1>1, CostIsNumber, FloorIsNumber
<1>3. \A U \in sampled : U \in near <=> CostOf(offers, U) >= floor
  BY DEF Near
<1>4. IF Cardinality(near) >= TargetPopulation THEN population \in kSubset(TargetPopulation, near)
      ELSE population = near \cup Topmost(offers, rest, n)
  BY PopulationIs
<1>5. near \in SUBSET sampled /\ IsFiniteSet(near) /\ IsFiniteSet(rest)
  BY FS_Subset DEF Near
<1> HIDE DEF near, floor
<1>6. CASE S \in near
  BY <1>1, <1>2, <1>3, <1>6 DEF Passes, Least, floor
<1>7. CASE S \notin near
  <2>1. ~(Cardinality(near) >= TargetPopulation)
    BY <1>4, <1>7 DEF kSubset
  <2>2. n \in Nat
    BY <1>5, <2>1, FS_CardinalityType, RatingAssumption
  <2>3. S \in Topmost(offers, rest, n) /\ T \in rest \ Topmost(offers, rest, n)
    BY <1>4, <1>7, <2>1
  <2>4. rest \in SUBSET (SUBSET Players)
    OBVIOUS
  <2> HIDE DEF rest, n
  <2>5. CostOf(offers, S) >= CostOf(offers, T)
    BY <1>5, <2>2, <2>3, <2>4, DearestAreDear
  <2>6. QED
    BY <2>5 DEF Passes
<1>8. QED
  BY <1>6, <1>7

-----------------------------------------------------------------------------
(* What a release brings. *)

\* What was sampled and kept for a budget.
BuiltOK(offers, b) ==
  /\ b.budget \in Nat
  /\ IsFiniteSet(b.sampled) /\ b.sampled \in SUBSET Fair(offers, b.budget)
  /\ b.population \in SUBSET b.sampled
  /\ Cardinality(b.population) = Least(TargetPopulation, Cardinality(b.sampled))
  /\ \A S \in b.population, T \in b.sampled \ b.population :
       Passes(offers, b.budget, b.sampled, S, T)

LEMMA PopulationsAreOK ==
  ASSUME NEW offers, Marketable(offers), NEW budget \in Nat, NEW sampled,
         IsFiniteSet(sampled), sampled \in SUBSET Fair(offers, budget),
         NEW population \in Populations(offers, budget, sampled)
  PROVE  BuiltOK(offers, [budget |-> budget, sampled |-> sampled, population |-> population])
<1>1. sampled \in SUBSET (SUBSET Players)
  BY DEF Fair, Common
<1>2. QED
  BY <1>1, PopulationCount, PopulationPasses DEF BuiltOK

\* The squads of a release that a budget buys.
Within(offers, budget, master) == {S \in master : CostOf(offers, S) <= budget}

\* Who is near a budget is dearer than who is not: a budget's share are the dearest.
LEMMA ShareIsDearest ==
  ASSUME NEW offers, Marketable(offers), NEW budget \in Nat,
         NEW master \in SUBSET (SUBSET Players)
  PROVE  Share(offers, budget, master)
           = Topmost(offers, Within(offers, budget, master), TargetPopulation)
<1> DEFINE Q == Within(offers, budget, master)
           IsNear(S) == CostOf(offers, S) >= budget - SpendBand
           Prefer(S, T) ==
             \/ IsNear(S) /\ ~IsNear(T)
             \/ /\ IsNear(S) <=> IsNear(T)
                /\ \/ CostOf(offers, S) > CostOf(offers, T)
                   \/ CostOf(offers, S) = CostOf(offers, T) /\ Earlier(S, T)
<1>1. Share(offers, budget, master)
        = {S \in Q : Cardinality({T \in Q : Prefer(T, S)}) < TargetPopulation}
  BY DEF Share, Foremost, Within
<1>2. \A S \in Q : CostOf(offers, S) \in Nat
  BY CostIsNumber DEF Within
<1>3. ASSUME NEW S \in Q, NEW T \in Q PROVE Prefer(S, T) <=> DearerOf(offers, S, T)
  BY <1>2, RatingAssumption DEF DearerOf
<1> HIDE DEF Prefer, Q
<1>4. ASSUME NEW S \in Q PROVE {T \in Q : Prefer(T, S)} = {T \in Q : DearerOf(offers, T, S)}
  BY <1>3
<1>5. QED
  BY <1>1, <1>4 DEF Topmost, Q

\* The squads of a release are finitely many.
LEMMA MasterIsFinite ==
  ASSUME NEW offers, NEW built, \A b \in built : BuiltOK(offers, b)
  PROVE  /\ Master(built) \in SUBSET (SUBSET Players)
         /\ IsFiniteSet(Master(built))
         /\ \A S \in Master(built) : Filled(S) /\ Clubs(offers, S)
<1>1. \A b \in built : \A S \in b.population : S \in Fair(offers, b.budget)
  BY DEF BuiltOK
<1>2. \A S \in Master(built) : S \in SUBSET Players /\ Filled(S) /\ Clubs(offers, S)
  BY <1>1 DEF Master, Fair, Filled
<1>3. IsFiniteSet(SUBSET Players)
  BY FS_SUBSET, PlayersAssumption
<1>4. QED
  BY <1>2, <1>3, FS_Subset

\* A budget's share of a release keeps what was promised for every lower budget.
LEMMA ShareKeepsPromises ==
  ASSUME NEW offers, Marketable(offers), NEW budget \in Nat,
         NEW built, \A b \in built : BuiltOK(offers, b),
         NEW b \in built, b.budget <= budget
  PROVE  LET share == Share(offers, budget, Master(built)) IN
           /\ Cardinality(share) \in Nat /\ Cardinality(b.population) \in Nat
           /\ Cardinality(share) >= Cardinality(b.population)
           /\ \A S \in share, T \in b.sampled \ share : Passes(offers, b.budget, b.sampled, S, T)
<1> DEFINE Q == Within(offers, budget, Master(built))
           share == Share(offers, budget, Master(built))
           n == TargetPopulation
<1>1. /\ b.budget \in Nat
      /\ IsFiniteSet(b.sampled) /\ b.sampled \in SUBSET Fair(offers, b.budget)
      /\ b.population \in SUBSET b.sampled
      /\ Cardinality(b.population) = Least(n, Cardinality(b.sampled))
      /\ \A S \in b.population, T \in b.sampled \ b.population :
           Passes(offers, b.budget, b.sampled, S, T)
  BY DEF BuiltOK
<1>2. Master(built) \in SUBSET (SUBSET Players) /\ IsFiniteSet(Master(built))
  BY MasterIsFinite
<1>3. Q \in SUBSET (SUBSET Players) /\ IsFiniteSet(Q) /\ n \in Nat
  BY <1>2, FS_Subset, RatingAssumption DEF Within
<1>4. share = Topmost(offers, Q, n)
  BY <1>2, ShareIsDearest
<1>5. \A S \in b.sampled : /\ S \in SUBSET Players /\ CostOf(offers, S) \in Nat
                          /\ CostOf(offers, S) <= b.budget
  BY <1>1, CostIsNumber DEF Fair, Filled
<1>6. b.population \in SUBSET Q
  BY <1>1, <1>5 DEF Within, Master
<1>7. share \in SUBSET Q
  BY <1>4 DEF Topmost
<1>8. \A S \in Q : CostOf(offers, S) \in Nat
  BY <1>3, CostIsNumber
<1> HIDE DEF Q, share, n
<1>9. /\ IsFiniteSet(share) /\ Cardinality(share) = Least(n, Cardinality(Q))
      /\ Cardinality(b.population) <= Cardinality(Q)
      /\ Cardinality(b.population) \in Nat /\ Cardinality(b.sampled) \in Nat
      /\ Cardinality(Q) \in Nat
  BY <1>1, <1>3, <1>4, <1>6, DearestCount, FS_Subset, FS_CardinalityType
<1>10. Cardinality(share) \in Nat /\ Cardinality(share) >= Cardinality(b.population)
  BY <1>1, <1>3, <1>9 DEF Least
<1>11. ASSUME NEW S \in share, NEW T \in b.sampled \ share
       PROVE  Passes(offers, b.budget, b.sampled, S, T)
  <2>1. CASE T \in b.population
    <3>1. T \in Q \ Topmost(offers, Q, n) /\ S \in Topmost(offers, Q, n)
      BY <1>4, <1>6, <1>11, <2>1
    <3>2. CostOf(offers, S) >= CostOf(offers, T)
      BY <1>3, <3>1, DearestAreDear
    <3>3. QED
      BY <3>2 DEF Passes
  <2>2. CASE T \notin b.population
    <3>1. Cardinality(b.population) # Cardinality(b.sampled)
      BY <1>1, <1>11, <2>2, FS_Subset
    <3>2. Cardinality(b.population) >= n
      BY <1>1, <1>3, <1>9, <3>1 DEF Least
    <3>3. PICK U \in b.population : CostOf(offers, U) <= CostOf(offers, S)
      BY <1>3, <1>4, <1>6, <1>11, <3>2, DearestAreReached
    <3>4. Passes(offers, b.budget, b.sampled, U, T)
      BY <1>1, <1>11, <2>2
    <3>5. /\ CostOf(offers, U) \in Nat /\ CostOf(offers, T) \in Nat
          /\ CostOf(offers, S) \in Nat
      BY <1>1, <1>5, <1>7, <1>8, <1>11
    <3>6. Floor(offers, b.budget, b.sampled) \in Int
      BY <1>1, <1>5, <1>11, FloorIsNumber
    <3>7. QED
      BY <3>3, <3>4, <3>5, <3>6 DEF Passes, Least
  <2>3. QED
    BY <2>1, <2>2
<1>12. QED
  BY <1>9, <1>10, <1>11 DEF share

\* What a lineup promises is a number, and so is what a squad earns.
LEMMA LineupTotal ==
  ASSUME NEW offers, Marketable(offers), NEW s, SquadOK(s), NEW w \in Horizon(offers)
  PROVE  LineupOf(s, offers.xp[w]).total \in Int
<1> DEFINE pos == Places(s)
           xp == Expected(s, offers.xp[w])
           lineup == RecommendLineup(pos, xp)
<1>1. Formed(pos)
  BY DEF SquadOK
<1>2. xp \in [Slots -> Int]
  <2>1. offers.xp[w] \in [Players -> Int]
    BY WeeksAreFinite
  <2>2. s.order \in [Slots -> Players]
    BY DEF SquadOK, Fielded
  <2>3. QED
    BY <2>1, <2>2 DEF Expected
<1>3. lineup.total = Points(xp, lineup.starters) + xp[lineup.captain]
  BY DEF RecommendLineup, Led, Lineup
<1>4. LineupOf(s, offers.xp[w]).total = lineup.total
  BY DEF LineupOf
<1> HIDE DEF pos, xp
<1>5. Numbers(xp, Slots)
  BY <1>2 DEF Numbers
<1>6. lineup.starters = Starters(pos, xp) /\ lineup.captain \in Starters(pos, xp)
  BY <1>1, <1>5, CaptainIsBest
<1>7. Starters(pos, xp) \in SUBSET Slots
  BY <1>1, <1>5, StartersBeatAll DEF IsEleven
<1>8. Points(xp, lineup.starters) \in Int
  BY <1>5, <1>6, <1>7, PointsAreWhole
<1>9. xp[lineup.captain] \in Int
  BY <1>2, <1>6, <1>7
<1>10. QED
  BY <1>3, <1>4, <1>8, <1>9

LEMMA TotalIsNumber ==
  ASSUME NEW offers, Marketable(offers), NEW S, Filled(S)
  PROVE  Total(offers, S) \in Int
<1> DEFINE b == Bought(offers, S, CostOf(offers, S))
           V == {u \in Horizon(offers) : u >= 1}
           f == [v \in V |-> LineupOf(b, offers.xp[v]).total]
<1>1. SquadOK(b)
  <2>1. CostOf(offers, S) \in Nat
    <3>1. S \in SUBSET Players
      BY DEF Filled
    <3>2. QED
      BY <3>1, CostIsNumber
  <2>2. CostOf(offers, S) <= CostOf(offers, S)
    BY <2>1
  <2>3. QED
    BY <2>1, <2>2, BoughtIsSound
<1>2. Total(offers, S) = SumFunction(f)
  BY DEF Total, HoldScore
<1>3. IsFiniteSet(V)
  BY WeeksAreFinite, FS_Subset
<1> HIDE DEF b
<1>4. Numbers(f, V)
  BY <1>1, LineupTotal DEF Numbers
<1>5. DOMAIN f = V
  OBVIOUS
<1> HIDE DEF f, V
<1>6. SumFunction(f) = Sum(f, V)
  BY <1>5 DEF SumFunction, Sum, SumFunctionOnSet
<1>7. QED
  BY <1>2, <1>3, <1>4, <1>6, SumIsNumber

\* Who earns more has at least those behind him who are level with the other.
LEMMA PercentileIsStrict ==
  ASSUME NEW population, IsFiniteSet(population), NEW totals, Numbers(totals, population),
         NEW S \in population, NEW T \in population, totals[S] < totals[T]
  PROVE  Percentile(totals[S], totals, population) < Percentile(totals[T], totals, population)
<1> DEFINE A == {U \in population : totals[U] < totals[S]}
           E == {U \in population : totals[U] = totals[S]}
           B == {U \in population : totals[U] < totals[T]}
           D == {U \in population : totals[U] = totals[T]}
<1>1. \A U \in population : totals[U] \in Int
  BY DEF Numbers
<1>2. A \cap E = {} /\ A \cup E \subseteq B /\ E # {}
  BY <1>1
<1>3. IsFiniteSet(A) /\ IsFiniteSet(B) /\ IsFiniteSet(D) /\ IsFiniteSet(E)
  BY FS_Subset
<1>4. /\ Percentile(totals[S], totals, population) = 2 * Cardinality(A) + Cardinality(E)
      /\ Percentile(totals[T], totals, population) = 2 * Cardinality(B) + Cardinality(D)
  BY DEF Percentile
<1> HIDE DEF A, B, D, E
<1>5. Cardinality(A \cup E) = Cardinality(A) + Cardinality(E)
  BY ONLY <1>2, <1>3, DisjointCount
<1>6. Cardinality(A \cup E) <= Cardinality(B)
  BY ONLY <1>2, <1>3, FS_Subset
<1>7. /\ Cardinality(A) \in Nat /\ Cardinality(B) \in Nat
      /\ Cardinality(D) \in Nat /\ Cardinality(E) \in Nat /\ Cardinality(E) # 0
  BY ONLY <1>2, <1>3, FS_CardinalityType, FS_EmptySet
<1>8. QED
  BY <1>4, <1>5, <1>6, <1>7

-----------------------------------------------------------------------------
(* The ratings of the state machine. *)

\* A benchmark draws squads that are legal and within its budget, after it has kept what
\* must be kept for the budgets before.
BenchmarksAreOK ==
  /\ task.kind = "benchmark" =>
       /\ task = [kind |-> "benchmark", release |-> task.release, budget |-> task.budget,
                  left |-> task.left, built |-> task.built, sampled |-> task.sampled,
                  drawn |-> task.drawn]
       /\ task.budget \in Nat /\ task.left \in SUBSET Nat
       /\ ~task.release => task.built = {}
       /\ IsFiniteSet(task.sampled) /\ task.sampled \in SUBSET task.drawn
       /\ task.drawn \in SUBSET Fair(market, task.budget)
  /\ task.kind \in {"benchmark", "released"} => \A b \in task.built : BuiltOK(market, b)

RatingInv == BenchmarksAreOK /\ BenchmarkIsFair

\* Whatever is drawn is legal and within the budget.
LEMMA DrawnAreFair ==
  ASSUME NEW offers, Marketable(offers), NEW budget \in Nat
  PROVE  Drawn(offers, budget) \in SUBSET Fair(offers, budget)
<1>1. \A S \in Samples(offers, budget) : Upgrade(offers, budget, S) \in Fair(offers, budget)
  BY SamplesAreFair, UpgradesAreFair
<1>2. QED
  BY <1>1 DEF Drawn

\* A benchmark begins, with the budgets before it kept.
LEMMA BuildingIsOK ==
  ASSUME StackInv, market' = market, NEW release \in BOOLEAN, NEW budget \in Nat,
         NEW left \in SUBSET Nat, NEW built, ~release => built = {},
         \A b \in built : BuiltOK(market, b),
         task' = Building(release, budget, left, built)
  PROVE  RatingInv'
<1>1. Marketable(market)
  BY MarketsAreMarketable DEF StackInv
<1>2. PICK drawn : drawn = Drawn(market, budget) /\ drawn \in SUBSET Fair(market, budget)
  BY <1>1, DrawnAreFair
<1>3. task' = [kind |-> "benchmark", release |-> release, budget |-> budget, left |-> left,
               built |-> built, sampled |-> {}, drawn |-> drawn]
  BY <1>2 DEF Building
<1>4. /\ task'.kind = "benchmark" /\ task'.release = release /\ task'.budget = budget
      /\ task'.left = left /\ task'.built = built /\ task'.sampled = {}
      /\ task'.drawn = drawn
  BY <1>3
<1>5. IsFiniteSet({})
  BY FS_EmptySet
<1>6. QED
  BY <1>2, <1>3, <1>4, <1>5 DEF RatingInv, BenchmarksAreOK, BenchmarkIsFair

LEMMA BenchmarkStarts ==
  ASSUME StackInv, (\E budget \in Budgets : StartBenchmark(budget)) \/ StartMaster
  PROVE  RatingInv'
<1>1. CASE \E budget \in Budgets : StartBenchmark(budget)
  <2>1. PICK budget \in Budgets :
          market' = market /\ task' = Building(FALSE, budget, {}, {})
    BY <1>1 DEF StartBenchmark
  <2>2. PICK release \in BOOLEAN, none \in {{}} : release = FALSE
    OBVIOUS
  <2>3. /\ budget \in Nat /\ none \in SUBSET Nat /\ (~release => none = {})
        /\ \A b \in none : BuiltOK(market, b)
        /\ task' = Building(release, budget, none, none)
    BY <2>1, <2>2, RequestsAssumption
  <2>4. QED
    BY ONLY StackInv, <2>1, <2>3, BuildingIsOK
<1>2. CASE StartMaster
  <2>1. PICK first \in Anchors :
          market' = market /\ task' = Building(TRUE, first, Anchors \ {first}, {})
    BY <1>2 DEF StartMaster
  <2>2. PICK release \in BOOLEAN, left \in {Anchors \ {first}}, none \in {{}} : release = TRUE
    OBVIOUS
  <2>3. /\ first \in Nat /\ left \in SUBSET Nat /\ (~release => none = {})
        /\ \A b \in none : BuiltOK(market, b)
        /\ task' = Building(release, first, left, none)
    BY <2>1, <2>2, RequestsAssumption
  <2>4. QED
    BY ONLY StackInv, <2>1, <2>3, BuildingIsOK
<1>3. QED
  BY <1>1, <1>2

LEMMA BenchmarkContinues ==
  ASSUME RatingInv, DrawSquad
  PROVE  RatingInv'
<1>1. PICK S \in task.drawn \ task.sampled :
        /\ task.kind = "benchmark" /\ market' = market
        /\ task' = [task EXCEPT !.sampled = @ \cup {S}]
  BY DEF DrawSquad
<1>2. /\ task = [kind |-> "benchmark", release |-> task.release, budget |-> task.budget,
                 left |-> task.left, built |-> task.built, sampled |-> task.sampled,
                 drawn |-> task.drawn]
      /\ task.budget \in Nat /\ task.left \in SUBSET Nat
      /\ ~task.release => task.built = {}
      /\ IsFiniteSet(task.sampled) /\ task.sampled \in SUBSET task.drawn
      /\ task.drawn \in SUBSET Fair(market, task.budget)
      /\ \A b \in task.built : BuiltOK(market, b)
  BY <1>1 DEF RatingInv, BenchmarksAreOK
<1>3. task' = [kind |-> "benchmark", release |-> task.release, budget |-> task.budget,
               left |-> task.left, built |-> task.built, sampled |-> task.sampled \cup {S},
               drawn |-> task.drawn]
  BY <1>1, <1>2
<1>4. /\ task'.kind = "benchmark" /\ task'.release = task.release
      /\ task'.budget = task.budget /\ task'.left = task.left /\ task'.built = task.built
      /\ task'.sampled = task.sampled \cup {S} /\ task'.drawn = task.drawn
  BY <1>3
<1>5. IsFiniteSet(task.sampled \cup {S})
  BY <1>2, FS_AddElement
<1>6. QED
  BY <1>1, <1>2, <1>3, <1>4, <1>5 DEF RatingInv, BenchmarksAreOK, BenchmarkIsFair

\* What is kept of a benchmark is what must be kept.
LEMMA KeptIsOK ==
  ASSUME StackInv, RatingInv, task.kind = "benchmark",
         NEW population \in Populations(market, task.budget, task.sampled)
  PROVE  /\ \A b \in Built(population) : BuiltOK(market, b)
         /\ task.budget \in Nat /\ task.left \in SUBSET Nat
<1>1. PICK budget, sampled : budget = task.budget /\ sampled = task.sampled
  OBVIOUS
<1>2. /\ budget \in Nat /\ IsFiniteSet(sampled) /\ sampled \in SUBSET Fair(market, budget)
      /\ task.left \in SUBSET Nat /\ \A b \in task.built : BuiltOK(market, b)
  BY <1>1 DEF RatingInv, BenchmarksAreOK
<1>3. Marketable(market)
  BY MarketsAreMarketable DEF StackInv
<1>4. population \in Populations(market, budget, sampled)
  BY <1>1
<1>5. BuiltOK(market, [budget |-> budget, sampled |-> sampled, population |-> population])
  BY ONLY <1>2, <1>3, <1>4, PopulationsAreOK
<1>6. QED
  BY <1>1, <1>2, <1>5 DEF Built

LEMMA AnchorIsClosed ==
  ASSUME StackInv, RatingInv, CloseAnchor
  PROVE  RatingInv'
<1>1. PICK population \in Populations(market, task.budget, task.sampled) :
        \/ task' = [kind |-> "released", built |-> Built(population)]
        \/ \E next \in task.left :
             task' = Building(TRUE, next, task.left \ {next}, Built(population))
  BY DEF CloseAnchor
<1>2. task.kind = "benchmark" /\ market' = market
  BY DEF CloseAnchor
<1>3. PICK built : /\ built = Built(population) /\ \A b \in built : BuiltOK(market, b)
                   /\ task.left \in SUBSET Nat
  BY <1>2, KeptIsOK
<1>4. CASE task' = [kind |-> "released", built |-> built]
  <2>1. task'.kind = "released" /\ task'.built = built
    BY <1>4
  <2>2. QED
    BY <1>2, <1>3, <2>1 DEF RatingInv, BenchmarksAreOK, BenchmarkIsFair
<1>5. ASSUME NEW next \in task.left, task' = Building(TRUE, next, task.left \ {next}, built)
      PROVE  RatingInv'
  BY <1>2, <1>3, <1>5, BuildingIsOK
<1>6. QED
  BY <1>1, <1>3, <1>4, <1>5

\* A rating is fair if the squads are legal and affordable, not too many, and keep what was
\* promised for every budget they were chosen from.
LEMMA RatingIsOK ==
  ASSUME StackInv, market' = market, NEW release \in BOOLEAN, NEW budget \in Nat, NEW built,
         NEW population \in SUBSET (SUBSET Players), IsFiniteSet(population),
         \A S \in population : Filled(S) /\ Clubs(market, S) /\ CostOf(market, S) <= budget,
         Cardinality(population) <= TargetPopulation,
         \A b \in built : b.budget <= budget =>
           /\ Cardinality(population) >= Least(TargetPopulation, Cardinality(b.sampled))
           /\ release => Rated(population)
           /\ \A S \in population, T \in b.sampled \ population :
                Passes(market, b.budget, b.sampled, S, T),
         release => \A S \in population, T \in Master(built) \ population :
                      CostOf(market, T) <= budget => CostOf(market, S) >= CostOf(market, T),
         task' = Rating(release, budget, built, population)
  PROVE  RatingInv'
<1> DEFINE totals == [S \in population |-> Total(market, S)]
<1>1. Marketable(market)
  BY MarketsAreMarketable DEF StackInv
<1>2. /\ task'.kind = "rated" /\ task'.totals = totals /\ task'.budget = budget
      /\ task'.built = built /\ task'.available = Rated(population)
      /\ task'.release = release /\ DOMAIN totals = population
  BY DEF Rating
<1>3. \A S \in population : LegalSquad(market, S)
  BY DEF LegalSquad, Filled
<1>4. Numbers(totals, population)
  BY <1>1, TotalIsNumber DEF Numbers
<1> HIDE DEF totals
<1>5. \A S, T \in population :
         totals[S] < totals[T]
           => Percentile(totals[S], totals, population) < Percentile(totals[T], totals, population)
  BY <1>4, PercentileIsStrict
<1>6. BenchmarkIsFair'
  BY <1>2, <1>3, <1>5 DEF BenchmarkIsFair, Passes
<1>7. QED
  BY <1>2, <1>6 DEF RatingInv, BenchmarksAreOK

LEMMA SquadIsRated ==
  ASSUME StackInv, RatingInv, RateSquad
  PROVE  RatingInv'
<1>1. PICK population \in Populations(market, task.budget, task.sampled) :
        task' = Rating(FALSE, task.budget, Built(population), population)
  BY DEF RateSquad
<1>2. task.kind = "benchmark" /\ ~task.release /\ market' = market
  BY DEF RateSquad
<1>3. \A b \in Built(population) : BuiltOK(market, b)
  BY <1>2, KeptIsOK
<1>4. PICK b : b = [budget |-> task.budget, sampled |-> task.sampled, population |-> population]
  OBVIOUS
<1>5. Built(population) = {b}
  BY <1>2, <1>4 DEF Built, RatingInv, BenchmarksAreOK
<1>6. /\ b.budget \in Nat /\ b.population = population /\ b.budget = task.budget
      /\ IsFiniteSet(b.sampled) /\ b.sampled \in SUBSET Fair(market, b.budget)
      /\ population \in SUBSET b.sampled
      /\ Cardinality(population) = Least(TargetPopulation, Cardinality(b.sampled))
      /\ \A S \in population, T \in b.sampled \ population :
           Passes(market, b.budget, b.sampled, S, T)
  BY <1>3, <1>4, <1>5 DEF BuiltOK
<1>7. /\ IsFiniteSet(population) /\ population \in SUBSET (SUBSET Players)
      /\ Cardinality(b.sampled) \in Nat
      /\ \A S \in population : /\ Filled(S) /\ Clubs(market, S)
                               /\ CostOf(market, S) <= b.budget
  BY <1>6, FS_Subset, FS_CardinalityType DEF Fair, Common
<1>8. Cardinality(population) \in Nat /\ Cardinality(population) <= TargetPopulation
  BY <1>6, <1>7, RatingAssumption DEF Least
<1>9. PICK release \in BOOLEAN, budget \in Nat, built \in {{b}} :
        release = FALSE /\ budget = b.budget
  BY <1>6
<1>10. Cardinality(population) >= Least(TargetPopulation, Cardinality(b.sampled))
  BY <1>6, <1>8
<1>11. \A c \in built : c.budget <= budget =>
         /\ Cardinality(population) >= Least(TargetPopulation, Cardinality(c.sampled))
         /\ release => Rated(population)
         /\ \A S \in population, T \in c.sampled \ population :
              Passes(market, c.budget, c.sampled, S, T)
  BY <1>6, <1>9, <1>10
<1>12. /\ release => \A S \in population, T \in Master(built) \ population :
            CostOf(market, T) <= budget => CostOf(market, S) >= CostOf(market, T)
       /\ task' = Rating(release, budget, built, population)
       /\ \A S \in population : Filled(S) /\ Clubs(market, S) /\ CostOf(market, S) <= budget
  BY <1>1, <1>5, <1>6, <1>7, <1>9
<1>13. QED
  BY ONLY StackInv, <1>2, <1>7, <1>8, <1>11, <1>12, RatingIsOK

LEMMA ReleaseIsRated ==
  ASSUME StackInv, RatingInv, NEW budget \in Budgets, RateReleased(budget)
  PROVE  RatingInv'
<1>1. PICK built, share : built = task.built /\ share = Share(market, budget, Master(built))
  OBVIOUS
<1>2. /\ task.kind = "released" /\ Ready(built) /\ market' = market
      /\ task' = Rating(TRUE, budget, built, share)
  BY <1>1 DEF RateReleased
<1>3. \A b \in built : BuiltOK(market, b)
  BY <1>1, <1>2 DEF RatingInv, BenchmarksAreOK
<1>4. Marketable(market) /\ budget \in Nat
  BY MarketsAreMarketable, RequestsAssumption DEF StackInv
<1>5. PICK master : master = Master(built)
  OBVIOUS
<1>6. /\ master \in SUBSET (SUBSET Players) /\ IsFiniteSet(master)
      /\ \A S \in master : Filled(S) /\ Clubs(market, S)
  BY ONLY <1>3, <1>5, MasterIsFinite
<1>7. PICK Q : Q = Within(market, budget, master)
  OBVIOUS
<1>8. /\ Q \in SUBSET (SUBSET Players) /\ Q \in SUBSET master /\ IsFiniteSet(Q)
      /\ TargetPopulation \in Nat
  BY <1>6, <1>7, FS_Subset, RatingAssumption DEF Within
<1>9. share = Topmost(market, Q, TargetPopulation)
  BY <1>1, <1>4, <1>5, <1>6, <1>7, ShareIsDearest
<1>10. share \in SUBSET Q
  BY <1>9 DEF Topmost
<1>11. IsFiniteSet(share) /\ Cardinality(share) = Least(TargetPopulation, Cardinality(Q))
  BY <1>4, <1>8, <1>9, DearestCount
<1>12. Cardinality(share) <= TargetPopulation
  BY <1>8, <1>11, FS_CardinalityType DEF Least
<1>13. \A S \in share : Filled(S) /\ Clubs(market, S) /\ CostOf(market, S) <= budget
  BY <1>6, <1>7, <1>8, <1>10 DEF Within
<1>14. \A S \in share, T \in Master(built) \ share :
         CostOf(market, T) <= budget => CostOf(market, S) >= CostOf(market, T)
  <2>1. SUFFICES ASSUME NEW S \in share, NEW T \in master \ share, CostOf(market, T) <= budget
                 PROVE  CostOf(market, S) >= CostOf(market, T)
    BY <1>5
  <2>2. T \in Q \ Topmost(market, Q, TargetPopulation) /\ S \in Topmost(market, Q, TargetPopulation)
    BY <1>7, <1>9, <2>1 DEF Within
  <2>3. QED
    BY <1>4, <1>8, <2>2, DearestAreDear
<1>15. ASSUME NEW b \in built, b.budget <= budget
       PROVE  /\ Cardinality(share) >= Least(TargetPopulation, Cardinality(b.sampled))
              /\ Rated(share)
              /\ \A S \in share, T \in b.sampled \ share :
                   Passes(market, b.budget, b.sampled, S, T)
  <2>1. /\ Cardinality(share) \in Nat /\ Cardinality(b.population) \in Nat
        /\ Cardinality(share) >= Cardinality(b.population)
        /\ \A S \in share, T \in b.sampled \ share : Passes(market, b.budget, b.sampled, S, T)
    BY ONLY <1>1, <1>3, <1>4, <1>15, ShareKeepsPromises
  <2>2. Cardinality(b.population) = Least(TargetPopulation, Cardinality(b.sampled))
    BY <1>3, <1>15 DEF BuiltOK
  <2>3. Rated(b.population)
    BY <1>2, <1>15 DEF Ready
  <2>4. QED
    BY <2>1, <2>2, <2>3, RatingAssumption DEF Rated
<1>16. PICK release \in BOOLEAN : release = TRUE
  OBVIOUS
<1>17. /\ share \in SUBSET (SUBSET Players) /\ task' = Rating(release, budget, built, share)
       /\ release => \A S \in share, T \in Master(built) \ share :
            CostOf(market, T) <= budget => CostOf(market, S) >= CostOf(market, T)
  BY <1>2, <1>8, <1>10, <1>14, <1>16
<1>18. \A b \in built : b.budget <= budget =>
         /\ Cardinality(share) >= Least(TargetPopulation, Cardinality(b.sampled))
         /\ release => Rated(share)
         /\ \A S \in share, T \in b.sampled \ share :
              Passes(market, b.budget, b.sampled, S, T)
  BY <1>15
<1>19. market' = market /\ budget \in Nat /\ IsFiniteSet(share)
  BY <1>2, <1>4, <1>11
<1>20. QED
  BY ONLY StackInv, <1>12, <1>13, <1>17, <1>18, <1>19, RatingIsOK

\* A task of another kind rates nothing.
LEMMA OthersRateNothing ==
  ASSUME task'.kind \notin {"benchmark", "released", "rated"}
  PROVE  RatingInv'
  BY DEF RatingInv, BenchmarksAreOK, BenchmarkIsFair

LEMMA NextKeepsRatings ==
  ASSUME StackInv, RatingInv, Next
  PROVE  RatingInv'
<1>1. CASE (\E budget \in Budgets : StartBenchmark(budget)) \/ StartMaster
  BY <1>1, BenchmarkStarts
<1>2. CASE DrawSquad
  BY <1>2, BenchmarkContinues
<1>3. ASSUME CloseAnchor \/ RateSquad \/ \E budget \in Budgets : RateReleased(budget)
      PROVE  RatingInv'
  BY <1>3, AnchorIsClosed, SquadIsRated, ReleaseIsRated
<1>4. CASE SearchSlot
  <2>1. task.kind = "search" /\ \E slot, partials :
          task' = [task EXCEPT !.slot = slot, !.partials = partials]
    BY <1>4 DEF SearchSlot
  <2>2. task = [kind |-> "search", rules |-> task.rules, slot |-> task.slot,
                partials |-> task.partials]
    BY <2>1 DEF StackInv, SearchesAreOK
  <2>3. task'.kind = "search"
    BY <2>1, <2>2
  <2>4. QED
    BY <2>3, OthersRateNothing
<1>5. CASE PlanGameweek
  <2>1. task.kind = "plan" /\ \E week, plans :
          task' = [task EXCEPT !.week = week, !.plans = plans]
    BY <1>5 DEF PlanGameweek
  <2>2. task = [kind |-> "plan", options |-> task.options, week |-> task.week,
                plans |-> task.plans]
    BY <2>1 DEF StackInv, PlansAreOK
  <2>3. task'.kind = "plan"
    BY <2>1, <2>2
  <2>4. QED
    BY <2>3, OthersRateNothing
<1>6. ASSUME NEW rules \in Rules, StartSearch(rules) PROVE RatingInv'
  <2>1. task'.kind = "search"
    BY <1>6 DEF StartSearch
  <2>2. QED
    BY <2>1, OthersRateNothing
<1>7. CASE TakeSquad
  <2>1. task'.kind = "found"
    BY <1>7 DEF TakeSquad
  <2>2. QED
    BY <2>1, OthersRateNothing
<1>8. ASSUME NEW options \in Options, StartPlan(options) PROVE RatingInv'
  <2>1. task'.kind = "plan"
    BY <1>8 DEF StartPlan
  <2>2. QED
    BY <2>1, OthersRateNothing
<1>9. ASSUME NEW w \in WildcardRules, PlayWildcard(w) PROVE RatingInv'
  <2>1. task'.kind = "wildcard"
    BY <1>9 DEF PlayWildcard
  <2>2. QED
    BY <2>1, OthersRateNothing
<1>10. CASE AdviseTransfer
  <2>1. task'.kind = "advice"
    BY <1>10 DEF AdviseTransfer
  <2>2. QED
    BY <2>1, OthersRateNothing
<1>11. ASSUME NEW blanks, PlayGameweek(blanks) PROVE RatingInv'
  <2>1. task'.kind = "played"
    BY <1>11 DEF PlayGameweek
  <2>2. QED
    BY <2>1, OthersRateNothing
<1>12. ASSUME SearchFails \/ MakeTransfers \/ Finish \/ \E m \in Markets : NewRelease(m)
       PROVE  RatingInv'
  <2>1. task' \in {Idle, Decided}
    BY <1>12 DEF SearchFails, MakeTransfers, Finish, NewRelease
  <2>2. task'.kind \in {"idle", "decided"}
    BY <2>1 DEF Idle, Decided
  <2>3. QED
    BY <2>2, OthersRateNothing
<1>13. QED
  BY <1>1, <1>2, <1>3, <1>4, <1>5, <1>6, <1>7, <1>8, <1>9, <1>10, <1>11, <1>12 DEF Next

\* A squad is rated among legal squads within the budget.  Whatever was sampled for that
\* budget or a lower one, no squad is passed over for one that spends less unless both are
\* in that budget's band, merged and chosen again from a release or not; a release that is
\* ready rates every squad that can spend its lowest budget; who earns more is rated
\* higher: the property of the run, for every release and every choice of budgets.
THEOREM RatingsAreAlwaysFair == Spec => []BenchmarkIsFair
<1>1. Init => RatingInv
  <2>1. Init => task.kind = "idle"
    BY DEF Init, Idle
  <2>2. QED
    BY <2>1 DEF RatingInv, BenchmarksAreOK, BenchmarkIsFair
<1>2. StackInv /\ RatingInv /\ [Next]_vars => RatingInv'
  <2>1. RatingInv /\ UNCHANGED vars => RatingInv'
    BY DEF RatingInv, BenchmarksAreOK, BenchmarkIsFair, vars
  <2>2. QED
    BY <2>1, NextKeepsRatings
<1>3. RatingInv => BenchmarkIsFair
  BY DEF RatingInv
<1>4. QED
  BY <1>1, <1>2, <1>3, StackIsInvariant, PTL DEF Spec

-----------------------------------------------------------------------------
(* Planning and doing nothing. *)

\* There are finitely many moves.
LEMMA MadeIsFinite == IsFiniteSet(Made)
<1> DEFINE pairs(m) == {<<x, m[x]>> : x \in DOMAIN m}
           g == [m \in Made |-> pairs(m)]
           T == SUBSET (Players \X Players)
<1>1. IsFiniteSet(Players)
  BY PlayersAssumption
<1>2. IsFiniteSet(Players \X Players)
  BY <1>1, FS_Product
<1>3. IsFiniteSet(T)
  BY <1>2, FS_SUBSET
<1>4. g \in [Made -> T]
  BY DEF Made
<1>5. ASSUME NEW m \in Made, NEW k \in Made, pairs(m) = pairs(k) PROVE m = k
  <2>1. PICK A \in SUBSET Players : m \in [A -> Players]
    BY DEF Made
  <2>2. PICK B \in SUBSET Players : k \in [B -> Players]
    BY DEF Made
  <2>3. ASSUME NEW x \in A PROVE x \in B /\ m[x] = k[x]
    <3>1. <<x, m[x]>> \in pairs(m)
      BY <2>1
    <3>2. <<x, m[x]>> \in pairs(k)
      BY <1>5, <3>1
    <3>3. PICK y \in DOMAIN k : <<x, m[x]>> = <<y, k[y]>>
      BY <3>2
    <3>4. QED
      BY <2>2, <3>3
  <2>4. ASSUME NEW x \in B PROVE x \in A
    <3>1. <<x, k[x]>> \in pairs(k)
      BY <2>2
    <3>2. <<x, k[x]>> \in pairs(m)
      BY <1>5, <3>1
    <3>3. PICK y \in DOMAIN m : <<x, k[x]>> = <<y, m[y]>>
      BY <3>2
    <3>4. QED
      BY <2>1, <3>3
  <2>5. A = B
    BY <2>3, <2>4
  <2>6. QED
    BY <2>1, <2>2, <2>3, <2>5
<1>6. \A m, k \in Made : g[m] = g[k] => m = k
  BY <1>5
<1> HIDE DEF g, T
<1>7. g \in Injection(Made, T)
  BY <1>4, <1>6 DEF Injection, IsInjective
<1>8. QED
  BY <1>3, <1>7, FS_Injection

-----------------------------------------------------------------------------
(* The order of plans. *)

\* Plans of n weeks that can be compared.
Comparable(p, n) ==
  /\ p.rank \in Int /\ p.net \in Int /\ p.cost \in Int
  /\ p.weeks \in Seq(Made) /\ Len(p.weeks) = n

LEMMA ComparableWeeks ==
  ASSUME NEW n \in Nat, NEW p, Comparable(p, n)
  PROVE  DOMAIN p.weeks = 1 .. n /\ p.weeks \in [1 .. n -> Made]
<1>1. p.weeks \in Seq(Made) /\ Len(p.weeks) = n
  BY DEF Comparable
<1>2. DOMAIN p.weeks = 1 .. n
  BY <1>1, LenProperties
<1>3. \A k \in 1 .. n : p.weeks[k] \in Made
  BY <1>1, ElementOfSeq
<1>4. p.weeks = [k \in DOMAIN p.weeks |-> p.weeks[k]]
  BY <1>1, LenProperties
<1>5. QED
  BY <1>2, <1>3, <1>4

LEMMA MadeFacts ==
  ASSUME NEW m \in Made
  PROVE  DOMAIN m \in SUBSET Nat /\ Range(m) \in SUBSET Nat /\ Decision(m) \in Nat \X Nat
<1>1. PICK A \in SUBSET Players : m \in [A -> Players]
  BY DEF Made
<1>2. Players \subseteq Nat
  BY PlayersAssumption
<1>3. DOMAIN m \in SUBSET Nat /\ Range(m) \in SUBSET Nat
  BY <1>1, <1>2 DEF Range
<1>4. CASE Cardinality(DOMAIN m) = 1
  <2>1. DOMAIN m # {}
    BY <1>4, FS_EmptySet
  <2>2. PICK out : out = CHOOSE p \in DOMAIN m : TRUE
    OBVIOUS
  <2>3. out \in DOMAIN m
    BY <2>1, <2>2
  <2>4. Decision(m) = <<out, m[out]>>
    BY <1>4, <2>2 DEF Decision
  <2>5. out \in Nat /\ m[out] \in Nat
    BY <1>1, <1>2, <2>3
  <2>6. QED
    BY <1>3, <2>4, <2>5
<1>5. CASE Cardinality(DOMAIN m) # 1
  BY <1>3, <1>5 DEF Decision
<1>6. QED
  BY <1>3, <1>4, <1>5

Pairings == Nat \X Nat

DecisionOrder == {r \in Pairings \X Pairings : Precedes(r[1], r[2])}

LEMMA DecisionsAreOrdered ==
  /\ Orders(DecisionOrder, Pairings)
  /\ \A u, v \in Pairings : u # v => <<u, v>> \in DecisionOrder \/ <<v, u>> \in DecisionOrder
<1>1. \A u \in Pairings : u[1] \in Nat /\ u[2] \in Nat /\ u = <<u[1], u[2]>>
  BY DEF Pairings
<1>2. \A u, v \in Pairings : <<u, v>> \in DecisionOrder <=> Precedes(u, v)
  BY DEF DecisionOrder
<1>3. \A u \in Pairings : ~Precedes(u, u)
  BY <1>1 DEF Precedes
<1>4. \A u, v, w \in Pairings : Precedes(u, v) /\ Precedes(v, w) => Precedes(u, w)
  BY <1>1 DEF Precedes
<1>5. ASSUME NEW u \in Pairings, NEW v \in Pairings, u # v
      PROVE  Precedes(u, v) \/ Precedes(v, u)
  <2>1. u[1] # v[1] \/ u[2] # v[2]
    BY <1>1, <1>5
  <2>2. u[1] \in Nat /\ u[2] \in Nat /\ v[1] \in Nat /\ v[2] \in Nat
    BY <1>1
  <2>3. QED
    BY <2>1, <2>2 DEF Precedes
<1>6. QED
  BY <1>2, <1>3, <1>4, <1>5 DEF Orders

\* Who does nothing first, then by who leaves, then by who comes.
MoveBefore(m, k) ==
  \/ Earlier(DOMAIN k, DOMAIN m) /\ DOMAIN m = {}
  \/ Earlier(DOMAIN m, DOMAIN k) /\ DOMAIN k # {}
  \/ DOMAIN m = DOMAIN k /\ Earlier(Range(m), Range(k))

MoveOrder == {r \in Made \X Made : MoveBefore(r[1], r[2])}

LEMMA MovesAreOrdered == Orders(MoveOrder, Made)
<1>1. \A m, k \in Made : <<m, k>> \in MoveOrder <=> MoveBefore(m, k)
  BY DEF MoveOrder
<1>2. \A S : ~Earlier({}, S) /\ ~Earlier(S, S)
  BY DEF Earlier
<1>3. \A m \in Made : ~MoveBefore(m, m)
  BY <1>2 DEF MoveBefore
<1>4. \A m \in Made : DOMAIN m \in SUBSET Nat /\ Range(m) \in SUBSET Nat
  BY MadeFacts
<1>5. ASSUME NEW m \in Made, NEW k \in Made, NEW l \in Made, MoveBefore(m, k), MoveBefore(k, l)
      PROVE  MoveBefore(m, l)
  <2>1. Earlier(Range(m), Range(k)) /\ Earlier(Range(k), Range(l))
          => Earlier(Range(m), Range(l))
    BY <1>4, EarlierIsOrder
  <2>2. /\ Earlier(DOMAIN m, DOMAIN k) /\ Earlier(DOMAIN k, DOMAIN l)
             => Earlier(DOMAIN m, DOMAIN l)
        /\ Earlier(DOMAIN l, DOMAIN k) /\ Earlier(DOMAIN k, DOMAIN m)
             => Earlier(DOMAIN l, DOMAIN m)
    BY <1>4, EarlierIsOrder
  <2>3. DOMAIN l # {} => Earlier(DOMAIN l, {})
    BY DEF Earlier
  <2>4. CASE DOMAIN m = {}
    BY <1>2, <1>5, <2>1, <2>3, <2>4 DEF MoveBefore
  <2>5. CASE DOMAIN m # {}
    <3>1. DOMAIN k # {}
      BY <1>2, <1>5, <2>5 DEF MoveBefore
    <3>2. DOMAIN l # {}
      BY <1>2, <1>5, <3>1 DEF MoveBefore
    <3>3. QED
      BY <1>5, <2>1, <2>2, <2>5, <3>1, <3>2 DEF MoveBefore
  <2>6. QED
    BY <2>4, <2>5
<1>6. QED
  BY <1>1, <1>3, <1>5 DEF Orders

Decisions(p, n) == [k \in 1 .. n |-> Decision(p.weeks[k])]

LEMMA DecisionsAreLexical ==
  ASSUME NEW n \in Nat, NEW p, Comparable(p, n), NEW q, Comparable(q, n)
  PROVE  /\ Decisions(p, n) \in [1 .. n -> Pairings]
         /\ DecidedEarlier(p, q) <=> Lexical(DecisionOrder, n, Decisions(p, n), Decisions(q, n))
<1>1. DOMAIN p.weeks = 1 .. n /\ p.weeks \in [1 .. n -> Made] /\ q.weeks \in [1 .. n -> Made]
  BY ComparableWeeks
<1>2. \A k \in 1 .. n : Decision(p.weeks[k]) \in Pairings /\ Decision(q.weeks[k]) \in Pairings
  <2>1. \A k \in 1 .. n : p.weeks[k] \in Made /\ q.weeks[k] \in Made
    BY <1>1
  <2>2. QED
    BY <2>1, MadeFacts DEF Pairings
<1>3. Decisions(p, n) \in [1 .. n -> Pairings]
  BY <1>2 DEF Decisions
<1>4. \A k \in 1 .. n : \A j \in 1 .. k - 1 : j \in 1 .. n
  OBVIOUS
<1>5. \A k \in 1 .. n :
        /\ Decisions(p, n)[k] = Decision(p.weeks[k]) /\ Decisions(q, n)[k] = Decision(q.weeks[k])
        /\ <<Decisions(p, n)[k], Decisions(q, n)[k]>> \in DecisionOrder
             <=> Precedes(Decision(p.weeks[k]), Decision(q.weeks[k]))
  BY <1>2 DEF Decisions, DecisionOrder
<1>6. DecidedEarlier(p, q)
        <=> \E k \in 1 .. n :
              /\ Precedes(Decision(p.weeks[k]), Decision(q.weeks[k]))
              /\ \A j \in 1 .. k - 1 : Decision(p.weeks[j]) = Decision(q.weeks[j])
  BY <1>1 DEF DecidedEarlier
<1>7. \A k \in 1 .. n :
        (\A j \in 1 .. k - 1 : Decisions(p, n)[j] = Decisions(q, n)[j])
          <=> \A j \in 1 .. k - 1 : Decision(p.weeks[j]) = Decision(q.weeks[j])
  BY <1>4, <1>5
<1>8. QED
  BY <1>3, <1>5, <1>6, <1>7 DEF Lexical

LEMMA MovesAreLexical ==
  ASSUME NEW n \in Nat, NEW p, Comparable(p, n), NEW q, Comparable(q, n)
  PROVE  p.weeks # q.weeks /\ MovedEarlier(p, q) <=> Lexical(MoveOrder, n, p.weeks, q.weeks)
<1>1. DOMAIN p.weeks = 1 .. n /\ p.weeks \in [1 .. n -> Made] /\ q.weeks \in [1 .. n -> Made]
  BY ComparableWeeks
<1>2. \A k \in 1 .. n : p.weeks[k] \in Made /\ q.weeks[k] \in Made
  BY <1>1
<1>3. \A k \in 1 .. n :
        <<p.weeks[k], q.weeks[k]>> \in MoveOrder <=> MoveBefore(p.weeks[k], q.weeks[k])
  BY <1>2 DEF MoveOrder
<1>4. \A k \in 1 .. n : MoveBefore(p.weeks[k], q.weeks[k]) => p.weeks[k] # q.weeks[k]
  BY <1>2, <1>3, MovesAreOrdered DEF Orders
<1> DEFINE First(k) == p.weeks[k] # q.weeks[k] /\ \A j \in 1 .. k - 1 : p.weeks[j] = q.weeks[j]
           i == CHOOSE k \in DOMAIN p.weeks : First(k)
<1>5. MovedEarlier(p, q) <=> MoveBefore(p.weeks[i], q.weeks[i])
  BY DEF MovedEarlier, MoveBefore
<1>6. \A k, l \in 1 .. n : First(k) /\ First(l) => k = l
  <2>1. SUFFICES ASSUME NEW k \in 1 .. n, NEW l \in 1 .. n, First(k), First(l), k < l
                 PROVE  FALSE
    OBVIOUS
  <2>2. k \in 1 .. l - 1
    BY <2>1
  <2>3. QED
    BY <2>1, <2>2
<1>7. p.weeks # q.weeks => \E k \in 1 .. n : First(k)
  <2>1. SUFFICES ASSUME p.weeks # q.weeks PROVE \E k \in 1 .. n : First(k)
    OBVIOUS
  <2>2. Differ(n, p.weeks, q.weeks)
    BY <1>1, <2>1 DEF Differ
  <2>3. QED
    BY <2>2, FirstDifference
<1> HIDE DEF First
<1>8. \A k \in 1 .. n : First(k) => i = k
  BY <1>1, <1>6
<1> HIDE DEF i
<1>9. ASSUME p.weeks # q.weeks, MovedEarlier(p, q)
      PROVE  Lexical(MoveOrder, n, p.weeks, q.weeks)
  <2>1. PICK k \in 1 .. n : First(k)
    BY <1>7, <1>9
  <2>2. <<p.weeks[k], q.weeks[k]>> \in MoveOrder
    BY <1>3, <1>5, <1>8, <1>9, <2>1
  <2>3. QED
    BY <2>1, <2>2 DEF First, Lexical
<1>10. ASSUME Lexical(MoveOrder, n, p.weeks, q.weeks)
       PROVE  p.weeks # q.weeks /\ MovedEarlier(p, q)
  <2>1. PICK k \in 1 .. n : /\ <<p.weeks[k], q.weeks[k]>> \in MoveOrder
                            /\ \A j \in 1 .. k - 1 : p.weeks[j] = q.weeks[j]
    BY <1>10 DEF Lexical
  <2>2. MoveBefore(p.weeks[k], q.weeks[k]) /\ p.weeks[k] # q.weeks[k]
    BY <1>3, <1>4, <2>1
  <2>3. First(k)
    BY <2>1, <2>2 DEF First
  <2>4. QED
    BY <1>5, <1>8, <2>2, <2>3
<1>11. QED
  BY <1>9, <1>10

\* How plans that promise the same are ordered.
TieBefore(p, q) ==
  \/ DecidedEarlier(p, q)
  \/ ~DecidedEarlier(q, p) /\ p.weeks # q.weeks /\ MovedEarlier(p, q)

LEMMA TiesAreOrdered ==
  ASSUME NEW n \in Nat, NEW p, Comparable(p, n), NEW q, Comparable(q, n), NEW r, Comparable(r, n)
  PROVE  /\ ~TieBefore(p, p)
         /\ TieBefore(p, q) /\ TieBefore(q, r) => TieBefore(p, r)
<1> DEFINE D(x, y) == Lexical(DecisionOrder, n, Decisions(x, n), Decisions(y, n))
           M(x, y) == Lexical(MoveOrder, n, x.weeks, y.weeks)
           Good(x) == x \in {p, q, r}
<1>1. \A x, y : Good(x) /\ Good(y) =>
        /\ Decisions(x, n) \in [1 .. n -> Pairings]
        /\ DecidedEarlier(x, y) <=> D(x, y)
        /\ x.weeks # y.weeks /\ MovedEarlier(x, y) <=> M(x, y)
  BY DecisionsAreLexical, MovesAreLexical
<1>2. \A x : Good(x) => x.weeks \in [1 .. n -> Made]
  BY ComparableWeeks
<1>3. \A x, y, z : Good(x) /\ Good(y) /\ Good(z) =>
        ~M(x, x) /\ (M(x, y) /\ M(y, z) => M(x, z))
  <2>1. \A a, b, c \in [1 .. n -> Made] :
          /\ ~Lexical(MoveOrder, n, a, a)
          /\ Lexical(MoveOrder, n, a, b) /\ Lexical(MoveOrder, n, b, c)
               => Lexical(MoveOrder, n, a, c)
    BY MovesAreOrdered, LexicalOrders
  <2>2. QED
    BY <1>2, <2>1
<1>4. \A x, y, z : Good(x) /\ Good(y) /\ Good(z) =>
        ~D(x, x) /\ (D(x, y) /\ D(y, z) => D(x, z))
  <2>1. \A a, b, c \in [1 .. n -> Pairings] :
          /\ ~Lexical(DecisionOrder, n, a, a)
          /\ Lexical(DecisionOrder, n, a, b) /\ Lexical(DecisionOrder, n, b, c)
               => Lexical(DecisionOrder, n, a, c)
    BY DecisionsAreOrdered, LexicalOrders
  <2>2. \A x : Good(x) => Decisions(x, n) \in [1 .. n -> Pairings]
    BY <1>1
  <2>3. SUFFICES ASSUME NEW x, NEW y, NEW z, Good(x), Good(y), Good(z)
                 PROVE  ~D(x, x) /\ (D(x, y) /\ D(y, z) => D(x, z))
    OBVIOUS
  <2>4. PICK a, b, c : a = Decisions(x, n) /\ b = Decisions(y, n) /\ c = Decisions(z, n)
    OBVIOUS
  <2>5. a \in [1 .. n -> Pairings] /\ b \in [1 .. n -> Pairings] /\ c \in [1 .. n -> Pairings]
    BY <2>2, <2>3, <2>4
  <2>6. QED
    BY <2>1, <2>4, <2>5
<1>5. \A x, y : Good(x) /\ Good(y) =>
        D(x, y) \/ D(y, x) \/ Decisions(x, n) = Decisions(y, n)
  <2>1. SUFFICES ASSUME NEW x, NEW y, Good(x), Good(y), Decisions(x, n) # Decisions(y, n)
                 PROVE  D(x, y) \/ D(y, x)
    OBVIOUS
  <2>2. Decisions(x, n) \in [1 .. n -> Pairings] /\ Decisions(y, n) \in [1 .. n -> Pairings]
    BY <1>1, <2>1
  <2>3. Differ(n, Decisions(x, n), Decisions(y, n))
    BY <2>1, <2>2 DEF Differ
  <2>4. QED
    BY <2>2, <2>3, DecisionsAreOrdered, LexicalIsTotal
<1>6. /\ Decisions(p, n) = Decisions(q, n) => (D(p, r) <=> D(q, r))
      /\ Decisions(q, n) = Decisions(r, n) => (D(p, q) <=> D(p, r)) /\ (D(q, p) <=> D(r, p))
  OBVIOUS
<1>7. \A x, y : Good(x) /\ Good(y) => (TieBefore(x, y) <=> D(x, y) \/ (~D(y, x) /\ M(x, y)))
  BY <1>1 DEF TieBefore
<1>8. Good(p) /\ Good(q) /\ Good(r)
  OBVIOUS
<1> HIDE DEF D, M, Good
<1>9. ~TieBefore(p, p)
  BY <1>3, <1>4, <1>7, <1>8
<1>10. ASSUME TieBefore(p, q), TieBefore(q, r) PROVE TieBefore(p, r)
  <2>1. D(p, q) \/ (~D(q, p) /\ M(p, q))
    BY <1>7, <1>8, <1>10
  <2>2. D(q, r) \/ (~D(r, q) /\ M(q, r))
    BY <1>7, <1>8, <1>10
  <2>3. D(p, r) \/ (~D(r, p) /\ M(p, r))
    <3>1. D(p, q) /\ D(q, r) => D(p, r)
      BY <1>4, <1>8
    <3>2. D(p, q) \/ Decisions(p, n) = Decisions(q, n)
      BY <1>5, <1>8, <2>1
    <3>3. D(q, r) \/ Decisions(q, n) = Decisions(r, n)
      BY <1>5, <1>8, <2>2
    <3>4. CASE D(p, q)
      BY <1>6, <3>1, <3>3, <3>4
    <3>5. CASE ~D(p, q) /\ D(q, r)
      BY <1>6, <3>2, <3>5
    <3>6. CASE ~D(p, q) /\ ~D(q, r)
      <4>1. M(p, q) /\ M(q, r) /\ ~D(q, p)
        BY <2>1, <2>2, <3>6
      <4>2. M(p, r)
        BY <1>3, <1>8, <4>1
      <4>3. ~D(r, p)
        BY <1>6, <3>3, <3>6, <4>1
      <4>4. QED
        BY <4>2, <4>3
    <3>7. QED
      BY <3>4, <3>5, <3>6
  <2>4. QED
    BY <1>7, <1>8, <2>3
<1>11. QED
  BY <1>9, <1>10

LEMMA PlansAreOrdered ==
  ASSUME NEW n \in Nat, NEW p, Comparable(p, n), NEW q, Comparable(q, n), NEW r, Comparable(r, n)
  PROVE  /\ ~Prior(p, p)
         /\ Prior(p, q) /\ Prior(q, r) => Prior(p, r)
<1>1. \A x, y : Prior(x, y) <=>
        \/ x.rank > y.rank
        \/ x.rank = y.rank /\ x.net > y.net
        \/ x.rank = y.rank /\ x.net = y.net /\ x.cost < y.cost
        \/ x.rank = y.rank /\ x.net = y.net /\ x.cost = y.cost /\ TieBefore(x, y)
  BY DEF Prior, TieBefore
<1>2. /\ p.rank \in Int /\ p.net \in Int /\ p.cost \in Int
      /\ q.rank \in Int /\ q.net \in Int /\ q.cost \in Int
      /\ r.rank \in Int /\ r.net \in Int /\ r.cost \in Int
  BY DEF Comparable
<1>3. ~TieBefore(p, p) /\ (TieBefore(p, q) /\ TieBefore(q, r) => TieBefore(p, r))
  BY TiesAreOrdered
<1>4. ~Prior(p, p)
  BY <1>1, <1>2, <1>3
<1>5. ASSUME Prior(p, q), Prior(q, r) PROVE Prior(p, r)
  BY <1>1, <1>2, <1>3, <1>5
<1>6. QED
  BY <1>4, <1>5

\* Of finitely many plans nothing precedes one.
LEMMA FirstPlanExists ==
  ASSUME NEW n \in Nat, NEW plans, IsFiniteSet(plans), plans # {},
         \A p \in plans : Comparable(p, n)
  PROVE  \E p \in plans : \A q \in plans : ~Prior(q, p)
<1> DEFINE up == [p \in plans |-> {q \in plans : Prior(q, p)}]
<1>1. \A p, q, r \in plans : ~Prior(p, p) /\ (Prior(p, q) /\ Prior(q, r) => Prior(p, r))
  BY PlansAreOrdered
<1>2. up \in [plans -> SUBSET plans] /\ \A p \in plans : p \notin up[p]
  BY <1>1
<1>3. \A p \in plans : \A q \in up[p] : \A r \in up[q] : r \in up[p]
  BY <1>1
<1>4. \A p \in plans : up[p] = {} => \A q \in plans : ~Prior(q, p)
  OBVIOUS
<1> HIDE DEF up
<1>5. \E p \in plans : up[p] = {}
  BY <1>2, <1>3, SomebodyIsUnbeaten
<1>6. QED
  BY <1>4, <1>5

\* Nor is any preferred to the plan that is recommended.
LEMMA RecommendedIsBest ==
  ASSUME NEW n \in Nat, NEW plans, IsFiniteSet(plans), plans # {},
         \A p \in plans : Comparable(p, n) /\ Objective(p) \in Int
  PROVE  /\ Recommended(plans) \in plans
         /\ \A p \in plans : Objective(p) <= Objective(Recommended(plans))
<1> DEFINE up == [p \in plans |-> {q \in plans : Preferred(q, p)}]
<1>1. \A p, q, r \in plans : ~Prior(p, p) /\ (Prior(p, q) /\ Prior(q, r) => Prior(p, r))
  BY PlansAreOrdered
<1>2. \A p \in plans : p.cost \in Int /\ Objective(p) \in Int
  BY DEF Comparable
<1>3. \A p \in plans : ~Preferred(p, p)
  BY <1>1, <1>2 DEF Preferred
<1>4. ASSUME NEW p \in plans, NEW q \in plans, NEW r \in plans, Preferred(p, q), Preferred(q, r)
      PROVE  Preferred(p, r)
  <2>1. Prior(p, q) /\ Prior(q, r) => Prior(p, r)
    BY <1>1
  <2>2. /\ p.cost \in Int /\ Objective(p) \in Int /\ q.cost \in Int /\ Objective(q) \in Int
        /\ r.cost \in Int /\ Objective(r) \in Int
    BY <1>2
  <2>3. QED
    BY <1>4, <2>1, <2>2 DEF Preferred
<1>5. up \in [plans -> SUBSET plans] /\ \A p \in plans : p \notin up[p]
  BY <1>3
<1>6. \A p \in plans : \A q \in up[p] : \A r \in up[q] : r \in up[p]
  BY <1>4
<1>7. \A p \in plans : up[p] = {} => p \in Returned(plans)
  BY DEF Returned
<1> HIDE DEF up
<1>8. \E p \in plans : up[p] = {}
  BY <1>5, <1>6, SomebodyIsUnbeaten
<1>9. Recommended(plans) \in Returned(plans)
  BY <1>7, <1>8 DEF Recommended
<1>10. Recommended(plans) \in plans /\ \A p \in plans : ~Preferred(p, Recommended(plans))
  BY <1>9 DEF Returned
<1>11. \A p \in plans : ~(Objective(p) > Objective(Recommended(plans)))
  BY <1>10 DEF Preferred
<1>12. QED
  BY <1>2, <1>10, <1>11

-----------------------------------------------------------------------------
(* What a plan promises. *)

\* What holding a squad brings depends on who is in which slot only.
LEMMA SameOrderSameScore ==
  ASSUME NEW s, NEW t, s.order = t.order
  PROVE  /\ \A xp : LineupOf(s, xp) = LineupOf(t, xp)
         /\ \A offers, w : HoldScore(offers, s, w) = HoldScore(offers, t, w)
<1>1. Places(s) = Places(t) /\ \A xp : Expected(s, xp) = Expected(t, xp)
  BY DEF Places, Expected
<1>2. \A xp : LineupOf(s, xp) = LineupOf(t, xp)
  BY <1>1 DEF LineupOf
<1>3. QED
  BY <1>2 DEF HoldScore

\* What a squad earns in every week if it is held.
Earnings(offers, s) == [v \in Horizon(offers) |-> LineupOf(s, offers.xp[v]).total]

WeeksFrom(offers, w) == {u \in Horizon(offers) : u >= w}

LEMMA HoldScoreIsSum ==
  ASSUME NEW offers, Marketable(offers), NEW s, SquadOK(s), NEW w
  PROVE  /\ WeeksFrom(offers, w) \in SUBSET Horizon(offers) /\ IsFiniteSet(WeeksFrom(offers, w))
         /\ Numbers(Earnings(offers, s), Horizon(offers))
         /\ Numbers(Earnings(offers, s), WeeksFrom(offers, w))
         /\ HoldScore(offers, s, w) = Sum(Earnings(offers, s), WeeksFrom(offers, w))
<1> DEFINE F == [v \in WeeksFrom(offers, w) |-> LineupOf(s, offers.xp[v]).total]
<1>1. WeeksFrom(offers, w) \in SUBSET Horizon(offers) /\ IsFiniteSet(WeeksFrom(offers, w))
  BY WeeksAreFinite, FS_Subset DEF WeeksFrom
<1>2. \A v \in Horizon(offers) : LineupOf(s, offers.xp[v]).total \in Int
  BY LineupTotal
<1>3. Numbers(Earnings(offers, s), Horizon(offers))
  BY <1>2 DEF Numbers, Earnings
<1>4. Numbers(Earnings(offers, s), WeeksFrom(offers, w))
  BY <1>1, <1>3 DEF Numbers
<1>5. HoldScore(offers, s, w) = SumFunction(F)
  BY DEF HoldScore, WeeksFrom
<1>6. /\ DOMAIN F = WeeksFrom(offers, w)
      /\ \A v \in WeeksFrom(offers, w) : F[v] = Earnings(offers, s)[v]
  BY <1>1 DEF Earnings
<1> HIDE DEF F
<1>7. Numbers(F, WeeksFrom(offers, w))
  BY <1>4, <1>6 DEF Numbers
<1>8. SumFunction(F) = Sum(F, WeeksFrom(offers, w))
  BY <1>6 DEF SumFunction, Sum, SumFunctionOnSet
<1>9. Sum(F, WeeksFrom(offers, w)) = Sum(Earnings(offers, s), WeeksFrom(offers, w))
  BY <1>1, <1>6, <1>7, SumsAgree
<1>10. QED
  BY <1>1, <1>3, <1>4, <1>5, <1>8, <1>9

LEMMA HoldScoreSteps ==
  ASSUME NEW offers, Marketable(offers), NEW s, SquadOK(s), NEW w \in 1 .. Len(offers.xp) + 1
  PROVE  /\ HoldScore(offers, s, w) \in Int
         /\ w = Len(offers.xp) + 1 => HoldScore(offers, s, w) = 0
         /\ w \in Horizon(offers) =>
              /\ LineupOf(s, offers.xp[w]).total \in Int
              /\ HoldScore(offers, s, w)
                   = LineupOf(s, offers.xp[w]).total + HoldScore(offers, s, w + 1)
<1>1. Len(offers.xp) \in Nat \ {0} /\ Horizon(offers) = 1 .. Len(offers.xp)
  BY WeeksAreFinite
<1>2. \A v \in Horizon(offers) : LineupOf(s, offers.xp[v]).total \in Int
  BY LineupTotal
<1>3. PICK f : f = Earnings(offers, s)
  OBVIOUS
<1>4. PICK A, B : A = WeeksFrom(offers, w + 1) /\ B = WeeksFrom(offers, w)
  OBVIOUS
<1>5. /\ IsFiniteSet(B) /\ Numbers(f, B) /\ HoldScore(offers, s, w) = Sum(f, B)
      /\ IsFiniteSet(A) /\ HoldScore(offers, s, w + 1) = Sum(f, A)
  BY <1>3, <1>4, HoldScoreIsSum
<1>6. HoldScore(offers, s, w) \in Int
  BY <1>5, SumIsNumber
<1>7. ASSUME w = Len(offers.xp) + 1 PROVE HoldScore(offers, s, w) = 0
  <2>1. B = {}
    BY <1>1, <1>4, <1>7 DEF WeeksFrom
  <2>2. QED
    BY <1>5, <2>1, SumOfNone
<1>8. ASSUME w \in Horizon(offers)
      PROVE  HoldScore(offers, s, w)
               = LineupOf(s, offers.xp[w]).total + HoldScore(offers, s, w + 1)
  <2>1. B = A \cup {w} /\ w \notin A
    BY <1>1, <1>4, <1>8 DEF WeeksFrom
  <2>2. IsFiniteSet(A) /\ w \notin A /\ Numbers(f, A \cup {w})
    BY <1>5, <2>1
  <2>3. Sum(f, A \cup {w}) = f[w] + Sum(f, A)
    BY ONLY <2>2, SumAdds
  <2>4. f[w] = LineupOf(s, offers.xp[w]).total
    BY <1>3, <1>8 DEF Earnings
  <2>5. QED
    BY <1>5, <2>1, <2>3, <2>4
<1>9. QED
  BY <1>2, <1>6, <1>7, <1>8

\* After n weeks: what was earned, what holding on earns, and the free transfers at the end.
Promise(offers, p, n) ==
  p.net + HoldScore(offers, p, n + 1)
    + TerminalValue * Least(MaxFree, p.free + (Len(offers.xp) - n))

LEMMA WeeksRemain ==
  ASSUME NEW offers, Marketable(offers), NEW w \in Horizon(offers)
  PROVE  Remaining(offers, w) = Len(offers.xp) - w
<1>1. Len(offers.xp) \in Nat /\ Horizon(offers) = 1 .. Len(offers.xp)
  BY WeeksAreFinite
<1>2. PICK n, k : n = Len(offers.xp) /\ k = w + 1
  OBVIOUS
<1>3. n \in Nat /\ w \in 1 .. n /\ k \in Int /\ k <= n + 1
  BY <1>1, <1>2
<1>4. {v \in Horizon(offers) : v > w} = k .. n
  BY <1>1, <1>2, <1>3
<1>5. Remaining(offers, w) = Cardinality(k .. n)
  BY <1>4 DEF Remaining
<1>6. k \in Int /\ n \in Int
  BY <1>3
<1>7. Cardinality(k .. n) = IF k > n THEN 0 ELSE n - k + 1
  BY ONLY <1>6, FS_Interval
<1>8. QED
  BY ONLY <1>2, <1>3, <1>5, <1>7

-----------------------------------------------------------------------------
(* A week of a plan. *)

PlanRecords ==
  [order : [Slots -> Players], held : UNION {[S -> Holding1] : S \in SUBSET Players},
   bank : Nat, free : 0 .. MaxFree, net : Int, cost : Int, weeks : Seq(Made), rank : Int]

\* The plans there can be.
PlanSet == {p \in PlanRecords : SquadOK(p)}

LEMMA BegunIsInSet ==
  ASSUME NEW offers, Marketable(offers), NEW s, SquadOK(s), NEW p, p = Begun(offers, s)
  PROVE  p \in PlanSet /\ Len(p.weeks) = 0 /\ p.net = 0
         /\ p.order = s.order /\ p.free = s.free
<1>1. p = [order |-> s.order, held |-> s.held, bank |-> s.bank, free |-> s.free,
           net |-> 0, cost |-> 0, weeks |-> <<>>, rank |-> HoldScore(offers, s, 1)]
  BY DEF Begun
<1>2. HoldScore(offers, s, 1) \in Int
  <2>1. 1 \in 1 .. Len(offers.xp) + 1
    BY WeeksAreFinite
  <2>2. QED
    BY <2>1, HoldScoreSteps
<1>3. <<>> \in Seq(Made) /\ Len(<<>>) = 0
  BY EmptySeq
<1>4. s.order \in [Slots -> Players] /\ s.bank \in Nat /\ s.free \in 0 .. MaxFree
  BY DEF SquadOK, Fielded
<1>5. s.held \in UNION {[S -> Holding1] : S \in SUBSET Players}
  BY SquadFacts
<1>6. p \in PlanRecords
  BY <1>1, <1>2, <1>3, <1>4, <1>5 DEF PlanRecords
<1>7. SquadOK(p)
  <2>1. SquadFields \subseteq DOMAIN p /\ SameSquad(p, s) /\ p.free \in 0 .. MaxFree
    BY <1>1, <1>4 DEF SquadFields, SameSquad
  <2>2. QED
    BY <2>1, SameSquadIsOK
<1>8. QED
  BY <1>1, <1>3, <1>6, <1>7 DEF PlanSet

\* What a week makes of a plan.
Earned(offers, p, m, w, a, q) ==
  /\ SquadOK(a) /\ Stepped(p, m, a, q)
  /\ q.net = p.net + LineupOf(a, offers.xp[w]).total - Cost(p, Cardinality(DOMAIN m))
  /\ q.rank = Promise(offers, q, w)

LEMMA StepEarns ==
  ASSUME NEW offers, Marketable(offers), NEW p \in PlanSet, NEW w \in Horizon(offers),
         NEW options, NEW m, WeekMoves(offers, options, p, m, w),
         NEW a, a = AfterMoves(offers, p, m), NEW q, q = Step(offers, p, m, w)
  PROVE  /\ Earned(offers, p, m, w, a, q)
         /\ q \in PlanSet /\ Len(q.weeks) = Len(p.weeks) + 1 /\ m \in Made
<1>1. /\ SquadOK(p) /\ Movable(p, m) /\ p \in PlanRecords
      /\ p.weeks \in Seq(Made) /\ p.net \in Int /\ p.cost \in Int /\ p.free \in 0 .. MaxFree
      /\ DOMAIN p = {"order", "held", "bank", "free", "net", "cost", "weeks", "rank"}
  BY DEF PlanSet, PlanRecords, WeekMoves
<1>2. DOMAIN a = DOMAIN p /\ \A x \in DOMAIN p \ {"order", "held", "bank"} : a[x] = p[x]
  <2>1. SquadOK(p) /\ Movable(p, m) /\ a = AfterMoves(offers, p, m)
    BY <1>1
  <2>2. QED
    BY ONLY <2>1, MovesField
<1>3. SquadOK(a)
  <2>1. CASE Still(p, m)
    BY <1>1, <2>1, NoMovesChangeNothing
  <2>2. CASE Affordable(offers, p, m)
    BY <1>1, <2>2, MovesAreSound
  <2>3. QED
    BY <2>1, <2>2 DEF WeekMoves
<1>4. Stepped(p, m, a, q)
  <2>1. /\ SquadOK(p) /\ PlanFields \subseteq DOMAIN p /\ a = AfterMoves(offers, p, m)
        /\ LeavesRest(p, a) /\ q = Step(offers, p, m, w)
    BY <1>1, <1>2 DEF LeavesRest, PlanFields
  <2>2. QED
    BY ONLY <2>1, StepFields
<1>5. m \in Made /\ Cardinality(DOMAIN m) \in Nat
  <2>1. DOMAIN m \in SUBSET Players /\ m \in [DOMAIN m -> Players]
    BY <1>1, SquadFacts DEF Movable
  <2>2. QED
    BY <2>1, PlayersAreFinite DEF Made
<1>6. PICK n : n = Cardinality(DOMAIN m)
  OBVIOUS
<1>7. PICK c : c = Cost(p, n)
  OBVIOUS
<1>8. PICK total : total = LineupOf(a, offers.xp[w]).total
  OBVIOUS
<1>9. c \in Int /\ total \in Int
  <2>1. Over(n, p.free) \in Nat
    BY <1>1, <1>5, <1>6, FreeAdvances
  <2>2. Over(n, p.free) * HitCost \in Int
    BY <2>1, PlayersAssumption
  <2>3. total \in Int
    BY <1>3, <1>8, LineupTotal
  <2>4. QED
    BY <1>7, <2>2, <2>3 DEF Cost
<1>10. PICK next : next = [a EXCEPT !.free = Advance(p.free, n),
                                    !.cost = @ + c,
                                    !.net = @ + total - c,
                                    !.weeks = Append(@, m)]
  OBVIOUS
<1>11. PICK r : r = Ranking(offers, next, w)
  OBVIOUS
<1>12. q = [next EXCEPT !.rank = r]
  BY <1>6, <1>7, <1>8, <1>10, <1>11 DEF Step
<1>13. DOMAIN next = DOMAIN p /\ next.net = p.net + total - c /\ next.order = a.order
       /\ next.free = Advance(p.free, n)
  BY <1>1, <1>2, <1>10
<1>14. /\ DOMAIN q = DOMAIN p /\ q.net = p.net + total - c /\ q.rank = r
       /\ q.order = next.order /\ q.free = next.free
  BY <1>1, <1>12, <1>13
<1>15. q.net = p.net + LineupOf(a, offers.xp[w]).total - Cost(p, Cardinality(DOMAIN m))
  BY <1>6, <1>7, <1>8, <1>14
<1>16. q.rank = Promise(offers, q, w)
  <2>1. HoldScore(offers, next, w + 1) = HoldScore(offers, q, w + 1)
    BY <1>14, SameOrderSameScore
  <2>2. Remaining(offers, w) = Len(offers.xp) - w
    BY WeeksRemain
  <2>3. r = q.net + HoldScore(offers, q, w + 1)
              + TerminalValue * Least(MaxFree, q.free + (Len(offers.xp) - w))
    BY <1>11, <1>13, <1>14, <2>1, <2>2 DEF Ranking
  <2>4. QED
    BY <1>14, <2>3 DEF Promise
<1>17. q.free \in 0 .. MaxFree
  BY <1>1, <1>4, <1>5, FreeAdvances DEF Stepped
<1>18. SquadOK(q)
  <2>1. SquadFields \subseteq DOMAIN q
    BY <1>1, <1>14 DEF SquadOK
  <2>2. SquadOK(a) /\ SquadFields \subseteq DOMAIN q /\ SameSquad(q, a) /\ q.free \in 0 .. MaxFree
    BY <1>3, <1>4, <1>17, <2>1 DEF Stepped
  <2>3. QED
    BY ONLY <2>2, SameSquadIsOK
<1>19. q.rank \in Int
  <2>1. HoldScore(offers, q, w + 1) \in Int
    <3>1. w + 1 \in 1 .. Len(offers.xp) + 1
      BY WeeksAreFinite
    <3>2. QED
      BY <1>18, <3>1, HoldScoreSteps
  <2>2. PICK least : least = Least(MaxFree, q.free + (Len(offers.xp) - w))
    OBVIOUS
  <2>3. least \in Int
    BY <1>17, <2>2, WeeksAreFinite DEF Least, MaxFree
  <2>4. TerminalValue * least \in Int
    BY <2>3, PlayersAssumption
  <2>5. q.net \in Int
    BY <1>1, <1>9, <1>14
  <2>6. QED
    BY <1>16, <2>1, <2>2, <2>4, <2>5 DEF Promise
<1>20. q.weeks \in Seq(Made) /\ Len(q.weeks) = Len(p.weeks) + 1
  <2>1. p.weeks \in Seq(Made) /\ q.weeks = Append(p.weeks, m) /\ m \in Made
    BY <1>1, <1>4, <1>5 DEF Stepped
  <2>2. QED
    BY ONLY <2>1, Appended
<1>21. q \in PlanRecords
  <2>1. q.order \in [Slots -> Players] /\ q.bank \in Nat
    BY <1>18, SquadFacts DEF Fielded
  <2>2. q.held \in UNION {[S -> Holding1] : S \in SUBSET Players}
    BY <1>18, SquadFacts
  <2>3. q.net \in Int /\ q.cost \in Int
    BY <1>1, <1>4, <1>6, <1>7, <1>9, <1>14 DEF Stepped
  <2>4. q = [order |-> q.order, held |-> q.held, bank |-> q.bank, free |-> q.free,
             net |-> q.net, cost |-> q.cost, weeks |-> q.weeks, rank |-> q.rank]
    BY <1>1, <1>12, <1>14
  <2>5. QED
    BY <1>17, <1>19, <1>20, <2>1, <2>2, <2>3, <2>4 DEF PlanRecords
<1>22. QED
  BY <1>3, <1>4, <1>5, <1>15, <1>16, <1>18, <1>20, <1>21 DEF Earned, PlanSet

\* To make no moves keeps the promise: the free transfer that is granted was promised.
LEMMA RollingKeepsPromise ==
  ASSUME NEW offers, Marketable(offers), NEW p \in PlanSet, NEW w \in Horizon(offers),
         NEW m, Still(p, m), NEW a, a = AfterMoves(offers, p, m), NEW q,
         Earned(offers, p, m, w, a, q)
  PROVE  Promise(offers, q, w) = Promise(offers, p, w - 1)
<1>1. /\ SquadOK(p) /\ DOMAIN m = {} /\ p.net \in Int /\ p.free \in 0 .. MaxFree
  BY DEF PlanSet, PlanRecords, Still
<1>2. q.order = p.order
  <2>1. a.order = [i \in Slots |-> IF p.order[i] \in DOMAIN m THEN m[p.order[i]] ELSE p.order[i]]
    BY <1>1 DEF AfterMoves, SquadOK, SquadFields
  <2>2. p.order \in [Slots -> Players]
    BY <1>1 DEF SquadOK, Fielded
  <2>3. a.order = p.order
    BY <1>1, <2>1, <2>2
  <2>4. QED
    BY <2>3 DEF Earned, Stepped, SameSquad
<1>3. Cardinality(DOMAIN m) = 0
  BY <1>1, FS_EmptySet
<1>4. PICK n : n = Len(offers.xp)
  OBVIOUS
<1>5. n \in Nat /\ w \in 1 .. n
  BY <1>4, WeeksAreFinite
<1>6. q.free = Least(MaxFree, p.free + 1)
  <2>1. q.free = Advance(p.free, 0)
    BY <1>3 DEF Earned, Stepped
  <2>2. Over(p.free, 0) = p.free
    BY <1>1 DEF Over, MaxFree
  <2>3. QED
    BY <2>1, <2>2 DEF Advance
<1>7. Cost(p, 0) = 0
  <2>1. Over(0, p.free) = 0
    BY <1>1 DEF Over, MaxFree
  <2>2. 0 * HitCost = 0
    BY PlayersAssumption
  <2>3. QED
    BY <2>1, <2>2 DEF Cost
<1>8. Least(MaxFree, q.free + (n - w)) = Least(MaxFree, p.free + (n - (w - 1)))
  BY <1>1, <1>5, <1>6 DEF Least, MaxFree
<1>9. /\ LineupOf(a, offers.xp[w]) = LineupOf(p, offers.xp[w])
      /\ HoldScore(offers, q, w + 1) = HoldScore(offers, p, w + 1)
  <2>1. a.order = p.order
    BY <1>2 DEF Earned, Stepped, SameSquad
  <2>2. QED
    BY <1>2, <2>1, SameOrderSameScore
<1>10. PICK total : total = LineupOf(p, offers.xp[w]).total
  OBVIOUS
<1>11. q.net = p.net + total
  <2>1. q.net = p.net + total - Cost(p, 0)
    BY <1>3, <1>9, <1>10 DEF Earned
  <2>2. total \in Int
    BY <1>1, <1>10, LineupTotal
  <2>3. QED
    BY <1>1, <1>7, <2>1, <2>2
<1>12. /\ HoldScore(offers, p, w) = total + HoldScore(offers, p, w + 1)
       /\ HoldScore(offers, p, w) \in Int /\ HoldScore(offers, p, w + 1) \in Int /\ total \in Int
  <2>1. w \in 1 .. Len(offers.xp) + 1 /\ w + 1 \in 1 .. Len(offers.xp) + 1
    BY <1>4, <1>5
  <2>2. QED
    BY <1>1, <1>10, <2>1, HoldScoreSteps
<1>13. PICK v : v = w - 1
  OBVIOUS
<1>14. v + 1 = w
  BY <1>5, <1>13
<1>15. PICK rest : rest = TerminalValue * Least(MaxFree, q.free + (n - w))
  OBVIOUS
<1>16. rest \in Int
  <2>1. PICK least : least = Least(MaxFree, q.free + (n - w))
    OBVIOUS
  <2>2. least \in Int
    BY <1>1, <1>5, <1>6, <2>1 DEF Least, MaxFree
  <2>3. QED
    BY <1>15, <2>1, <2>2, PlayersAssumption
<1>17. Promise(offers, q, w) = q.net + HoldScore(offers, p, w + 1) + rest
  BY <1>4, <1>9, <1>15 DEF Promise
<1>18. Promise(offers, p, v) = p.net + HoldScore(offers, p, w) + rest
  BY <1>4, <1>8, <1>13, <1>14, <1>15 DEF Promise
<1>19. q.net + HoldScore(offers, p, w + 1) + rest = p.net + HoldScore(offers, p, w) + rest
  BY <1>1, <1>11, <1>12, <1>16
<1>20. QED
  BY <1>13, <1>17, <1>18, <1>19

\* A plan's promise is a number, and at the end of the horizon its objective.
LEMMA PromiseIsKept ==
  ASSUME NEW offers, Marketable(offers), NEW p \in PlanSet, NEW n \in 0 .. Len(offers.xp)
  PROVE  /\ Promise(offers, p, n) \in Int /\ Objective(p) \in Int
         /\ n = Len(offers.xp) => Promise(offers, p, n) = Objective(p)
<1>1. SquadOK(p) /\ p.net \in Int /\ p.free \in 0 .. MaxFree
  BY DEF PlanSet, PlanRecords
<1>2. PICK h : h = Len(offers.xp)
  OBVIOUS
<1>3. h \in Nat /\ n \in 0 .. h
  BY <1>2, WeeksAreFinite
<1>4. PICK k : k = n + 1
  OBVIOUS
<1>5. /\ HoldScore(offers, p, k) \in Int
      /\ n = h => HoldScore(offers, p, k) = 0
  <2>1. k \in 1 .. Len(offers.xp) + 1
    BY <1>2, <1>3, <1>4
  <2>2. /\ HoldScore(offers, p, k) \in Int
        /\ k = Len(offers.xp) + 1 => HoldScore(offers, p, k) = 0
    BY <1>1, <2>1, HoldScoreSteps
  <2>3. QED
    BY <1>2, <1>4, <2>2
<1>6. PICK least : least = Least(MaxFree, p.free + (h - n))
  OBVIOUS
<1>7. least \in Int /\ (n = h => least = p.free)
  BY <1>1, <1>3, <1>6 DEF Least, MaxFree
<1>8. TerminalValue * least \in Int /\ TerminalValue * p.free \in Int
  BY <1>1, <1>7, PlayersAssumption DEF MaxFree
<1>9. Promise(offers, p, n) = p.net + HoldScore(offers, p, k) + TerminalValue * least
  BY <1>2, <1>4, <1>6 DEF Promise
<1>10. Promise(offers, p, n) \in Int /\ Objective(p) \in Int
  BY <1>1, <1>5, <1>8, <1>9 DEF Objective
<1>11. ASSUME n = h PROVE Promise(offers, p, n) = Objective(p)
  <2>1. TerminalValue * least = TerminalValue * p.free
    BY <1>7, <1>11
  <2>2. HoldScore(offers, p, k) = 0
    BY <1>5, <1>11
  <2>3. QED
    BY <1>1, <1>8, <1>9, <2>1, <2>2 DEF Objective
<1>12. QED
  BY <1>2, <1>10, <1>11

\* After n weeks some plan promises no less than holding the squad did, and if no week allowed
\* moves every plan promises just that.
KeepsPromise(offers, options, plans, n, worth) ==
  /\ plans \in SUBSET PlanSet /\ IsFiniteSet(plans)
  /\ \A p \in plans : Len(p.weeks) = n
  /\ \E p \in plans : Promise(offers, p, n) >= worth
  /\ 1 .. n \subseteq options.forced => \A p \in plans : Promise(offers, p, n) = worth

\* What comes of a week: plans in any number, ranked by their promises.
LEMMA WeekExpands ==
  ASSUME NEW offers, Marketable(offers), NEW options, NEW plans \in SUBSET PlanSet,
         IsFiniteSet(plans), NEW w \in Horizon(offers),
         \A p \in plans : Len(p.weeks) = w - 1,
         NEW E, E = Expanded(offers, plans, options, w)
  PROVE  /\ IsFiniteSet(E) /\ E \in SUBSET PlanSet
         /\ \A q \in E : Comparable(q, w) /\ q.rank = Promise(offers, q, w)
         /\ \A p \in plans : \E q \in E : Promise(offers, q, w) = Promise(offers, p, w - 1)
         /\ w \in options.forced =>
              \A q \in E : \E p \in plans : Promise(offers, q, w) = Promise(offers, p, w - 1)
<1>1. w \in Nat
  BY WeeksAreFinite
<1>2. ASSUME NEW p \in plans, NEW m \in Moves(offers, p, options, w)
      PROVE  /\ m \in Made
             /\ Step(offers, p, m, w) \in E /\ Step(offers, p, m, w) \in PlanSet
             /\ Comparable(Step(offers, p, m, w), w)
             /\ Step(offers, p, m, w).rank = Promise(offers, Step(offers, p, m, w), w)
             /\ Still(p, m) => Promise(offers, Step(offers, p, m, w), w) = Promise(offers, p, w - 1)
  <2>1. PICK a, q : a = AfterMoves(offers, p, m) /\ q = Step(offers, p, m, w)
    OBVIOUS
  <2>2. p \in PlanSet /\ SquadOK(p) /\ Len(p.weeks) = w - 1
    BY DEF PlanSet
  <2>3. WeekMoves(offers, options, p, m, w)
    BY <2>2, MovesAreMade
  <2>4. /\ Earned(offers, p, m, w, a, q)
        /\ q \in PlanSet /\ Len(q.weeks) = Len(p.weeks) + 1 /\ m \in Made
    BY <2>1, <2>2, <2>3, StepEarns
  <2>5. Len(q.weeks) = w
    BY <1>1, <2>2, <2>4
  <2>6. Comparable(q, w)
    BY <2>4, <2>5 DEF Comparable, PlanSet, PlanRecords
  <2>7. ASSUME Still(p, m) PROVE Promise(offers, q, w) = Promise(offers, p, w - 1)
    BY <2>1, <2>2, <2>4, <2>7, RollingKeepsPromise
  <2>8. q.rank = Promise(offers, q, w)
    BY <2>4 DEF Earned
  <2>9. q \in E
    BY <2>1 DEF Expanded
  <2>10. QED
    BY <2>1, <2>4, <2>6, <2>7, <2>8, <2>9
<1>3. \A q \in E : \E p \in plans : \E m \in Moves(offers, p, options, w) :
                      q = Step(offers, p, m, w)
  BY DEF Expanded
<1>4. E \in SUBSET PlanSet /\ \A q \in E : Comparable(q, w) /\ q.rank = Promise(offers, q, w)
  BY <1>2, <1>3
<1>5. IsFiniteSet(E)
  <2> DEFINE f == [x \in plans \X Made |-> Step(offers, x[1], x[2], w)]
  <2>1. IsFiniteSet(plans \X Made)
    BY MadeIsFinite, FS_Product
  <2>2. ASSUME NEW q \in E PROVE q \in Image(f, plans \X Made)
    <3>1. PICK p \in plans :
            \E m \in Moves(offers, p, options, w) : q = Step(offers, p, m, w)
      BY <1>3
    <3>2. PICK m \in Moves(offers, p, options, w) : q = Step(offers, p, m, w)
      BY <3>1
    <3>3. <<p, m>> \in plans \X Made /\ f[<<p, m>>] = q
      BY <1>2, <3>2
    <3>4. QED
      BY <3>3 DEF Image
  <2> HIDE DEF f
  <2>3. IsFiniteSet(Image(f, plans \X Made))
    BY <2>1, ImageIsFinite
  <2>4. QED
    BY <2>2, <2>3, FS_Subset
<1>6. \A p \in plans : <<>> \in Moves(offers, p, options, w) /\ Still(p, <<>>)
  BY NothingMoves DEF Moves
<1>7. \A p \in plans : \E q \in E : Promise(offers, q, w) = Promise(offers, p, w - 1)
  BY <1>2, <1>6
<1>8. ASSUME w \in options.forced, NEW q \in E
      PROVE  \E p \in plans : Promise(offers, q, w) = Promise(offers, p, w - 1)
  <2>1. PICK p \in plans : \E m \in Moves(offers, p, options, w) : q = Step(offers, p, m, w)
    BY <1>3
  <2>2. PICK m \in Moves(offers, p, options, w) : q = Step(offers, p, m, w)
    BY <2>1
  <2>3. m = <<>>
    BY <1>8, <2>2 DEF Moves
  <2>4. Still(p, m)
    BY <1>6, <2>3
  <2>5. QED
    BY <1>2, <2>2, <2>4
<1>9. QED
  BY <1>4, <1>5, <1>7, <1>8

\* However narrow the beam, the best plan stays in it.
LEMMA FirstIsKept ==
  ASSUME NEW n \in Nat, NEW plans, IsFiniteSet(plans), plans # {},
         \A p \in plans : Comparable(p, n), NEW beam \in Nat \ {0}
  PROVE  \E p \in Kept(Distinct(plans), beam) : p \in plans /\ \A q \in plans : q.rank <= p.rank
<1>1. PICK p \in plans : \A q \in plans : ~Prior(q, p)
  BY FirstPlanExists
<1>2. p \in Distinct(plans) /\ Distinct(plans) \subseteq plans
  BY <1>1 DEF Distinct
<1>3. {q \in Distinct(plans) : Prior(q, p)} = {}
  BY <1>1, <1>2
<1>4. Cardinality({q \in Distinct(plans) : Prior(q, p)}) < beam
  BY <1>3, FS_EmptySet
<1>5. p \in Kept(Distinct(plans), beam)
  BY <1>2, <1>4 DEF Kept
<1>6. \A q \in plans : ~(q.rank > p.rank)
  BY <1>1 DEF Prior
<1>7. \A q \in plans : q.rank \in Int
  BY DEF Comparable
<1>8. QED
  BY <1>1, <1>5, <1>6, <1>7

\* One more week keeps the promise.
LEMMA WeekKeepsPromise ==
  ASSUME NEW offers, Marketable(offers), NEW options, options.beam \in Nat \ {0},
         NEW n \in Nat, n + 1 \in Horizon(offers), NEW worth \in Int,
         NEW plans, KeepsPromise(offers, options, plans, n, worth)
  PROVE  KeepsPromise(offers, options, PlanWeek(offers, plans, options, n + 1), n + 1, worth)
<1>1. PICK w : w = n + 1
  OBVIOUS
<1>2. w \in Horizon(offers) /\ w \in Nat /\ w - 1 = n
  BY <1>1
<1>3. PICK E : E = Expanded(offers, plans, options, w)
  OBVIOUS
<1>4. PICK week : week = PlanWeek(offers, plans, options, w)
  OBVIOUS
<1>5. /\ IsFiniteSet(E) /\ E \in SUBSET PlanSet
      /\ \A q \in E : Comparable(q, w) /\ q.rank = Promise(offers, q, w)
      /\ \A p \in plans : \E q \in E : Promise(offers, q, w) = Promise(offers, p, w - 1)
      /\ w \in options.forced =>
           \A q \in E : \E p \in plans : Promise(offers, q, w) = Promise(offers, p, w - 1)
  <2>1. /\ plans \in SUBSET PlanSet /\ IsFiniteSet(plans)
        /\ \A p \in plans : Len(p.weeks) = w - 1
    BY <1>2 DEF KeepsPromise
  <2>2. QED
    BY <1>2, <1>3, <2>1, WeekExpands
<1>6. week = Kept(Distinct(E), options.beam) /\ week \subseteq E
  BY <1>3, <1>4 DEF PlanWeek, Kept, Distinct
<1>7. PICK p \in plans : Promise(offers, p, n) >= worth
  BY DEF KeepsPromise
<1>8. PICK q \in E : Promise(offers, q, w) = Promise(offers, p, n)
  BY <1>2, <1>5
<1>9. PICK best \in week : best \in E /\ \A r \in E : r.rank <= best.rank
  BY <1>2, <1>5, <1>6, <1>8, FirstIsKept
<1>10. Promise(offers, best, w) >= worth
  <2>1. /\ best.rank = Promise(offers, best, w) /\ q.rank = Promise(offers, q, w)
        /\ best.rank \in Int /\ q.rank \in Int /\ q.rank <= best.rank
    BY <1>5, <1>9 DEF Comparable
  <2>2. QED
    BY <1>7, <1>8, <2>1
<1>11. week \in SUBSET PlanSet /\ IsFiniteSet(week) /\ \A r \in week : Len(r.weeks) = w
  BY <1>5, <1>6, FS_Subset DEF Comparable
<1>12. ASSUME 1 .. w \subseteq options.forced, NEW r \in week
       PROVE  Promise(offers, r, w) = worth
  <2>1. w \in options.forced /\ 1 .. n \subseteq options.forced
    BY <1>1, <1>12
  <2>2. PICK x \in plans : Promise(offers, r, w) = Promise(offers, x, n)
    BY <1>2, <1>5, <1>6, <2>1
  <2>3. Promise(offers, x, n) = worth
    BY <2>1 DEF KeepsPromise
  <2>4. QED
    BY <2>2, <2>3
<1>13. KeepsPromise(offers, options, week, w, worth)
  BY <1>9, <1>10, <1>11, <1>12 DEF KeepsPromise
<1>14. QED
  BY <1>1, <1>4, <1>13

\* What holding a squad to the end of the horizon is worth, with the free transfers it leaves.
HoldWorth(offers, s) ==
  HoldScore(offers, s, 1) + TerminalValue * Least(MaxFree, s.free + Len(offers.xp))

LEMMA BegunKeepsPromise ==
  ASSUME NEW offers, Marketable(offers), NEW s, SquadOK(s), NEW options
  PROVE  /\ HoldWorth(offers, s) \in Int
         /\ KeepsPromise(offers, options, {Begun(offers, s)}, 0, HoldWorth(offers, s))
<1>1. PICK p : p = Begun(offers, s)
  OBVIOUS
<1>2. p \in PlanSet /\ Len(p.weeks) = 0 /\ p.net = 0 /\ p.order = s.order /\ p.free = s.free
  BY <1>1, BegunIsInSet
<1>3. Len(offers.xp) \in Nat
  BY WeeksAreFinite
<1>4. Promise(offers, p, 0) \in Int
  BY <1>2, <1>3, PromiseIsKept
<1>5. Promise(offers, p, 0) = HoldWorth(offers, s)
  <2>1. HoldScore(offers, p, 1) = HoldScore(offers, s, 1)
    BY <1>2, SameOrderSameScore
  <2>2. HoldScore(offers, s, 1) \in Int
    <3>1. 1 \in 1 .. Len(offers.xp) + 1
      BY <1>3
    <3>2. QED
      BY <3>1, HoldScoreSteps
  <2>3. 0 + 1 = 1 /\ Len(offers.xp) - 0 = Len(offers.xp)
    BY <1>3
  <2>4. 0 + HoldScore(offers, s, 1) = HoldScore(offers, s, 1)
    BY <2>2
  <2>5. QED
    BY <1>2, <2>1, <2>3, <2>4 DEF Promise, HoldWorth
<1>6. IsFiniteSet({p})
  BY FS_Singleton
<1>7. KeepsPromise(offers, options, {p}, 0, HoldWorth(offers, s))
  BY <1>2, <1>4, <1>5, <1>6 DEF KeepsPromise
<1>8. QED
  BY <1>1, <1>4, <1>5, <1>7

\* At the end the plan that is recommended keeps the promise.
LEMMA EndKeepsPromise ==
  ASSUME NEW offers, Marketable(offers), NEW options, NEW worth \in Int,
         NEW plans, KeepsPromise(offers, options, plans, Len(offers.xp), worth)
  PROVE  /\ Objective(Recommended(plans)) \in Int
         /\ Objective(Recommended(plans)) >= worth
         /\ Horizon(offers) \subseteq options.forced => Objective(Recommended(plans)) = worth
<1>1. PICK n : n = Len(offers.xp)
  OBVIOUS
<1>2. n \in Nat /\ n \in 0 .. Len(offers.xp) /\ Horizon(offers) = 1 .. n
  BY <1>1, WeeksAreFinite
<1>3. \A p \in plans : /\ Promise(offers, p, n) \in Int /\ Objective(p) \in Int
                       /\ Promise(offers, p, n) = Objective(p)
  <2>1. plans \subseteq PlanSet
    BY DEF KeepsPromise
  <2>2. QED
    BY <1>1, <1>2, <2>1, PromiseIsKept
<1>4. \A p \in plans : Comparable(p, n) /\ Objective(p) \in Int
  BY <1>1, <1>3 DEF KeepsPromise, Comparable, PlanSet, PlanRecords
<1>5. PICK p \in plans : Objective(p) >= worth
  BY <1>1, <1>3 DEF KeepsPromise
<1>6. /\ Recommended(plans) \in plans
      /\ \A q \in plans : Objective(q) <= Objective(Recommended(plans))
  <2>1. n \in Nat /\ IsFiniteSet(plans) /\ plans # {}
    BY <1>2, <1>5 DEF KeepsPromise
  <2>2. QED
    BY <1>4, <2>1, RecommendedIsBest
<1>7. Objective(Recommended(plans)) >= worth
  BY <1>3, <1>5, <1>6
<1>8. ASSUME Horizon(offers) \subseteq options.forced
      PROVE  Objective(Recommended(plans)) = worth
  BY <1>1, <1>2, <1>3, <1>6, <1>8 DEF KeepsPromise
<1>9. QED
  BY <1>3, <1>6, <1>7, <1>8

-----------------------------------------------------------------------------
(* A whole horizon. *)

Weeks(offers, s, options, n, g) ==
  g = [S \in SUBSET (1 .. n) |->
         IF S = {} THEN {Begun(offers, s)}
         ELSE PlanWeek(offers, g[S \ {Max(S)}], options, Max(S))]

LEMMA HorizonIsFold ==
  ASSUME NEW offers, NEW s, NEW options, NEW n \in Nat, Horizon(offers) = 1 .. n
  PROVE  PlanHorizon(offers, s, options) = (CHOOSE g : Weeks(offers, s, options, n, g))[1 .. n]
<1> DEFINE seq == [k \in Horizon(offers) |-> k]
           It(g) == g = [S \in SUBSET DOMAIN seq |->
                           IF S = {} THEN {Begun(offers, s)}
                           ELSE PlanWeek(offers, g[S \ {Max(S)}], options, seq[Max(S)])]
<1>1. PlanHorizon(offers, s, options) = (CHOOSE g : It(g))[DOMAIN seq]
  BY DEF PlanHorizon, FoldLeft, MapThenFoldSet
<1>2. DOMAIN seq = 1 .. n
  OBVIOUS
<1>3. \A S \in SUBSET (1 .. n) : S # {} => seq[Max(S)] = Max(S)
  <2>1. \A S \in SUBSET (1 .. n) : S # {} => Max(S) \in 1 .. n
    BY MaxIsLargest
  <2>2. QED
    BY <2>1
<1> HIDE DEF seq
<1>4. ASSUME NEW g PROVE It(g) <=> Weeks(offers, s, options, n, g)
  <2> DEFINE f == [S \in SUBSET DOMAIN seq |->
                     IF S = {} THEN {Begun(offers, s)}
                     ELSE PlanWeek(offers, g[S \ {Max(S)}], options, seq[Max(S)])]
             h == [S \in SUBSET (1 .. n) |->
                     IF S = {} THEN {Begun(offers, s)}
                     ELSE PlanWeek(offers, g[S \ {Max(S)}], options, Max(S))]
  <2>1. f = h
    BY <1>2, <1>3
  <2>2. QED
    BY <2>1 DEF Weeks
<1> HIDE DEF It
<1>5. (CHOOSE g : It(g)) = (CHOOSE g : Weeks(offers, s, options, n, g))
  BY <1>4
<1>6. QED
  BY <1>1, <1>2, <1>5

LEMMA WeekStaysInSet ==
  ASSUME NEW offers, Marketable(offers), NEW options, NEW plans \in SUBSET PlanSet,
         NEW w \in Horizon(offers)
  PROVE  PlanWeek(offers, plans, options, w) \in SUBSET PlanSet
<1>1. SUFFICES ASSUME NEW q \in Expanded(offers, plans, options, w) PROVE q \in PlanSet
  BY DEF PlanWeek, Kept, Distinct
<1>2. PICK p \in plans : \E m \in Moves(offers, p, options, w) : q = Step(offers, p, m, w)
  BY DEF Expanded
<1>3. PICK m \in Moves(offers, p, options, w) : q = Step(offers, p, m, w)
  BY <1>2
<1>4. p \in PlanSet /\ SquadOK(p)
  BY DEF PlanSet
<1>5. WeekMoves(offers, options, p, m, w)
  BY <1>4, MovesAreMade
<1>6. PICK a : a = AfterMoves(offers, p, m)
  OBVIOUS
<1>7. QED
  BY <1>3, <1>4, <1>5, <1>6, StepEarns

LEMMA HorizonKeepsPromise ==
  ASSUME NEW offers, Marketable(offers), NEW s, SquadOK(s), NEW options,
         options.beam \in Nat \ {0}
  PROVE  KeepsPromise(offers, options, PlanHorizon(offers, s, options), Len(offers.xp),
                      HoldWorth(offers, s))
<1>1. PICK n, b, worth :
        n = Len(offers.xp) /\ b = {Begun(offers, s)} /\ worth = HoldWorth(offers, s)
  OBVIOUS
<1>2. n \in Nat /\ Horizon(offers) = 1 .. n
  BY <1>1, WeeksAreFinite
<1> DEFINE X == SUBSET PlanSet
           F == [k \in 1 .. n |-> [y \in X |-> PlanWeek(offers, y, options, k)]]
           h == CHOOSE g : Weeks(offers, s, options, n, g)
           R == [k \in 0 .. n |-> {y \in X : KeepsPromise(offers, options, y, k, worth)}]
<1>3. KeepsPromise(offers, options, b, 0, worth) /\ worth \in Int
  BY <1>1, BegunKeepsPromise
<1>4. b \in X
  BY <1>3 DEF KeepsPromise
<1>5. StepsIn(F, 1 .. n, X)
  BY <1>2, WeekStaysInSet DEF StepsIn
<1>6. PICK g : Folds(g, n, X, b, F)
  <2> HIDE DEF F, X
  <2>1. n \in Nat /\ b \in X /\ StepsIn(F, 1 .. n, X)
    BY <1>2, <1>4, <1>5
  <2>2. \E g : Folds(g, n, X, b, F)
    BY ONLY <2>1, FoldsExist
  <2>3. QED
    BY <2>2
<1>7. Weeks(offers, s, options, n, g)
  BY <1>1, <1>6 DEF Weeks, Folds
<1>8. Weeks(offers, s, options, n, h)
  BY <1>7
<1> HIDE DEF h
<1>9. h[{}] \in R[0]
  <2>1. h[{}] = b
    BY <1>1, <1>8 DEF Weeks
  <2>2. QED
    BY <1>2, <1>3, <1>4, <2>1
<1>10. ASSUME NEW k \in 0 .. n - 1, h[1 .. k] \in R[k] PROVE h[1 .. k + 1] \in R[k + 1]
  <2>1. /\ 1 .. k + 1 \in SUBSET (1 .. n) /\ 1 .. k + 1 # {}
        /\ Max(1 .. k + 1) = k + 1 /\ (1 .. k + 1) \ {k + 1} = 1 .. k
    BY <1>2, NextTop
  <2>2. h[1 .. k + 1] = PlanWeek(offers, h[1 .. k], options, k + 1)
    BY <1>8, <2>1 DEF Weeks
  <2>3. k \in Nat /\ k \in 0 .. n /\ k + 1 \in 0 .. n /\ k + 1 \in Horizon(offers)
    BY <1>2
  <2>4. h[1 .. k] \in X /\ KeepsPromise(offers, options, h[1 .. k], k, worth)
    BY <1>10, <2>3
  <2>5. KeepsPromise(offers, options, h[1 .. k + 1], k + 1, worth)
    BY <1>3, <2>2, <2>3, <2>4, WeekKeepsPromise
  <2>6. h[1 .. k + 1] \in X
    BY <2>5 DEF KeepsPromise
  <2>7. QED
    BY <2>3, <2>5, <2>6
<1>11. h[1 .. n] \in R[n]
  <2> HIDE DEF R
  <2>1. QED
    BY <1>2, <1>9, <1>10, PrefixesStay
<1>12. PlanHorizon(offers, s, options) = h[1 .. n]
  BY <1>2, HorizonIsFold DEF h
<1>13. KeepsPromise(offers, options, h[1 .. n], n, worth)
  BY <1>2, <1>11
<1>14. QED
  BY <1>1, <1>12, <1>13

\* To plan and do nothing is worth what holding is worth; a plan is never worth less.
LEMMA PlanningIsWorthwhile ==
  ASSUME NEW offers, Marketable(offers), NEW s, SquadOK(s)
  PROVE  /\ Objective(Holding(offers, s)) = HoldWorth(offers, s)
         /\ \A n \in Nat :
              /\ Objective(Recommended(PlanHorizon(offers, s, Rolls(n)))) \in Int
              /\ Objective(Recommended(PlanHorizon(offers, s, Rolls(n)))) >= HoldWorth(offers, s)
<1>1. \A n : Rolls(n).beam \in Nat \ {0} /\ Rolls(n).forced = 1 .. n
  BY DEF Rolls
<1>2. HoldWorth(offers, s) \in Int
  BY BegunKeepsPromise
<1>3. ASSUME NEW n \in Nat
      PROVE  LET best == Objective(Recommended(PlanHorizon(offers, s, Rolls(n)))) IN
               /\ best \in Int /\ best >= HoldWorth(offers, s)
               /\ n = Len(offers.xp) => best = HoldWorth(offers, s)
  <2>1. PICK plans : plans = PlanHorizon(offers, s, Rolls(n))
    OBVIOUS
  <2>2. KeepsPromise(offers, Rolls(n), plans, Len(offers.xp), HoldWorth(offers, s))
    BY <1>1, <2>1, HorizonKeepsPromise
  <2>3. /\ Objective(Recommended(plans)) \in Int
        /\ Objective(Recommended(plans)) >= HoldWorth(offers, s)
        /\ Horizon(offers) \subseteq Rolls(n).forced
             => Objective(Recommended(plans)) = HoldWorth(offers, s)
    BY <1>2, <2>2, EndKeepsPromise
  <2>4. n = Len(offers.xp) => Horizon(offers) \subseteq Rolls(n).forced
    BY <1>1, WeeksAreFinite
  <2>5. QED
    BY <2>1, <2>3, <2>4
<1>4. Len(offers.xp) \in Nat
  BY WeeksAreFinite
<1>5. Objective(Holding(offers, s)) = HoldWorth(offers, s)
  BY <1>3, <1>4 DEF Holding
<1>6. QED
  BY <1>3, <1>5

-----------------------------------------------------------------------------
(* The same players in other slots. *)

\* e tells where the players of one squad are in another.
Finds(e, s, t, xp) ==
  /\ OneToOne(e, Slots)
  /\ \A i \in Slots : /\ e[i] \in Slots
                      /\ Places(t)[e[i]] = Places(s)[i]
                      /\ Expected(t, xp)[e[i]] = Expected(s, xp)[i]

LEMMA PlayersAreFound ==
  ASSUME NEW s, SquadOK(s), NEW t, SquadOK(t), Owned(s) = Owned(t), NEW xp
  PROVE  \E e : Finds(e, s, t, xp)
<1> DEFINE e == [i \in Slots |-> CHOOSE j \in Slots : t.order[j] = s.order[i]]
<1>1. /\ s.order \in [Slots -> Players] /\ OneToOne(s.order, Slots)
      /\ t.order \in [Slots -> Players]
  BY DEF SquadOK, Fielded
<1>2. \A i \in Slots : \E j \in Slots : t.order[j] = s.order[i]
  BY <1>1 DEF Owned, Range
<1>3. \A i \in Slots : e[i] \in Slots /\ t.order[e[i]] = s.order[i]
  BY <1>2
<1> HIDE DEF e
<1>4. OneToOne(e, Slots)
  BY <1>1, <1>3 DEF OneToOne
<1>5. \A i \in Slots : /\ Places(t)[e[i]] = Places(s)[i]
                       /\ Expected(t, xp)[e[i]] = Expected(s, xp)[i]
  BY <1>3 DEF Places, Expected
<1>6. Finds(e, s, t, xp)
  BY <1>3, <1>4, <1>5 DEF Finds
<1>7. QED
  BY <1>6

\* What a lineup is worth depends on the players only.
LEMMA SamePlayersScore ==
  ASSUME NEW s, SquadOK(s), NEW t, SquadOK(t), Owned(s) = Owned(t), NEW xp \in [Players -> Int]
  PROVE  LineupOf(s, xp).total <= LineupOf(t, xp).total
<1>1. PICK e : Finds(e, s, t, xp)
  BY PlayersAreFound
<1>2. PICK pos, por, xs, xt : /\ pos = Places(s) /\ por = Places(t)
                              /\ xs = Expected(s, xp) /\ xt = Expected(t, xp)
  OBVIOUS
<1>3. Formed(pos) /\ Formed(por)
  BY <1>2 DEF SquadOK
<1>4. Numbers(xs, Slots) /\ Numbers(xt, Slots)
  BY <1>2 DEF Numbers, Expected, SquadOK, Fielded
<1>5. /\ OneToOne(e, Slots)
      /\ \A i \in Slots : e[i] \in Slots /\ por[e[i]] = pos[i] /\ xt[e[i]] = xs[i]
  BY <1>1, <1>2 DEF Finds
<1>6. RecommendLineup(pos, xs).total <= RecommendLineup(por, xt).total
  BY ONLY <1>3, <1>4, <1>5, FoundIsNoWorse
<1>7. QED
  BY <1>2, <1>6 DEF LineupOf

LEMMA SamePlayersHold ==
  ASSUME NEW offers, Marketable(offers), NEW s, SquadOK(s), NEW t, SquadOK(t),
         Owned(s) = Owned(t)
  PROVE  /\ \A w \in Horizon(offers) :
              LineupOf(s, offers.xp[w]).total = LineupOf(t, offers.xp[w]).total
         /\ \A w : HoldScore(offers, s, w) = HoldScore(offers, t, w)
<1>1. ASSUME NEW w \in Horizon(offers)
      PROVE  LineupOf(s, offers.xp[w]).total = LineupOf(t, offers.xp[w]).total
  <2>1. offers.xp[w] \in [Players -> Int]
    BY WeeksAreFinite
  <2>2. /\ LineupOf(s, offers.xp[w]).total <= LineupOf(t, offers.xp[w]).total
        /\ LineupOf(t, offers.xp[w]).total <= LineupOf(s, offers.xp[w]).total
    BY <2>1, SamePlayersScore
  <2>3. LineupOf(s, offers.xp[w]).total \in Int /\ LineupOf(t, offers.xp[w]).total \in Int
    BY LineupTotal
  <2>4. QED
    BY <2>2, <2>3
<1>2. Earnings(offers, s) = Earnings(offers, t)
  BY <1>1 DEF Earnings
<1>3. QED
  BY <1>1, <1>2, HoldScoreIsSum

\* A horizon that starts a week later.
LEMMA FutureIsMarketable ==
  ASSUME NEW offers, Marketable(offers), MarketFields \subseteq DOMAIN offers,
         Len(offers.xp) >= 2, NEW later, later = Future(offers)
  PROVE  /\ Marketable(later) /\ Len(later.xp) = Len(offers.xp) - 1
         /\ \A w \in 1 .. Len(offers.xp) - 1 : later.xp[w] = offers.xp[w + 1]
<1>1. /\ later.price = offers.price /\ later.club = offers.club
      /\ later.xp = Tail(offers.xp) /\ later.onSale = Tail(offers.onSale)
  BY DEF Future, MarketFields
<1>2. /\ offers.xp \in Seq([Players -> Int]) /\ offers.xp # <<>>
      /\ offers.onSale \in Seq(SUBSET Players) /\ Len(offers.onSale) = Len(offers.xp)
      /\ offers.price \in [Players -> Nat] /\ DOMAIN offers.club = Players
  BY DEF Marketable
<1>3. Len(offers.xp) \in Nat
  BY WeeksAreFinite
<1>4. offers.onSale # <<>>
  <2>1. Len(<<>>) = 0
    BY EmptySeq
  <2>2. QED
    BY <1>2, <1>3, <2>1
<1>5. /\ Tail(offers.xp) \in Seq([Players -> Int]) /\ Len(Tail(offers.xp)) = Len(offers.xp) - 1
      /\ \A w \in 1 .. Len(Tail(offers.xp)) : Tail(offers.xp)[w] = offers.xp[w + 1]
  BY <1>2, HeadTailProperties
<1>6. /\ Tail(offers.onSale) \in Seq(SUBSET Players)
      /\ Len(Tail(offers.onSale)) = Len(offers.onSale) - 1
  BY <1>2, <1>4, HeadTailProperties
<1>7. Tail(offers.xp) # <<>>
  <2>1. Len(<<>>) = 0
    BY EmptySeq
  <2>2. Len(Tail(offers.xp)) > 0
    BY <1>3, <1>5
  <2>3. PICK tail : tail = Tail(offers.xp)
    OBVIOUS
  <2>4. Len(tail) > 0
    BY <2>2, <2>3
  <2>5. tail # <<>>
    BY ONLY <2>1, <2>4
  <2>6. QED
    BY <2>3, <2>5
<1>8. Marketable(later)
  BY <1>1, <1>2, <1>5, <1>6, <1>7 DEF Marketable
<1>9. QED
  BY <1>1, <1>5, <1>8

\* What holding on earns is what is earned this week and from then on.
LEMMA HoldingIsThenHeld ==
  ASSUME NEW offers, Marketable(offers), MarketFields \subseteq DOMAIN offers,
         Len(offers.xp) >= 2, NEW s, SquadOK(s), NEW later, later = Future(offers)
  PROVE  HoldScore(offers, s, 1) = LineupOf(s, offers.xp[1]).total + HoldScore(later, s, 1)
<1>1. /\ Marketable(later) /\ Len(later.xp) = Len(offers.xp) - 1
      /\ \A w \in 1 .. Len(offers.xp) - 1 : later.xp[w] = offers.xp[w + 1]
  BY FutureIsMarketable
<1>2. PICK n : n = Len(offers.xp)
  OBVIOUS
<1>3. /\ n \in Nat /\ n >= 2 /\ Horizon(offers) = 1 .. n /\ Horizon(later) = 1 .. n - 1
  <2>1. Horizon(offers) = 1 .. Len(offers.xp) /\ Len(offers.xp) \in Nat
    BY WeeksAreFinite
  <2>2. Horizon(later) = 1 .. Len(later.xp)
    BY <1>1, WeeksAreFinite
  <2>3. QED
    BY <1>1, <1>2, <2>1, <2>2
<1>4. PICK f, h : f = Earnings(later, s) /\ h = Earnings(offers, s)
  OBVIOUS
<1>5. PICK A, B : A = WeeksFrom(later, 1) /\ B = WeeksFrom(offers, 2)
  OBVIOUS
<1>6. /\ IsFiniteSet(A) /\ Numbers(f, A) /\ HoldScore(later, s, 1) = Sum(f, A)
      /\ HoldScore(offers, s, 2) = Sum(h, B)
  BY <1>1, <1>4, <1>5, HoldScoreIsSum
<1> DEFINE e == [w \in A |-> w + 1]
<1>7. A = 1 .. n - 1 /\ B = 2 .. n
  BY <1>3, <1>5 DEF WeeksFrom
<1>8. \A x, y \in A : e[x] = e[y] => x = y
  BY <1>7
<1>9. \A x \in A : h[e[x]] = f[x]
  <2>1. SUFFICES ASSUME NEW x \in A PROVE h[x + 1] = f[x]
    OBVIOUS
  <2>2. x \in Horizon(later) /\ x + 1 \in Horizon(offers) /\ later.xp[x] = offers.xp[x + 1]
    BY <1>1, <1>2, <1>3, <1>7
  <2>3. QED
    BY <1>4, <2>2 DEF Earnings
<1>10. Image(e, A) = B
  <2>1. \A v \in B : v - 1 \in A /\ e[v - 1] = v
    BY <1>3, <1>7
  <2>2. \A x \in A : e[x] \in B
    BY <1>3, <1>7
  <2>3. QED
    BY <2>1, <2>2 DEF Image
<1> HIDE DEF e
<1>11. Sum(h, Image(e, A)) = Sum(f, A)
  BY <1>6, <1>8, <1>9, SumOfImage
<1>12. HoldScore(offers, s, 1) = LineupOf(s, offers.xp[1]).total + HoldScore(offers, s, 2)
  <2>1. 1 \in 1 .. Len(offers.xp) + 1 /\ 1 \in Horizon(offers) /\ 1 + 1 = 2
    BY <1>2, <1>3
  <2>2. QED
    BY <2>1, HoldScoreSteps
<1>13. QED
  BY <1>6, <1>10, <1>11, <1>12

-----------------------------------------------------------------------------
(* What a wildcard is worth. *)

\* Who was not ruled out is a candidate, if there are any.
LEMMA OwnedIsCandidate ==
  ASSUME NEW offers, Marketable(offers), MarketFields \subseteq DOMAIN offers,
         NEW s, SquadOK(s), "wildcard" \in DOMAIN s, NEW rules \in Ruled,
         rules.locked \subseteq Owned(s), rules.excluded \cap Owned(s) = {},
         LegalSquad(offers, Owned(s)), WildcardCandidates(offers, s, rules) # {}
  PROVE  \E c \in WildcardCandidates(offers, s, rules) : Owned(c) = Owned(s)
<1> DEFINE found == {Restored(offers, s, c.squad) :
                       c \in OptimizeInitialSquad(Priced(offers, s),
                               [rules EXCEPT !.budget = SquadValue(s), !.planned = FALSE])}
<1>1. WildcardCandidates(offers, s, rules) = OrOwned(offers, s, rules, found)
  BY DEF WildcardCandidates
<1> HIDE DEF found
<1>2. PICK kept : kept = [s EXCEPT !.wildcard = FALSE]
  OBVIOUS
<1>3. kept.order = s.order
  BY <1>2 DEF SquadOK, SquadFields
<1>4. Owned(kept) = Owned(s)
  BY <1>3 DEF Owned
<1>5. found # {}
  BY <1>1 DEF OrOwned
<1>6. CASE \E c \in found : Owned(c) = Owned(s)
  BY <1>1, <1>5, <1>6 DEF OrOwned
<1>7. CASE \A c \in found : Owned(c) # Owned(s)
  <2>1. Clubs(offers, Owned(s))
    BY DEF LegalSquad
  <2>2. kept \in OrOwned(offers, s, rules, found)
    BY <1>2, <1>5, <1>7, <2>1 DEF OrOwned
  <2>3. QED
    BY <1>1, <1>4, <2>2
<1>8. QED
  BY <1>6, <1>7

\* The objective of a candidate is no less than this week's lineup and then holding.
LEMMA CandidateIsWorth ==
  ASSUME NEW offers, Marketable(offers), MarketFields \subseteq DOMAIN offers,
         Len(offers.xp) >= 2, NEW c, SquadOK(c), NEW roll \in Nat
  PROVE  /\ WildcardObjective(offers, c, roll) \in Int
         /\ WildcardObjective(offers, c, roll)
              >= HoldScore(offers, c, 1)
                   + TerminalValue * Least(MaxFree, c.free + (Len(offers.xp) - 1))
<1>1. PICK later : later = Future(offers)
  OBVIOUS
<1>2. Marketable(later) /\ Len(later.xp) = Len(offers.xp) - 1
  BY <1>1, FutureIsMarketable
<1>3. PICK best : best = Objective(Recommended(PlanHorizon(later, c, Rolls(roll))))
  OBVIOUS
<1>4. best \in Int /\ best >= HoldWorth(later, c)
  BY <1>2, <1>3, PlanningIsWorthwhile
<1>5. PICK total : total = LineupOf(c, offers.xp[1]).total
  OBVIOUS
<1>6. total \in Int
  BY <1>5, WeeksAreFinite, LineupTotal
<1>7. WildcardObjective(offers, c, roll) = total + best
  BY <1>1, <1>3, <1>5 DEF WildcardObjective
<1>8. PICK held, rest : /\ held = HoldScore(later, c, 1)
                        /\ rest = TerminalValue * Least(MaxFree, c.free + Len(later.xp))
  OBVIOUS
<1>9. HoldWorth(later, c) = held + rest
  BY <1>8 DEF HoldWorth
<1>10. held \in Int
  <2>1. 1 \in 1 .. Len(later.xp) + 1
    BY <1>2, WeeksAreFinite
  <2>2. QED
    BY <1>2, <1>8, <2>1, HoldScoreSteps
<1>11. HoldWorth(later, c) \in Int
  BY <1>2, BegunKeepsPromise
<1>12. rest \in Int
  <2>1. PICK least : least = Least(MaxFree, c.free + Len(later.xp))
    OBVIOUS
  <2>2. least \in Int
    BY <1>2, <2>1, WeeksAreFinite DEF Least, MaxFree, SquadOK
  <2>3. QED
    BY <1>8, <2>1, <2>2, PlayersAssumption
<1>13. HoldScore(offers, c, 1) = total + held
  BY <1>1, <1>5, <1>8, HoldingIsThenHeld
<1>14. rest = TerminalValue * Least(MaxFree, c.free + (Len(offers.xp) - 1))
  BY <1>2, <1>8
<1>15. total + best >= (total + held) + rest /\ total + best \in Int
  BY ONLY <1>4, <1>6, <1>9, <1>10, <1>12
<1>16. QED
  BY <1>7, <1>13, <1>14, <1>15

\* What a wildcard promises, against holding.
Pays(compared) == compared.objective + TerminalValue >= compared.hold

LEMMA WildcardPays ==
  ASSUME NEW offers, Marketable(offers), MarketFields \subseteq DOMAIN offers,
         Len(offers.xp) >= 2, NEW s, SquadOK(s), "wildcard" \in DOMAIN s,
         NEW rules \in Ruled, NEW roll \in Nat,
         rules.locked \subseteq Owned(s), rules.excluded \cap Owned(s) = {},
         LegalSquad(offers, Owned(s)),
         NEW candidates, candidates = WildcardCandidates(offers, s, rules), candidates # {},
         NEW compared \in CompareWildcard(offers, s, candidates, roll)
  PROVE  Pays(compared)
<1> DEFINE scored == {<<WildcardObjective(offers, c, roll), c>> : c \in candidates}
<1>1. PICK best \in HighestOf(scored) :
        compared.objective = best[1] /\ compared.hold = Objective(Holding(offers, s))
  <2>1. PICK hold, transfers :
          /\ hold = Objective(Holding(offers, s))
          /\ transfers = Objective(Recommended(PlanHorizon(offers, s, Rolls(0))))
    OBVIOUS
  <2>2. PICK best \in HighestOf(scored) : compared = Compared(best, hold, transfers)
    BY <2>1 DEF CompareWildcard
  <2>3. compared.objective = best[1] /\ compared.hold = hold
    BY <2>2 DEF Compared
  <2>4. QED
    BY <2>1, <2>3
<1>2. PICK c \in candidates : Owned(c) = Owned(s)
  BY OwnedIsCandidate
<1>3. \A d \in candidates : SquadOK(d) /\ d.free = s.free
  BY WildcardsAreSound
<1>4. \A d \in candidates : WildcardObjective(offers, d, roll) \in Int
  BY <1>3, CandidateIsWorth
<1>5. best[1] \in Int /\ best[1] >= WildcardObjective(offers, c, roll)
  <2>1. <<WildcardObjective(offers, c, roll), c>> \in scored
    OBVIOUS
  <2>2. best \in scored /\ \A t \in scored : best[1] >= t[1]
    BY <1>1 DEF HighestOf
  <2>3. PICK d \in candidates : best = <<WildcardObjective(offers, d, roll), d>>
    BY <2>2
  <2>4. best[1] \in Int
    BY <1>4, <2>3
  <2>5. <<WildcardObjective(offers, c, roll), c>>[1] = WildcardObjective(offers, c, roll)
    OBVIOUS
  <2>6. best[1] >= <<WildcardObjective(offers, c, roll), c>>[1]
    BY <2>1, <2>2
  <2>7. QED
    BY <2>4, <2>5, <2>6
<1> HIDE DEF scored
<1>6. PICK n, worth : n = Len(offers.xp) /\ worth = WildcardObjective(offers, c, roll)
  OBVIOUS
<1>7. n \in Nat /\ n >= 2 /\ s.free \in 0 .. MaxFree
  BY <1>6, WeeksAreFinite DEF SquadOK
<1>8. PICK held, a, b : /\ held = HoldScore(offers, s, 1)
                        /\ a = Least(MaxFree, s.free + (n - 1))
                        /\ b = Least(MaxFree, s.free + n)
  OBVIOUS
<1>9. worth >= held + TerminalValue * a
  <2>1. HoldScore(offers, c, 1) = held
    BY <1>2, <1>3, <1>8, SamePlayersHold
  <2>2. worth >= HoldScore(offers, c, 1)
                   + TerminalValue * Least(MaxFree, c.free + (Len(offers.xp) - 1))
    BY <1>3, <1>6, CandidateIsWorth
  <2>3. c.free = s.free
    BY <1>3
  <2>4. QED
    BY <1>6, <1>8, <2>1, <2>2, <2>3
<1>10. Objective(Holding(offers, s)) = held + TerminalValue * b
  BY <1>6, <1>8, PlanningIsWorthwhile DEF HoldWorth
<1>11. a \in Int /\ b \in Int /\ (b = a \/ b = a + 1)
  <2>1. PICK free : free = s.free
    OBVIOUS
  <2>2. /\ free \in Int /\ n \in Int
        /\ a = Least(MaxFree, free + (n - 1)) /\ b = Least(MaxFree, free + n)
    BY <1>7, <1>8, <2>1 DEF MaxFree
  <2>3. QED
    BY ONLY <2>2 DEF Least, MaxFree
<1>12. TerminalValue * b <= TerminalValue * a + TerminalValue
  <2>1. TerminalValue \in Nat
    BY PlayersAssumption
  <2>2. TerminalValue * (a + 1) = TerminalValue * a + TerminalValue
    BY ONLY <1>11, <2>1
  <2>3. TerminalValue * a \in Int
    BY ONLY <1>11, <2>1
  <2>4. QED
    BY <1>11, <2>1, <2>2, <2>3
<1>13. held \in Int
  <2>1. 1 \in 1 .. Len(offers.xp) + 1
    BY <1>6, <1>7
  <2>2. QED
    BY <1>8, <2>1, HoldScoreSteps
<1>14. TerminalValue \in Nat /\ TerminalValue * a \in Int /\ TerminalValue * b \in Int
  BY <1>11, PlayersAssumption
<1>15. worth \in Int
  BY <1>4, <1>6
<1>16. best[1] + TerminalValue >= held + TerminalValue * b
  BY <1>5, <1>6, <1>9, <1>12, <1>13, <1>14, <1>15
<1>17. QED
  BY <1>1, <1>10, <1>16 DEF Pays

-----------------------------------------------------------------------------
(* Planning and wildcards of the state machine. *)

\* Which actions lead to which task.
LEMMA TasksBegin ==
  ASSUME StackInv, Next
  PROVE  /\ task'.kind = "plan" =>
              PlanGameweek \/ \E options \in Options : StartPlan(options)
         /\ task'.kind = "wildcard" => \E w \in WildcardRules : PlayWildcard(w)
         /\ task'.kind = "found" => TakeSquad
         /\ task'.kind = "advice" => AdviseTransfer
         /\ task'.kind = "played" => \E blanks : PlayGameweek(blanks)
<1> DEFINE Else == task'.kind \notin {"plan", "wildcard", "found", "advice", "played"}
<1>1. ASSUME NEW rules \in Rules, StartSearch(rules) PROVE Else
  BY <1>1 DEF StartSearch
<1>2. CASE SearchSlot
  <2>1. task.kind = "search" /\ \E slot, partials :
          task' = [task EXCEPT !.slot = slot, !.partials = partials]
    BY <1>2 DEF SearchSlot
  <2>2. task = [kind |-> "search", rules |-> task.rules, slot |-> task.slot,
                partials |-> task.partials]
    BY <2>1 DEF StackInv, SearchesAreOK
  <2>3. task'.kind = "search"
    BY <2>1, <2>2
  <2>4. QED
    BY <2>3
<1>3. ASSUME SearchFails \/ MakeTransfers \/ Finish \/ \E m \in Markets : NewRelease(m)
      PROVE  Else
  <2>1. task' \in {Idle, Decided}
    BY <1>3 DEF SearchFails, MakeTransfers, Finish, NewRelease
  <2>2. QED
    BY <2>1 DEF Idle, Decided
<1>4. ASSUME TakeSquad PROVE task'.kind = "found"
  BY <1>4 DEF TakeSquad
<1>5. ASSUME AdviseTransfer PROVE task'.kind = "advice"
  BY <1>5 DEF AdviseTransfer
<1>6. ASSUME NEW blanks, PlayGameweek(blanks) PROVE task'.kind = "played"
  BY <1>6 DEF PlayGameweek
<1>7. ASSUME Benchmarking PROVE Else
  BY <1>7, BenchmarksOnly
<1>8. ASSUME NEW w \in WildcardRules, PlayWildcard(w) PROVE task'.kind = "wildcard"
  BY <1>8 DEF PlayWildcard
<1>9. ASSUME NEW options \in Options, StartPlan(options) PROVE task'.kind = "plan"
  BY <1>9 DEF StartPlan
<1>10. CASE PlanGameweek
  <2>1. task.kind = "plan" /\ \E week, plans :
          task' = [task EXCEPT !.week = week, !.plans = plans]
    BY <1>10 DEF PlanGameweek
  <2>2. task = [kind |-> "plan", options |-> task.options, week |-> task.week,
                plans |-> task.plans]
    BY <2>1 DEF StackInv, PlansAreOK
  <2>3. task'.kind = "plan"
    BY <2>1, <2>2
  <2>4. QED
    BY <1>10, <2>3
<1>11. QED
  BY <1>1, <1>2, <1>3, <1>4, <1>5, <1>6, <1>7, <1>8, <1>9, <1>10 DEF Next, Benchmarking

\* After every week some plan of the beam promises no less than holding the squad.
PromisesAreKept ==
  task.kind = "plan" =>
    /\ task.options \in Options
    /\ KeepsPromise(market, task.options, task.plans, task.week - 1, HoldWorth(market, squad))

LEMMA PromiseIsMade ==
  ASSUME StackInv, NEW options \in Options, StartPlan(options)
  PROVE  PromisesAreKept'
<1>1. /\ squad # NoSquad /\ UNCHANGED <<market, squad>>
      /\ task' = [kind |-> "plan", options |-> options, week |-> 1,
                  plans |-> {Begun(market, squad)}]
  BY DEF StartPlan
<1>2. SquadOK(squad) /\ Marketable(market)
  BY <1>1, MarketsAreMarketable DEF StackInv, SquadsAreOK
<1>3. KeepsPromise(market, options, {Begun(market, squad)}, 0, HoldWorth(market, squad))
  BY <1>2, BegunKeepsPromise
<1>4. task'.options = options /\ task'.plans = {Begun(market, squad)} /\ task'.week - 1 = 0
  BY <1>1
<1>5. QED
  BY <1>1, <1>3, <1>4 DEF PromisesAreKept

LEMMA PromiseContinues ==
  ASSUME StackInv, PromisesAreKept, PlanGameweek
  PROVE  PromisesAreKept'
<1>1. /\ task.kind = "plan" /\ task.week <= Len(market.xp) /\ UNCHANGED <<market, squad>>
      /\ task' = [task EXCEPT !.week = @ + 1,
                              !.plans = PlanWeek(market, @, task.options, task.week)]
  BY DEF PlanGameweek
<1>2. /\ SquadOK(squad) /\ Marketable(market)
      /\ task = [kind |-> "plan", options |-> task.options, week |-> task.week,
                 plans |-> task.plans]
      /\ task.week \in 1 .. Len(market.xp) + 1
  BY <1>1, MarketsAreMarketable DEF StackInv, SquadsAreOK, PlansAreOK
<1>3. /\ task'.options = task.options /\ task'.week = task.week + 1
      /\ task'.plans = PlanWeek(market, task.plans, task.options, task.week)
  BY <1>1, <1>2
<1>4. PICK n, plans, options :
        n = task.week - 1 /\ plans = task.plans /\ options = task.options
  OBVIOUS
<1>5. Len(market.xp) \in Nat /\ Horizon(market) = 1 .. Len(market.xp)
  BY <1>2, WeeksAreFinite
<1>6. n \in Nat /\ n + 1 \in Horizon(market) /\ n + 1 = task.week /\ task'.week - 1 = n + 1
  BY <1>1, <1>2, <1>3, <1>4, <1>5
<1>7. options \in Options /\ KeepsPromise(market, options, plans, n, HoldWorth(market, squad))
  BY <1>1, <1>4 DEF PromisesAreKept
<1>8. options.beam \in Nat \ {0}
  BY <1>7, RequestsAssumption
<1>9. HoldWorth(market, squad) \in Int
  BY <1>2, BegunKeepsPromise
<1>10. KeepsPromise(market, options, PlanWeek(market, plans, options, n + 1), n + 1,
                    HoldWorth(market, squad))
  BY <1>2, <1>6, <1>7, <1>8, <1>9, WeekKeepsPromise
<1>11. QED
  BY <1>1, <1>3, <1>4, <1>6, <1>7, <1>10 DEF PromisesAreKept

\* What the plan that is recommended is worth, against holding the squad.
PlanningNeverLoses ==
  task.kind = "plan" /\ task.week > Len(market.xp) =>
    Objective(Recommended(task.plans)) >= Objective(Holding(market, squad))

\* However narrow the beam, the plan that plan_rolling_horizon recommends is worth at least
\* what doing nothing is worth: the first clause of PlanningPays, for every beam.
THEOREM PlanningIsNeverWorse == Spec => []PlanningNeverLoses
<1>1. Init => PromisesAreKept
  BY DEF Init, Idle, PromisesAreKept
<1>2. StackInv /\ PromisesAreKept /\ [Next]_vars => PromisesAreKept'
  <2>1. PromisesAreKept /\ UNCHANGED vars => PromisesAreKept'
    BY DEF PromisesAreKept, vars
  <2>2. ASSUME StackInv, PromisesAreKept, Next PROVE PromisesAreKept'
    <3>1. CASE task'.kind # "plan"
      BY <3>1 DEF PromisesAreKept
    <3>2. CASE task'.kind = "plan"
      BY <2>2, <3>2, TasksBegin, PromiseIsMade, PromiseContinues
    <3>3. QED
      BY <3>1, <3>2
  <2>3. QED
    BY <2>1, <2>2
<1>3. StackInv /\ PromisesAreKept => PlanningNeverLoses
  <2>1. SUFFICES ASSUME StackInv, PromisesAreKept, task.kind = "plan",
                        task.week > Len(market.xp)
                 PROVE  Objective(Recommended(task.plans)) >= Objective(Holding(market, squad))
    BY DEF PlanningNeverLoses
  <2>2. SquadOK(squad) /\ Marketable(market) /\ task.week \in 1 .. Len(market.xp) + 1
    BY <2>1, MarketsAreMarketable DEF StackInv, SquadsAreOK, PlansAreOK
  <2>3. task.week - 1 = Len(market.xp)
    BY <2>1, <2>2, WeeksAreFinite
  <2>4. KeepsPromise(market, task.options, task.plans, Len(market.xp), HoldWorth(market, squad))
    BY <2>1, <2>3 DEF PromisesAreKept
  <2>5. HoldWorth(market, squad) \in Int
    BY <2>2, BegunKeepsPromise
  <2>6. Objective(Recommended(task.plans)) >= HoldWorth(market, squad)
    BY <2>2, <2>4, <2>5, EndKeepsPromise
  <2>7. QED
    BY <2>2, <2>6, PlanningIsWorthwhile
<1>4. QED
  BY <1>1, <1>2, <1>3, StackIsInvariant, PTL DEF Spec

LEMMA WildcardIsWorth ==
  ASSUME StackInv, NEW w \in WildcardRules, PlayWildcard(w)
  PROVE  WildcardIsWorthwhile'
<1>1. /\ market' = market /\ squad.wildcard /\ Len(market.xp) >= 2
  BY DEF PlayWildcard
<1>2. squad # NoSquad
  BY <1>1 DEF NoSquad
<1>3. /\ SquadOK(squad) /\ "wildcard" \in DOMAIN squad
      /\ Marketable(market) /\ MarketFields \subseteq DOMAIN market
  BY <1>2, MarketsAreMarketable DEF StackInv, SquadsAreOK
<1>4. PICK candidates :
        /\ candidates = WildcardCandidates(market, squad, w.rules) /\ candidates # {}
        /\ \E compared \in CompareWildcard(market, squad, candidates, w.roll) :
             /\ squad' = compared.squad
             /\ task' = [kind |-> "wildcard", rules |-> w.rules, compared |-> compared,
                         before |-> squad]
  BY DEF PlayWildcard
<1>5. PICK compared \in CompareWildcard(market, squad, candidates, w.roll) :
        /\ squad' = compared.squad
        /\ task' = [kind |-> "wildcard", rules |-> w.rules, compared |-> compared,
                    before |-> squad]
  BY <1>4
<1>6. w.rules \in Ruled /\ w.roll \in Nat
  BY RequestsAssumption
<1>7. ASSUME w.rules.locked \subseteq Owned(squad), w.rules.excluded \cap Owned(squad) = {},
             LegalSquad(market, Owned(squad))
      PROVE  compared.objective + TerminalValue >= compared.hold
  <2>1. Pays(compared)
    BY <1>1, <1>3, <1>4, <1>5, <1>6, <1>7, WildcardPays
  <2>2. QED
    BY <2>1 DEF Pays
<1>8. /\ task'.kind = "wildcard" /\ task'.rules = w.rules /\ task'.before = squad
      /\ task'.compared = compared
  BY <1>5
<1>9. StackInv'
  BY WildcardIsPlayed
<1>10. WildcardsAreLegal'
  BY <1>9 DEF StackInv
<1>11. QED
  BY <1>1, <1>7, <1>8, <1>10 DEF WildcardIsWorthwhile, WildcardsAreLegal

\* A wildcard leaves a legal squad that is worth at least what holding is worth, up to the
\* free transfer of the wildcard's week: the property of the run, for every release and
\* every request.
THEOREM WildcardsAlwaysPay == Spec => []WildcardIsWorthwhile
<1>1. Init => WildcardIsWorthwhile
  BY DEF Init, Idle, WildcardIsWorthwhile
<1>2. StackInv /\ WildcardIsWorthwhile /\ [Next]_vars => WildcardIsWorthwhile'
  <2>1. WildcardIsWorthwhile /\ UNCHANGED vars => WildcardIsWorthwhile'
    BY DEF WildcardIsWorthwhile, vars
  <2>2. ASSUME StackInv, Next PROVE WildcardIsWorthwhile'
    <3>1. CASE task'.kind # "wildcard"
      BY <3>1 DEF WildcardIsWorthwhile
    <3>2. CASE task'.kind = "wildcard"
      BY <2>2, <3>2, TasksBegin, WildcardIsWorth
    <3>3. QED
      BY <3>1, <3>2
  <2>3. QED
    BY <2>1, <2>2
<1>3. QED
  BY <1>1, <1>2, StackIsInvariant, PTL DEF Spec

-----------------------------------------------------------------------------
(* Substitutions of a Gameweek. *)

\* A recommended lineup can kick off.
LEMMA LineupKicksOff ==
  ASSUME NEW pos, Formed(pos), NEW xp, Numbers(xp, Slots),
         NEW lineup, lineup = RecommendLineup(pos, xp)
  PROVE  /\ KicksOff(pos, lineup)
         /\ lineup.benchKeeper \in Slots \ Range(lineup.bench)
<1> DEFINE S == Starters(pos, xp)
           K == At(pos, Slots \ S, "GK")
           B == (Slots \ S) \ K
<1>1. /\ lineup.starters = S /\ lineup.benchKeeper = CHOOSE i \in K : TRUE
      /\ lineup.bench = Ranked(xp, B)
  BY DEF RecommendLineup, Led, Lineup
<1>2. IsEleven(pos, S)
  BY StartersBeatAll
<1>3. IsFiniteSet(K) /\ Cardinality(K) = 1
  BY <1>2, BenchIsComplete
<1>4. /\ K \in SUBSET Slots /\ B \in SUBSET (Slots \ S) /\ B \cap K = {} /\ B \in SUBSET Slots
      /\ \A j \in B : pos[j] # "GK"
  BY DEF At
<1> HIDE DEF S, K, B
<1>5. lineup.benchKeeper \in K
  <2>1. K # {}
    BY <1>3, FS_EmptySet
  <2>2. QED
    BY <1>1, <2>1
<1>6. B \in SUBSET Int /\ IsFiniteSet(B) /\ Numbers(xp, B) /\ Cardinality(B) \in Nat
  BY <1>4, SlotsAreFinite DEF Numbers
<1>7. Ranked(xp, B) \in [1 .. Cardinality(B) -> B]
  BY <1>6, RankedIsOrder
<1>8. DOMAIN lineup.bench \in SUBSET Nat /\ Range(lineup.bench) \in SUBSET B
  BY <1>1, <1>6, <1>7 DEF Range
<1>9. QED
  BY <1>1, <1>2, <1>4, <1>5, <1>8 DEF KicksOff

LEMMA SubstitutionsAreFair ==
  ASSUME NEW pos, Formed(pos), NEW xp, Numbers(xp, Slots),
         NEW lineup, lineup = RecommendLineup(pos, xp),
         NEW blanks \in SUBSET lineup.starters,
         NEW team, team = ResolveSubstitutions(pos, lineup, blanks)
  PROVE  SubbedFairly(pos, xp, lineup, blanks, team, BenchPoints(pos, lineup, xp, blanks))
<1>1. KicksOff(pos, lineup) /\ lineup.benchKeeper \in Slots \ Range(lineup.bench)
  BY LineupKicksOff
<1>2. TeamOK(pos, lineup, blanks, lineup.starters, team)
  BY <1>1, SubstitutionsAreOK
<1>3. \A r \in Replacements(pos, lineup, blanks) :
        Cardinality(r.on) <= Cardinality(DOMAIN team.used)
  BY <1>1, <1>2, NoMoreComeOn
<1>4. \E r \in Replacements(pos, lineup, blanks) :
        BenchPoints(pos, lineup, xp, blanks) = Points(xp, Entered(pos, lineup, blanks, r.on))
  <2>1. PICK r : r = [on |-> DOMAIN team.used, off |-> Range(team.used)]
    OBVIOUS
  <2>2. r \in Replacements(pos, lineup, blanks) /\ r.on = DOMAIN team.used
    BY <1>1, <1>2, <2>1, TeamIsReplacement
  <2>3. BenchPoints(pos, lineup, xp, blanks) = Points(xp, Entered(pos, lineup, blanks, r.on))
    BY <1>1, <2>2, BenchIsWorth
  <2>4. QED
    BY <2>2, <2>3
<1>5. \A i \in blanks \ Range(team.used), j \in Range(lineup.bench) \ DOMAIN team.used :
        ~IsLegalStartingXI(pos, (team.field \ {i}) \cup {j})
  BY <1>1, <1>2, NobodyIsPassedOver DEF Spare
<1>6. IsLegalStartingXI(pos, team.field) /\ Range(team.used) \subseteq blanks
  BY <1>2 DEF TeamOK
<1>7. QED
  BY <1>3, <1>4, <1>5, <1>6 DEF SubbedFairly

LEMMA GameweekIsPlayed ==
  ASSUME StackInv, NEW blanks, PlayGameweek(blanks)
  PROVE  SubsAreFair'
<1>1. PICK pos, xp, lineup, team, worth :
        /\ pos = Places(squad) /\ xp = Expected(squad, market.xp[1])
        /\ lineup = RecommendLineup(pos, xp)
        /\ team = ResolveSubstitutions(pos, lineup, blanks)
        /\ worth = BenchPoints(pos, lineup, xp, blanks)
  OBVIOUS
<1>2. /\ squad # NoSquad /\ UNCHANGED <<market, squad>> /\ blanks \in SUBSET lineup.starters
      /\ task' = [kind |-> "played", lineup |-> lineup, blanks |-> blanks, team |-> team,
                  worth |-> worth]
  BY <1>1 DEF PlayGameweek, LineupOf
<1>3. SquadOK(squad) /\ Marketable(market)
  BY <1>2, MarketsAreMarketable DEF StackInv, SquadsAreOK
<1>4. Formed(pos) /\ Numbers(xp, Slots)
  <2>1. \A i \in Slots : squad.order[i] \in Players
    BY <1>3, SquadFacts
  <2>2. 1 \in Horizon(market) /\ market.xp[1] \in [Players -> Int]
    BY <1>3, WeeksAreFinite
  <2>3. QED
    BY <1>1, <1>3, <2>1, <2>2, SquadFacts DEF Numbers, Expected
<1>5. SubbedFairly(pos, xp, lineup, blanks, team, worth)
  BY <1>1, <1>2, <1>4, SubstitutionsAreFair
<1>6. /\ task'.kind = "played" /\ task'.lineup = lineup /\ task'.blanks = blanks
      /\ task'.team = team /\ task'.worth = worth
  BY <1>2
<1>7. /\ Places(squad') = pos /\ Expected(squad', market'.xp[1]) = xp
  BY <1>1, <1>2
<1>8. QED
  BY <1>5, <1>6, <1>7 DEF SubsAreFair, SubbedFairly, Entered

\* Substitutions are made one by one and never undone: the team stays legal nevertheless, no
\* other choice brings more players on, nobody is passed over who could have come on, and the
\* bench is worth what some legal choice of it wins: the property of the run, for every squad
\* and however many starters blank.
THEOREM SubstitutionsAreAlwaysFair == Spec => []SubsAreFair
<1>1. Init => SubsAreFair
  <2>1. Init => task.kind = "idle"
    BY DEF Init, Idle
  <2>2. QED
    BY <2>1 DEF SubsAreFair
<1>2. StackInv /\ SubsAreFair /\ [Next]_vars => SubsAreFair'
  <2>1. SUFFICES ASSUME StackInv, SubsAreFair, [Next]_vars PROVE SubsAreFair'
    OBVIOUS
  <2>2. CASE UNCHANGED vars
    BY <2>1, <2>2 DEF SubsAreFair, vars
  <2>3. CASE Next
    <3>1. CASE task'.kind = "played"
      BY <2>1, <2>3, <3>1, TasksBegin, GameweekIsPlayed
    <3>2. CASE task'.kind # "played"
      BY <3>2 DEF SubsAreFair
    <3>3. QED
      BY <3>1, <3>2
  <2>4. QED
    BY <2>1, <2>2, <2>3
<1>3. Spec => []StackInv
  BY StackIsInvariant
<1>4. QED
  BY <1>1, <1>2, <1>3, PTL DEF Spec

-----------------------------------------------------------------------------
(* Every path of moves. *)

AllWeeks(offers, s, options, n, g) ==
  g = [S \in SUBSET (1 .. n) |->
         IF S = {} THEN {Begun(offers, s)}
         ELSE Expanded(offers, g[S \ {Max(S)}], options, Max(S))]

\* The paths of n weeks, none cut.
PathsOf(offers, s, options, n) == (CHOOSE g : AllWeeks(offers, s, options, n, g))[1 .. n]

LEMMA PathsAreFold ==
  ASSUME NEW options, NEW n \in Nat
  PROVE  Paths(options, n) = PathsOf(market, squad, options, n)
<1> DEFINE seq == [k \in 1 .. n |-> k]
           It(g) == g = [S \in SUBSET DOMAIN seq |->
                           IF S = {} THEN {Begun(market, squad)}
                           ELSE Expanded(market, g[S \ {Max(S)}], options, seq[Max(S)])]
<1>1. Paths(options, n) = (CHOOSE g : It(g))[DOMAIN seq]
  BY DEF Paths, FoldLeft, MapThenFoldSet
<1>2. DOMAIN seq = 1 .. n
  OBVIOUS
<1>3. \A S \in SUBSET (1 .. n) : S # {} => seq[Max(S)] = Max(S)
  <2>1. \A S \in SUBSET (1 .. n) : S # {} => Max(S) \in 1 .. n
    BY MaxIsLargest
  <2>2. QED
    BY <2>1
<1> HIDE DEF seq
<1>4. ASSUME NEW g PROVE It(g) <=> AllWeeks(market, squad, options, n, g)
  <2> DEFINE f == [S \in SUBSET DOMAIN seq |->
                     IF S = {} THEN {Begun(market, squad)}
                     ELSE Expanded(market, g[S \ {Max(S)}], options, seq[Max(S)])]
             h == [S \in SUBSET (1 .. n) |->
                     IF S = {} THEN {Begun(market, squad)}
                     ELSE Expanded(market, g[S \ {Max(S)}], options, Max(S))]
  <2>1. f = h
    BY <1>2, <1>3
  <2>2. QED
    BY <2>1 DEF AllWeeks
<1> HIDE DEF It
<1>5. (CHOOSE g : It(g)) = (CHOOSE g : AllWeeks(market, squad, options, n, g))
  BY <1>4
<1>6. QED
  BY <1>1, <1>2, <1>5 DEF PathsOf

LEMMA ExpandedStaysInSet ==
  ASSUME NEW offers, Marketable(offers), NEW options, NEW plans \in SUBSET PlanSet,
         NEW w \in Horizon(offers)
  PROVE  Expanded(offers, plans, options, w) \in SUBSET PlanSet
<1>1. SUFFICES ASSUME NEW q \in Expanded(offers, plans, options, w) PROVE q \in PlanSet
  OBVIOUS
<1>2. PICK p \in plans : \E m \in Moves(offers, p, options, w) : q = Step(offers, p, m, w)
  BY DEF Expanded
<1>3. PICK m \in Moves(offers, p, options, w) : q = Step(offers, p, m, w)
  BY <1>2
<1>4. p \in PlanSet /\ SquadOK(p)
  BY DEF PlanSet
<1>5. WeekMoves(offers, options, p, m, w)
  BY <1>4, MovesAreMade
<1>6. PICK a : a = AfterMoves(offers, p, m)
  OBVIOUS
<1>7. QED
  BY <1>3, <1>4, <1>5, <1>6, StepEarns

LEMMA PathsExist ==
  ASSUME NEW offers, Marketable(offers), NEW s, SquadOK(s), NEW options,
         NEW n \in 0 .. Len(offers.xp)
  PROVE  \E g : AllWeeks(offers, s, options, n, g)
<1>1. n \in Nat /\ \A k \in 1 .. n : k \in Horizon(offers)
  BY WeeksAreFinite
<1> DEFINE X == SUBSET PlanSet
           b == {Begun(offers, s)}
           F == [k \in 1 .. n |-> [y \in X |-> Expanded(offers, y, options, k)]]
<1>2. b \in X
  BY BegunIsInSet
<1>3. StepsIn(F, 1 .. n, X)
  BY <1>1, ExpandedStaysInSet DEF StepsIn
<1>4. PICK g : Folds(g, n, X, b, F)
  <2> HIDE DEF F, X, b
  <2>1. n \in Nat /\ b \in X /\ StepsIn(F, 1 .. n, X)
    BY <1>1, <1>2, <1>3
  <2>2. \E g : Folds(g, n, X, b, F)
    BY ONLY <2>1, FoldsExist
  <2>3. QED
    BY <2>2
<1>5. AllWeeks(offers, s, options, n, g)
  BY <1>4 DEF AllWeeks, Folds
<1>6. QED
  BY <1>5

\* The paths of one week more are those of the weeks so far, with that week's moves.
LEMMA PathsExtend ==
  ASSUME NEW offers, Marketable(offers), NEW s, SquadOK(s), NEW options
  PROVE  /\ PathsOf(offers, s, options, 0) = {Begun(offers, s)}
         /\ \A n \in Nat : n + 1 \in Horizon(offers) =>
              PathsOf(offers, s, options, n + 1)
                = Expanded(offers, PathsOf(offers, s, options, n), options, n + 1)
<1>1. Len(offers.xp) \in Nat /\ Horizon(offers) = 1 .. Len(offers.xp)
  BY WeeksAreFinite
<1> DEFINE Sol(n) == CHOOSE g : AllWeeks(offers, s, options, n, g)
<1>2. ASSUME NEW n \in 0 .. Len(offers.xp) PROVE AllWeeks(offers, s, options, n, Sol(n))
  BY PathsExist
<1>3. PathsOf(offers, s, options, 0) = {Begun(offers, s)}
  <2>1. AllWeeks(offers, s, options, 0, Sol(0))
    BY <1>1, <1>2
  <2>2. 1 .. 0 = {}
    OBVIOUS
  <2> HIDE DEF Sol
  <2>3. Sol(0)[1 .. 0] = {Begun(offers, s)}
    BY <2>1, <2>2 DEF AllWeeks
  <2>4. QED
    BY <2>3 DEF PathsOf, Sol
<1>4. ASSUME NEW n \in Nat, n + 1 \in Horizon(offers)
      PROVE  PathsOf(offers, s, options, n + 1)
               = Expanded(offers, PathsOf(offers, s, options, n), options, n + 1)
  <2>1. n \in 0 .. Len(offers.xp) /\ n + 1 \in 0 .. Len(offers.xp) /\ n + 1 \in Nat
    BY <1>1, <1>4
  <2>2. PICK h, k : h = Sol(n + 1) /\ k = Sol(n)
    OBVIOUS
  <2>3. AllWeeks(offers, s, options, n + 1, h) /\ AllWeeks(offers, s, options, n, k)
    BY <1>2, <2>1, <2>2
  <2> DEFINE R == [j \in 0 .. n |-> {k[1 .. j]}]
  <2>4. h[{}] \in R[0]
    <3>1. 1 .. 0 = {} /\ 0 \in 0 .. n
      OBVIOUS
    <3>2. h[{}] = {Begun(offers, s)} /\ k[{}] = {Begun(offers, s)}
      BY <2>3 DEF AllWeeks
    <3>3. QED
      BY <3>1, <3>2
  <2>5. ASSUME NEW j \in 0 .. n - 1, h[1 .. j] \in R[j] PROVE h[1 .. j + 1] \in R[j + 1]
    <3>1. /\ 1 .. j + 1 \in SUBSET (1 .. n) /\ 1 .. j + 1 # {}
          /\ Max(1 .. j + 1) = j + 1 /\ (1 .. j + 1) \ {j + 1} = 1 .. j
      BY NextTop
    <3>2. 1 .. j + 1 \in SUBSET (1 .. n + 1)
      OBVIOUS
    <3>3. h[1 .. j + 1] = Expanded(offers, h[1 .. j], options, j + 1)
      BY <2>3, <3>1, <3>2 DEF AllWeeks
    <3>4. k[1 .. j + 1] = Expanded(offers, k[1 .. j], options, j + 1)
      BY <2>3, <3>1 DEF AllWeeks
    <3>5. j \in 0 .. n /\ j + 1 \in 0 .. n
      OBVIOUS
    <3>6. QED
      BY <2>5, <3>3, <3>4, <3>5
  <2>6. h[1 .. n] \in R[n]
    <3> HIDE DEF R
    <3>1. QED
      BY <2>4, <2>5, PrefixesStay
  <2>7. h[1 .. n] = k[1 .. n]
    BY <2>6
  <2>8. h[1 .. n + 1] = Expanded(offers, h[1 .. n], options, n + 1)
    <3>1. /\ 1 .. n + 1 \in SUBSET (1 .. n + 1) /\ 1 .. n + 1 # {}
          /\ Max(1 .. n + 1) = n + 1 /\ (1 .. n + 1) \ {n + 1} = 1 .. n
      <4>1. n \in 0 .. (n + 1) - 1
        OBVIOUS
      <4>2. QED
        BY <2>1, <4>1, NextTop
    <3>2. QED
      BY <2>3, <3>1 DEF AllWeeks
  <2> HIDE DEF Sol
  <2>9. QED
    BY <2>2, <2>7, <2>8 DEF PathsOf, Sol
<1>5. QED
  BY <1>3, <1>4

\* Plans of one state can do the same.
CanDoSame(offers, p, q, m) ==
  /\ Movable(q, m) /\ (Affordable(offers, p, m) <=> Affordable(offers, q, m))
  /\ AfterMoves(offers, p, m).held = AfterMoves(offers, q, m).held
  /\ AfterMoves(offers, p, m).bank = AfterMoves(offers, q, m).bank
  /\ Owned(AfterMoves(offers, p, m)) = Owned(AfterMoves(offers, q, m))

LEMMA SameStateOwns ==
  ASSUME NEW p, SquadOK(p), NEW q, SquadOK(q), SameState(p, q)
  PROVE  Owned(p) = Owned(q)
<1>1. p.held \in [Owned(p) -> Holding1] /\ q.held \in [Owned(q) -> Holding1]
  BY SquadFacts
<1>2. QED
  BY <1>1 DEF SameState

LEMMA SameStateMoves ==
  ASSUME NEW offers, NEW p, SquadOK(p), NEW q, SquadOK(q), SameState(p, q),
         NEW m, Movable(p, m)
  PROVE  CanDoSame(offers, p, q, m)
<1>1. Owned(p) = Owned(q) /\ p.held = q.held /\ p.bank = q.bank
  BY SameStateOwns DEF SameState
<1>2. Movable(q, m)
  BY <1>1 DEF Movable
<1>3. SquadFields \subseteq DOMAIN p /\ SquadFields \subseteq DOMAIN q
  BY DEF SquadOK
<1>4. /\ AfterMoves(offers, p, m).held = AfterMoves(offers, q, m).held
      /\ AfterMoves(offers, p, m).bank = AfterMoves(offers, q, m).bank
  BY <1>1, <1>3 DEF AfterMoves, SquadFields
<1>5. Owned(AfterMoves(offers, p, m)) = Owned(AfterMoves(offers, q, m))
  <2>1. Owned(AfterMoves(offers, p, m)) = (Owned(p) \ DOMAIN m) \cup Range(m)
    BY MovesField
  <2>2. Owned(AfterMoves(offers, q, m)) = (Owned(q) \ DOMAIN m) \cup Range(m)
    BY <1>2, MovesField
  <2>3. QED
    BY <1>1, <2>1, <2>2
<1>6. Affordable(offers, p, m) <=> Affordable(offers, q, m)
  BY <1>4, <1>5 DEF Affordable
<1>7. QED
  BY <1>2, <1>4, <1>5, <1>6 DEF CanDoSame

\* The players considered depend on who is owned.
CandidatesFor(offers, owned, excluded, lens, w) ==
  LET outlook == Outlook(offers, w)
      eligible == (offers.onSale[w] \ owned) \ excluded
      in(q) == {p \in eligible : PositionOf[p] = q}
      Cheaper(p, r) == \/ offers.price[p] < offers.price[r]
                       \/ offers.price[p] = offers.price[r] /\ Ahead(outlook, p, r)
  IN UNION {FirstOf(outlook, in(q), lens)
              \cup {p \in in(q) : Cardinality({r \in in(q) : Cheaper(r, p)}) < 2} :
            q \in Positions}

LEMMA CandidatesDepend ==
  ASSUME NEW offers, NEW s, NEW excluded, NEW lens, NEW w
  PROVE  Candidates(offers, s, excluded, lens, w)
           = CandidatesFor(offers, Owned(s), excluded, lens, w)
BY DEF Candidates, CandidatesFor

\* Two moves that are legal together, and the best of them.
PairMoves(offers, s, targets, protected) ==
  LET two == UNION {[outs -> targets] : outs \in kSubset(2, Owned(s) \ protected)} IN
    {m \in two :
       /\ \A a \in DOMAIN m : PositionOf[m[a]] = PositionOf[a]
       /\ \A a, b \in DOMAIN m : a # b => m[a] # m[b]
       /\ \A a, b \in DOMAIN m : PositionOf[a] = PositionOf[b] /\ a < b => m[a] < m[b]
       /\ Affordable(offers, s, m)}

BestPairs(offers, all, shortlist, w) ==
  LET outlook == Outlook(offers, w)
      Gain(m) == SumFunction([out \in DOMAIN m |-> outlook[m[out]] - outlook[out]])
      scored == {<<Gain(m), m>> : m \in all}
      Better(s, t) ==
        \/ s[1] > t[1]
        \/ /\ s[1] = t[1]
           /\ \/ Earlier(DOMAIN s[2], DOMAIN t[2])
              \/ DOMAIN s[2] = DOMAIN t[2] /\ Earlier(Range(s[2]), Range(t[2]))
  IN {s[2] : s \in {t \in scored : Cardinality({u \in scored : Better(u, t)}) < shortlist}}

LEMMA PairsDepend ==
  ASSUME NEW offers, NEW s, NEW targets, NEW protected, NEW shortlist, NEW w
  PROVE  Pairs(offers, s, targets, protected, shortlist, w)
           = BestPairs(offers, PairMoves(offers, s, targets, protected), shortlist, w)
BY DEF Pairs, BestPairs, PairMoves

LEMMA SameStatePairs ==
  ASSUME NEW offers, NEW p, SquadOK(p), NEW q, SquadOK(q), SameState(p, q),
         NEW targets \in SUBSET (Players \ Owned(p)), NEW protected
  PROVE  PairMoves(offers, p, targets, protected) \subseteq PairMoves(offers, q, targets, protected)
<1> DEFINE two == UNION {[outs -> targets] : outs \in kSubset(2, Owned(p) \ protected)}
<1>1. Owned(p) = Owned(q)
  BY SameStateOwns
<1>2. SUFFICES ASSUME NEW m \in two,
                      /\ \A a \in DOMAIN m : PositionOf[m[a]] = PositionOf[a]
                      /\ \A a, b \in DOMAIN m : a # b => m[a] # m[b]
                      /\ \A a, b \in DOMAIN m : PositionOf[a] = PositionOf[b] /\ a < b => m[a] < m[b]
                      /\ Affordable(offers, p, m)
               PROVE  Affordable(offers, q, m)
  BY <1>1 DEF PairMoves
<1>3. PICK outs \in kSubset(2, Owned(p) \ protected) : m \in [outs -> targets]
  OBVIOUS
<1>4. outs \subseteq Owned(p)
  BY DEF kSubset
<1>5. Movable(p, m)
  BY <1>2, <1>3, <1>4 DEF Movable, OneToOne
<1>6. CanDoSame(offers, p, q, m)
  BY <1>5, SameStateMoves
<1>7. QED
  BY <1>2, <1>6 DEF CanDoSame

LEMMA SameStateSingles ==
  ASSUME NEW offers, NEW p, SquadOK(p), NEW q, SquadOK(q), SameState(p, q),
         NEW targets \in SUBSET (Players \ Owned(p)),
         NEW m \in SingleTransfers(offers, p, targets)
  PROVE  m \in SingleTransfers(offers, q, targets)
<1>1. Owned(p) = Owned(q)
  BY SameStateOwns
<1>2. PICK out \in Owned(p) : m \in [{out} -> targets]
  BY DEF SingleTransfers, SingleMoves
<1>3. PositionOf[m[out]] = PositionOf[out] /\ Affordable(offers, p, m)
  BY <1>2 DEF SingleTransfers
<1>4. Movable(p, m)
  BY <1>2, <1>3 DEF Movable, OneToOne
<1>5. CanDoSame(offers, p, q, m)
  BY <1>4, SameStateMoves
<1>6. Affordable(offers, q, m)
  BY <1>3, <1>5 DEF CanDoSame
<1>7. QED
  BY <1>1, <1>2, <1>3, <1>6 DEF SingleTransfers, SingleMoves

LEMMA SameStateOptions ==
  ASSUME NEW offers, Marketable(offers), NEW p, SquadOK(p), NEW q, SquadOK(q), SameState(p, q),
         NEW options, NEW w \in Horizon(offers), NEW m \in Moves(offers, p, options, w)
  PROVE  m \in Moves(offers, q, options, w)
<1>1. Owned(p) = Owned(q) /\ SameState(q, p)
  BY SameStateOwns DEF SameState
<1>2. PICK targets : targets = Candidates(offers, p, options.excluded, options.lens, w)
  OBVIOUS
<1>3. targets = Candidates(offers, q, options.excluded, options.lens, w)
  BY <1>1, <1>2, CandidatesDepend
<1>4. targets \in SUBSET (Players \ Owned(p)) /\ targets \in SUBSET (Players \ Owned(q))
  <2>1. offers.onSale[w] \in SUBSET Players
    <3>1. w \in 1 .. Len(offers.onSale) /\ offers.onSale \in Seq(SUBSET Players)
      BY WeeksAreFinite DEF Marketable
    <3>2. QED
      BY <3>1, ElementOfSeq
  <2>2. QED
    BY <1>1, <1>2, <2>1, CandidatesAreOnSale
<1>5. m \in SingleTransfers(offers, p, targets) => m \in SingleTransfers(offers, q, targets)
  BY <1>4, SameStateSingles
<1>6. Pairs(offers, p, targets, options.protected, options.shortlist, w)
        = Pairs(offers, q, targets, options.protected, options.shortlist, w)
  <2>1. PairMoves(offers, p, targets, options.protected) = PairMoves(offers, q, targets, options.protected)
    <3>1. PICK protected : protected = options.protected
      OBVIOUS
    <3>2. PairMoves(offers, p, targets, protected) \subseteq PairMoves(offers, q, targets, protected)
      BY <1>4, SameStatePairs
    <3>3. PairMoves(offers, q, targets, protected) \subseteq PairMoves(offers, p, targets, protected)
      BY <1>1, <1>4, SameStatePairs
    <3>4. QED
      BY <3>1, <3>2, <3>3
  <2>2. QED
    BY <2>1, PairsDepend
<1>7. QED
  BY <1>2, <1>3, <1>5, <1>6 DEF Moves

\* q does as well as p from the same state.
Covers(q, p) == SameState(p, q) /\ q.net >= p.net

LEMMA StepCovers ==
  ASSUME NEW offers, Marketable(offers), NEW p \in PlanSet, NEW q \in PlanSet, Covers(q, p),
         NEW options, NEW w \in Horizon(offers), NEW m \in Moves(offers, p, options, w)
  PROVE  /\ m \in Moves(offers, q, options, w)
         /\ Covers(Step(offers, q, m, w), Step(offers, p, m, w))
<1>1. /\ SquadOK(p) /\ SquadOK(q) /\ SameState(p, q) /\ q.net >= p.net
      /\ p.net \in Int /\ q.net \in Int /\ p.free = q.free /\ p.free \in 0 .. MaxFree
  BY DEF PlanSet, PlanRecords, Covers, SameState
<1>2. m \in Moves(offers, q, options, w)
  BY <1>1, SameStateOptions
<1>3. WeekMoves(offers, options, p, m, w) /\ WeekMoves(offers, options, q, m, w)
  BY <1>1, <1>2, MovesAreMade
<1>4. PICK a, b, pp, qq : /\ a = AfterMoves(offers, p, m) /\ b = AfterMoves(offers, q, m)
                          /\ pp = Step(offers, p, m, w) /\ qq = Step(offers, q, m, w)
  OBVIOUS
<1>5. Earned(offers, p, m, w, a, pp) /\ m \in Made
  BY <1>3, <1>4, StepEarns
<1>6. Earned(offers, q, m, w, b, qq)
  BY <1>3, <1>4, StepEarns
<1>7. Movable(p, m)
  BY <1>3 DEF WeekMoves
<1>8. a.held = b.held /\ a.bank = b.bank /\ Owned(a) = Owned(b)
  BY <1>1, <1>4, <1>7, SameStateMoves DEF CanDoSame
<1>9. SquadOK(a) /\ SquadOK(b)
  BY <1>5, <1>6 DEF Earned
<1>10. LineupOf(a, offers.xp[w]).total = LineupOf(b, offers.xp[w]).total
  BY <1>8, <1>9, SamePlayersHold
<1>11. PICK total, c : /\ total = LineupOf(a, offers.xp[w]).total
                       /\ c = Cost(p, Cardinality(DOMAIN m))
  OBVIOUS
<1>12. total \in Int /\ c \in Int
  <2>1. Cardinality(DOMAIN m) \in Nat
    BY <1>5, PlayersAreFinite DEF Made
  <2>2. Over(Cardinality(DOMAIN m), p.free) \in Nat
    BY <1>1, <2>1, FreeAdvances
  <2>3. c \in Int
    BY <1>11, <2>2, PlayersAssumption DEF Cost
  <2>4. QED
    BY <1>9, <1>11, <2>3, LineupTotal
<1>13. Cost(q, Cardinality(DOMAIN m)) = c
  BY <1>1, <1>11 DEF Cost
<1>14. pp.net = p.net + total - c /\ qq.net = q.net + total - c
  BY <1>5, <1>6, <1>10, <1>11, <1>13 DEF Earned
<1>15. qq.net >= pp.net
  BY <1>1, <1>12, <1>14
<1>16. SameState(pp, qq)
  BY <1>1, <1>5, <1>6, <1>8 DEF Earned, Stepped, SameSquad, SameState
<1>17. QED
  BY <1>2, <1>4, <1>15, <1>16 DEF Covers

\* Of the plans of one state the one that stays does as well as any.
LEMMA DistinctCovers ==
  ASSUME NEW offers, Marketable(offers), NEW n \in Horizon(offers), NEW plans \in SUBSET PlanSet,
         IsFiniteSet(plans),
         \A p \in plans : Comparable(p, n) /\ p.rank = Promise(offers, p, n),
         NEW p \in plans
  PROVE  \E q \in Distinct(plans) : Covers(q, p)
<1> DEFINE C == {q \in plans : SameState(p, q)}
<1>1. n \in Nat /\ n + 1 \in 1 .. Len(offers.xp) + 1 /\ Len(offers.xp) \in Nat
  BY WeeksAreFinite
<1>2. IsFiniteSet(C) /\ C # {} /\ \A q \in C : Comparable(q, n)
  <2>1. p \in C
    BY DEF SameState
  <2>2. QED
    BY <2>1, FS_Subset
<1>3. PICK q \in C : \A r \in C : ~Prior(r, q)
  <2> HIDE DEF C
  <2>1. QED
    BY <1>1, <1>2, FirstPlanExists
<1>4. q \in Distinct(plans)
  BY <1>3 DEF Distinct, SameState
<1>5. ~Prior(p, q) /\ SameState(p, q)
  BY <1>3 DEF SameState
<1>6. p.rank <= q.rank
  BY <1>5 DEF Prior, Comparable
<1>7. SquadOK(p) /\ SquadOK(q) /\ p.free = q.free /\ p.free \in 0 .. MaxFree
  BY <1>5 DEF PlanSet, PlanRecords, SameState
<1>8. HoldScore(offers, p, n + 1) = HoldScore(offers, q, n + 1)
  BY <1>5, <1>7, SameStateOwns, SamePlayersHold
<1>9. PICK hold, last : /\ hold = HoldScore(offers, p, n + 1)
                        /\ last = TerminalValue * Least(MaxFree, p.free + (Len(offers.xp) - n))
  OBVIOUS
<1>10. hold \in Int /\ last \in Int
  <2>1. hold \in Int
    BY <1>1, <1>7, <1>9, HoldScoreSteps
  <2>2. Least(MaxFree, p.free + (Len(offers.xp) - n)) \in Int
    BY <1>1, <1>7 DEF Least, MaxFree
  <2>3. QED
    BY <1>9, <2>1, <2>2, PlayersAssumption
<1>11. p.rank = p.net + hold + last /\ q.rank = q.net + hold + last
  BY <1>3, <1>7, <1>8, <1>9 DEF Promise
<1>12. p.net \in Int /\ q.net \in Int
  BY <1>3 DEF Comparable
<1>13. q.net >= p.net
  BY <1>6, <1>10, <1>11, <1>12
<1>14. QED
  BY <1>4, <1>5, <1>13 DEF Covers

\* Whether the beam has room for every path.
Wide(offers, s, options) ==
  \A n \in Horizon(offers) : Cardinality(PathsOf(offers, s, options, n)) <= options.beam

\* Wherever a path leads, a plan that was kept does as well.
KeepsPaths(offers, s, options, plans, n) ==
  /\ PathsOf(offers, s, options, n) \in SUBSET PlanSet
  /\ IsFiniteSet(PathsOf(offers, s, options, n))
  /\ \A p \in PathsOf(offers, s, options, n) : Len(p.weeks) = n
  /\ Wide(offers, s, options) =>
       /\ plans \subseteq PathsOf(offers, s, options, n)
       /\ \A p \in PathsOf(offers, s, options, n) : \E q \in plans : Covers(q, p)

LEMMA BegunKeepsPaths ==
  ASSUME NEW offers, Marketable(offers), NEW s, SquadOK(s), NEW options
  PROVE  KeepsPaths(offers, s, options, {Begun(offers, s)}, 0)
<1>1. PICK p : p = Begun(offers, s)
  OBVIOUS
<1>2. PathsOf(offers, s, options, 0) = {p}
  BY <1>1, PathsExtend
<1>3. p \in PlanSet /\ Len(p.weeks) = 0
  BY <1>1, BegunIsInSet
<1>4. Covers(p, p)
  BY <1>3 DEF Covers, SameState, PlanSet, PlanRecords
<1>5. IsFiniteSet({p})
  BY FS_Singleton
<1>6. QED
  BY <1>1, <1>2, <1>3, <1>4, <1>5 DEF KeepsPaths

LEMMA WeekKeepsPaths ==
  ASSUME NEW offers, Marketable(offers), NEW s, SquadOK(s), NEW options,
         options.beam \in Nat \ {0}, NEW n \in Nat, n + 1 \in Horizon(offers),
         NEW plans, KeepsPaths(offers, s, options, plans, n)
  PROVE  KeepsPaths(offers, s, options, PlanWeek(offers, plans, options, n + 1), n + 1)
<1>1. PICK paths, next, w : /\ paths = PathsOf(offers, s, options, n)
                            /\ next = PathsOf(offers, s, options, n + 1) /\ w = n + 1
  OBVIOUS
<1>2. next = Expanded(offers, paths, options, w)
  BY <1>1, PathsExtend
<1>3. /\ paths \in SUBSET PlanSet /\ IsFiniteSet(paths) /\ w \in Horizon(offers)
      /\ \A p \in paths : Len(p.weeks) = w - 1
  BY <1>1 DEF KeepsPaths
<1>4. /\ IsFiniteSet(next) /\ next \in SUBSET PlanSet
      /\ \A q \in next : Comparable(q, w) /\ q.rank = Promise(offers, q, w)
  BY <1>2, <1>3, WeekExpands
<1>5. ASSUME Wide(offers, s, options)
      PROVE  /\ PlanWeek(offers, plans, options, w) \subseteq next
             /\ \A p \in next : \E q \in PlanWeek(offers, plans, options, w) : Covers(q, p)
  <2>1. plans \subseteq paths /\ \A p \in paths : \E q \in plans : Covers(q, p)
    BY <1>1, <1>5 DEF KeepsPaths
  <2>2. PICK made : made = Expanded(offers, plans, options, w)
    OBVIOUS
  <2>3. made \subseteq next
    BY <1>2, <2>1, <2>2 DEF Expanded
  <2>4. /\ made \in SUBSET PlanSet /\ IsFiniteSet(made)
        /\ \A q \in made : Comparable(q, w) /\ q.rank = Promise(offers, q, w)
    BY <1>4, <2>3, FS_Subset
  <2>5. Distinct(made) \subseteq made
    BY DEF Distinct
  <2>6. Cardinality(Distinct(made)) <= options.beam
    <3>1. Cardinality(Distinct(made)) <= Cardinality(next) /\ Cardinality(next) \in Nat
      BY <1>4, <2>3, <2>5, FS_Subset, FS_CardinalityType
    <3>2. Cardinality(next) <= options.beam
      BY <1>1, <1>3, <1>5 DEF Wide
    <3>3. Cardinality(Distinct(made)) \in Nat
      BY <2>4, <2>5, FS_Subset, FS_CardinalityType
    <3>4. QED
      BY <3>1, <3>2, <3>3
  <2>7. PlanWeek(offers, plans, options, w) = Distinct(made)
    BY <2>2, <2>6 DEF PlanWeek, Kept
  <2>8. ASSUME NEW p \in next PROVE \E q \in Distinct(made) : Covers(q, p)
    <3>1. PICK p0 \in paths : \E m \in Moves(offers, p0, options, w) : p = Step(offers, p0, m, w)
      BY <1>2 DEF Expanded
    <3>2. PICK m \in Moves(offers, p0, options, w) : p = Step(offers, p0, m, w)
      BY <3>1
    <3>3. PICK q0 \in plans : Covers(q0, p0)
      BY <2>1
    <3>4. p0 \in PlanSet /\ q0 \in PlanSet
      BY <1>3, <2>1
    <3>5. PICK r : r = Step(offers, q0, m, w)
      OBVIOUS
    <3>6. m \in Moves(offers, q0, options, w) /\ Covers(r, p)
      BY <1>3, <3>2, <3>3, <3>4, <3>5, StepCovers
    <3>7. r \in made
      BY <2>2, <3>5, <3>6 DEF Expanded
    <3>8. PICK q \in Distinct(made) : Covers(q, r)
      BY <1>3, <2>4, <3>7, DistinctCovers
    <3>9. p.net \in Int /\ q.net \in Int /\ r.net \in Int
      BY <1>4, <2>4, <2>5, <3>7 DEF Comparable
    <3>10. q.net >= p.net
      BY <3>6, <3>8, <3>9 DEF Covers
    <3>11. SameState(p, q)
      BY <3>6, <3>8 DEF Covers, SameState
    <3>12. QED
      BY <3>10, <3>11 DEF Covers
  <2>9. QED
    BY <2>3, <2>5, <2>7, <2>8
<1>6. \A q \in next : Len(q.weeks) = w
  BY <1>4 DEF Comparable
<1>7. QED
  BY <1>1, <1>4, <1>5, <1>6 DEF KeepsPaths

\* At the end nothing better was given up.
LEMMA NothingBetterWasCut ==
  ASSUME NEW offers, Marketable(offers), NEW s, SquadOK(s), NEW options,
         NEW plans, KeepsPaths(offers, s, options, plans, Len(offers.xp)),
         Wide(offers, s, options),
         NEW p \in PathsOf(offers, s, options, Len(offers.xp))
  PROVE  Objective(p) <= Objective(Recommended(plans))
<1>1. PICK n, paths : n = Len(offers.xp) /\ paths = PathsOf(offers, s, options, n)
  OBVIOUS
<1>2. /\ paths \in SUBSET PlanSet /\ IsFiniteSet(paths) /\ plans \subseteq paths
      /\ \A q \in paths : Len(q.weeks) = n
      /\ \E q \in plans : Covers(q, p)
  BY <1>1 DEF KeepsPaths
<1>3. n \in Nat /\ n \in 0 .. Len(offers.xp)
  BY <1>1, WeeksAreFinite
<1>4. \A q \in paths : Comparable(q, n) /\ Objective(q) \in Int
  <2>1. SUFFICES ASSUME NEW q \in paths PROVE Comparable(q, n) /\ Objective(q) \in Int
    OBVIOUS
  <2>2. q \in PlanSet /\ Len(q.weeks) = n
    BY <1>2
  <2>3. Objective(q) \in Int
    BY <1>3, <2>2, PromiseIsKept
  <2>4. QED
    BY <2>2, <2>3 DEF PlanSet, PlanRecords, Comparable
<1>5. IsFiniteSet(plans) /\ plans # {} /\ \A q \in plans : Comparable(q, n) /\ Objective(q) \in Int
  BY <1>2, <1>4, FS_Subset
<1>6. /\ Recommended(plans) \in plans
      /\ \A q \in plans : Objective(q) <= Objective(Recommended(plans))
  BY <1>3, <1>5, RecommendedIsBest
<1>7. PICK q \in plans : Covers(q, p)
  BY <1>2
<1>8. Objective(p) <= Objective(q)
  <2>1. p.net \in Int /\ q.net \in Int /\ p.free \in Int /\ p.free = q.free /\ q.net >= p.net
    BY <1>1, <1>2, <1>7 DEF PlanSet, PlanRecords, Covers, SameState, MaxFree
  <2>2. PICK v : v = TerminalValue * p.free
    OBVIOUS
  <2>3. v \in Int
    BY <2>1, <2>2, PlayersAssumption
  <2>4. Objective(p) = p.net + v /\ Objective(q) = q.net + v
    BY <2>1, <2>2 DEF Objective
  <2>5. QED
    BY <2>1, <2>3, <2>4
<1>9. Objective(p) \in Int /\ Objective(q) \in Int /\ Objective(Recommended(plans)) \in Int
  BY <1>1, <1>4, <1>5, <1>6
<1>10. Objective(q) <= Objective(Recommended(plans))
  BY <1>6
<1>11. QED
  BY <1>8, <1>9, <1>10

-----------------------------------------------------------------------------
(* The advice of a single week. *)

\* What a transfer wins in a week, after its cost.
Won(offers, s, m, w) ==
  LineupOf(AfterMoves(offers, s, m), offers.xp[w]).total - LineupOf(s, offers.xp[w]).total
    - Cost(s, 1)

LEMMA SinglesAreMovable ==
  ASSUME NEW offers, NEW s, SquadOK(s), NEW targets \in SUBSET (Players \ Owned(s)),
         NEW m \in SingleTransfers(offers, s, targets)
  PROVE  /\ \E out \in Owned(s) : m \in [{out} -> targets] /\ PositionOf[m[out]] = PositionOf[out]
         /\ Movable(s, m) /\ Affordable(offers, s, m) /\ m \in Made
         /\ Cardinality(DOMAIN m) = 1
<1>1. PICK out \in Owned(s) : m \in [{out} -> targets]
  BY DEF SingleTransfers, SingleMoves
<1>2. PositionOf[m[out]] = PositionOf[out] /\ Affordable(offers, s, m)
  BY <1>1 DEF SingleTransfers
<1>3. Movable(s, m)
  BY <1>1, <1>2 DEF Movable, OneToOne
<1>4. m \in Made
  BY <1>1, SquadFacts DEF Made
<1>5. Cardinality(DOMAIN m) = 1
  BY <1>1, FS_Singleton
<1>6. QED
  BY <1>1, <1>2, <1>3, <1>4, <1>5

\* No transfer wins more than the advice says, which some transfer wins unless it is nothing.
IsBestGain(offers, s, targets, w, gain) ==
  /\ gain \in Int /\ gain >= 0
  /\ \A m \in SingleTransfers(offers, s, targets) : Won(offers, s, m, w) <= gain
  /\ gain # 0 => \E m \in SingleTransfers(offers, s, targets) : Won(offers, s, m, w) = gain

LEMMA SingleGainIsBest ==
  ASSUME NEW offers, Marketable(offers), NEW s, SquadOK(s),
         NEW targets \in SUBSET (Players \ Owned(s)), NEW w \in Horizon(offers)
  PROVE  IsBestGain(offers, s, targets, w, SingleGain(offers, s, targets, w))
<1> DEFINE T == SingleTransfers(offers, s, targets)
           f == [m \in T |-> Won(offers, s, m, w)]
           gains == {0} \cup {Won(offers, s, m, w) : m \in T}
<1>1. SingleGain(offers, s, targets, w) = Max(gains)
  BY DEF SingleGain, Won
<1>2. \A m \in T : m \in Made
  BY SinglesAreMovable
<1>3. \A m \in T : Won(offers, s, m, w) \in Int
  <2>1. SUFFICES ASSUME NEW m \in T PROVE Won(offers, s, m, w) \in Int
    OBVIOUS
  <2>2. PICK a : a = AfterMoves(offers, s, m)
    OBVIOUS
  <2>3. SquadOK(a)
    BY <2>2, SinglesAreMovable, MovesAreSound
  <2>4. LineupOf(a, offers.xp[w]).total \in Int /\ LineupOf(s, offers.xp[w]).total \in Int
    BY <2>3, LineupTotal
  <2>5. Over(1, s.free) \in Nat
    BY FreeAdvances, SquadFacts
  <2>6. Cost(s, 1) \in Int
    BY <2>5, PlayersAssumption DEF Cost
  <2>7. QED
    BY <2>2, <2>4, <2>6 DEF Won
<1>4. IsFiniteSet(gains)
  <2>1. IsFiniteSet(T)
    BY <1>2, MadeIsFinite, FS_Subset
  <2> HIDE DEF T
  <2>2. {Won(offers, s, m, w) : m \in T} = Image(f, T)
    BY DEF Image
  <2>3. IsFiniteSet(Image(f, T)) /\ IsFiniteSet({0})
    BY <2>1, ImageIsFinite, FS_Singleton
  <2>4. QED
    BY <2>2, <2>3, FS_Union
<1> HIDE DEF T
<1>5. gains \in SUBSET Int /\ gains # {}
  BY <1>3
<1>6. Max(gains) \in gains /\ \A x \in gains : x <= Max(gains)
  <2> HIDE DEF gains
  <2>1. QED
    BY <1>4, <1>5, MaxExists
<1>7. PICK gain : gain = Max(gains)
  OBVIOUS
<1>8. gain \in gains /\ \A x \in gains : x <= gain
  BY <1>6, <1>7
<1>9. gain \in Int /\ gain >= 0
  BY <1>5, <1>8
<1>10. \A m \in T : Won(offers, s, m, w) <= gain
  BY <1>8
<1>11. gain # 0 => \E m \in T : Won(offers, s, m, w) = gain
  BY <1>8
<1>12. QED
  BY <1>1, <1>7, <1>9, <1>10, <1>11 DEF IsBestGain, T

-----------------------------------------------------------------------------
(* A market of one week. *)

OneWeek(offers) == [offers EXCEPT !.xp = SubSeq(@, 1, 1), !.onSale = SubSeq(@, 1, 1)]

LEMMA OneWeekIsMarketable ==
  ASSUME NEW offers, Marketable(offers), MarketFields \subseteq DOMAIN offers,
         NEW this, this = OneWeek(offers)
  PROVE  /\ Marketable(this) /\ Len(this.xp) = 1 /\ this.xp[1] = offers.xp[1]
         /\ this.onSale[1] = offers.onSale[1] /\ this.price = offers.price
         /\ this.club = offers.club
<1>1. Len(offers.xp) \in Nat \ {0}
  BY WeeksAreFinite
<1>2. PICK xp, onSale : xp = SubSeq(offers.xp, 1, 1) /\ onSale = SubSeq(offers.onSale, 1, 1)
  OBVIOUS
<1>3. xp \in Seq([Players -> Int]) /\ Len(xp) = 1 /\ xp[1] = offers.xp[1]
  <2>1. offers.xp \in Seq([Players -> Int])
    BY DEF Marketable
  <2>2. \A i \in 1 .. 1 : offers.xp[i] \in [Players -> Int]
    BY WeeksAreFinite
  <2>3. QED
    BY <1>1, <1>2, <2>1, <2>2
<1>4. onSale \in Seq(SUBSET Players) /\ Len(onSale) = 1 /\ onSale[1] = offers.onSale[1]
  <2>1. offers.onSale \in Seq(SUBSET Players) /\ Len(offers.onSale) \in Nat \ {0}
    BY <1>1 DEF Marketable
  <2>2. \A i \in 1 .. 1 : offers.onSale[i] \in SUBSET Players
    BY <2>1, ElementOfSeq
  <2>3. QED
    BY <1>1, <1>2, <2>1, <2>2
<1>5. this = [offers EXCEPT !.xp = xp, !.onSale = onSale]
  BY <1>2 DEF OneWeek
<1>6. /\ this.xp = xp /\ this.onSale = onSale /\ this.price = offers.price
      /\ this.club = offers.club
  BY <1>5 DEF MarketFields
<1>7. Marketable(this)
  <2>1. xp # <<>>
    <3>1. Len(<<>>) = 0
      OBVIOUS
    <3>2. Len(xp) # 0
      BY <1>3
    <3>3. QED
      BY ONLY <3>1, <3>2
  <2>2. offers.price \in [Players -> Nat] /\ DOMAIN offers.club = Players
    BY DEF Marketable
  <2>3. QED
    BY <1>3, <1>4, <1>6, <2>1, <2>2 DEF Marketable
<1>8. QED
  BY <1>3, <1>4, <1>6, <1>7

\* Moves look at prices, and what can be afforded at clubs too.
AfterMovesAt(price, s, moves) ==
  [s EXCEPT
     !.order = [i \in Slots |-> IF @[i] \in DOMAIN moves THEN moves[@[i]] ELSE @[i]],
     !.held = [p \in (Owned(s) \ DOMAIN moves) \cup Range(moves) |->
                 IF p \in Owned(s) THEN @[p]
                 ELSE [paid |-> price[p], sells |-> price[p]]],
     !.bank = @ + SumFunction([out \in DOMAIN moves |-> s.held[out].sells - price[moves[out]]])]

ClubsOf(club, S) ==
  \A c \in Range(club) : Cardinality({p \in S : club[p] = c}) <= ClubLimit

LEMMA SamePricesMove ==
  ASSUME NEW offers, NEW this, this.price = offers.price, this.club = offers.club,
         NEW s, NEW m
  PROVE  /\ AfterMoves(this, s, m) = AfterMoves(offers, s, m)
         /\ Affordable(this, s, m) <=> Affordable(offers, s, m)
<1>1. \A o : AfterMoves(o, s, m) = AfterMovesAt(o.price, s, m)
  BY DEF AfterMoves, AfterMovesAt
<1>2. \A o, S : Clubs(o, S) <=> ClubsOf(o.club, S)
  BY DEF Clubs, ClubsOf
<1>3. AfterMoves(this, s, m) = AfterMoves(offers, s, m)
  BY <1>1
<1>4. Affordable(this, s, m) <=> Affordable(offers, s, m)
  BY <1>2, <1>3 DEF Affordable
<1>5. QED
  BY <1>3, <1>4

\* The moves of a plan that only has this week.
JustThisWeek ==
  [forced |-> {}, protected |-> {}, excluded |-> {}, lens |-> Cardinality(Players), pairs |-> FALSE]

\* To hold is worth this week's lineup.
LEMMA OneWeekHolds ==
  ASSUME NEW this, Marketable(this), Len(this.xp) = 1, NEW s, SquadOK(s)
  PROVE  /\ HoldScore(this, s, 1) = LineupOf(s, this.xp[1]).total
         /\ LineupOf(s, this.xp[1]).total \in Int
<1>1. 1 \in Horizon(this) /\ 1 \in 1 .. Len(this.xp) + 1 /\ 2 \in 1 .. Len(this.xp) + 1
  BY WeeksAreFinite
<1>2. HoldScore(this, s, 1) = LineupOf(s, this.xp[1]).total + HoldScore(this, s, 1 + 1)
      /\ LineupOf(s, this.xp[1]).total \in Int
  BY <1>1, HoldScoreSteps
<1>3. HoldScore(this, s, 1 + 1) = 0
  <2>1. 1 + 1 \in 1 .. Len(this.xp) + 1 /\ 1 + 1 = Len(this.xp) + 1
    OBVIOUS
  <2>2. QED
    BY <2>1, HoldScoreSteps
<1>4. QED
  BY <1>2, <1>3

\* A step from the squad that is owned.
LEMMA FirstStepEarns ==
  ASSUME NEW offers, Marketable(offers), MarketFields \subseteq DOMAIN offers,
         NEW this, this = OneWeek(offers), NEW s, SquadOK(s),
         NEW m, WeekMoves(this, JustThisWeek, Begun(this, s), m, 1),
         NEW q, q = Step(this, Begun(this, s), m, 1)
  PROVE  /\ q.net = LineupOf(AfterMoves(offers, s, m), offers.xp[1]).total
                      - Cost(s, Cardinality(DOMAIN m))
         /\ m \in Made
<1>1. Marketable(this) /\ Len(this.xp) = 1 /\ this.xp[1] = offers.xp[1]
      /\ this.price = offers.price /\ this.club = offers.club
  BY OneWeekIsMarketable
<1>2. PICK b : b = Begun(this, s)
  OBVIOUS
<1>3. b \in PlanSet /\ b.net = 0 /\ b.order = s.order /\ b.free = s.free
  BY <1>1, <1>2, BegunIsInSet
<1>4. 1 \in Horizon(this)
  BY <1>1, WeeksAreFinite
<1>5. PICK a : a = AfterMoves(this, b, m)
  OBVIOUS
<1>6. Earned(this, b, m, 1, a, q) /\ m \in Made
  BY <1>1, <1>2, <1>3, <1>4, <1>5, StepEarns
<1>7. Cost(b, Cardinality(DOMAIN m)) = Cost(s, Cardinality(DOMAIN m))
  BY <1>3 DEF Cost
<1>8. AfterMoves(offers, s, m).order = a.order
  <2>1. a = AfterMoves(offers, b, m)
    BY <1>1, <1>5, SamePricesMove
  <2>2. "order" \in DOMAIN s /\ "order" \in DOMAIN b
    BY <1>2 DEF SquadOK, SquadFields, Begun
  <2>3. QED
    BY <1>3, <2>1, <2>2 DEF AfterMoves
<1>9. LineupOf(a, this.xp[1]) = LineupOf(AfterMoves(offers, s, m), offers.xp[1])
  BY <1>1, <1>8, SameOrderSameScore
<1>10. LineupOf(a, this.xp[1]).total \in Int
  BY <1>1, <1>4, <1>6, LineupTotal DEF Earned
<1>11. Cost(b, Cardinality(DOMAIN m)) \in Int
  <2>1. Cardinality(DOMAIN m) \in Nat
    BY <1>6, PlayersAreFinite DEF Made
  <2>2. Over(Cardinality(DOMAIN m), b.free) \in Nat
    BY <1>3, <2>1, FreeAdvances, SquadFacts
  <2>3. QED
    BY <2>2, PlayersAssumption DEF Cost
<1>12. q.net = 0 + LineupOf(a, this.xp[1]).total - Cost(b, Cardinality(DOMAIN m))
  BY <1>3, <1>6 DEF Earned
<1>13. q.net = LineupOf(a, this.xp[1]).total - Cost(b, Cardinality(DOMAIN m))
  BY <1>10, <1>11, <1>12
<1>14. QED
  BY <1>6, <1>7, <1>9, <1>13

\* What can be done with the squad can be done with the plan that begins with it.
LEMMA BegunMovesAlike ==
  ASSUME NEW offers, Marketable(offers), MarketFields \subseteq DOMAIN offers,
         NEW this, this = OneWeek(offers), NEW s, SquadOK(s), NEW m
  PROVE  /\ Owned(Begun(this, s)) = Owned(s)
         /\ Movable(Begun(this, s), m) <=> Movable(s, m)
         /\ Affordable(this, Begun(this, s), m) <=> Affordable(offers, s, m)
<1>1. PICK b : b = Begun(this, s)
  OBVIOUS
<1>2. SquadFields \subseteq DOMAIN b /\ SquadFields \subseteq DOMAIN s /\ SameSquad(b, s)
  BY <1>1 DEF Begun, SquadOK, SquadFields, SameSquad
<1>3. /\ Owned(b) = Owned(s)
      /\ Movable(b, m) <=> Movable(s, m)
      /\ Affordable(this, b, m) <=> Affordable(this, s, m)
  BY <1>2, SameSquadsMove
<1>4. Affordable(this, s, m) <=> Affordable(offers, s, m)
  BY OneWeekIsMarketable, SamePricesMove
<1>5. QED
  BY <1>1, <1>3, <1>4

\* The advice of a single week is as good as the planner's week.
AdviceCovers(this, s, gain) ==
  \A plan \in Expanded(this, {Begun(this, s)}, JustThisWeek, 1) :
    plan.net <= HoldScore(this, s, 1) + gain

LEMMA AdviceIsBest ==
  ASSUME NEW offers, Marketable(offers), MarketFields \subseteq DOMAIN offers,
         NEW this, this = OneWeek(offers), NEW s, SquadOK(s),
         NEW targets, targets = offers.onSale[1] \ Owned(s),
         NEW gain, gain = SingleGain(offers, s, targets, 1)
  PROVE  AdviceCovers(this, s, gain)
<1>1. /\ Marketable(this) /\ Len(this.xp) = 1 /\ this.xp[1] = offers.xp[1]
      /\ this.onSale[1] = offers.onSale[1]
      /\ this.price = offers.price /\ this.club = offers.club
  BY OneWeekIsMarketable
<1>2. 1 \in Horizon(offers) /\ 1 \in Horizon(this)
  BY <1>1, WeeksAreFinite
<1>3. targets \in SUBSET (Players \ Owned(s))
  <2>1. 1 \in 1 .. Len(offers.onSale) /\ offers.onSale \in Seq(SUBSET Players)
    BY <1>2, WeeksAreFinite DEF Marketable
  <2>2. offers.onSale[1] \in SUBSET Players
    BY <2>1, ElementOfSeq
  <2>3. QED
    BY <2>2
<1>4. IsBestGain(offers, s, targets, 1, gain)
  BY <1>2, <1>3, SingleGainIsBest
<1>5. PICK before : before = LineupOf(s, offers.xp[1]).total
  OBVIOUS
<1>6. HoldScore(this, s, 1) = before /\ before \in Int
  BY <1>1, <1>5, OneWeekHolds
<1>7. SUFFICES ASSUME NEW q \in Expanded(this, {Begun(this, s)}, JustThisWeek, 1)
               PROVE  q.net <= before + gain
  BY <1>6 DEF AdviceCovers
<1>8. PICK b : b = Begun(this, s)
  OBVIOUS
<1>9. PICK m \in Moves(this, b, JustThisWeek, 1) : q = Step(this, b, m, 1)
  BY <1>8 DEF Expanded
<1>10. SquadOK(b) /\ Owned(b) = Owned(s)
  BY <1>1, <1>8, BegunIsInSet, BegunMovesAlike DEF PlanSet
<1>11. WeekMoves(this, JustThisWeek, b, m, 1)
  BY <1>1, <1>2, <1>9, <1>10, MovesAreMade
<1>12. q.net = LineupOf(AfterMoves(offers, s, m), offers.xp[1]).total
                 - Cost(s, Cardinality(DOMAIN m))
  BY <1>8, <1>9, <1>11, FirstStepEarns
<1>13. CASE m = <<>>
  <2>1. Still(s, m)
    BY <1>13, NothingMoves
  <2>2. PICK a : a = AfterMoves(offers, s, m)
    OBVIOUS
  <2>3. SquadOK(a) /\ Owned(a) = Owned(s)
    BY <2>1, <2>2, NoMovesChangeNothing
  <2>4. LineupOf(a, offers.xp[1]).total = before
    BY <1>2, <1>5, <2>3, SamePlayersHold
  <2>5. Cardinality(DOMAIN m) = 0
    BY <2>1, FS_EmptySet DEF Still
  <2>6. Cost(s, 0) = 0
    <3>1. s.free \in 0 .. 5
      BY SquadFacts DEF MaxFree
    <3>2. Over(0, s.free) = 0
      BY <3>1 DEF Over
    <3>3. QED
      BY <3>2, PlayersAssumption DEF Cost
  <2>7. gain \in Int /\ gain >= 0
    BY <1>4 DEF IsBestGain
  <2>8. q.net = before
    BY <1>6, <1>12, <2>2, <2>4, <2>5, <2>6
  <2>9. QED
    BY <1>6, <2>7, <2>8
<1>14. CASE m # <<>>
  <2>1. PICK some : some = Candidates(this, b, {}, JustThisWeek.lens, 1)
    OBVIOUS
  <2>2. m \in SingleTransfers(this, b, some)
    BY <1>9, <1>14, <2>1 DEF Moves, JustThisWeek
  <2>3. some \subseteq targets
    BY <1>1, <1>10, <2>1, CandidatesAreOnSale
  <2>4. PICK out \in Owned(b) :
          m \in [{out} -> some] /\ PositionOf[m[out]] = PositionOf[out] /\ Affordable(this, b, m)
    BY <2>2 DEF SingleTransfers, SingleMoves
  <2>5. Affordable(offers, s, m)
    BY <1>8, <2>4, BegunMovesAlike
  <2>6. m \in SingleTransfers(offers, s, targets)
    <3>1. out \in Owned(s) /\ m \in [{out} -> targets]
      BY <1>10, <2>3, <2>4
    <3>2. QED
      BY <2>4, <2>5, <3>1 DEF SingleTransfers, SingleMoves
  <2>7. Won(offers, s, m, 1) <= gain /\ gain \in Int
    BY <1>4, <2>6 DEF IsBestGain
  <2>8. Cardinality(DOMAIN m) = 1
    BY <2>4, FS_Singleton
  <2>9. PICK total, c : /\ total = LineupOf(AfterMoves(offers, s, m), offers.xp[1]).total
                        /\ c = Cost(s, 1)
    OBVIOUS
  <2>10. total \in Int /\ c \in Int
    <3>1. SquadOK(AfterMoves(offers, s, m))
      BY <1>3, <2>6, SinglesAreMovable, MovesAreSound
    <3>2. Over(1, s.free) \in Nat
      BY FreeAdvances, SquadFacts
    <3>3. c \in Int
      BY <2>9, <3>2, PlayersAssumption DEF Cost
    <3>4. QED
      BY <1>2, <2>9, <3>1, <3>3, LineupTotal
  <2>11. q.net = total - c /\ Won(offers, s, m, 1) = total - before - c
    BY <1>5, <1>12, <2>8, <2>9 DEF Won
  <2>12. QED
    BY <1>6, <2>7, <2>10, <2>11
<1>15. QED
  BY <1>13, <1>14

\* Two moves, one after the other, and at once.
InTurn(s, k, k2, o, o2) ==
  /\ k \in Owned(s) /\ o \in Owned(s) /\ k # o
  /\ k2 \in Players \ Owned(s) /\ o2 \in Players \ Owned(s) /\ k2 # o2
  /\ PositionOf[k2] = PositionOf[k] /\ PositionOf[o2] = PositionOf[o]

AtOnce(k, k2, o, o2) == [x \in {k, o} |-> IF x = k THEN k2 ELSE o2]

LEMMA TwoMovesAtOnce ==
  ASSUME NEW s, NEW k, NEW k2, NEW o, NEW o2, InTurn(s, k, k2, o, o2),
         NEW m, m = AtOnce(k, k2, o, o2)
  PROVE  Movable(s, m) /\ DOMAIN m = {k, o} /\ Range(m) = {k2, o2}
<1>1. DOMAIN m = {k, o} /\ m[k] = k2 /\ m[o] = o2 /\ k # o /\ k2 # o2
  BY DEF InTurn, AtOnce
<1>2. Range(m) = {k2, o2}
  BY <1>1 DEF Range
<1>3. m \in [DOMAIN m -> Players \ Owned(s)]
  <2>1. k2 \in Players \ Owned(s) /\ o2 \in Players \ Owned(s)
    BY DEF InTurn
  <2>2. QED
    BY <1>1, <2>1 DEF AtOnce
<1>4. OneToOne(m, DOMAIN m)
  BY <1>1 DEF OneToOne
<1>5. QED
  BY <1>1, <1>2, <1>3, <1>4 DEF Movable, InTurn

SellingOf(owned, held) == SumFunction([p \in owned |-> held[p].sells])

LEMMA SameHeldSell ==
  ASSUME NEW a, NEW c, Owned(a) = Owned(c), a.held = c.held
  PROVE  SellingValue(a) = SellingValue(c)
<1>1. \A s : SellingValue(s) = SellingOf(Owned(s), s.held)
  BY DEF SellingValue, SellingOf
<1>2. QED
  BY <1>1

LEMMA AtOnceIsInTurn ==
  ASSUME NEW offers, Marketable(offers), NEW s, SquadOK(s),
         NEW k, NEW k2, NEW o, NEW o2, InTurn(s, k, k2, o, o2),
         NEW one, one = [x \in {k} |-> k2], NEW two, two = [x \in {o} |-> o2],
         NEW sw, sw = AfterMoves(offers, s, one), SquadOK(sw),
         Movable(sw, two), Affordable(offers, sw, two),
         NEW m, m = AtOnce(k, k2, o, o2)
  PROVE  /\ Affordable(offers, s, m)
         /\ AfterMoves(offers, s, m).order = AfterMoves(offers, sw, two).order
<1>1. PICK a, c : a = AfterMoves(offers, s, m) /\ c = AfterMoves(offers, sw, two)
  OBVIOUS
<1>2. Movable(s, m) /\ DOMAIN m = {k, o} /\ Range(m) = {k2, o2} /\ m[k] = k2 /\ m[o] = o2
  BY TwoMovesAtOnce DEF AtOnce, InTurn
<1>3. /\ DOMAIN one = {k} /\ Range(one) = {k2} /\ one[k] = k2
      /\ DOMAIN two = {o} /\ Range(two) = {o2} /\ two[o] = o2
  BY DEF Range
<1>4. Movable(s, one)
  BY <1>3 DEF Movable, OneToOne, InTurn
<1>5. /\ Owned(sw) = (Owned(s) \ {k}) \cup {k2}
      /\ Owned(a) = (Owned(s) \ {k, o}) \cup {k2, o2}
      /\ Owned(c) = (Owned(sw) \ {o}) \cup {o2}
  <2>1. Owned(sw) = (Owned(s) \ {k}) \cup {k2}
    BY <1>3, <1>4, MovesField
  <2>2. Owned(a) = (Owned(s) \ {k, o}) \cup {k2, o2}
    BY <1>1, <1>2, MovesField
  <2>3. Owned(c) = (Owned(sw) \ {o}) \cup {o2}
    BY <1>1, <1>3, MovesField
  <2>4. QED
    BY <2>1, <2>2, <2>3
<1>6. k \in Owned(s) /\ o \in Owned(s) /\ k2 \notin Owned(s) /\ o2 \notin Owned(s) /\ k # o /\ k2 # o2
  BY DEF InTurn
<1>7. Owned(a) = Owned(c)
  BY <1>5, <1>6
<1>8. SquadFields \subseteq DOMAIN s /\ SquadFields \subseteq DOMAIN sw
  BY DEF SquadOK
<1>9. a.order = c.order
  <2>1. sw.order = [i \in Slots |-> IF s.order[i] = k THEN k2 ELSE s.order[i]]
    BY <1>3, <1>8, SMTT(30) DEF AfterMoves, SquadFields
  <2>2. c.order = [i \in Slots |-> IF sw.order[i] = o THEN o2 ELSE sw.order[i]]
    BY <1>1, <1>3, <1>8, ZenonT(40) DEF AfterMoves, SquadFields
  <2>3. a.order = [i \in Slots |-> IF s.order[i] \in {k, o} THEN m[s.order[i]] ELSE s.order[i]]
    BY <1>1, <1>2, <1>8 DEF AfterMoves, SquadFields
  <2>4. \A i \in Slots : s.order[i] \in Owned(s)
    BY SquadFacts
  <2>5. ASSUME NEW i \in Slots PROVE a.order[i] = c.order[i]
    BY <1>2, <1>6, <2>1, <2>2, <2>3, <2>4
  <2>6. QED
    BY <2>2, <2>3, <2>5
<1>10. a.held = c.held
  <2>1. sw.held = [p \in (Owned(s) \ {k}) \cup {k2} |->
                     IF p \in Owned(s) THEN s.held[p]
                     ELSE [paid |-> offers.price[p], sells |-> offers.price[p]]]
    BY <1>3, <1>8, SMTT(30) DEF AfterMoves, SquadFields
  <2>2. c.held = [p \in (Owned(sw) \ {o}) \cup {o2} |->
                    IF p \in Owned(sw) THEN sw.held[p]
                    ELSE [paid |-> offers.price[p], sells |-> offers.price[p]]]
    BY <1>1, <1>3, <1>8, ZenonT(40) DEF AfterMoves, SquadFields
  <2>3. a.held = [p \in (Owned(s) \ {k, o}) \cup {k2, o2} |->
                    IF p \in Owned(s) THEN s.held[p]
                    ELSE [paid |-> offers.price[p], sells |-> offers.price[p]]]
    BY <1>1, <1>2, <1>8 DEF AfterMoves, SquadFields
  <2>4. (Owned(s) \ {k, o}) \cup {k2, o2} = (Owned(sw) \ {o}) \cup {o2}
    BY <1>5, <1>7
  <2>5. ASSUME NEW p \in (Owned(s) \ {k, o}) \cup {k2, o2} PROVE a.held[p] = c.held[p]
    <3>1. CASE p \in Owned(s)
      <4>1. p # k /\ p # o /\ p \in Owned(sw)
        BY <1>5, <1>6, <2>5, <3>1
      <4>2. sw.held[p] = s.held[p]
        BY <1>5, <2>1, <3>1, <4>1
      <4>3. QED
        BY <2>2, <2>3, <2>4, <3>1, <4>1, <4>2
    <3>2. CASE p = k2
      <4>1. p \in Owned(sw) /\ p \notin Owned(s)
        BY <1>5, <1>6, <3>2
      <4>2. sw.held[p] = [paid |-> offers.price[p], sells |-> offers.price[p]]
        BY <1>5, <2>1, <4>1
      <4>3. QED
        BY <2>2, <2>3, <2>4, <4>1, <4>2
    <3>3. CASE p = o2
      <4>1. p \notin Owned(sw) /\ p \notin Owned(s)
        BY <1>5, <1>6, <3>3
      <4>2. QED
        BY <2>2, <2>3, <2>4, <4>1
    <3>4. QED
      BY <3>1, <3>2, <3>3
  <2>6. PICK X : X = (Owned(s) \ {k, o}) \cup {k2, o2}
    OBVIOUS
  <2>7. a.held = [p \in X |-> a.held[p]]
    BY <2>3, <2>6
  <2>8. c.held = [p \in X |-> c.held[p]]
    BY <2>2, <2>4, <2>6
  <2>9. \A p \in X : a.held[p] = c.held[p]
    BY <2>5, <2>6
  <2>10. [p \in X |-> a.held[p]] = [p \in X |-> c.held[p]]
    BY ONLY <2>9
  <2>11. QED
    BY <2>7, <2>8, <2>10
<1>11. a.bank = c.bank
  <2>1. SellingValue(a) = SellingValue(c)
    BY <1>7, <1>10, SameHeldSell
  <2>2. SquadValue(a) = SquadValue(s) /\ a.bank \in Int
    BY <1>1, <1>2, MovesKeepMoney
  <2>3. SquadValue(sw) = SquadValue(s)
    BY <1>4, MovesKeepMoney
  <2>4. SquadOK(c) /\ SquadValue(c) = SquadValue(sw)
    BY <1>1, MovesAreSound
  <2>5. PICK f : f = [p \in Owned(c) |-> c.held[p].sells]
    OBVIOUS
  <2>6. SellingValue(c) \in Nat
    BY <2>4, <2>5, SellingIsSum
  <2>7. c.bank \in Int
    BY <2>4, SquadFacts
  <2>8. a.bank + SellingValue(c) = c.bank + SellingValue(c)
    BY <2>1, <2>2, <2>3, <2>4 DEF SquadValue
  <2>9. PICK x, y, v : x = a.bank /\ y = c.bank /\ v = SellingValue(c)
    OBVIOUS
  <2>10. x \in Int /\ y \in Int /\ v \in Int /\ x + v = y + v
    BY <2>2, <2>6, <2>7, <2>8, <2>9
  <2>11. x = y
    BY ONLY <2>10
  <2>12. QED
    BY <2>9, <2>11
<1>12. Affordable(offers, s, m)
  <2>1. c.bank >= 0 /\ Clubs(offers, Owned(c))
    BY <1>1 DEF Affordable
  <2>2. QED
    BY <1>1, <1>7, <1>11, <2>1 DEF Affordable
<1>13. QED
  BY <1>1, <1>9, <1>12

\* Somebody is the dearest of some players, and somebody the cheapest.
LEMMA DearestExist ==
  ASSUME NEW offers, Marketable(offers), NEW S \in SUBSET Players, S # {}
  PROVE  Dearest(offers, S) \in S /\ Cheapest(offers, S) \in S
<1>1. IsFiniteSet(S) /\ S \in SUBSET Int /\ \A p \in S : offers.price[p] \in Int
  <2>1. offers.price \in [Players -> Nat]
    BY DEF Marketable
  <2>2. QED
    BY <2>1, PlayersAreFinite
<1> DEFINE up == [p \in S |-> {q \in S : \/ offers.price[q] > offers.price[p]
                                         \/ offers.price[q] = offers.price[p] /\ q < p}]
           down == [p \in S |-> {q \in S : \/ offers.price[q] < offers.price[p]
                                           \/ offers.price[q] = offers.price[p] /\ q < p}]
<1>2. PICK p \in S : up[p] = {}
  <2>1. /\ up \in [S -> SUBSET S] /\ \A x \in S : x \notin up[x]
        /\ \A x \in S : \A y \in up[x] : \A z \in up[y] : z \in up[x]
    BY <1>1
  <2> HIDE DEF up
  <2>2. QED
    BY <1>1, <2>1, SomebodyIsUnbeaten
<1>3. PICK r \in S : down[r] = {}
  <2>1. /\ down \in [S -> SUBSET S] /\ \A x \in S : x \notin down[x]
        /\ \A x \in S : \A y \in down[x] : \A z \in down[y] : z \in down[x]
    BY <1>1
  <2> HIDE DEF down
  <2>2. QED
    BY <1>1, <2>1, SomebodyIsUnbeaten
<1>4. \A q \in S : \/ offers.price[p] > offers.price[q]
                   \/ offers.price[p] = offers.price[q] /\ p <= q
  <2>1. \A q \in S : ~ \/ offers.price[q] > offers.price[p]
                       \/ offers.price[q] = offers.price[p] /\ q < p
    BY <1>2
  <2> HIDE DEF up, down
  <2>2. QED
    BY <1>1, <2>1
<1>5. \A q \in S : \/ offers.price[r] < offers.price[q]
                   \/ offers.price[r] = offers.price[q] /\ r <= q
  <2>1. \A q \in S : ~ \/ offers.price[q] < offers.price[r]
                       \/ offers.price[q] = offers.price[r] /\ q < r
    BY <1>3
  <2> HIDE DEF up, down
  <2>2. QED
    BY <1>1, <2>1
<1>6. Dearest(offers, S) \in S
  BY <1>4 DEF Dearest
<1>7. Cheapest(offers, S) \in S
  BY <1>5 DEF Cheapest
<1>8. QED
  BY <1>6, <1>7

\* The moves of one or two players at once, and what they win.
MovesOf(offers, s) ==
  UNION {[outs -> offers.onSale[1] \ Owned(s)] :
         outs \in kSubset(1, Owned(s)) \cup kSubset(2, Owned(s))}

Wins(offers, this, s, m, gain) ==
  /\ \A out \in DOMAIN m : PositionOf[m[out]] = PositionOf[out]
  /\ Cardinality(Range(m)) = Cardinality(DOMAIN m)
  /\ Affordable(offers, s, m)
  /\ gain <= Step(this, Begun(this, s), m, 1).net - HoldScore(this, s, 1)

LEMMA MovesWin ==
  ASSUME NEW offers, Marketable(offers), MarketFields \subseteq DOMAIN offers,
         NEW this, this = OneWeek(offers), NEW s, SquadOK(s),
         NEW m, Movable(s, m), Affordable(offers, s, m), Range(m) \subseteq offers.onSale[1],
         Cardinality(DOMAIN m) \in {1, 2}, Cardinality(Range(m)) = Cardinality(DOMAIN m),
         NEW gain, gain = LineupOf(AfterMoves(offers, s, m), offers.xp[1]).total
                            - LineupOf(s, offers.xp[1]).total - Cost(s, Cardinality(DOMAIN m))
  PROVE  m \in MovesOf(offers, s) /\ Wins(offers, this, s, m, gain)
<1>1. /\ Marketable(this) /\ Len(this.xp) = 1 /\ this.xp[1] = offers.xp[1]
      /\ this.onSale[1] = offers.onSale[1]
      /\ this.price = offers.price /\ this.club = offers.club
  BY OneWeekIsMarketable
<1>2. m \in [DOMAIN m -> offers.onSale[1] \ Owned(s)]
  <2>1. DOMAIN m \subseteq Owned(s) /\ m \in [DOMAIN m -> Players \ Owned(s)]
    BY DEF Movable
  <2>2. \A x \in DOMAIN m : m[x] \in offers.onSale[1]
    BY DEF Range
  <2>3. \A x \in DOMAIN m : m[x] \in offers.onSale[1] \ Owned(s)
    BY <2>1, <2>2
  <2>4. QED
    BY <2>1, <2>3
<1>3. DOMAIN m \in kSubset(1, Owned(s)) \cup kSubset(2, Owned(s))
  BY DEF Movable, kSubset
<1>4. m \in MovesOf(offers, s)
  BY <1>2, <1>3 DEF MovesOf
<1>5. PICK b, q : b = Begun(this, s) /\ q = Step(this, b, m, 1)
  OBVIOUS
<1>6. Movable(b, m) /\ Affordable(this, b, m)
  BY <1>5, BegunMovesAlike
<1>7. WeekMoves(this, JustThisWeek, b, m, 1)
  BY <1>1, <1>6 DEF WeekMoves, JustThisWeek
<1>8. /\ q.net = LineupOf(AfterMoves(offers, s, m), offers.xp[1]).total
                   - Cost(s, Cardinality(DOMAIN m))
      /\ m \in Made
  BY <1>5, <1>7, FirstStepEarns
<1>9. PICK total, before, c : /\ total = LineupOf(AfterMoves(offers, s, m), offers.xp[1]).total
                              /\ before = LineupOf(s, offers.xp[1]).total
                              /\ c = Cost(s, Cardinality(DOMAIN m))
  OBVIOUS
<1>10. total \in Int /\ before \in Int /\ c \in Int
  <2>1. SquadOK(AfterMoves(offers, s, m))
    BY MovesAreSound
  <2>2. total \in Int /\ before \in Int
    BY <1>9, <2>1, LineupTotal, WeeksAreFinite
  <2>3. Over(Cardinality(DOMAIN m), s.free) \in Nat
    BY FreeAdvances, SquadFacts
  <2>4. c \in Int
    BY <1>9, <2>3, PlayersAssumption DEF Cost
  <2>5. QED
    BY <2>2, <2>4
<1>11. HoldScore(this, s, 1) = before
  BY <1>1, <1>9, OneWeekHolds
<1>12. gain = total - before - c /\ q.net = total - c
  BY <1>8, <1>9
<1>13. gain <= q.net - HoldScore(this, s, 1)
  BY <1>10, <1>11, <1>12
<1>14. \A out \in DOMAIN m : PositionOf[m[out]] = PositionOf[out]
  BY DEF Movable
<1>15. QED
  BY <1>4, <1>5, <1>13, <1>14 DEF Wins

\* Every squad has goalkeepers.
LEMMA KeepersAreOwned ==
  ASSUME NEW s, SquadOK(s)
  PROVE  Keepers(Owned(s)) # {} /\ Keepers(Owned(s)) \in SUBSET Players
<1>1. Filled(Owned(s)) /\ Owned(s) \in SUBSET Players
  BY SquadFacts
<1>2. Cardinality(OfPosition(Owned(s), "GK")) = 2
  BY <1>1 DEF Filled, Positions, PositionCounts
<1>3. OfPosition(Owned(s), "GK") # {}
  BY <1>2, FS_EmptySet
<1>4. QED
  BY <1>1, <1>3 DEF OfPosition, Keepers

\* The swap of goalkeepers of an audit.
Swap(k, k2) == [x \in {k} |-> k2]

LEMMA SwapsKeepers ==
  ASSUME NEW offers, Marketable(offers), NEW s, SquadOK(s),
         NEW targets \in SUBSET (Players \ Owned(s)), KeeperAuditApplies(offers, s, targets)
  PROVE  \E k \in Owned(s), k2 \in targets :
           /\ KeeperSwap(offers, s, targets) = Swap(k, k2)
           /\ PositionOf[k] = "GK" /\ PositionOf[k2] = "GK"
           /\ Movable(s, Swap(k, k2)) /\ Affordable(offers, s, Swap(k, k2))
<1>1. Keepers(targets) # {} /\ Keepers(targets) \in SUBSET Players
  BY DEF KeeperAuditApplies, Keepers
<1>2. PICK k, k2 : k = Dearest(offers, Keepers(Owned(s))) /\ k2 = Cheapest(offers, Keepers(targets))
  OBVIOUS
<1>3. k \in Keepers(Owned(s)) /\ k2 \in Keepers(targets)
  BY <1>1, <1>2, KeepersAreOwned, DearestExist
<1>4. KeeperSwap(offers, s, targets) = Swap(k, k2)
  BY <1>2 DEF KeeperSwap, Swap
<1>5. Affordable(offers, s, Swap(k, k2))
  BY <1>4 DEF KeeperAuditApplies
<1>6. k \in Owned(s) /\ k2 \in targets /\ PositionOf[k] = "GK" /\ PositionOf[k2] = "GK"
  BY <1>3 DEF Keepers
<1>7. Movable(s, Swap(k, k2))
  BY <1>6 DEF Movable, OneToOne, Swap
<1>8. QED
  BY <1>4, <1>5, <1>6, <1>7

\* What an audit promises, given the squad after its swap and the transfer that follows.
Audited(offers, s, sw, best, used) ==
  LineupOf(AfterMoves(offers, sw, best), offers.xp[1]).total
    - LineupOf(s, offers.xp[1]).total - Cost(s, used)

LEMMA AuditIsSwapAndBest ==
  ASSUME NEW offers, Marketable(offers), NEW s, SquadOK(s),
         NEW targets, NEW sw, sw = AfterMoves(offers, s, KeeperSwap(offers, s, targets)),
         SquadOK(sw), sw.free = s.free,
         NEW rest, rest = {p \in targets : PositionOf[p] # "GK"},
         rest \in SUBSET (Players \ Owned(sw))
  PROVE  \/ KeeperAudit(offers, s, targets, 1) = Audited(offers, s, sw, <<>>, 1)
         \/ \E m \in SingleTransfers(offers, sw, rest) :
              KeeperAudit(offers, s, targets, 1) = Audited(offers, s, sw, m, 2)
<1>1. PICK gain : gain = SingleGain(offers, sw, rest, 1)
  OBVIOUS
<1>2. IsBestGain(offers, sw, rest, 1, gain)
  BY <1>1, SingleGainIsBest, WeeksAreFinite
<1>3. PICK best : best = IF gain = 0 THEN <<>>
        ELSE CHOOSE m \in ({<<>>} \cup {m \in SingleTransfers(offers, sw, rest) :
                    LineupOf(AfterMoves(offers, sw, m), offers.xp[1]).total
                      - LineupOf(sw, offers.xp[1]).total - Cost(s, 1) = gain}) \ {<<>>} : TRUE
  OBVIOUS
<1>4. KeeperAudit(offers, s, targets, 1)
        = Audited(offers, s, sw, best, IF best = <<>> THEN 1 ELSE 2)
  BY <1>1, <1>3 DEF KeeperAudit, Audited
<1>5. CASE gain = 0
  BY <1>3, <1>4, <1>5
<1>6. CASE gain # 0
  <2> DEFINE options == {m \in SingleTransfers(offers, sw, rest) :
                    LineupOf(AfterMoves(offers, sw, m), offers.xp[1]).total
                      - LineupOf(sw, offers.xp[1]).total - Cost(s, 1) = gain}
             winners == ({<<>>} \cup options) \ {<<>>}
  <2>1. best = CHOOSE m \in winners : TRUE
    BY <1>3, <1>6
  <2>2. PICK m \in SingleTransfers(offers, sw, rest) : Won(offers, sw, m, 1) = gain
    BY <1>2, <1>6 DEF IsBestGain
  <2>3. Cost(sw, 1) = Cost(s, 1)
    BY DEF Cost
  <2>4. m \in options
    BY <2>2, <2>3 DEF Won
  <2>5. m # <<>>
    <3>1. PICK out \in Owned(sw) : m \in [{out} -> rest]
      BY <2>2 DEF SingleTransfers, SingleMoves
    <3>2. DOMAIN m # {}
      BY ONLY <3>1
    <3>3. QED
      BY ONLY <3>2
  <2>6. m \in winners
    BY <2>4, <2>5
  <2> HIDE DEF winners
  <2>7. best \in winners
    BY <2>1, <2>6
  <2>8. best \in SingleTransfers(offers, sw, rest) /\ best # <<>>
    BY <2>7 DEF winners
  <2>9. QED
    BY <1>4, <2>8
<1>7. QED
  BY <1>5, <1>6

\* The lineup looks at who is in which slot.
LEMMA SameOrderLineup ==
  ASSUME NEW a, NEW c, a.order = c.order, NEW xp
  PROVE  LineupOf(a, xp) = LineupOf(c, xp)
<1>1. PICK o, o2 : o = a.order /\ o2 = c.order /\ o = o2
  OBVIOUS
<1>2. /\ Places(a) = [i \in Slots |-> PositionOf[o[i]]]
      /\ Places(c) = [i \in Slots |-> PositionOf[o2[i]]]
      /\ Expected(a, xp) = [i \in Slots |-> xp[o[i]]]
      /\ Expected(c, xp) = [i \in Slots |-> xp[o2[i]]]
  BY <1>1 DEF Places, Expected
<1>3. Places(a) = Places(c) /\ Expected(a, xp) = Expected(c, xp)
  BY <1>1, <1>2
<1>4. QED
  BY <1>3 DEF LineupOf

\* What an audit that stays with the swap promises is what the swap wins.
LEMMA SwapAloneWins ==
  ASSUME NEW offers, Marketable(offers), MarketFields \subseteq DOMAIN offers,
         NEW this, this = OneWeek(offers), NEW s, SquadOK(s),
         NEW k \in Owned(s), NEW k2 \in offers.onSale[1] \ Owned(s),
         Movable(s, Swap(k, k2)), Affordable(offers, s, Swap(k, k2)),
         NEW sw, sw = AfterMoves(offers, s, Swap(k, k2)), SquadOK(sw),
         NEW gain, gain = Audited(offers, s, sw, <<>>, 1)
  PROVE  \E m \in MovesOf(offers, s) : Wins(offers, this, s, m, gain)
<1>1. PICK m : m = Swap(k, k2)
  OBVIOUS
<1>2. DOMAIN m = {k} /\ Range(m) = {k2}
  BY <1>1 DEF Swap, Range
<1>3. Cardinality(DOMAIN m) = 1 /\ Cardinality(Range(m)) = 1
  BY <1>2, FS_Singleton
<1>4. SquadOK(AfterMoves(offers, sw, <<>>)) /\ Owned(AfterMoves(offers, sw, <<>>)) = Owned(sw)
  BY NothingMoves, NoMovesChangeNothing
<1>5. PICK t : t = AfterMoves(offers, sw, <<>>) /\ SquadOK(t) /\ Owned(t) = Owned(sw)
  BY <1>4
<1>6. 1 \in Horizon(offers)
  BY WeeksAreFinite
<1>7. LineupOf(t, offers.xp[1]).total = LineupOf(sw, offers.xp[1]).total
  BY <1>5, <1>6, SamePlayersHold
<1>8. gain = LineupOf(AfterMoves(offers, s, m), offers.xp[1]).total
               - LineupOf(s, offers.xp[1]).total - Cost(s, Cardinality(DOMAIN m))
  BY <1>1, <1>3, <1>5, <1>7 DEF Audited
<1>9. /\ Movable(s, m) /\ Affordable(offers, s, m) /\ Range(m) \subseteq offers.onSale[1]
      /\ Cardinality(DOMAIN m) \in {1, 2} /\ Cardinality(Range(m)) = Cardinality(DOMAIN m)
  BY <1>1, <1>2, <1>3
<1>10. m \in MovesOf(offers, s) /\ Wins(offers, this, s, m, gain)
  BY <1>8, <1>9, MovesWin
<1>11. QED
  BY <1>10

\* What it promises with a transfer after the swap is what both win at once.
LEMMA SwapAndTransferWin ==
  ASSUME NEW offers, Marketable(offers), MarketFields \subseteq DOMAIN offers,
         NEW this, this = OneWeek(offers), NEW s, SquadOK(s),
         NEW k \in Owned(s), NEW k2 \in offers.onSale[1] \ Owned(s),
         PositionOf[k] = "GK", PositionOf[k2] = "GK",
         Movable(s, Swap(k, k2)),
         NEW sw, sw = AfterMoves(offers, s, Swap(k, k2)), SquadOK(sw),
         NEW rest, rest \in SUBSET (offers.onSale[1] \ Owned(s)),
         rest \in SUBSET (Players \ Owned(sw)),
         \A p \in rest : PositionOf[p] # "GK",
         NEW m2 \in SingleTransfers(offers, sw, rest),
         NEW gain, gain = Audited(offers, s, sw, m2, 2)
  PROVE  \E m \in MovesOf(offers, s) : Wins(offers, this, s, m, gain)
<1>0. SquadOK(sw) /\ rest \in SUBSET (Players \ Owned(sw))
      /\ m2 \in SingleTransfers(offers, sw, rest)
  OBVIOUS
<1>1. PICK o \in Owned(sw) : m2 \in [{o} -> rest] /\ PositionOf[m2[o]] = PositionOf[o]
  <2>1. m2 \in SingleMoves(offers, sw, rest)
        /\ \A o \in DOMAIN m2 : PositionOf[m2[o]] = PositionOf[o]
    BY <1>0 DEF SingleTransfers
  <2>2. PICK o \in Owned(sw) : m2 \in [{o} -> rest]
    BY <2>1 DEF SingleMoves
  <2>3. PositionOf[m2[o]] = PositionOf[o]
    BY <2>1, <2>2
  <2>4. QED
    BY <2>2, <2>3
<1>2. PICK o2 \in rest : o2 = m2[o]
  BY <1>1
<1>3. Owned(sw) = (Owned(s) \ {k}) \cup {k2} /\ k2 \in Players
  <2>1. DOMAIN Swap(k, k2) = {k} /\ Range(Swap(k, k2)) = {k2}
    BY DEF Swap, Range
  <2>2. Owned(sw) = (Owned(s) \ DOMAIN Swap(k, k2)) \cup Range(Swap(k, k2))
    BY MovesField
  <2>3. SquadOK(sw) /\ Owned(sw) \in SUBSET Players
    BY SquadFacts
  <2>4. QED
    BY <2>1, <2>2, <2>3
<1>4. InTurn(s, k, k2, o, o2)
  BY <1>1, <1>2, <1>3 DEF InTurn
<1>5. PICK one : one = [x \in {k} |-> k2]
  OBVIOUS
<1>6. m2 = [x \in {o} |-> o2]
  BY <1>1, <1>2
<1>7. sw = AfterMoves(offers, s, one)
  BY <1>5 DEF Swap
<1>8. Movable(sw, m2) /\ Affordable(offers, sw, m2)
  BY ONLY <1>0, SinglesAreMovable
<1>9. PICK m : m = AtOnce(k, k2, o, o2)
  OBVIOUS
<1>10. /\ Affordable(offers, s, m)
       /\ AfterMoves(offers, s, m).order = AfterMoves(offers, sw, m2).order
  <2>1. Marketable(offers) /\ SquadOK(s) /\ SquadOK(sw)
    OBVIOUS
  <2>2. QED
    BY ONLY <2>1, <1>4, <1>5, <1>6, <1>7, <1>8, <1>9, AtOnceIsInTurn
<1>11. Movable(s, m) /\ DOMAIN m = {k, o} /\ Range(m) = {k2, o2}
  <2>1. Movable(s, m)
    BY ONLY <1>4, <1>9, TwoMovesAtOnce
  <2>2. DOMAIN m = {k, o}
    BY <1>9 DEF AtOnce
  <2>3. m[k] = k2 /\ m[o] = o2
    BY <1>4, <1>9 DEF AtOnce, InTurn
  <2>4. Range(m) = {k2, o2}
    BY <2>2, <2>3 DEF Range
  <2>5. QED
    BY <2>1, <2>2, <2>4
<1>12. Cardinality(DOMAIN m) = 2 /\ Cardinality(Range(m)) = 2
  <2>1. k # o /\ k2 # o2
    BY <1>4 DEF InTurn
  <2>2. Cardinality({k, o}) = 2 /\ Cardinality({k2, o2}) = 2
    BY ONLY <2>1, TwoThings
  <2>3. QED
    BY <1>11, <2>2
<1>13. LineupOf(AfterMoves(offers, s, m), offers.xp[1])
         = LineupOf(AfterMoves(offers, sw, m2), offers.xp[1])
  BY <1>10, SameOrderLineup
<1>14. gain = LineupOf(AfterMoves(offers, s, m), offers.xp[1]).total
                - LineupOf(s, offers.xp[1]).total - Cost(s, Cardinality(DOMAIN m))
  BY <1>12, <1>13 DEF Audited
<1>15. /\ Range(m) \subseteq offers.onSale[1]
       /\ Cardinality(DOMAIN m) \in {1, 2} /\ Cardinality(Range(m)) = Cardinality(DOMAIN m)
  BY <1>2, <1>11, <1>12
<1>16. m \in MovesOf(offers, s) /\ Wins(offers, this, s, m, gain)
  BY <1>10, <1>11, <1>14, <1>15, MovesWin
<1>17. QED
  BY <1>16

\* What the audit promises, one move or two at once win.
LEMMA AuditIsPossible ==
  ASSUME NEW offers, Marketable(offers), MarketFields \subseteq DOMAIN offers,
         NEW this, this = OneWeek(offers), NEW s, SquadOK(s),
         NEW targets, targets = offers.onSale[1] \ Owned(s),
         KeeperAuditApplies(offers, s, targets)
  PROVE  \E m \in MovesOf(offers, s) :
           Wins(offers, this, s, m, KeeperAudit(offers, s, targets, 1))
<1>1. targets \in SUBSET (Players \ Owned(s))
  <2>1. 1 \in Horizon(offers) /\ Horizon(offers) = 1 .. Len(offers.xp)
    BY WeeksAreFinite
  <2>2. offers.onSale[1] \in SUBSET Players
    BY <2>1 DEF Marketable
  <2>3. QED
    BY <2>2
<1>2. PICK k \in Owned(s), k2 \in targets :
        /\ KeeperSwap(offers, s, targets) = Swap(k, k2)
        /\ PositionOf[k] = "GK" /\ PositionOf[k2] = "GK"
        /\ Movable(s, Swap(k, k2)) /\ Affordable(offers, s, Swap(k, k2))
  BY <1>1, SwapsKeepers
<1>3. PICK sw : sw = AfterMoves(offers, s, Swap(k, k2))
  OBVIOUS
<1>4. SquadOK(sw)
  BY <1>2, <1>3, MovesAreSound
<1>5. sw.free = s.free /\ Owned(sw) = (Owned(s) \ {k}) \cup {k2}
  <2>1. /\ \A x \in DOMAIN s \ {"order", "held", "bank"} : sw[x] = s[x]
        /\ Owned(sw) = (Owned(s) \ DOMAIN Swap(k, k2)) \cup Range(Swap(k, k2))
    <3>1. SquadOK(s) /\ Movable(s, Swap(k, k2))
      BY <1>2
    <3>2. QED
      BY ONLY <3>1, <1>3, MovesField
  <2>2. "free" \in DOMAIN s
    BY DEF SquadOK, SquadFields
  <2>3. DOMAIN Swap(k, k2) = {k} /\ Range(Swap(k, k2)) = {k2}
    BY DEF Swap, Range
  <2>4. QED
    BY <2>1, <2>2, <2>3
<1>6. PICK rest : rest = {p \in targets : PositionOf[p] # "GK"}
  OBVIOUS
<1>7. rest \in SUBSET (Players \ Owned(sw))
  BY <1>1, <1>2, <1>5, <1>6
<1>8. PICK gain : gain = KeeperAudit(offers, s, targets, 1)
  OBVIOUS
<1>9. sw = AfterMoves(offers, s, KeeperSwap(offers, s, targets))
  BY <1>2, <1>3
<1>10. \/ gain = Audited(offers, s, sw, <<>>, 1)
       \/ \E m \in SingleTransfers(offers, sw, rest) : gain = Audited(offers, s, sw, m, 2)
  BY <1>4, <1>5, <1>6, <1>7, <1>8, <1>9, AuditIsSwapAndBest
<1>11. k2 \in offers.onSale[1] \ Owned(s)
  BY <1>2
<1>12. CASE gain = Audited(offers, s, sw, <<>>, 1)
  <2>1. \E m \in MovesOf(offers, s) : Wins(offers, this, s, m, gain)
    BY <1>2, <1>3, <1>4, <1>11, <1>12, SwapAloneWins
  <2>2. QED
    BY <1>8, <2>1
<1>13. ASSUME NEW m \in SingleTransfers(offers, sw, rest), gain = Audited(offers, s, sw, m, 2)
       PROVE  \E mm \in MovesOf(offers, s) : Wins(offers, this, s, mm, gain)
  <2>1. rest \in SUBSET (offers.onSale[1] \ Owned(s)) /\ \A p \in rest : PositionOf[p] # "GK"
    BY <1>6
  <2>2. QED
    BY <1>2, <1>3, <1>4, <1>7, <1>11, <1>13, <2>1, SwapAndTransferWin
<1>14. QED
  BY <1>8, <1>10, <1>12, <1>13

-----------------------------------------------------------------------------
(* Planning and advice of the state machine. *)

\* After every week the beam does as well as every path, when it has room for them.
PathsAreKept ==
  task.kind = "plan" =>
    /\ task.options \in Options
    /\ KeepsPaths(market, squad, task.options, task.plans, task.week - 1)

LEMMA PathsBegin ==
  ASSUME StackInv, NEW options \in Options, StartPlan(options)
  PROVE  PathsAreKept'
<1>1. /\ squad # NoSquad /\ UNCHANGED <<market, squad>>
      /\ task' = [kind |-> "plan", options |-> options, week |-> 1,
                  plans |-> {Begun(market, squad)}]
  BY DEF StartPlan
<1>2. SquadOK(squad) /\ Marketable(market)
  BY <1>1, MarketsAreMarketable DEF StackInv, SquadsAreOK
<1>3. KeepsPaths(market, squad, options, {Begun(market, squad)}, 0)
  BY <1>2, BegunKeepsPaths
<1>4. task'.options = options /\ task'.plans = {Begun(market, squad)} /\ task'.week - 1 = 0
  BY <1>1
<1>5. QED
  BY <1>1, <1>3, <1>4 DEF PathsAreKept

LEMMA PathsContinue ==
  ASSUME StackInv, PathsAreKept, PlanGameweek
  PROVE  PathsAreKept'
<1>1. /\ task.kind = "plan" /\ task.week <= Len(market.xp) /\ UNCHANGED <<market, squad>>
      /\ task' = [task EXCEPT !.week = @ + 1,
                              !.plans = PlanWeek(market, @, task.options, task.week)]
  BY DEF PlanGameweek
<1>2. /\ SquadOK(squad) /\ Marketable(market)
      /\ task = [kind |-> "plan", options |-> task.options, week |-> task.week,
                 plans |-> task.plans]
      /\ task.week \in 1 .. Len(market.xp) + 1
  BY <1>1, MarketsAreMarketable DEF StackInv, SquadsAreOK, PlansAreOK
<1>3. /\ task'.options = task.options /\ task'.week = task.week + 1
      /\ task'.plans = PlanWeek(market, task.plans, task.options, task.week)
  BY <1>1, <1>2
<1>4. PICK n, plans, options :
        n = task.week - 1 /\ plans = task.plans /\ options = task.options
  OBVIOUS
<1>5. Len(market.xp) \in Nat /\ Horizon(market) = 1 .. Len(market.xp)
  BY <1>2, WeeksAreFinite
<1>6. n \in Nat /\ n + 1 \in Horizon(market) /\ n + 1 = task.week /\ task'.week - 1 = n + 1
  BY <1>1, <1>2, <1>3, <1>4, <1>5
<1>7. options \in Options /\ KeepsPaths(market, squad, options, plans, n)
  BY <1>1, <1>4 DEF PathsAreKept
<1>8. options.beam \in Nat \ {0}
  BY <1>7, RequestsAssumption
<1>9. KeepsPaths(market, squad, options, PlanWeek(market, plans, options, n + 1), n + 1)
  BY <1>2, <1>6, <1>7, <1>8, WeekKeepsPaths
<1>10. QED
  BY <1>1, <1>3, <1>4, <1>6, <1>7, <1>9 DEF PathsAreKept

\* Advice is as good as the planner's week, and an audit's promise can be won.
AdviceIsSound ==
  task.kind = "advice" =>
    /\ AdviceCovers(OneWeek(market), squad, task.gain)
    /\ \A gain \in task.audits :
         \E m \in MovesOf(market, squad) : Wins(market, OneWeek(market), squad, m, gain)

LEMMA AdviceIsGiven ==
  ASSUME StackInv, AdviseTransfer
  PROVE  AdviceIsSound'
<1>1. squad # NoSquad /\ UNCHANGED <<market, squad>>
  BY DEF AdviseTransfer
<1>2. SquadOK(squad) /\ Marketable(market) /\ MarketFields \subseteq DOMAIN market
  BY <1>1, MarketsAreMarketable DEF StackInv, SquadsAreOK
<1>3. PICK targets, this : targets = market.onSale[1] \ Owned(squad) /\ this = OneWeek(market)
  OBVIOUS
<1>4. PICK gain, audits :
        /\ gain = SingleGain(market, squad, targets, 1)
        /\ audits = {KeeperAudit(market, squad, targets, 1) :
                       t \in {u \in {targets} : KeeperAuditApplies(market, squad, u)}}
        /\ task' = [kind |-> "advice", gain |-> gain, audits |-> audits]
  BY <1>3 DEF AdviseTransfer
<1>5. AdviceCovers(this, squad, gain)
  BY <1>2, <1>3, <1>4, AdviceIsBest
<1>6. ASSUME NEW won \in audits
      PROVE  \E m \in MovesOf(market, squad) : Wins(market, this, squad, m, won)
  <2>1. won = KeeperAudit(market, squad, targets, 1) /\ KeeperAuditApplies(market, squad, targets)
    BY <1>4, <1>6
  <2>2. \E m \in MovesOf(market, squad) :
          Wins(market, this, squad, m, KeeperAudit(market, squad, targets, 1))
    BY <1>2, <1>3, <2>1, AuditIsPossible
  <2>3. QED
    BY <2>1, <2>2
<1>7. task'.gain = gain /\ task'.audits = audits
  BY <1>4
<1>8. QED
  BY <1>1, <1>3, <1>5, <1>6, <1>7 DEF AdviceIsSound

\* The paths that PlanningPays speaks of are those that the beam keeps.
LEMMA RoomForPaths ==
  ASSUME Marketable(market), NEW options
  PROVE  /\ HoldsAllPaths(options) <=> Wide(market, squad, options)
         /\ Paths(options, Len(market.xp)) = PathsOf(market, squad, options, Len(market.xp))
<1>1. Horizon(market) = 1 .. Len(market.xp) /\ Len(market.xp) \in Nat
  BY WeeksAreFinite
<1>2. \A n \in Horizon(market) : n \in Nat
  BY <1>1
<1>3. \A n \in Nat : Paths(options, n) = PathsOf(market, squad, options, n)
  BY PathsAreFold
<1>4. QED
  BY <1>1, <1>2, <1>3 DEF HoldsAllPaths, Wide

LEMMA PathsPay ==
  ASSUME StackInv, PathsAreKept, task.kind = "plan", task.week > Len(market.xp),
         HoldsAllPaths(task.options), NEW p \in Paths(task.options, Len(market.xp))
  PROVE  Objective(p) <= Objective(Recommended(task.plans))
<1>1. /\ SquadOK(squad) /\ Marketable(market)
      /\ task.week \in 1 .. Len(market.xp) + 1
  BY MarketsAreMarketable DEF StackInv, SquadsAreOK, PlansAreOK
<1>2. task.week - 1 = Len(market.xp)
  <2>1. Len(market.xp) \in Nat
    BY <1>1, WeeksAreFinite
  <2>2. task.week > Len(market.xp)
    OBVIOUS
  <2>3. QED
    BY ONLY <1>1, <2>1, <2>2
<1>3. PICK options, plans : options = task.options /\ plans = task.plans
  OBVIOUS
<1>4. KeepsPaths(market, squad, options, plans, Len(market.xp))
  BY <1>2, <1>3 DEF PathsAreKept
<1>5. /\ Wide(market, squad, options)
      /\ p \in PathsOf(market, squad, options, Len(market.xp))
  BY <1>1, <1>3, RoomForPaths
<1>6. QED
  BY <1>1, <1>3, <1>4, <1>5, NothingBetterWasCut

\* Planning is never worse than holding, gives nothing up when the beam has room for every
\* path, and what advice of a single week promises can be won: the property of the run, for
\* every release, every squad and every beam.
THEOREM PlanningAlwaysPays == Spec => []PlanningPays
<1>1. Init => PathsAreKept /\ AdviceIsSound
  BY DEF Init, Idle, PathsAreKept, AdviceIsSound
<1>2. StackInv /\ PathsAreKept /\ AdviceIsSound /\ [Next]_vars => PathsAreKept' /\ AdviceIsSound'
  <2>1. PathsAreKept /\ AdviceIsSound /\ UNCHANGED vars => PathsAreKept' /\ AdviceIsSound'
    BY DEF PathsAreKept, AdviceIsSound, vars
  <2>2. ASSUME StackInv, PathsAreKept, AdviceIsSound, Next PROVE PathsAreKept' /\ AdviceIsSound'
    <3>1. task'.kind = "plan" => PathsAreKept'
      BY <2>2, TasksBegin, PathsBegin, PathsContinue
    <3>2. task'.kind # "plan" => PathsAreKept'
      BY DEF PathsAreKept
    <3>3. task'.kind = "advice" => AdviceIsSound'
      BY <2>2, TasksBegin, AdviceIsGiven
    <3>4. task'.kind # "advice" => AdviceIsSound'
      BY DEF AdviceIsSound
    <3>5. QED
      BY <3>1, <3>2, <3>3, <3>4
  <2>3. QED
    BY <2>1, <2>2
<1>3. StackInv /\ PathsAreKept /\ AdviceIsSound /\ PlanningNeverLoses => PlanningPays
  <2>1. SUFFICES ASSUME StackInv, PathsAreKept, AdviceIsSound, PlanningNeverLoses
                 PROVE  PlanningPays
    OBVIOUS
  <2>2. ASSUME task.kind = "plan", task.week > Len(market.xp)
        PROVE  /\ Objective(Recommended(task.plans)) >= Objective(Holding(market, squad))
               /\ HoldsAllPaths(task.options) =>
                    \A p \in Paths(task.options, Len(market.xp)) :
                      Objective(p) <= Objective(Recommended(task.plans))
    BY <2>1, <2>2, PathsPay DEF PlanningNeverLoses
  <2>3. ThisWeek = OneWeek(market) /\ UpToTwoMoves = MovesOf(market, squad)
    BY DEF ThisWeek, OneWeek, UpToTwoMoves, MovesOf
  <2>4. ASSUME task.kind = "advice"
        PROVE  \A plan \in Expanded(ThisWeek, {Begun(ThisWeek, squad)},
                               [forced |-> {}, protected |-> {}, excluded |-> {},
                                lens |-> Cardinality(Players), pairs |-> FALSE], 1) :
                 plan.net <= HoldScore(ThisWeek, squad, 1) + task.gain
    BY <2>1, <2>3, <2>4 DEF AdviceIsSound, AdviceCovers, JustThisWeek
  <2>5. ASSUME task.kind = "advice", NEW gain \in task.audits
        PROVE  \E m \in UpToTwoMoves :
                 /\ \A out \in DOMAIN m : PositionOf[m[out]] = PositionOf[out]
                 /\ Cardinality(Range(m)) = Cardinality(DOMAIN m)
                 /\ Affordable(market, squad, m)
                 /\ gain <= Step(ThisWeek, Begun(ThisWeek, squad), m, 1).net
                              - HoldScore(ThisWeek, squad, 1)
    BY <2>1, <2>3, <2>5 DEF AdviceIsSound, Wins
  <2>6. QED
    BY <2>2, <2>4, <2>5 DEF PlanningPays
<1>4. QED
  BY <1>1, <1>2, <1>3, StackIsInvariant, PlanningIsNeverWorse, PTL DEF Spec

-----------------------------------------------------------------------------
(* What a partial squad records. *)

\* Picks of a position come in the order of their numbers.
Rising(ids, n) ==
  \A j, k \in 1 .. n : j < k /\ PositionOf[ids[j]] = PositionOf[ids[k]] => ids[j] < ids[k]

\* A partial squad of n picks from the lenses, and what they promise.
Recorded(offers, rules, s, n) ==
  /\ Picked(offers, rules, s, n) /\ Rising(s.ids, n)
  /\ Range(s.ids) \in SUBSET CandidateIds(offers, rules)
  /\ s = [ids |-> s.ids, cost |-> s.cost, proxy |-> s.proxy]
  /\ s.proxy = Sum(Outlook(offers, 1), rules.locked \cup Range(s.ids))

LEMMA CandidatesArePlayers ==
  ASSUME NEW offers, NEW rules, Lockable(rules)
  PROVE  CandidateIds(offers, rules) \in SUBSET Players
  BY CandidatesAreCommon DEF Lockable, Common

LEMMA SeedIsRecorded ==
  ASSUME NEW offers, NEW rules, Accepts(offers, rules)
  PROVE  Recorded(offers, rules, Seed(offers, rules), 0)
<1>1. Picked(offers, rules, Seed(offers, rules), 0)
  BY SeedIsPicked
<1>2. /\ Seed(offers, rules) = [ids |-> <<>>, cost |-> CostOf(offers, rules.locked),
                               proxy |-> Points(Outlook(offers, 1), rules.locked)]
      /\ Range(<<>>) = {} /\ 1 .. 0 = {} /\ rules.locked \cup {} = rules.locked
  BY DEF Seed, Range
<1>3. /\ Seed(offers, rules).ids = <<>>
      /\ Seed(offers, rules).cost = CostOf(offers, rules.locked)
      /\ Seed(offers, rules).proxy = Sum(Outlook(offers, 1), rules.locked)
  BY <1>2, PointsAreSums
<1>4. QED
  BY <1>1, <1>2, <1>3, PointsAreSums DEF Recorded, Rising

\* Whoever fits is recorded.
LEMMA ExtendedAreRecorded ==
  ASSUME NEW offers, Marketable(offers), NEW rules, Lockable(rules), rules.budget \in Nat,
         NEW n \in Nat, n < Len(OpenSlots(rules)),
         NEW partials, \A s \in partials : Recorded(offers, rules, s, n),
         NEW t \in Extended(offers, rules, CandidateIds(offers, rules), partials,
                            OpenSlots(rules)[n + 1])
  PROVE  Recorded(offers, rules, t, n + 1)
<1> DEFINE cands == CandidateIds(offers, rules)
           q == OpenSlots(rules)[n + 1]
<1>1. Picked(offers, rules, t, n + 1)
  <2>1. \A s \in partials : Picked(offers, rules, s, n)
    BY DEF Recorded
  <2>2. QED
    BY <2>1, ExtendedPicks
<1>2. PICK s \in partials, p \in OfPosition(cands, q) :
        /\ Fits(offers, rules, cands, s, p)
        /\ t = [ids |-> Append(s.ids, p), cost |-> s.cost + offers.price[p],
                proxy |-> s.proxy + Outlook(offers, 1)[p]]
  BY DEF Extended
<1>3. Recorded(offers, rules, s, n)
  BY <1>2
<1>4. p \in cands /\ p \in Players /\ PositionOf[p] = q
  BY <1>2, CandidatesArePlayers DEF OfPosition
<1>5. /\ p \notin rules.locked \cup Range(s.ids)
      /\ \A r \in OfPosition(Range(s.ids), PositionOf[p]) : p > r
  BY <1>2 DEF Fits
<1>6. PICK ids, all : ids = s.ids /\ all = Append(ids, p)
  OBVIOUS
<1>7. t.ids = all /\ t.proxy = s.proxy + Outlook(offers, 1)[p]
      /\ t = [ids |-> t.ids, cost |-> t.cost, proxy |-> t.proxy]
  BY <1>2, <1>6
<1>8. ids \in Seq(Players) /\ Len(ids) = n /\ DOMAIN ids = 1 .. n
  BY <1>3, <1>6, LenProperties DEF Recorded, Picked
<1>9. /\ \A k \in 1 .. n : all[k] = ids[k]
      /\ all[n + 1] = p /\ Range(all) = Range(ids) \cup {p}
  BY <1>4, <1>6, <1>8, Appended
<1>10. Rising(all, n + 1)
  <2>1. ASSUME NEW j \in 1 .. n + 1, NEW k \in 1 .. n + 1, j < k,
               PositionOf[all[j]] = PositionOf[all[k]]
        PROVE  all[j] < all[k]
    <3>1. CASE k \in 1 .. n
      <4>1. j \in 1 .. n
        BY <2>1, <3>1
      <4>2. QED
        BY <1>3, <1>6, <1>9, <2>1, <3>1, <4>1 DEF Recorded, Rising
    <3>2. CASE k = n + 1
      <4>1. j \in 1 .. n
        BY <2>1, <3>2
      <4>2. all[j] = ids[j] /\ all[k] = p /\ ids[j] \in Range(ids)
        BY <1>8, <1>9, <3>2, <4>1 DEF Range
      <4>3. ids[j] \in OfPosition(Range(s.ids), PositionOf[p])
        BY <1>6, <2>1, <4>2 DEF OfPosition
      <4>4. p > ids[j] /\ p \in Nat /\ ids[j] \in Nat
        BY <1>4, <1>5, <1>8, <4>1, <4>3, ElementOfSeq, PlayersAssumption
      <4>5. QED
        BY <4>2, <4>4
    <3>3. QED
      BY <3>1, <3>2
  <2>2. QED
    BY <2>1 DEF Rising
<1>11. Range(all) \in SUBSET CandidateIds(offers, rules)
  BY <1>3, <1>4, <1>6, <1>9 DEF Recorded
<1>12. t.proxy = Sum(Outlook(offers, 1), rules.locked \cup Range(all))
  <2> DEFINE before == rules.locked \cup Range(ids)
  <2>1. before \in SUBSET Players
    BY <1>3, <1>6, CandidatesArePlayers DEF Recorded, Lockable
  <2>2. p \notin before /\ rules.locked \cup Range(all) = before \cup {p}
    BY <1>5, <1>6, <1>9
  <2>3. s.proxy = Sum(Outlook(offers, 1), before)
    BY <1>3, <1>6 DEF Recorded
  <2> HIDE DEF before
  <2>4. IsFiniteSet(before) /\ Numbers(Outlook(offers, 1), before \cup {p})
    BY <1>4, <2>1, PlayersAreFinite, OutlookIsNumber DEF Numbers
  <2>5. Sum(Outlook(offers, 1), before \cup {p})
          = Outlook(offers, 1)[p] + Sum(Outlook(offers, 1), before)
    BY <2>2, <2>4, SumAdds
  <2>6. Sum(Outlook(offers, 1), before) \in Int /\ Outlook(offers, 1)[p] \in Int
    BY <1>4, <2>4, SumIsNumber, OutlookIsNumber DEF Numbers
  <2>7. PICK x, y, z : /\ x = Outlook(offers, 1)[p] /\ y = Sum(Outlook(offers, 1), before)
                       /\ z = Sum(Outlook(offers, 1), before \cup {p})
    OBVIOUS
  <2>8. t.proxy = s.proxy + x /\ s.proxy = y /\ z = x + y /\ x \in Int /\ y \in Int
    BY <1>7, <2>3, <2>5, <2>6, <2>7
  <2>9. t.proxy = z
    BY ONLY <2>8
  <2>10. QED
    BY <2>2, <2>7, <2>9
<1>13. QED
  BY <1>1, <1>7, <1>10, <1>11, <1>12 DEF Recorded

-----------------------------------------------------------------------------
(* Two partial squads never hold the same players. *)

\* The first pick in which they differ leads to a contradiction.
LEMMA FirstDiffers ==
  ASSUME NEW offers, NEW rules, NEW n \in Nat,
         NEW s, Recorded(offers, rules, s, n), NEW t, Recorded(offers, rules, t, n),
         Range(s.ids) = Range(t.ids),
         NEW k \in 1 .. n, s.ids[k] # t.ids[k], \A j \in 1 .. k - 1 : s.ids[j] = t.ids[j]
  PROVE  s.ids[k] > t.ids[k]
<1>1. PICK a, b : a = s.ids /\ b = t.ids
  OBVIOUS
<1>2. /\ a \in Seq(Players) /\ DOMAIN a = 1 .. n /\ b \in Seq(Players) /\ DOMAIN b = 1 .. n
      /\ OneToOne(a, 1 .. n) /\ Rising(b, n)
      /\ \A j \in 1 .. n : PositionOf[a[j]] = PositionOf[b[j]]
  BY <1>1, LenProperties DEF Recorded, Picked
<1>3. PICK j \in 1 .. n : b[j] = a[k]
  <2>1. Range(a) = Range(b)
    BY <1>1
  <2>2. a[k] \in Range(a)
    BY <1>2 DEF Range
  <2>3. a[k] \in Range(b)
    BY <2>1, <2>2
  <2>4. QED
    BY <1>2, <2>3 DEF Range
<1>4. j # k
  BY <1>1, <1>3
<1>5. ~(j < k)
  <2>1. SUFFICES ASSUME j < k PROVE FALSE
    OBVIOUS
  <2>2. j \in 1 .. k - 1
    BY <2>1
  <2>3. a[j] = b[j]
    BY <1>1, <2>2
  <2>4. QED
    BY <1>2, <1>3, <1>4, <2>3 DEF OneToOne
<1>6. k < j
  BY <1>4, <1>5
<1>7. PositionOf[b[k]] = PositionOf[b[j]]
  BY <1>2, <1>3
<1>8. b[k] < b[j]
  BY <1>2, <1>6, <1>7 DEF Rising
<1>9. b[k] \in Nat /\ b[j] \in Nat
  <2>1. b[k] \in Players /\ b[j] \in Players
    BY <1>2
  <2>2. QED
    BY <2>1, PlayersAssumption
<1>10. QED
  BY <1>1, <1>3, <1>8, <1>9

LEMMA SamePicks ==
  ASSUME NEW offers, NEW rules, NEW n \in Nat,
         NEW s, Recorded(offers, rules, s, n), NEW t, Recorded(offers, rules, t, n),
         rules.locked \cup Range(s.ids) = rules.locked \cup Range(t.ids)
  PROVE  s = t
<1>1. PICK a, b : a = s.ids /\ b = t.ids
  OBVIOUS
<1>2. /\ a \in Seq(Players) /\ Len(a) = n /\ DOMAIN a = 1 .. n
      /\ b \in Seq(Players) /\ Len(b) = n /\ DOMAIN b = 1 .. n
      /\ \A k \in 1 .. n : a[k] \notin rules.locked /\ b[k] \notin rules.locked
  BY <1>1, LenProperties DEF Recorded, Picked
<1>3. Range(a) = Range(b)
  <2>1. Range(a) \cap rules.locked = {} /\ Range(b) \cap rules.locked = {}
    BY <1>2 DEF Range
  <2>2. QED
    BY <1>1, <2>1
<1>4. ~Differ(n, a, b)
  <2>1. SUFFICES ASSUME Differ(n, a, b) PROVE FALSE
    OBVIOUS
  <2>2. PICK k \in 1 .. n : a[k] # b[k] /\ \A j \in 1 .. k - 1 : a[j] = b[j]
    BY <2>1, FirstDifference
  <2>3. a[k] > b[k] /\ b[k] > a[k]
    BY <1>1, <1>3, <2>2, FirstDiffers
  <2>4. a[k] \in Nat /\ b[k] \in Nat
    BY <1>2, ElementOfSeq, PlayersAssumption
  <2>5. QED
    BY <2>3, <2>4
<1>5. a = b
  BY <1>2, <1>4 DEF Differ
<1>6. QED
  BY <1>1, <1>5 DEF Recorded, Picked

\* There are as many squads as partial squads.
SquadsOf(rules, partials) == {rules.locked \cup Range(s.ids) : s \in partials}

LEMMA PicksCount ==
  ASSUME NEW offers, NEW rules, Lockable(rules), NEW n \in Nat,
         NEW partials, \A s \in partials : Recorded(offers, rules, s, n)
  PROVE  /\ IsFiniteSet(partials)
         /\ Cardinality(SquadsOf(rules, partials)) = Cardinality(partials)
<1> DEFINE T == {rules.locked \cup Range(s.ids) : s \in partials}
           f == [s \in partials |-> rules.locked \cup Range(s.ids)]
<1>1. OneToOne(f, partials)
  <2>1. ASSUME NEW s \in partials, NEW t \in partials, f[s] = f[t] PROVE s = t
    <3>1. rules.locked \cup Range(s.ids) = rules.locked \cup Range(t.ids)
      BY <2>1
    <3>2. Recorded(offers, rules, s, n) /\ Recorded(offers, rules, t, n)
      OBVIOUS
    <3>3. QED
      BY <3>1, <3>2, SamePicks
  <2>2. QED
    BY <2>1 DEF OneToOne
<1>2. T \in SUBSET (SUBSET Players)
  <2>1. ASSUME NEW s \in partials PROVE rules.locked \cup Range(s.ids) \in SUBSET Players
    BY <2>1, CandidatesArePlayers DEF Recorded, Lockable
  <2>2. QED
    BY <2>1
<1>3. f \in [partials -> T] /\ Onto(f, partials, T)
  BY DEF Onto
<1> HIDE DEF f, T
<1>4. IsFiniteSet(T)
  <2>1. IsFiniteSet(SUBSET Players)
    BY FS_SUBSET, PlayersAssumption
  <2>2. QED
    BY <1>2, <2>1, FS_Subset
<1>5. IsFiniteSet(partials)
  <2>1. f \in Injection(partials, T)
    BY <1>1, <1>3 DEF Injection, IsInjective, OneToOne
  <2>2. QED
    BY <1>4, <2>1, FS_Injection
<1>6. Cardinality(T) = Cardinality(partials)
  BY <1>1, <1>3, <1>5, OneToOneCounts
<1>7. QED
  BY <1>5, <1>6 DEF T, SquadsOf

-----------------------------------------------------------------------------
(* What the rest of a squad costs. *)

Cheaper(offers, p, r) ==
  \/ offers.price[p] < offers.price[r]
  \/ offers.price[p] = offers.price[r] /\ p < r

\* The n cheapest of a set.
CheapestOf(offers, A, n) == {p \in A : Cardinality({r \in A : Cheaper(offers, r, p)}) < n}

\* No other players of the set cost less than as many of the cheapest.
LEMMA CheapestCostLeast ==
  ASSUME NEW offers, Marketable(offers), NEW A \in SUBSET Players, NEW B \in SUBSET A,
         NEW n, n = Cardinality(B)
  PROVE  CostOf(offers, CheapestOf(offers, A, n)) <= CostOf(offers, B)
<1> DEFINE neg == [p \in Players |-> 0 - offers.price[p]]
           F == FirstOf(neg, A, n)
<1>1. \A p \in Players : offers.price[p] \in Nat /\ neg[p] = 0 - offers.price[p]
  BY DEF Marketable
<1> HIDE DEF neg
<1>2. \A p, r \in A : Ahead(neg, p, r) <=> Cheaper(offers, p, r)
  BY <1>1 DEF Ahead, Cheaper
<1>3. CheapestOf(offers, A, n) = F
  <2>1. \A p \in A : {r \in A : Cheaper(offers, r, p)} = {r \in A : Ahead(neg, r, p)}
    BY <1>2
  <2>2. QED
    BY <2>1 DEF CheapestOf, FirstOf
<1>4. IsFiniteSet(A) /\ A \in SUBSET Int /\ Numbers(neg, A)
  <2>1. IsFiniteSet(A) /\ A \in SUBSET Int
    BY PlayersAreFinite
  <2>2. Numbers(neg, A)
    BY <1>1 DEF Numbers
  <2>3. QED
    BY <2>1, <2>2
<1>5. Sum(neg, F) >= Sum(neg, B)
  BY <1>4, FirstAreBest
<1>6. F \in SUBSET Players /\ B \in SUBSET Players
  BY DEF FirstOf
<1> HIDE DEF F
<1>7. ASSUME NEW X \in SUBSET Players
      PROVE  Sum(neg, X) = 0 - CostOf(offers, X) /\ CostOf(offers, X) \in Nat
  <2>1. IsFiniteSet(X) /\ Numbers(offers.price, X) /\ \A x \in X : neg[x] = 0 - offers.price[x]
    <3>1. IsFiniteSet(X)
      BY <1>7, PlayersAreFinite
    <3>2. Numbers(offers.price, X)
      BY <1>1, <1>7 DEF Numbers
    <3>3. QED
      BY <1>1, <1>7, <3>1, <3>2
  <2>2. Sum(neg, X) = 0 - Sum(offers.price, X)
    BY ONLY <2>1, SumOfNegative
  <2>3. CostOf(offers, X) = Sum(offers.price, X)
    BY DEF CostOf, Sum
  <2>4. QED
    BY <2>2, <2>3, CostIsNumber
<1>8. QED
  BY <1>3, <1>5, <1>6, <1>7

\* What players cost, position by position.
LEMMA CostByPosition ==
  ASSUME NEW offers, Marketable(offers), NEW S \in SUBSET Players
  PROVE  CostOf(offers, S) = CostOf(offers, OfPosition(S, "GK")) + CostOf(offers, OfPosition(S, "DEF"))
           + CostOf(offers, OfPosition(S, "MID")) + CostOf(offers, OfPosition(S, "FWD"))
<1> DEFINE A == OfPosition(S, "GK")
           B == OfPosition(S, "DEF")
           C == OfPosition(S, "MID")
           D == OfPosition(S, "FWD")
           f == offers.price
<1>1. /\ A \in SUBSET Players /\ B \in SUBSET Players /\ C \in SUBSET Players
      /\ D \in SUBSET Players
      /\ A \cap B = {} /\ (A \cup B) \cap C = {} /\ (A \cup B \cup C) \cap D = {}
  BY DEF OfPosition
<1>2. S = A \cup B \cup C \cup D
  BY PlayersAssumption DEF OfPosition, Positions
<1> HIDE DEF A, B, C, D
<1>3. ASSUME NEW X \in SUBSET Players PROVE IsFiniteSet(X) /\ Numbers(f, X)
  BY <1>3, PlayersAreFinite DEF Marketable, Numbers
<1>4. \A X : CostOf(offers, X) = Sum(f, X)
  BY DEF CostOf, Sum
<1> HIDE DEF f
<1>5. Sum(f, A \cup B) = Sum(f, A) + Sum(f, B)
  BY <1>1, <1>3, SumOfUnion
<1>6. Sum(f, A \cup B \cup C) = Sum(f, A \cup B) + Sum(f, C)
  <2>1. A \cup B \in SUBSET Players /\ A \cup B \cup C \in SUBSET Players
    BY <1>1
  <2>2. QED
    BY <1>1, <1>3, <2>1, SumOfUnion
<1>7. Sum(f, A \cup B \cup C \cup D) = Sum(f, A \cup B \cup C) + Sum(f, D)
  <2>1. A \cup B \cup C \in SUBSET Players /\ A \cup B \cup C \cup D \in SUBSET Players
    BY <1>1
  <2>2. QED
    BY <1>1, <1>3, <2>1, SumOfUnion
<1>8. QED
  BY <1>2, <1>4, <1>5, <1>6, <1>7 DEF A, B, C, D

\* Whoever completes a squad costs at least what the search reckons with.
LEMMA RemainingIsLeast ==
  ASSUME NEW offers, Marketable(offers), NEW cands \in SUBSET Players,
         NEW S \in SUBSET cands, Filled(S), NEW chosen \in SUBSET S
  PROVE  MinimumRemaining(offers, cands, chosen) <= CostOf(offers, S \ chosen)
<1> DEFINE T(q) == CheapestOf(offers, OfPosition(cands \ chosen, q),
                              PositionCounts[q] - Cardinality(OfPosition(chosen, q)))
           f == [q \in Positions |-> CostOf(offers, T(q))]
<1>1. MinimumRemaining(offers, cands, chosen) = Sum(f, Positions)
  <2>1. \A q \in Positions :
          T(q) = Foremost(OfPosition(cands \ chosen, q),
                          PositionCounts[q] - Cardinality(OfPosition(chosen, q)),
                          LAMBDA p, r : \/ offers.price[p] < offers.price[r]
                                        \/ offers.price[p] = offers.price[r] /\ p < r)
    BY DEF CheapestOf, Foremost, Cheaper
  <2> HIDE DEF T
  <2>2. MinimumRemaining(offers, cands, chosen) = SumFunction(f)
    BY <2>1 DEF MinimumRemaining
  <2>3. DOMAIN f = Positions
    OBVIOUS
  <2> HIDE DEF f
  <2>4. QED
    BY <2>2, <2>3 DEF SumFunction, Sum, SumFunctionOnSet
<1>2. ASSUME NEW q \in Positions
      PROVE  /\ f[q] \in Int /\ CostOf(offers, OfPosition(S \ chosen, q)) \in Int
             /\ f[q] <= CostOf(offers, OfPosition(S \ chosen, q))
  <2> DEFINE A == OfPosition(cands \ chosen, q)
             B == OfPosition(S \ chosen, q)
             C == OfPosition(chosen, q)
             n == PositionCounts[q] - Cardinality(C)
  <2>1. A \in SUBSET Players /\ B \in SUBSET A /\ C \in SUBSET Players
        /\ B \in SUBSET Players /\ B \cap C = {} /\ B \cup C = OfPosition(S, q)
    BY DEF OfPosition
  <2>2. Cardinality(B \cup C) = PositionCounts[q]
    BY <2>1 DEF Filled
  <2> HIDE DEF A, B, C
  <2>3. IsFiniteSet(B) /\ IsFiniteSet(C) /\ Cardinality(B) \in Nat /\ Cardinality(C) \in Nat
    BY <2>1, PlayersAreFinite
  <2>4. Cardinality(B \cup C) = Cardinality(B) + Cardinality(C)
    BY <2>1, <2>3, DisjointCount
  <2>5. n = Cardinality(B)
    BY <2>2, <2>3, <2>4
  <2>6. f[q] = CostOf(offers, CheapestOf(offers, A, n))
    BY DEF A, C
  <2>7. CheapestOf(offers, A, n) \in SUBSET Players
    BY <2>1 DEF CheapestOf
  <2> HIDE DEF n, f
  <2>8. CostOf(offers, CheapestOf(offers, A, n)) <= CostOf(offers, B)
    BY <2>1, <2>5, CheapestCostLeast
  <2>9. CostOf(offers, CheapestOf(offers, A, n)) \in Nat /\ CostOf(offers, B) \in Nat
    BY <2>1, <2>7, CostIsNumber
  <2>10. QED
    BY <2>6, <2>8, <2>9 DEF B
<1> HIDE DEF f
<1>3. Sum(f, Positions) = f["GK"] + f["DEF"] + f["MID"] + f["FWD"]
  BY <1>2, PositionsSum DEF Numbers
<1>4. S \ chosen \in SUBSET Players
  OBVIOUS
<1>5. CostOf(offers, S \ chosen)
        = CostOf(offers, OfPosition(S \ chosen, "GK")) + CostOf(offers, OfPosition(S \ chosen, "DEF"))
          + CostOf(offers, OfPosition(S \ chosen, "MID")) + CostOf(offers, OfPosition(S \ chosen, "FWD"))
  BY <1>4, CostByPosition
<1>6. PICK a, b, c, d : /\ a = CostOf(offers, OfPosition(S \ chosen, "GK"))
                        /\ b = CostOf(offers, OfPosition(S \ chosen, "DEF"))
                        /\ c = CostOf(offers, OfPosition(S \ chosen, "MID"))
                        /\ d = CostOf(offers, OfPosition(S \ chosen, "FWD"))
  OBVIOUS
<1>7. PICK k, l, m, n : k = f["GK"] /\ l = f["DEF"] /\ m = f["MID"] /\ n = f["FWD"]
  OBVIOUS
<1>8. /\ k \in Int /\ a \in Int /\ k <= a /\ l \in Int /\ b \in Int /\ l <= b
      /\ m \in Int /\ c \in Int /\ m <= c /\ n \in Int /\ d \in Int /\ n <= d
  BY <1>2, <1>6, <1>7 DEF Positions
<1>9. k + l + m + n <= a + b + c + d
  BY ONLY <1>8
<1>10. QED
  BY <1>1, <1>3, <1>5, <1>6, <1>7, <1>9

-----------------------------------------------------------------------------
(* The search finds every squad. *)

\* A squad that the rules allow and the budget buys, from the players in the lenses.
Buyable(offers, rules, S) ==
  /\ S \in SUBSET CandidateIds(offers, rules) /\ rules.locked \subseteq S
  /\ Filled(S) /\ Clubs(offers, S) /\ CostOf(offers, S) <= rules.budget

\* As many picks of a position as slots that were filled for it.
SlotsFor(rules, n, q) == {k \in 1 .. n : OpenSlots(rules)[k] = q}

LEMMA PicksOfPosition ==
  ASSUME NEW offers, NEW rules, NEW n \in Nat, NEW s, Picked(offers, rules, s, n), NEW q
  PROVE  /\ IsFiniteSet(OfPosition(Range(s.ids), q)) /\ IsFiniteSet(SlotsFor(rules, n, q))
         /\ Cardinality(OfPosition(Range(s.ids), q)) = Cardinality(SlotsFor(rules, n, q))
<1> DEFINE N == {k \in 1 .. n : OpenSlots(rules)[k] = q}
           T == OfPosition(Range(s.ids), q)
           f == [k \in N |-> s.ids[k]]
<1>1. s.ids \in Seq(Players) /\ DOMAIN s.ids = 1 .. n
  BY LenProperties DEF Picked
<1>2. f \in [N -> T]
  BY <1>1 DEF Picked, OfPosition, Range
<1>3. OneToOne(f, N)
  BY DEF Picked, OneToOne
<1>4. Onto(f, N, T)
  BY <1>1 DEF Onto, Picked, OfPosition, Range
<1>5. IsFiniteSet(N)
  <2>1. IsFiniteSet(1 .. n) /\ N \in SUBSET (1 .. n)
    BY FS_Interval
  <2> HIDE DEF N
  <2>2. QED
    BY <2>1, FS_Subset
<1> HIDE DEF N, T, f
<1>6. IsFiniteSet(T) /\ Cardinality(T) = Cardinality(N)
  BY <1>2, <1>3, <1>4, <1>5, OneToOneCounts
<1>7. QED
  BY <1>5, <1>6 DEF N, T, SlotsFor

\* While slots are open the squad has somebody who was not picked yet.
LEMMA SomebodyIsLeft ==
  ASSUME NEW offers, NEW rules, Lockable(rules), NEW n \in Nat, n < Len(OpenSlots(rules)),
         NEW s, Picked(offers, rules, s, n), NEW q, q = OpenSlots(rules)[n + 1],
         NEW S, Filled(S), rules.locked \subseteq S, Range(s.ids) \in SUBSET S
  PROVE  \E p \in S \ (rules.locked \cup Range(s.ids)) : PositionOf[p] = q
<1> DEFINE os == OpenSlots(rules)
           m == Len(os)
           N == {k \in 1 .. n : os[k] = q}
           M == {k \in 1 .. m : os[k] = q}
           T == OfPosition(Range(s.ids), q)
           L == OfPosition(rules.locked, q)
           A == OfPosition(S, q)
<1>1. /\ os \in Seq(Positions) /\ m \in Nat
      /\ \A r \in Positions :
           Cardinality({k \in 1 .. m : os[k] = r}) = PositionCounts[r] - LockedOf(rules, r)
  BY OpenSlotsFill, LenProperties
<1>2. n + 1 \in 1 .. m /\ q \in Positions
  BY <1>1, ElementOfSeq
<1>3. Cardinality(M) = PositionCounts[q] - Cardinality(L)
  BY <1>1, <1>2 DEF LockedOf
<1>4. N \in SUBSET M /\ n + 1 \in M /\ n + 1 \notin N
  BY <1>1, <1>2
<1>5. IsFiniteSet(N) /\ IsFiniteSet(T) /\ Cardinality(T) = Cardinality(N)
  <2>1. n \in Nat /\ Picked(offers, rules, s, n)
    OBVIOUS
  <2>2. N = SlotsFor(rules, n, q)
    BY DEF SlotsFor
  <2> HIDE DEF N, T
  <2>3. IsFiniteSet(SlotsFor(rules, n, q)) /\ IsFiniteSet(T)
        /\ Cardinality(T) = Cardinality(SlotsFor(rules, n, q))
    BY <2>1, PicksOfPosition DEF T
  <2>4. QED
    BY <2>2, <2>3
<1>6. IsFiniteSet(M)
  <2>1. IsFiniteSet(1 .. m) /\ M \in SUBSET (1 .. m)
    BY <1>1, FS_Interval
  <2> HIDE DEF M
  <2>2. QED
    BY <2>1, FS_Subset
<1>7. /\ T \in SUBSET A /\ L \in SUBSET A /\ T \cap L = {}
      /\ A \in SUBSET Players /\ Cardinality(A) = PositionCounts[q]
  <2>1. s.ids \in Seq(Players) /\ DOMAIN s.ids = 1 .. n
    BY LenProperties DEF Picked
  <2>2. Range(s.ids) \cap rules.locked = {}
    BY <2>1 DEF Picked, Range
  <2>3. QED
    BY <1>2, <2>2 DEF OfPosition, Filled
<1> HIDE DEF N, M, T, L, A, os, m
<1>8. Cardinality(N) + 1 <= Cardinality(M)
  <2>1. IsFiniteSet(N \cup {n + 1}) /\ Cardinality(N \cup {n + 1}) = Cardinality(N) + 1
    BY <1>4, <1>5, FS_AddElement
  <2>2. N \cup {n + 1} \in SUBSET M
    BY <1>4
  <2>3. QED
    BY <1>6, <2>1, <2>2, FS_Subset
<1>9. /\ IsFiniteSet(L) /\ Cardinality(L) \in Nat /\ Cardinality(N) \in Nat /\ Cardinality(M) \in Nat
      /\ IsFiniteSet(A)
  BY <1>5, <1>6, <1>7, PlayersAreFinite, FS_CardinalityType
<1>10. Cardinality(T \cup L) = Cardinality(T) + Cardinality(L)
  BY <1>5, <1>7, <1>9, DisjointCount
<1>11. T \cup L # A
  <2>1. PositionCounts[q] \in Nat
    BY <1>2 DEF PositionCounts
  <2>2. Cardinality(T \cup L) < Cardinality(A)
    BY <1>3, <1>5, <1>7, <1>8, <1>9, <1>10, <2>1
  <2>3. \A k : k = Cardinality(A) => ~(k < Cardinality(A))
    <3>1. Cardinality(A) \in Nat
      BY <1>9, FS_CardinalityType
    <3>2. PICK k : k = Cardinality(A)
      OBVIOUS
    <3>3. k \in Nat
      BY <3>1, <3>2
    <3>4. ~(k < k)
      BY ONLY <3>3
    <3>5. QED
      BY <3>2, <3>4
  <2>4. ASSUME T \cup L = A PROVE FALSE
    BY <2>2, <2>3, <2>4
  <2>5. QED
    BY <2>4
<1>12. PICK p \in A : p \notin T \cup L
  BY <1>7, <1>11
<1>13. QED
  BY <1>12 DEF A, T, L, OfPosition

\* Less of a squad keeps to the clubs' limit as well.
LEMMA FewerOfClubs ==
  ASSUME NEW offers, NEW S \in SUBSET Players, Clubs(offers, S), NEW T \in SUBSET S
  PROVE  Clubs(offers, T)
<1>1. ASSUME NEW c \in Range(offers.club)
      PROVE  Cardinality({p \in T : offers.club[p] = c}) <= ClubLimit
  <2> DEFINE A == {p \in S : offers.club[p] = c}
             B == {p \in T : offers.club[p] = c}
  <2>1. A \in SUBSET Players /\ B \in SUBSET A /\ Cardinality(A) <= ClubLimit
    BY DEF Clubs
  <2> HIDE DEF A, B
  <2>2. IsFiniteSet(A) /\ Cardinality(A) \in Nat
    BY <2>1, PlayersAreFinite
  <2>3. Cardinality(B) <= Cardinality(A) /\ Cardinality(B) \in Nat
    BY <2>1, <2>2, FS_Subset, FS_CardinalityType
  <2>4. ClubLimit \in Nat
    BY DEF ClubLimit
  <2>5. Cardinality(B) <= ClubLimit
    BY <2>1, <2>2, <2>3, <2>4
  <2>6. QED
    BY <2>5 DEF B
<1>2. QED
  BY <1>1 DEF Clubs

\* A partial squad on the way to S: of every position the first picks of it.
LeadsTo(rules, s, S) ==
  /\ Range(s.ids) \in SUBSET S
  /\ \A x \in Range(s.ids), y \in S \ (rules.locked \cup Range(s.ids)) :
       PositionOf[x] = PositionOf[y] => x < y

\* The next of a position fits.
LEMMA NextFits ==
  ASSUME NEW offers, Marketable(offers), NEW rules, Lockable(rules), rules.budget \in Nat,
         NEW n \in Nat, NEW s, Recorded(offers, rules, s, n),
         NEW S, Buyable(offers, rules, S), LeadsTo(rules, s, S),
         NEW p \in S \ (rules.locked \cup Range(s.ids))
  PROVE  Fits(offers, rules, CandidateIds(offers, rules), s, p)
<1> DEFINE cands == CandidateIds(offers, rules)
           before == rules.locked \cup Range(s.ids)
           C == before \cup {p}
<1>1. /\ cands \in SUBSET Players /\ S \in SUBSET cands /\ S \in SUBSET Players
      /\ Filled(S) /\ Clubs(offers, S) /\ CostOf(offers, S) <= rules.budget
  BY CandidatesArePlayers DEF Buyable
<1>2. C \in SUBSET S /\ before \in SUBSET S /\ p \notin before /\ p \in Players
  BY <1>1 DEF LeadsTo, Buyable
<1>3. \A r \in OfPosition(Range(s.ids), PositionOf[p]) : p > r
  <2>1. ASSUME NEW r \in OfPosition(Range(s.ids), PositionOf[p]) PROVE p > r
    <3>1. r \in Range(s.ids) /\ PositionOf[r] = PositionOf[p]
      BY DEF OfPosition
    <3>2. r < p
      BY <3>1 DEF LeadsTo
    <3>3. r \in Nat /\ p \in Nat
      BY <1>1, <1>2, <3>1, PlayersAssumption DEF LeadsTo
    <3>4. QED
      BY <3>2, <3>3
  <2>2. QED
    BY <2>1
<1> HIDE DEF cands, before
<1>4. Clubs(offers, C)
  BY <1>1, <1>2, FewerOfClubs
<1>5. CanComplete(cands, C)
  <2>1. ASSUME NEW q \in Positions
        PROVE  Cardinality(OfPosition(cands \ C, q)) >= PositionCounts[q] - Cardinality(OfPosition(C, q))
    <3> DEFINE A == OfPosition(cands \ C, q)
               B == OfPosition(S \ C, q)
               D == OfPosition(C, q)
    <3>1. /\ A \in SUBSET Players /\ B \in SUBSET A /\ D \in SUBSET Players
          /\ B \in SUBSET Players /\ B \cap D = {} /\ B \cup D = OfPosition(S, q)
      BY <1>1, <1>2 DEF OfPosition
    <3>2. Cardinality(B \cup D) = PositionCounts[q]
      BY <1>1, <3>1 DEF Filled
    <3> HIDE DEF A, B, D
    <3>3. /\ IsFiniteSet(A) /\ IsFiniteSet(B) /\ IsFiniteSet(D)
          /\ Cardinality(A) \in Nat /\ Cardinality(B) \in Nat /\ Cardinality(D) \in Nat
      BY <3>1, PlayersAreFinite
    <3>4. Cardinality(B \cup D) = Cardinality(B) + Cardinality(D)
      BY <3>1, <3>3, DisjointCount
    <3>5. Cardinality(B) <= Cardinality(A)
      BY <3>1, <3>3, FS_Subset
    <3>6. Cardinality(A) >= PositionCounts[q] - Cardinality(D)
      BY <3>2, <3>3, <3>4, <3>5
    <3>7. QED
      BY <3>6 DEF A, D
  <2>2. QED
    BY <2>1 DEF CanComplete
<1>6. s.cost + offers.price[p] = CostOf(offers, C)
  <2>1. s.cost = CostOf(offers, before)
    BY DEF Recorded, Picked, before
  <2>2. before \in SUBSET Players /\ p \in Players \ before
    BY <1>1, <1>2
  <2>3. CostOf(offers, C) = offers.price[p] + CostOf(offers, before) /\ CostOf(offers, before) \in Nat
    BY <2>2, CostIsNumber
  <2>4. offers.price[p] \in Nat
    BY <1>2 DEF Marketable
  <2>5. QED
    BY <2>1, <2>3, <2>4
<1>7. CostOf(offers, C) + CostOf(offers, S \ C) = CostOf(offers, S)
  <2>1. C \in SUBSET Players /\ S \ C \in SUBSET Players /\ C \cap (S \ C) = {} /\ C \cup (S \ C) = S
    BY <1>1, <1>2
  <2> HIDE DEF C
  <2>2. \A X \in SUBSET Players : IsFiniteSet(X) /\ Numbers(offers.price, X)
    <3>1. ASSUME NEW X \in SUBSET Players PROVE Numbers(offers.price, X)
      BY DEF Marketable, Numbers
    <3>2. QED
      BY <3>1, PlayersAreFinite
  <2>3. IsFiniteSet(C) /\ IsFiniteSet(S \ C) /\ Numbers(offers.price, C \cup (S \ C))
    BY <1>1, <2>1, <2>2
  <2>4. Sum(offers.price, C \cup (S \ C)) = Sum(offers.price, C) + Sum(offers.price, S \ C)
    BY ONLY <2>1, <2>3, SumOfUnion
  <2>5. \A X : CostOf(offers, X) = Sum(offers.price, X)
    BY DEF CostOf, Sum
  <2>6. QED
    BY <2>1, <2>4, <2>5
<1>8. MinimumRemaining(offers, cands, C) <= CostOf(offers, S \ C)
  <2> HIDE DEF C
  <2>1. QED
    BY <1>1, <1>2, RemainingIsLeast
<1>9. /\ MinimumRemaining(offers, cands, C) \in Nat /\ CostOf(offers, S \ C) \in Nat
      /\ CostOf(offers, C) \in Nat /\ CostOf(offers, S) \in Nat
  <2>1. C \in SUBSET Players /\ S \ C \in SUBSET Players
    BY <1>1, <1>2
  <2> HIDE DEF C
  <2>2. QED
    BY <1>1, <2>1, RemainingCosts, CostIsNumber
<1>10. s.cost + offers.price[p] + MinimumRemaining(offers, cands, C) <= rules.budget
  <2> HIDE DEF C
  <2>1. PICK a, b, c, d : /\ a = s.cost + offers.price[p] /\ b = MinimumRemaining(offers, cands, C)
                          /\ c = CostOf(offers, S \ C) /\ d = CostOf(offers, S)
    OBVIOUS
  <2>2. a \in Nat /\ b \in Nat /\ c \in Nat /\ d \in Nat /\ rules.budget \in Nat
        /\ a + c = d /\ b <= c /\ d <= rules.budget
    BY <1>1, <1>6, <1>7, <1>8, <1>9, <2>1
  <2>3. a + b <= rules.budget
    BY ONLY <2>2
  <2>4. QED
    BY <2>1, <2>3
<1>11. QED
  BY <1>2, <1>3, <1>4, <1>5, <1>10 DEF Fits, before, cands

\* One more slot, nobody cut.
FillAll(offers, rules, partials, k) ==
  Extended(offers, rules, CandidateIds(offers, rules), partials, OpenSlots(rules)[k])

AllSlots(offers, rules, n, g) ==
  g = [S \in SUBSET (1 .. n) |->
         IF S = {} THEN {Seed(offers, rules)} ELSE FillAll(offers, rules, g[S \ {Max(S)}], Max(S))]

\* The partial squads of the first n slots, none cut.
PartialsOf(offers, rules, n) == (CHOOSE g : AllSlots(offers, rules, n, g))[1 .. n]

LEMMA PartialsAreFold ==
  ASSUME NEW rules, NEW n \in Nat
  PROVE  AllPartials(rules, n) = PartialsOf(market, rules, n)
<1> DEFINE seq == [k \in 1 .. n |-> OpenSlots(rules)[k]]
           It(g) == g = [S \in SUBSET DOMAIN seq |->
                           IF S = {} THEN {Seed(market, rules)}
                           ELSE Extended(market, rules, CandidateIds(market, rules),
                                         g[S \ {Max(S)}], seq[Max(S)])]
<1>1. AllPartials(rules, n) = (CHOOSE g : It(g))[DOMAIN seq]
  BY DEF AllPartials, FoldLeft, MapThenFoldSet
<1>2. DOMAIN seq = 1 .. n
  OBVIOUS
<1>3. \A S \in SUBSET (1 .. n) : S # {} => seq[Max(S)] = OpenSlots(rules)[Max(S)]
  <2>1. \A S \in SUBSET (1 .. n) : S # {} => Max(S) \in 1 .. n
    BY MaxIsLargest
  <2>2. QED
    BY <2>1
<1> HIDE DEF seq
<1>4. ASSUME NEW g PROVE It(g) <=> AllSlots(market, rules, n, g)
  <2> DEFINE f == [S \in SUBSET DOMAIN seq |->
                     IF S = {} THEN {Seed(market, rules)}
                     ELSE Extended(market, rules, CandidateIds(market, rules),
                                   g[S \ {Max(S)}], seq[Max(S)])]
             h == [S \in SUBSET (1 .. n) |->
                     IF S = {} THEN {Seed(market, rules)}
                     ELSE FillAll(market, rules, g[S \ {Max(S)}], Max(S))]
  <2>1. f = h
    BY <1>2, <1>3 DEF FillAll
  <2>2. QED
    BY <2>1 DEF AllSlots
<1> HIDE DEF It
<1>5. (CHOOSE g : It(g)) = (CHOOSE g : AllSlots(market, rules, n, g))
  BY <1>4
<1>6. QED
  BY <1>1, <1>2, <1>5 DEF PartialsOf

LEMMA PartialsStayInSet ==
  ASSUME NEW offers, Marketable(offers), NEW rules, Lockable(rules)
  PROVE  /\ {Seed(offers, rules)} \in SUBSET Partial
         /\ \A partials \in SUBSET Partial : \A k :
              FillAll(offers, rules, partials, k) \in SUBSET Partial
<1>1. \A p \in Players : Outlook(offers, 1)[p] \in Int /\ offers.price[p] \in Int
  BY OutlookIsNumber DEF Marketable
<1>2. Seed(offers, rules) \in Partial
  <2>1. CostOf(offers, rules.locked) \in Int
    BY CostIsNumber DEF Lockable
  <2>2. Points(Outlook(offers, 1), rules.locked) \in Int
    <3>1. IsFiniteSet(rules.locked) /\ rules.locked \in SUBSET Players
      BY PlayersAreFinite DEF Lockable
    <3>2. Numbers(Outlook(offers, 1), rules.locked)
      BY <1>1, <3>1 DEF Numbers
    <3>3. QED
      BY <3>1, <3>2, SumIsNumber, PointsAreSums
  <2>3. QED
    BY <2>1, <2>2, EmptySeq DEF Seed, Partial
<1>3. ASSUME NEW partials \in SUBSET Partial, NEW k, NEW t \in FillAll(offers, rules, partials, k)
      PROVE  t \in Partial
  <2>1. PICK s \in partials, p \in OfPosition(CandidateIds(offers, rules), OpenSlots(rules)[k]) :
          t = [ids |-> Append(s.ids, p), cost |-> s.cost + offers.price[p],
               proxy |-> s.proxy + Outlook(offers, 1)[p]]
    BY DEF FillAll, Extended
  <2>2. s \in Partial /\ p \in Players
    BY <2>1, CandidatesArePlayers DEF OfPosition
  <2>3. Append(s.ids, p) \in Seq(Players)
    BY <2>2, Appended DEF Partial
  <2>4. QED
    BY <1>1, <2>1, <2>2, <2>3 DEF Partial
<1>4. QED
  BY <1>2, <1>3

LEMMA AllSlotsExist ==
  ASSUME NEW offers, Marketable(offers), NEW rules, Lockable(rules), NEW n \in Nat
  PROVE  \E g : AllSlots(offers, rules, n, g)
<1> DEFINE X == SUBSET Partial
           b == {Seed(offers, rules)}
           F == [k \in 1 .. n |-> [y \in X |-> FillAll(offers, rules, y, k)]]
<1>1. b \in X
  BY PartialsStayInSet
<1>2. StepsIn(F, 1 .. n, X)
  BY PartialsStayInSet DEF StepsIn
<1>3. PICK g : Folds(g, n, X, b, F)
  <2> HIDE DEF F, X, b
  <2>1. n \in Nat /\ b \in X /\ StepsIn(F, 1 .. n, X)
    BY <1>1, <1>2
  <2>2. \E g : Folds(g, n, X, b, F)
    BY ONLY <2>1, FoldsExist
  <2>3. QED
    BY <2>2
<1>4. AllSlots(offers, rules, n, g)
  BY <1>3 DEF AllSlots, Folds
<1>5. QED
  BY <1>4

\* The partial squads of one slot more extend those of the slots so far.
LEMMA PartialsExtend ==
  ASSUME NEW offers, Marketable(offers), NEW rules, Lockable(rules)
  PROVE  /\ PartialsOf(offers, rules, 0) = {Seed(offers, rules)}
         /\ \A n \in Nat :
              PartialsOf(offers, rules, n + 1)
                = FillAll(offers, rules, PartialsOf(offers, rules, n), n + 1)
<1> DEFINE Sol(n) == CHOOSE g : AllSlots(offers, rules, n, g)
<1>1. ASSUME NEW n \in Nat PROVE AllSlots(offers, rules, n, Sol(n))
  BY AllSlotsExist
<1>2. PartialsOf(offers, rules, 0) = {Seed(offers, rules)}
  <2>1. AllSlots(offers, rules, 0, Sol(0))
    BY <1>1
  <2>2. 1 .. 0 = {}
    OBVIOUS
  <2> HIDE DEF Sol
  <2>3. Sol(0)[1 .. 0] = {Seed(offers, rules)}
    BY <2>1, <2>2 DEF AllSlots
  <2>4. QED
    BY <2>3 DEF PartialsOf, Sol
<1>3. ASSUME NEW n \in Nat
      PROVE  PartialsOf(offers, rules, n + 1)
               = FillAll(offers, rules, PartialsOf(offers, rules, n), n + 1)
  <2>1. n + 1 \in Nat
    OBVIOUS
  <2>2. PICK h, k : h = Sol(n + 1) /\ k = Sol(n)
    OBVIOUS
  <2>3. AllSlots(offers, rules, n + 1, h) /\ AllSlots(offers, rules, n, k)
    BY <1>1, <2>1, <2>2
  <2> DEFINE R == [j \in 0 .. n |-> {k[1 .. j]}]
  <2>4. h[{}] \in R[0]
    <3>1. 1 .. 0 = {} /\ 0 \in 0 .. n
      OBVIOUS
    <3>2. h[{}] = {Seed(offers, rules)} /\ k[{}] = {Seed(offers, rules)}
      BY <2>3 DEF AllSlots
    <3>3. QED
      BY <3>1, <3>2
  <2>5. ASSUME NEW j \in 0 .. n - 1, h[1 .. j] \in R[j] PROVE h[1 .. j + 1] \in R[j + 1]
    <3>1. /\ 1 .. j + 1 \in SUBSET (1 .. n) /\ 1 .. j + 1 # {}
          /\ Max(1 .. j + 1) = j + 1 /\ (1 .. j + 1) \ {j + 1} = 1 .. j
      BY NextTop
    <3>2. 1 .. j + 1 \in SUBSET (1 .. n + 1)
      OBVIOUS
    <3>3. h[1 .. j + 1] = FillAll(offers, rules, h[1 .. j], j + 1)
      BY <2>3, <3>1, <3>2 DEF AllSlots
    <3>4. k[1 .. j + 1] = FillAll(offers, rules, k[1 .. j], j + 1)
      BY <2>3, <3>1 DEF AllSlots
    <3>5. j \in 0 .. n /\ j + 1 \in 0 .. n
      OBVIOUS
    <3>6. QED
      BY <2>5, <3>3, <3>4, <3>5
  <2>6. h[1 .. n] \in R[n]
    <3> HIDE DEF R
    <3>1. QED
      BY <2>4, <2>5, PrefixesStay
  <2>7. h[1 .. n] = k[1 .. n]
    BY <2>6
  <2>8. h[1 .. n + 1] = FillAll(offers, rules, h[1 .. n], n + 1)
    <3>1. /\ 1 .. n + 1 \in SUBSET (1 .. n + 1) /\ 1 .. n + 1 # {}
          /\ Max(1 .. n + 1) = n + 1 /\ (1 .. n + 1) \ {n + 1} = 1 .. n
      <4>1. n \in 0 .. (n + 1) - 1
        OBVIOUS
      <4>2. QED
        BY <2>1, <4>1, NextTop
    <3>2. QED
      BY <2>3, <3>1 DEF AllSlots
  <2> HIDE DEF Sol
  <2>9. QED
    BY <2>2, <2>7, <2>8 DEF PartialsOf, Sol
<1>4. QED
  BY <1>2, <1>3

\* When every slot is filled some partial squad holds S, if one led to it slot by slot.
LEMMA NextReaches ==
  ASSUME NEW offers, Marketable(offers), NEW rules, Lockable(rules), rules.budget \in Nat,
         NEW n \in Nat, n < Len(OpenSlots(rules)),
         NEW partials, NEW s \in partials, Recorded(offers, rules, s, n),
         NEW S, Buyable(offers, rules, S), LeadsTo(rules, s, S)
  PROVE  \E t \in FillAll(offers, rules, partials, n + 1) : LeadsTo(rules, t, S)
<1> DEFINE cands == CandidateIds(offers, rules)
           q == OpenSlots(rules)[n + 1]
           before == rules.locked \cup Range(s.ids)
           left == {p \in S \ before : PositionOf[p] = q}
<1>1. S \in SUBSET cands /\ S \in SUBSET Players /\ rules.locked \subseteq S /\ Filled(S)
  BY DEF Buyable, Filled
<1>2. left # {}
  <2>1. Picked(offers, rules, s, n) /\ Range(s.ids) \in SUBSET S
    BY DEF Recorded, LeadsTo
  <2>2. \E p \in S \ before : PositionOf[p] = q
    BY <1>1, <2>1, SomebodyIsLeft
  <2>3. QED
    BY <2>2
<1>3. left \in SUBSET Nat
  BY <1>1, PlayersAssumption
<1>4. PICK p \in left : \A r \in left : p <= r
  BY <1>2, <1>3, LeastExists
<1>5. p \in S \ before /\ PositionOf[p] = q /\ p \in OfPosition(cands, q) /\ p \in Players
  BY <1>1, <1>4 DEF OfPosition
<1>6. Fits(offers, rules, cands, s, p)
  <2>1. p \in S \ (rules.locked \cup Range(s.ids))
    BY <1>5
  <2>2. QED
    BY <2>1, NextFits
<1>7. PICK t : t = [ids |-> Append(s.ids, p), cost |-> s.cost + offers.price[p],
                    proxy |-> s.proxy + Outlook(offers, 1)[p]]
  OBVIOUS
<1>8. t \in FillAll(offers, rules, partials, n + 1)
  <2>1. p \in {r \in OfPosition(cands, q) : Fits(offers, rules, cands, s, r)}
    BY <1>5, <1>6
  <2> DEFINE With(u, r) == [ids |-> Append(u.ids, r), cost |-> u.cost + offers.price[r],
                            proxy |-> u.proxy + Outlook(offers, 1)[r]]
             fitting(u) == {r \in OfPosition(cands, q) : Fits(offers, rules, cands, u, r)}
  <2>2. Extended(offers, rules, cands, partials, q)
          = UNION {{With(u, r) : r \in fitting(u)} : u \in partials}
    BY Zenon DEF Extended
  <2>4. t = With(s, p) /\ p \in fitting(s)
    BY <1>7, <2>1
  <2> HIDE DEF With, fitting
  <2>5. t \in Extended(offers, rules, cands, partials, q)
    BY <2>2, <2>4
  <2>6. QED
    BY <2>5 DEF FillAll
<1>9. PICK ids, all : ids = s.ids /\ all = Append(ids, p)
  OBVIOUS
<1>10. t.ids = all /\ Range(all) = Range(ids) \cup {p}
  <2>1. ids \in Seq(Players)
    BY <1>9 DEF Recorded, Picked
  <2>2. QED
    BY <1>5, <1>7, <1>9, <2>1, Appended
<1>11. LeadsTo(rules, t, S)
  <2>1. Range(all) \in SUBSET S
    BY <1>5, <1>9, <1>10 DEF LeadsTo
  <2>2. ASSUME NEW x \in Range(all), NEW y \in S \ (rules.locked \cup Range(all)),
               PositionOf[x] = PositionOf[y]
        PROVE  x < y
    <3>1. y \in S \ before /\ y # p
      BY <1>9, <1>10, <2>2
    <3>2. CASE x \in Range(ids)
      BY <1>9, <2>2, <3>1, <3>2 DEF LeadsTo
    <3>3. CASE x = p
      <4>1. y \in left
        BY <1>5, <2>2, <3>1, <3>3
      <4>2. p <= y /\ p \in Nat /\ y \in Nat
        BY <1>3, <1>4, <4>1
      <4>3. QED
        BY <3>1, <3>3, <4>2
    <3>4. QED
      BY <1>10, <2>2, <3>2, <3>3
  <2>3. QED
    BY <1>10, <2>1, <2>2 DEF LeadsTo
<1>12. QED
  BY <1>8, <1>11

\* What is known of the partial squads when nobody is cut.
Uncut(offers, rules, n) ==
  /\ \A s \in PartialsOf(offers, rules, n) : Recorded(offers, rules, s, n)
  /\ \A S : Buyable(offers, rules, S) => \E s \in PartialsOf(offers, rules, n) : LeadsTo(rules, s, S)

LEMMA SlotsAreSlots ==
  ASSUME NEW rules, Lockable(rules)
  PROVE  Len(OpenSlots(rules)) \in Nat /\ DOMAIN OpenSlots(rules) = 1 .. Len(OpenSlots(rules))
<1>1. OpenSlots(rules) \in Seq(Positions)
  BY OpenSlotsFill
<1>2. QED
  BY <1>1, LenProperties

LEMMA UncutAlways ==
  ASSUME NEW offers, Marketable(offers), NEW rules, Lockable(rules), rules.budget \in Nat,
         Accepts(offers, rules), NEW n \in 0 .. Len(OpenSlots(rules))
  PROVE  Uncut(offers, rules, n)
<1> DEFINE good == {k \in Nat : k <= Len(OpenSlots(rules)) => Uncut(offers, rules, k)}
<1>1. 0 \in good
  <2>1. PartialsOf(offers, rules, 0) = {Seed(offers, rules)}
    BY PartialsExtend
  <2>2. Recorded(offers, rules, Seed(offers, rules), 0)
    BY SeedIsRecorded
  <2>3. Range(Seed(offers, rules).ids) = {}
    BY DEF Seed, Range
  <2>4. \A S : LeadsTo(rules, Seed(offers, rules), S)
    BY <2>3 DEF LeadsTo
  <2>5. QED
    BY <2>1, <2>2, <2>4 DEF Uncut
<1>2. ASSUME NEW k \in Nat, k \in good PROVE k + 1 \in good
  <2> SUFFICES ASSUME k + 1 <= Len(OpenSlots(rules)) PROVE Uncut(offers, rules, k + 1)
    OBVIOUS
  <2>1. k < Len(OpenSlots(rules)) /\ Uncut(offers, rules, k)
    BY <1>2, SlotsAreSlots
  <2>2. PICK partials, more : /\ partials = PartialsOf(offers, rules, k)
                              /\ more = PartialsOf(offers, rules, k + 1)
    OBVIOUS
  <2>3. more = FillAll(offers, rules, partials, k + 1)
    BY <2>2, PartialsExtend
  <2>4. \A s \in partials : Recorded(offers, rules, s, k)
    BY <2>1, <2>2 DEF Uncut
  <2>5. ASSUME NEW t \in more PROVE Recorded(offers, rules, t, k + 1)
    <3>1. t \in Extended(offers, rules, CandidateIds(offers, rules), partials,
                         OpenSlots(rules)[k + 1])
      BY <2>3, <2>5 DEF FillAll
    <3>2. QED
      BY <2>1, <2>4, <3>1, ExtendedAreRecorded
  <2>6. ASSUME NEW S, Buyable(offers, rules, S) PROVE \E t \in more : LeadsTo(rules, t, S)
    <3>1. PICK s \in partials : LeadsTo(rules, s, S)
      BY <2>1, <2>2, <2>6 DEF Uncut
    <3>2. Recorded(offers, rules, s, k)
      BY <2>4
    <3>3. \E t \in FillAll(offers, rules, partials, k + 1) : LeadsTo(rules, t, S)
      BY <2>1, <2>6, <3>1, <3>2, NextReaches
    <3>4. QED
      BY <2>3, <3>3
  <2>7. QED
    BY <2>2, <2>5, <2>6 DEF Uncut
<1>3. good \in SUBSET Nat
  OBVIOUS
<1> HIDE DEF good
<1>4. Nat = good
  BY <1>1, <1>2, <1>3, Induction
<1>5. n \in good /\ n <= Len(OpenSlots(rules))
  BY <1>4, SlotsAreSlots
<1>6. QED
  BY <1>5 DEF good

\* A full squad that leads to S is S.
LEMMA FullIsReached ==
  ASSUME NEW offers, NEW rules, Lockable(rules), NEW s,
         Recorded(offers, rules, s, Len(OpenSlots(rules))),
         NEW S, Buyable(offers, rules, S), LeadsTo(rules, s, S)
  PROVE  rules.locked \cup Range(s.ids) = S
<1> DEFINE T == rules.locked \cup Range(s.ids)
<1>1. Filled(T)
  BY PickedFills DEF Recorded
<1>2. Filled(S) /\ T \in SUBSET S
  BY DEF Buyable, LeadsTo
<1> HIDE DEF T
<1>3. IsFiniteSet(S) /\ IsFiniteSet(T) /\ Cardinality(S) = 15 /\ Cardinality(T) = 15
  BY <1>1, <1>2, FilledIsFifteen
<1>4. T = S
  BY <1>2, <1>3, FS_Subset
<1>5. QED
  BY <1>4 DEF T

\* A full squad can be bought.
LEMMA FullIsBuyable ==
  ASSUME NEW offers, NEW rules, Lockable(rules), NEW s,
         Recorded(offers, rules, s, Len(OpenSlots(rules)))
  PROVE  /\ Buyable(offers, rules, rules.locked \cup Range(s.ids))
         /\ Accepts(offers, rules) =>
              (rules.locked \cup Range(s.ids)) \cap rules.excluded = {}
<1> DEFINE T == rules.locked \cup Range(s.ids)
<1>1. Filled(T) /\ Clubs(offers, T) /\ CostOf(offers, T) <= rules.budget
  BY PickedFills DEF Recorded, LegalSquad
<1>2. Range(s.ids) \in SUBSET CandidateIds(offers, rules)
  BY DEF Recorded
<1>3. rules.locked \in SUBSET CandidateIds(offers, rules)
  BY DEF CandidateIds
<1>4. Buyable(offers, rules, T)
  BY <1>1, <1>2, <1>3 DEF Buyable
<1>5. ASSUME Accepts(offers, rules) PROVE T \cap rules.excluded = {}
  <2>1. \A p \in T : p \in CandidateIds(offers, rules)
    BY <1>2, <1>3
  <2>2. \A p \in T : p \in rules.locked \/ p \in Common(offers) \ rules.excluded
    BY <2>1, CandidatesAreCommon
  <2>3. rules.locked \cap rules.excluded = {}
    BY <1>5 DEF Accepts
  <2>4. QED
    BY <2>2, <2>3
<1>6. QED
  BY <1>4, <1>5

\* The reference that SearchIsSound compares with: the squads that can be bought.
LEMMA AffordableAreBuyable ==
  ASSUME NEW rules, Lockable(rules), NEW S
  PROVE  S \in Affordables(rules) <=> Buyable(market, rules, S)
<1> DEFINE cands == CandidateIds(market, rules)
           of(q) == {A \in kSubset(PositionCounts[q], OfPosition(cands, q)) :
                       OfPosition(rules.locked, q) \subseteq A}
           whole == {A \cup B \cup C \cup D : A \in of("GK"), B \in of("DEF"), C \in of("MID"),
                                              D \in of("FWD")}
<1>1. Affordables(rules)
        = {T \in whole : LegalSquad(market, T) /\ CostOf(market, T) <= rules.budget}
  BY DEF Affordables
<1>2. cands \in SUBSET Players /\ rules.locked \in SUBSET Players
  BY CandidatesArePlayers DEF Lockable
<1>3. \A p \in Players : PositionOf[p] \in {"GK", "DEF", "MID", "FWD"}
  BY PlayersAssumption DEF Positions
<1>4. ASSUME S \in whole, LegalSquad(market, S), CostOf(market, S) <= rules.budget
      PROVE  Buyable(market, rules, S)
  <2>1. PICK A \in of("GK"), B \in of("DEF"), C \in of("MID"), D \in of("FWD") :
          S = A \cup B \cup C \cup D
    BY <1>4
  <2>2. A \subseteq cands /\ B \subseteq cands /\ C \subseteq cands /\ D \subseteq cands
    BY DEF kSubset, OfPosition
  <2>3. rules.locked \subseteq S
    <3>1. SUFFICES ASSUME NEW p \in rules.locked PROVE p \in S
      OBVIOUS
    <3>2. p \in OfPosition(rules.locked, PositionOf[p])
      BY DEF OfPosition
    <3>3. QED
      BY <1>2, <1>3, <2>1, <3>2
  <2> HIDE DEF cands, of
  <2>4. S \in SUBSET cands
    BY <2>1, <2>2
  <2>5. Filled(S)
    BY <1>2, <1>4, <2>4 DEF Filled, LegalSquad
  <2>6. QED
    BY <1>4, <2>3, <2>4, <2>5 DEF Buyable, LegalSquad, cands
<1>5. ASSUME Buyable(market, rules, S)
      PROVE  S \in whole /\ LegalSquad(market, S) /\ CostOf(market, S) <= rules.budget
  <2>1. S \in SUBSET cands /\ rules.locked \subseteq S /\ Filled(S)
    BY <1>5 DEF Buyable
  <2>2. \A q \in Positions : OfPosition(S, q) \in of(q)
    BY <2>1 DEF kSubset, OfPosition, Filled
  <2>3. S = OfPosition(S, "GK") \cup OfPosition(S, "DEF") \cup OfPosition(S, "MID")
              \cup OfPosition(S, "FWD")
    BY <1>2, <1>3, <2>1 DEF OfPosition
  <2> HIDE DEF cands, of
  <2>4. S \in whole
    BY <2>2, <2>3 DEF Positions
  <2>5. QED
    BY <1>5, <2>1, <2>4 DEF Buyable, LegalSquad, Filled
<1>6. QED
  BY <1>1, <1>4, <1>5

-----------------------------------------------------------------------------
(* A search in progress. *)

\* The beam has room for every partial squad.
Roomy(offers, rules) ==
  \A n \in DOMAIN OpenSlots(rules) : Cardinality(PartialsOf(offers, rules, n)) <= rules.beam

\* After n slots: what the partial squads record, and that all of them are there if the beam
\* has room.
KeepsPartials(offers, rules, partials, n) ==
  /\ \A s \in partials : Recorded(offers, rules, s, n)
  /\ Roomy(offers, rules) => partials = PartialsOf(offers, rules, n)

LEMMA RoomIsRoom ==
  ASSUME NEW rules, Lockable(rules)
  PROVE  HoldsAllPartials(rules) <=> Roomy(market, rules)
<1>1. \A n \in DOMAIN OpenSlots(rules) : n \in Nat
  BY SlotsAreSlots
<1>2. \A n \in DOMAIN OpenSlots(rules) : AllPartials(rules, n) = PartialsOf(market, rules, n)
  BY <1>1, PartialsAreFold
<1>3. QED
  BY <1>2 DEF HoldsAllPartials, Roomy

LEMMA SearchBegins ==
  ASSUME NEW offers, Marketable(offers), NEW rules, Lockable(rules), Accepts(offers, rules)
  PROVE  KeepsPartials(offers, rules, {Seed(offers, rules)}, 0)
<1>1. Recorded(offers, rules, Seed(offers, rules), 0)
  BY SeedIsRecorded
<1>2. PartialsOf(offers, rules, 0) = {Seed(offers, rules)}
  BY PartialsExtend
<1>3. QED
  BY <1>1, <1>2 DEF KeepsPartials

LEMMA SlotKeepsPartials ==
  ASSUME NEW offers, Marketable(offers), NEW rules, Lockable(rules), rules.budget \in Nat,
         NEW n \in Nat, n < Len(OpenSlots(rules)),
         NEW partials, KeepsPartials(offers, rules, partials, n),
         NEW more, more = FillSlot(offers, rules, CandidateIds(offers, rules), partials,
                                   OpenSlots(rules)[n + 1])
  PROVE  KeepsPartials(offers, rules, more, n + 1)
<1> DEFINE all == Extended(offers, rules, CandidateIds(offers, rules), partials,
                           OpenSlots(rules)[n + 1])
<1>1. /\ more \in SUBSET all
      /\ Cardinality(all) <= rules.beam => more = all
  BY DEF FillSlot, Foremost
<1>2. \A s \in partials : Recorded(offers, rules, s, n)
  BY DEF KeepsPartials
<1>3. \A t \in all : Recorded(offers, rules, t, n + 1)
  BY <1>2, ExtendedAreRecorded
<1>4. ASSUME Roomy(offers, rules) PROVE more = PartialsOf(offers, rules, n + 1)
  <2>1. partials = PartialsOf(offers, rules, n)
    BY <1>4 DEF KeepsPartials
  <2>2. PartialsOf(offers, rules, n + 1) = all
    BY <2>1, PartialsExtend DEF FillAll
  <2>3. n + 1 \in DOMAIN OpenSlots(rules)
    BY SlotsAreSlots
  <2>4. Cardinality(PartialsOf(offers, rules, n + 1)) <= rules.beam
    BY <1>4, <2>3 DEF Roomy
  <2>5. QED
    BY <1>1, <2>2, <2>4
<1> HIDE DEF all
<1>5. QED
  BY <1>1, <1>3, <1>4 DEF KeepsPartials

\* What a search that filled every slot has found.
LEMMA SearchIsComplete ==
  ASSUME NEW offers, Marketable(offers), NEW rules, Lockable(rules), rules.budget \in Nat,
         Accepts(offers, rules),
         NEW partials, KeepsPartials(offers, rules, partials, Len(OpenSlots(rules))),
         Roomy(offers, rules), NEW S, Buyable(offers, rules, S)
  PROVE  \E s \in partials : rules.locked \cup Range(s.ids) = S
<1> DEFINE n == Len(OpenSlots(rules))
<1>1. n \in 0 .. n
  BY SlotsAreSlots
<1>2. Uncut(offers, rules, n)
  BY <1>1, UncutAlways
<1>3. partials = PartialsOf(offers, rules, n)
  BY DEF KeepsPartials
<1>4. PICK s \in partials : LeadsTo(rules, s, S)
  BY <1>2, <1>3 DEF Uncut
<1>5. Recorded(offers, rules, s, n)
  BY DEF KeepsPartials
<1>6. QED
  BY <1>4, <1>5, FullIsReached

-----------------------------------------------------------------------------
(* The audit of a search that nobody was cut from. *)

\* A completed squad that no transfers were planned for.
Scored(offers, c) ==
  /\ c = Candidate(offers, c.squad) /\ SquadOK(c.squad)
  /\ c.total \in Int /\ c.cost \in Nat /\ c.hits = 0

NumberOrder == {u \in Nat \X Nat : u[1] < u[2]}

LEMMA SquadsAreOrdered ==
  ASSUME NEW offers, NEW c, Scored(offers, c), NEW d, Scored(offers, d), NEW e, Scored(offers, e)
  PROVE  /\ ~BetterSquad(c, c)
         /\ BetterSquad(c, d) /\ BetterSquad(d, e) => BetterSquad(c, e)
<1> DEFINE S(x, y) == Lexical(NumberOrder, 15, x.squad.order, y.squad.order)
           Good(x) == x \in {c, d, e}
<1>1. Orders(NumberOrder, Nat)
  BY DEF Orders, NumberOrder
<1>2. \A x : Good(x) => /\ x.squad.order \in [1 .. 15 -> Nat]
                        /\ x.total \in Int /\ x.cost \in Int /\ x.hits = 0
  <2>1. \A x : Good(x) => Fielded(x.squad.order)
    BY DEF Scored, SquadOK
  <2>2. \A f \in [Slots -> Players] : f \in [1 .. 15 -> Nat]
    BY PlayersAssumption DEF Slots
  <2>3. \A x : Good(x) => x.squad.order \in [1 .. 15 -> Nat]
    BY <2>1, <2>2 DEF Fielded
  <2>4. \A x : Good(x) => x.total \in Int /\ x.cost \in Int /\ x.hits = 0
    BY DEF Scored
  <2>5. QED
    BY <2>3, <2>4
<1>3. \A x, y : Good(x) /\ Good(y) => (Sooner(x.squad.order, y.squad.order) <=> S(x, y))
  <2>1. ASSUME NEW a \in [1 .. 15 -> Nat], NEW b \in [1 .. 15 -> Nat]
        PROVE  Sooner(a, b) <=> Lexical(NumberOrder, 15, a, b)
    BY DEF Sooner, Lexical, NumberOrder
  <2>2. QED
    BY <1>2, <2>1
<1>4. ~S(c, c) /\ (S(c, d) /\ S(d, e) => S(c, e))
  <2>1. PICK i, j, k : i = c.squad.order /\ j = d.squad.order /\ k = e.squad.order
    OBVIOUS
  <2>2. i \in [1 .. 15 -> Nat] /\ j \in [1 .. 15 -> Nat] /\ k \in [1 .. 15 -> Nat]
    BY <1>2, <2>1
  <2>3. /\ ~Lexical(NumberOrder, 15, i, i)
        /\ Lexical(NumberOrder, 15, i, j) /\ Lexical(NumberOrder, 15, j, k)
             => Lexical(NumberOrder, 15, i, k)
    BY <1>1, <2>2, LexicalOrders, ZenonT(40)
  <2>4. QED
    BY <2>1, <2>3
<1>5. \A x, y : Good(x) /\ Good(y) =>
        (BetterSquad(x, y) <=> \/ x.total > y.total
                               \/ x.total = y.total /\ x.cost < y.cost
                               \/ x.total = y.total /\ x.cost = y.cost /\ S(x, y))
  BY <1>2, <1>3 DEF BetterSquad
<1> HIDE DEF S
<1>6. /\ c.total \in Int /\ c.cost \in Int /\ d.total \in Int /\ d.cost \in Int
      /\ e.total \in Int /\ e.cost \in Int
  BY <1>2
<1>7. ~BetterSquad(c, c)
  BY <1>4, <1>5, <1>6
<1>8. ASSUME BetterSquad(c, d), BetterSquad(d, e) PROVE BetterSquad(c, e)
  BY <1>4, <1>5, <1>6, <1>8
<1>9. QED
  BY <1>7, <1>8

\* A squad that does better is better.
LEMMA DominatesIsBetter ==
  ASSUME NEW offers, NEW c, Scored(offers, c), NEW d, Scored(offers, d), Dominates(c, d)
  PROVE  BetterSquad(c, d)
<1>1. /\ c.total \in Int /\ d.total \in Int /\ c.cost \in Int /\ d.cost \in Int
      /\ c.hits = d.hits
  BY DEF Scored
<1>2. QED
  BY <1>1 DEF Dominates, BetterSquad

\* What heads a list is beaten by nobody who could have been on it.
LEMMA BestIsUnbeaten ==
  ASSUME NEW offers, NEW frozen, IsFiniteSet(frozen), \A c \in frozen : Scored(offers, c),
         NEW k \in Int, NEW best \in Best(Shortlisted(frozen, k)), NEW c \in frozen
  PROVE  ~BetterSquad(c, best)
<1> DEFINE ahead(e) == {d \in frozen : BetterSquad(d, e)}
<1>1. SUFFICES ASSUME BetterSquad(c, best) PROVE FALSE
  OBVIOUS
<1>2. /\ best \in frozen /\ Cardinality(ahead(best)) < k
      /\ \A d \in Shortlisted(frozen, k) : ~BetterSquad(d, best)
  BY DEF Best, Shortlisted, Foremost
<1>3. ahead(c) \subseteq ahead(best)
  <2>1. ASSUME NEW d \in frozen, BetterSquad(d, c) PROVE BetterSquad(d, best)
    BY <1>1, <1>2, <2>1, SquadsAreOrdered
  <2>2. QED
    BY <2>1
<1>4. /\ IsFiniteSet(ahead(best)) /\ Cardinality(ahead(c)) <= Cardinality(ahead(best))
      /\ Cardinality(ahead(best)) \in Nat /\ Cardinality(ahead(c)) \in Nat
  <2>1. IsFiniteSet(ahead(best))
    BY FS_Subset
  <2>2. IsFiniteSet(ahead(c))
    BY <1>3, <2>1, FS_Subset
  <2> HIDE DEF ahead
  <2>3. Cardinality(ahead(c)) <= Cardinality(ahead(best))
    BY <1>3, <2>1, FS_Subset
  <2>4. QED
    BY <2>1, <2>2, <2>3, FS_CardinalityType
<1>5. Cardinality(ahead(c)) < k
  BY <1>2, <1>4
<1>6. c \in Shortlisted(frozen, k)
  BY <1>5 DEF Shortlisted, Foremost
<1>7. QED
  BY <1>1, <1>2, <1>6

\* Without planning a completed squad is what was bought.
LEMMA EvaluatedAreScored ==
  ASSUME NEW offers, Marketable(offers), NEW rules, rules.budget \in Nat,
         NEW S, Filled(S), CostOf(offers, S) <= rules.budget
  PROVE  /\ Scored(offers, Evaluated(offers, rules, S))
         /\ Owned(Evaluated(offers, rules, S).squad) = S
<1>1. PICK b : b = Bought(offers, S, rules.budget)
  OBVIOUS
<1>2. SquadOK(b) /\ Owned(b) = S
  BY <1>1, BoughtIsSound
<1>3. PICK c : c = Evaluated(offers, rules, S)
  OBVIOUS
<1>4. c = [squad |-> b, cost |-> CostOf(offers, S), total |-> HoldScore(offers, b, 1),
           hits |-> 0]
  BY <1>1, <1>2, <1>3 DEF Evaluated, Candidate
<1>5. HoldScore(offers, b, 1) \in Int
  BY <1>2, HoldScoreIsSum, SumIsNumber
<1>6. CostOf(offers, S) \in Nat
  BY CostIsNumber DEF Filled
<1>7. c = Candidate(offers, c.squad)
  BY <1>2, <1>4 DEF Candidate
<1>8. QED
  BY <1>2, <1>3, <1>4, <1>5, <1>6, <1>7 DEF Scored

\* The squads of a search without planned transfers.
Frozen(offers, rules, partials) ==
  {Evaluated(offers, rules, rules.locked \cup Range(s.ids)) : s \in partials}

LEMMA UnplannedAreEvaluated ==
  ASSUME NEW offers, NEW rules, rules.planned = FALSE, NEW partials
  PROVE  Completed(offers, rules, partials) = Frozen(offers, rules, partials)
  BY DEF Completed, PlannedAhead, Frozen

\* Nobody is locked in a counterfactual.
LEMMA FreeRules ==
  ASSUME NEW rules \in Ruled, rules.planned = FALSE, NEW excluded, NEW free,
         free = Free(excluded, rules)
  PROVE  /\ free.locked = {} /\ free.budget = rules.budget /\ free.planned = FALSE
         /\ free.returned = 1 /\ Lockable(free)
<1>1. /\ free.locked = {} /\ free.budget = rules.budget /\ free.planned = FALSE
      /\ free.returned = 1
  BY DEF Free, Ruled
<1>2. \A q \in Positions : LockedOf(free, q) = 0
  <2>1. \A q : OfPosition({}, q) = {}
    BY DEF OfPosition
  <2>2. QED
    BY <1>1, <2>1, FS_EmptySet DEF LockedOf
<1>3. \A q \in Positions : PositionCounts[q] \in Nat
  BY DEF Positions, PositionCounts
<1>4. Lockable(free)
  BY <1>1, <1>2, <1>3 DEF Lockable
<1>5. QED
  BY <1>1, <1>4

\* Whoever challenges is a squad that the same budget buys.
BoughtAs(offers, rules, c, S) ==
  /\ Filled(S) /\ Clubs(offers, S) /\ CostOf(offers, S) <= rules.budget
  /\ c = Evaluated(offers, rules, S) /\ Owned(c.squad) = S

LEMMA ChallengersAreBought ==
  ASSUME NEW offers, Marketable(offers), NEW rules \in Ruled, rules.planned = FALSE,
         NEW best, NEW c \in Challengers(offers, rules, best)
  PROVE  \E S : BoughtAs(offers, rules, c, S)
<1>1. PICK excluded : c \in OptimizeInitialSquad(offers, Free(excluded, rules))
  BY DEF Challengers
<1>2. PICK free : free = Free(excluded, rules)
  OBVIOUS
<1>3. /\ free.locked = {} /\ free.budget = rules.budget /\ free.planned = FALSE
      /\ free.returned = 1 /\ Lockable(free)
  BY <1>2, FreeRules
<1>4. rules.budget \in Nat
  BY DEF Ruled
<1>5. PICK found : found = Search(offers, free)
  OBVIOUS
<1>6. c \in Completed(offers, free, found)
  BY <1>1, <1>2, <1>5 DEF OptimizeInitialSquad, Shortlisted, Foremost
<1>7. PICK s \in found : c = Evaluated(offers, free, free.locked \cup Range(s.ids))
  <2>1. Completed(offers, free, found) = Frozen(offers, free, found)
    BY <1>3, UnplannedAreEvaluated
  <2>2. QED
    BY <1>6, <2>1 DEF Frozen
<1>8. Picked(offers, free, s, Len(OpenSlots(free)))
  BY <1>3, <1>4, <1>5, SearchFills
<1>9. PICK S : S = free.locked \cup Range(s.ids)
  OBVIOUS
<1>10. Filled(S) /\ LegalSquad(offers, S) /\ CostOf(offers, S) <= free.budget
  BY <1>3, <1>8, <1>9, PickedFills
<1>11. c = Evaluated(offers, rules, S)
  BY <1>3, <1>7, <1>9 DEF Evaluated
<1>12. Owned(c.squad) = S
  BY <1>3, <1>4, <1>10, <1>11, EvaluatedAreScored
<1>13. QED
  BY <1>3, <1>10, <1>11, <1>12 DEF LegalSquad, BoughtAs

\* The audit finds nothing that the search could have found.
LEMMA NothingDominates ==
  ASSUME NEW offers, Marketable(offers), NEW rules \in Ruled, Lockable(rules),
         Accepts(offers, rules), rules.locked = {}, rules.planned = FALSE,
         NEW partials, KeepsPartials(offers, rules, partials, Len(OpenSlots(rules))),
         Roomy(offers, rules),
         NEW best \in Best(Shortlisted(Completed(offers, rules, partials), rules.returned)),
         \A c \in Challengers(offers, rules, best) :
           Owned(c.squad) \subseteq CandidateIds(offers, rules)
  PROVE  ~IsDominated(offers, rules, best)
<1>1. rules.budget \in Nat /\ rules.returned \in Int
  BY DEF Ruled
<1>2. PICK frozen : frozen = Completed(offers, rules, partials)
  OBVIOUS
<1>3. frozen = Frozen(offers, rules, partials)
  BY <1>2, UnplannedAreEvaluated
<1>4. \A s \in partials : Recorded(offers, rules, s, Len(OpenSlots(rules)))
  BY DEF KeepsPartials
<1>5. \A e \in frozen : Scored(offers, e)
  <2>1. SUFFICES ASSUME NEW s \in partials
                 PROVE  Scored(offers, Evaluated(offers, rules, rules.locked \cup Range(s.ids)))
    BY <1>3 DEF Frozen
  <2>2. Picked(offers, rules, s, Len(OpenSlots(rules)))
    BY <1>4 DEF Recorded
  <2>3. PICK S : S = rules.locked \cup Range(s.ids)
    OBVIOUS
  <2>4. Filled(S) /\ CostOf(offers, S) <= rules.budget
    BY <2>2, <2>3, PickedFills
  <2>5. QED
    BY <1>1, <2>3, <2>4, EvaluatedAreScored
<1>6. IsFiniteSet(frozen)
  <2>1. IsFiniteSet(partials)
    BY <1>4, SlotsAreSlots, PicksCount
  <2> DEFINE f == [s \in partials |-> Evaluated(offers, rules, rules.locked \cup Range(s.ids))]
  <2>2. f \in Surjection(partials, frozen)
    <3>1. f \in [partials -> frozen] /\ \A e \in frozen : \E s \in partials : f[s] = e
      BY <1>3 DEF Frozen
    <3>2. QED
      BY <3>1 DEF Surjection
  <2>3. QED
    BY <2>1, <2>2, FS_Surjection
<1>7. best \in Best(Shortlisted(frozen, rules.returned)) /\ best \in frozen
  BY <1>2 DEF Best, Shortlisted, Foremost
<1>8. SUFFICES ASSUME NEW c \in Challengers(offers, rules, best), Dominates(c, best)
               PROVE  FALSE
  BY DEF IsDominated
<1>0. /\ Marketable(offers) /\ rules \in Ruled /\ Lockable(rules) /\ Accepts(offers, rules)
      /\ KeepsPartials(offers, rules, partials, Len(OpenSlots(rules))) /\ Roomy(offers, rules)
      /\ rules.planned = FALSE /\ c \in Challengers(offers, rules, best)
  OBVIOUS
<1>9. PICK S : BoughtAs(offers, rules, c, S)
  BY ONLY <1>0, ChallengersAreBought
<1>10. Buyable(offers, rules, S)
  BY <1>9 DEF Buyable, BoughtAs
<1>11. PICK s \in partials : rules.locked \cup Range(s.ids) = S
  BY ONLY <1>0, <1>1, <1>10, SearchIsComplete
<1>12. c \in frozen
  BY <1>3, <1>9, <1>11 DEF Frozen, BoughtAs
<1>13. BetterSquad(c, best)
  BY <1>5, <1>7, <1>8, <1>12, DominatesIsBetter
<1>14. ~BetterSquad(c, best)
  BY <1>1, <1>5, <1>6, <1>7, <1>12, BestIsUnbeaten
<1>15. QED
  BY <1>13, <1>14

-----------------------------------------------------------------------------
(* Searches of the state machine. *)

\* After every slot nobody was cut, if the beam has room.
PartialsAreKept ==
  task.kind = "search" =>
    KeepsPartials(market, task.rules, task.partials, task.slot - 1)

\* Which actions lead to a search.
LEMMA SearchesBegin ==
  ASSUME StackInv, Next, task'.kind = "search"
  PROVE  SearchSlot \/ \E rules \in Rules : StartSearch(rules)
<1>1. ASSUME SearchFails \/ MakeTransfers \/ Finish \/ \E m \in Markets : NewRelease(m)
      PROVE  FALSE
  <2>1. task' \in {Idle, Decided}
    BY <1>1 DEF SearchFails, MakeTransfers, Finish, NewRelease
  <2>2. QED
    BY <2>1 DEF Idle, Decided
<1>2. ~TakeSquad
  BY DEF TakeSquad
<1>3. ~AdviseTransfer
  BY DEF AdviseTransfer
<1>4. \A blanks : ~PlayGameweek(blanks)
  BY DEF PlayGameweek
<1>5. ~Benchmarking
  BY BenchmarksOnly
<1>6. \A w : ~PlayWildcard(w)
  BY DEF PlayWildcard
<1>7. \A options : ~StartPlan(options)
  BY DEF StartPlan
<1>8. ~PlanGameweek
  <2>1. SUFFICES ASSUME PlanGameweek PROVE FALSE
    OBVIOUS
  <2>2. task'.kind = "plan"
    <3>1. task.kind = "plan" /\ \E week, plans :
            task' = [task EXCEPT !.week = week, !.plans = plans]
      BY <2>1 DEF PlanGameweek
    <3>2. task = [kind |-> "plan", options |-> task.options, week |-> task.week,
                  plans |-> task.plans]
      BY <3>1 DEF StackInv, PlansAreOK
    <3>3. QED
      BY <3>1, <3>2
  <2>3. QED
    BY <2>2
<1>9. QED
  BY <1>1, <1>2, <1>3, <1>4, <1>5, <1>6, <1>7, <1>8 DEF Next, Benchmarking

LEMMA PartialsBegin ==
  ASSUME StackInv, NEW rules \in Rules, StartSearch(rules)
  PROVE  PartialsAreKept'
<1>1. /\ Accepts(market, rules) /\ UNCHANGED market
      /\ task' = [kind |-> "search", rules |-> rules, slot |-> 1,
                  partials |-> {Seed(market, rules)}]
  BY DEF StartSearch
<1>2. Marketable(market) /\ Lockable(rules)
  BY <1>1, MarketsAreMarketable, AcceptedAreLockable DEF StackInv
<1>3. KeepsPartials(market, rules, {Seed(market, rules)}, 0)
  BY <1>1, <1>2, SearchBegins
<1>4. task'.rules = rules /\ task'.partials = {Seed(market, rules)} /\ task'.slot - 1 = 0
  BY <1>1
<1>5. QED
  BY <1>1, <1>3, <1>4 DEF PartialsAreKept

LEMMA PartialsContinue ==
  ASSUME StackInv, PartialsAreKept, SearchSlot
  PROVE  PartialsAreKept'
<1>1. /\ task.kind = "search" /\ task.slot <= Len(OpenSlots(task.rules)) /\ UNCHANGED market
      /\ task' = [task EXCEPT
                    !.slot = @ + 1,
                    !.partials = FillSlot(market, task.rules, CandidateIds(market, task.rules),
                                          @, OpenSlots(task.rules)[task.slot])]
  BY DEF SearchSlot
<1>2. /\ task.rules \in Rules /\ Accepts(market, task.rules) /\ Marketable(market)
      /\ task = [kind |-> "search", rules |-> task.rules, slot |-> task.slot,
                 partials |-> task.partials]
      /\ task.slot \in 1 .. Len(OpenSlots(task.rules)) + 1
  BY <1>1, MarketsAreMarketable DEF StackInv, SearchesAreOK
<1>3. /\ task'.rules = task.rules /\ task'.slot = task.slot + 1
      /\ task'.partials = FillSlot(market, task.rules, CandidateIds(market, task.rules),
                                   task.partials, OpenSlots(task.rules)[task.slot])
  BY <1>1, <1>2
<1>4. PICK n, partials, rules :
        n = task.slot - 1 /\ partials = task.partials /\ rules = task.rules
  OBVIOUS
<1>5. Lockable(rules) /\ rules.budget \in Nat
  BY <1>2, <1>4, AcceptedAreLockable
<1>6. Len(OpenSlots(rules)) \in Nat
  BY <1>5, SlotsAreSlots
<1>7. /\ n \in Nat /\ n < Len(OpenSlots(rules)) /\ n + 1 = task.slot /\ task'.slot - 1 = n + 1
  BY <1>1, <1>2, <1>3, <1>4, <1>6
<1>8. KeepsPartials(market, rules, partials, n)
  BY <1>1, <1>4 DEF PartialsAreKept
<1>9. PICK more : more = FillSlot(market, rules, CandidateIds(market, rules), partials,
                                  OpenSlots(rules)[n + 1])
  OBVIOUS
<1>10. KeepsPartials(market, rules, more, n + 1)
  BY <1>2, <1>5, <1>7, <1>8, <1>9, SlotKeepsPartials
<1>11. task'.rules = rules /\ task'.partials = more /\ task'.slot - 1 = n + 1 /\ market' = market
  BY <1>1, <1>3, <1>4, <1>7, <1>9
<1>12. QED
  BY <1>10, <1>11 DEF PartialsAreKept

\* What has been found is sound and complete.
FoundSound(offers, rules, partials, best) ==
  LET found == {rules.locked \cup Range(s.ids) : s \in partials} IN
    /\ \A S \in found : Buyable(offers, rules, S) /\ S \cap rules.excluded = {}
    /\ Cardinality(found) = Cardinality(partials)
    /\ Roomy(offers, rules) =>
         /\ \A S : Buyable(offers, rules, S) => S \in found
         /\ /\ rules.locked = {} /\ ~rules.planned
            /\ \A c \in Challengers(offers, rules, best) :
                 Owned(c.squad) \subseteq CandidateIds(offers, rules)
            => ~IsDominated(offers, rules, best)

LEMMA SearchEnds ==
  ASSUME NEW offers, Marketable(offers), NEW rules \in Rules, Accepts(offers, rules),
         NEW partials, KeepsPartials(offers, rules, partials, Len(OpenSlots(rules))),
         NEW best \in Best(Shortlisted(Completed(offers, rules, partials), rules.returned))
  PROVE  FoundSound(offers, rules, partials, best)
<1> DEFINE found == {rules.locked \cup Range(s.ids) : s \in partials}
<1>1. Lockable(rules) /\ rules.budget \in Nat /\ rules \in Ruled
  BY AcceptedAreLockable, RequestsAssumption
<1>2. \A s \in partials : Recorded(offers, rules, s, Len(OpenSlots(rules)))
  BY DEF KeepsPartials
<1>3. \A s \in partials : /\ Buyable(offers, rules, rules.locked \cup Range(s.ids))
                          /\ (rules.locked \cup Range(s.ids)) \cap rules.excluded = {}
  BY <1>1, <1>2, FullIsBuyable
<1>4. \A S \in found : Buyable(offers, rules, S) /\ S \cap rules.excluded = {}
  BY <1>3
<1>5. PICK n \in Nat : n = Len(OpenSlots(rules))
  BY <1>1, SlotsAreSlots
<1>6. Cardinality(found) = Cardinality(partials)
  <2>1. \A s \in partials : Recorded(offers, rules, s, n)
    BY <1>2, <1>5
  <2>2. Cardinality(SquadsOf(rules, partials)) = Cardinality(partials)
    BY ONLY <1>1, <2>1, PicksCount
  <2>3. QED
    BY <2>2 DEF SquadsOf
<1>7. ASSUME Roomy(offers, rules)
      PROVE  /\ \A S : Buyable(offers, rules, S) => S \in found
             /\ /\ rules.locked = {} /\ ~rules.planned
                /\ \A c \in Challengers(offers, rules, best) :
                     Owned(c.squad) \subseteq CandidateIds(offers, rules)
                => ~IsDominated(offers, rules, best)
  <2>1. /\ Marketable(offers) /\ Accepts(offers, rules)
        /\ KeepsPartials(offers, rules, partials, Len(OpenSlots(rules)))
        /\ best \in Best(Shortlisted(Completed(offers, rules, partials), rules.returned))
    OBVIOUS
  <2>2. ASSUME NEW S, Buyable(offers, rules, S) PROVE S \in found
    <3>1. \E s \in partials : rules.locked \cup Range(s.ids) = S
      BY ONLY <1>1, <1>7, <2>1, <2>2, SearchIsComplete
    <3>2. QED
      BY <3>1
  <2>3. ASSUME rules.locked = {}, ~rules.planned,
               \A c \in Challengers(offers, rules, best) :
                 Owned(c.squad) \subseteq CandidateIds(offers, rules)
        PROVE  ~IsDominated(offers, rules, best)
    <3>1. rules.planned = FALSE
      BY <1>1, <2>3 DEF Ruled
    <3>2. QED
      BY ONLY <1>1, <1>7, <2>1, <2>3, <3>1, NothingDominates
  <2>4. QED
    BY <2>2, <2>3
<1>8. QED
  BY <1>4, <1>6, <1>7 DEF FoundSound

FoundAreSound ==
  task.kind = "found" => FoundSound(market, task.rules, task.partials, task.best)

LEMMA SquadIsFound ==
  ASSUME StackInv, PartialsAreKept, TakeSquad
  PROVE  FoundAreSound'
<1>1. /\ task.kind = "search" /\ task.slot > Len(OpenSlots(task.rules)) /\ UNCHANGED market
  BY DEF TakeSquad
<1>2. PICK best \in Best(Shortlisted(Completed(market, task.rules, task.partials),
                                      task.rules.returned)) :
        task' = [kind |-> "found", rules |-> task.rules, partials |-> task.partials,
                 best |-> best]
  BY DEF TakeSquad
<1>3. /\ task.rules \in Rules /\ Accepts(market, task.rules) /\ Marketable(market)
      /\ task.slot \in 1 .. Len(OpenSlots(task.rules)) + 1
  BY <1>1, MarketsAreMarketable DEF StackInv, SearchesAreOK
<1>4. PICK rules, partials : rules = task.rules /\ partials = task.partials
  OBVIOUS
<1>5. Len(OpenSlots(rules)) \in Nat
  BY <1>3, <1>4, AcceptedAreLockable, SlotsAreSlots
<1>6. task.slot - 1 = Len(OpenSlots(rules))
  <2>1. task.slot > Len(OpenSlots(rules)) /\ task.slot \in 1 .. Len(OpenSlots(rules)) + 1
    BY <1>1, <1>3, <1>4
  <2>2. QED
    BY ONLY <1>5, <2>1
<1>7. KeepsPartials(market, rules, partials, Len(OpenSlots(rules)))
  BY <1>1, <1>4, <1>6 DEF PartialsAreKept
<1>8. FoundSound(market, rules, partials, best)
  BY <1>2, <1>3, <1>4, <1>7, SearchEnds
<1>9. /\ task'.rules = rules /\ task'.partials = partials /\ task'.best = best
      /\ market' = market
  BY <1>1, <1>2, <1>4
<1>10. QED
  BY <1>8, <1>9 DEF FoundAreSound

\* The property of the run says the same.
LEMMA SoundIsSound ==
  ASSUME StackInv, FoundAreSound
  PROVE  SearchIsSound
<1>1. SUFFICES ASSUME task.kind = "found" PROVE SearchIsSound
  BY DEF SearchIsSound
<1>2. PICK rules, partials, best :
        rules = task.rules /\ partials = task.partials /\ best = task.best
  OBVIOUS
<1>3. rules \in Rules /\ Accepts(market, rules) /\ Lockable(rules)
  BY <1>1, <1>2, AcceptedAreLockable DEF StackInv, FoundAreOK
<1>4. FoundSound(market, rules, partials, best)
  BY <1>1, <1>2 DEF FoundAreSound
<1> DEFINE found == {rules.locked \cup Range(s.ids) : s \in partials}
<1>5. \A S : S \in Affordables(rules) <=> Buyable(market, rules, S)
  BY <1>3, AffordableAreBuyable
<1>6. HoldsAllPartials(rules) <=> Roomy(market, rules)
  BY <1>3, RoomIsRoom
<1>7. /\ \A S \in found : Buyable(market, rules, S) /\ S \cap rules.excluded = {}
      /\ Cardinality(found) = Cardinality(partials)
      /\ Roomy(market, rules) =>
           /\ \A S : Buyable(market, rules, S) => S \in found
           /\ /\ rules.locked = {} /\ ~rules.planned
              /\ \A c \in Challengers(market, rules, best) :
                   Owned(c.squad) \subseteq CandidateIds(market, rules)
              => ~IsDominated(market, rules, best)
  BY <1>4 DEF FoundSound
<1> HIDE DEF found
<1>8. found \subseteq Affordables(rules)
  BY <1>5, <1>7
<1>9. HoldsAllPartials(rules) => found = Affordables(rules)
  BY <1>5, <1>6, <1>7, <1>8
<1>10. QED
  BY <1>2, <1>6, <1>7, <1>8, <1>9 DEF SearchIsSound, found

\* The squads of optimize_initial_squad are legal, affordable, hold the locked players and
\* none that is excluded; when the beam has room the search completes every such squad, each
\* once, and the audit finds none that dominates the recommended one: the property of the
\* run, for every release, every request and every beam.
THEOREM SearchIsAlwaysSound == Spec => []SearchIsSound
<1>1. Init => PartialsAreKept /\ FoundAreSound
  BY DEF Init, Idle, PartialsAreKept, FoundAreSound
<1>2. StackInv /\ PartialsAreKept /\ FoundAreSound /\ [Next]_vars
        => PartialsAreKept' /\ FoundAreSound'
  <2>1. PartialsAreKept /\ FoundAreSound /\ UNCHANGED vars => PartialsAreKept' /\ FoundAreSound'
    BY DEF PartialsAreKept, FoundAreSound, vars
  <2>2. ASSUME StackInv, PartialsAreKept, FoundAreSound, Next
        PROVE  PartialsAreKept' /\ FoundAreSound'
    <3>1. task'.kind = "search" => PartialsAreKept'
      BY <2>2, SearchesBegin, PartialsBegin, PartialsContinue
    <3>2. task'.kind # "search" => PartialsAreKept'
      BY DEF PartialsAreKept
    <3>3. task'.kind = "found" => FoundAreSound'
      BY <2>2, TasksBegin, SquadIsFound
    <3>4. task'.kind # "found" => FoundAreSound'
      BY DEF FoundAreSound
    <3>5. QED
      BY <3>1, <3>2, <3>3, <3>4
  <2>3. QED
    BY <2>1, <2>2
<1>3. StackInv /\ FoundAreSound => SearchIsSound
  BY SoundIsSound
<1>4. QED
  BY <1>1, <1>2, <1>3, StackIsInvariant, PTL DEF Spec
==============================================================================

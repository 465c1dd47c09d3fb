----------------------------- MODULE StudiesProofs -----------------------------
(***************************************************************************)
(* The properties of Studies, for every calendar of fixtures, every number *)
(* of players, clubs and studies, all outcomes, postponements and          *)
(* transfers, and every setting of the backtests.                          *)
(*                                                                         *)
(* A study is a function of the archive it read.  So most of the proof is  *)
(* about that function, for any archive A that a script may find, and      *)
(* about what it has in common for A and for a later archive B; the        *)
(* inductive invariant says no more than that each report is one of an     *)
(* archive that the present one grew from.                                 *)
(***************************************************************************)
EXTENDS Studies, FiniteSetTheorems, FunctionTheorems, TLAPS

\* An archive a script may find: one row of a player and fixture, each of its two clubs.
WellFormed(A) ==
  /\ IsFiniteSet(A)
  /\ \A r \in A : /\ r.kick \in Nat /\ r.player \in Players
                  /\ r.team \in {Fixtures[r.fixture].home, Fixtures[r.fixture].away}
  /\ \A r, q \in A : Key(r) = Key(q) => r = q

\* What came later is of other fixtures, and was known later.
Grows(A, B) ==
  /\ A \subseteq B
  /\ \A r \in A, q \in B \ A : KnownAt(r) <= KnownAt(q) /\ r.fixture # q.fixture

SeasonHolds ==
  /\ clock \in Nat
  /\ kickoff \in [FixtureIds -> Nat]
  /\ WellFormed(archive)
  /\ \A r \in archive : /\ r.fixture \in FixtureIds
                        /\ r.kick = kickoff[r.fixture]
                        /\ KnownAt(r) <= clock

\* A report is the one of the archive it names, whatever has been archived since.
ReportOf(s, A) ==
  /\ s.kind = "smoke" => s.means = ExpandingMean(A) /\ s.folds = Folds(s.means)
  /\ s.kind = "backtest" =>
       /\ s.backtest = Backtest(A, s.asked)
       /\ s.folds = Folds(s.backtest.observations)
       /\ s.naive = MatchedNaive(A, s.backtest.observations)
  /\ s.kind = "policies" =>
       s.bundle = PolicyBacktest(A, s.asked) /\ s.agrees = Parity(Backtest(A, s.asked), s.bundle)
  /\ s.kind = "appearance" =>
       /\ s.asked \in Settings
       /\ s.eligible = WalkForward(Backtest(A, s.asked).appearances, s.asked.min)

ReportsHold ==
  /\ \A s \in studies : Grows(s.revision[1], archive) /\ ReportOf(s, s.revision[1])
  /\ \A s, t \in studies :
       Grows(s.revision[1], t.revision[1]) \/ Grows(t.revision[1], s.revision[1])

\* The inductive invariant.
IInv == SeasonHolds /\ ReportsHold

-----------------------------------------------------------------------------
(* Deadlines. *)

\* Min of FiniteSetsExt is what its name says, of naturals.
LEMMA MinIsLeast ==
  ASSUME NEW S \in SUBSET Nat, S # {}
  PROVE  Min(S) \in S /\ \A x \in S : Min(S) <= x
<1> DEFINE Less == {p \in Nat \X Nat : p[1] < p[2]}
<1>1. IsWellFoundedOn(Less, Nat)
  BY NatLessThanWellFounded DEF OpToRel
<1>2. PICK n \in S : \A m \in S : ~(<<m, n>> \in Less)
  <2> HIDE DEF Less
  <2>1. QED
    BY <1>1, WFMin
<1>3. ASSUME NEW m \in S PROVE n <= m
  <2>1. m \in Nat /\ n \in Nat /\ ~(<<m, n>> \in Less)
    BY <1>2
  <2>2. ~(m < n)
    BY <2>1
  <2>3. QED
    BY <2>1, <2>2
<1>4. QED
  BY <1>3 DEF Min

\* A deadline precedes every kick-off of its Gameweek.
LEMMA DeadlineIsEarlier ==
  ASSUME NEW A, WellFormed(A), NEW r \in A
  PROVE  /\ InferredDeadline(A, r.gw) \in Int
         /\ InferredDeadline(A, r.gw) < r.kick
         /\ InferredDeadline(A, r.gw) < KnownAt(r)
<1> DEFINE kicks == {q.kick : q \in InGW(A, r.gw)}
<1>1. kicks \in SUBSET Nat /\ r.kick \in kicks
  BY DEF WellFormed, InGW
<1>2. Min(kicks) \in Nat /\ Min(kicks) <= r.kick
  BY <1>1, MinIsLeast
<1>3. InferredDeadline(A, r.gw) = Min(kicks) - Buffer
  BY DEF InferredDeadline
<1> HIDE DEF kicks
<1>4. QED
  BY <1>1, <1>2, <1>3, SeasonAssumption DEF KnownAt, WellFormed

\* The deadline of a Gameweek that an archive has is the same in a later one.
LEMMA DeadlineStays ==
  ASSUME NEW A, NEW B, WellFormed(B), Grows(A, B), NEW g \in Gameweeks(A)
  PROVE  InferredDeadline(A, g) = InferredDeadline(B, g)
<1> DEFINE old == {q.kick : q \in InGW(A, g)}
           now == {q.kick : q \in InGW(B, g)}
<1>1. old \in SUBSET Nat /\ now \in SUBSET Nat /\ old # {} /\ old \subseteq now
  BY DEF WellFormed, InGW, Gameweeks, Grows
<1>2. /\ Min(old) \in old /\ \A x \in old : Min(old) <= x
      /\ Min(now) \in now /\ \A x \in now : Min(now) <= x
  BY <1>1, MinIsLeast
<1>3. Min(old) <= Min(now)
  <2>1. PICK q \in B : q.gw = g /\ q.kick = Min(now)
    BY <1>2 DEF InGW
  <2>2. PICK r \in A : r.gw = g /\ r.kick = Min(old)
    BY <1>2 DEF InGW
  <2>3. CASE q \in A
    BY <1>2, <2>1, <2>3 DEF InGW
  <2>4. CASE q \notin A
    <3>1. r.kick + Delay <= q.kick + Delay
      BY <2>4 DEF Grows, KnownAt
    <3>2. r.kick \in Nat /\ q.kick \in Nat
      BY DEF Grows, WellFormed
    <3>3. r.kick <= q.kick
      BY <3>1, <3>2, SeasonAssumption
    <3> HIDE DEF old, now
    <3>4. QED
      BY <2>1, <2>2, <3>3
  <2>5. QED
    BY <2>3, <2>4
<1>4. Min(old) = Min(now)
  <2> HIDE DEF old, now
  <2>1. Min(old) \in now /\ Min(old) \in Nat /\ Min(now) \in Nat
    BY <1>1, <1>2
  <2>2. Min(now) <= Min(old)
    BY <1>2, <2>1
  <2>3. QED
    BY <1>3, <2>1, <2>2
<1>5. QED
  BY <1>4 DEF InferredDeadline

\* Whatever was archived later was not known at the deadline of a Gameweek already there.
LEMMA LaterIsUnknown ==
  ASSUME NEW A, NEW B, WellFormed(B), Grows(A, B), NEW g \in Gameweeks(A),
         NEW q \in B, KnownAt(q) <= InferredDeadline(A, g)
  PROVE  q \in A
<1>1. PICK r \in A : r.gw = g
  BY DEF Gameweeks
<1>2. InferredDeadline(A, g) = InferredDeadline(B, g) /\ r \in B
  BY DeadlineStays DEF Grows
<1>3. /\ InferredDeadline(B, g) \in Int /\ InferredDeadline(B, g) < KnownAt(r)
  BY <1>1, <1>2, DeadlineIsEarlier
<1>4. KnownAt(r) \in Int /\ KnownAt(q) \in Int
  BY <1>2, SeasonAssumption DEF KnownAt, WellFormed
<1>5. SUFFICES ASSUME q \notin A PROVE FALSE
  OBVIOUS
<1>6. KnownAt(r) <= KnownAt(q)
  BY <1>5 DEF Grows
<1> HIDE DEF KnownAt
<1>7. QED
  BY <1>2, <1>3, <1>4, <1>6

-----------------------------------------------------------------------------
(* What an as-of read takes was known at the deadline. *)

\* The fixtures whose outcome archive A shows to have been known by d.
KnownIn(A, d) == {r.fixture : r \in {q \in A : KnownAt(q) <= d}}

CausalKeys(A, d, keys) == \A k \in keys : k[2] \in KnownIn(A, d)

LEMMA KeysAreCausal ==
  ASSUME NEW A, NEW g, NEW d, NEW rows \in SUBSET Before(A, g, d)
  PROVE  CausalKeys(A, d, Keys(rows))
  BY DEF CausalKeys, Keys, Key, Before, KnownIn

LEMMA AppearancesAreCausal ==
  ASSUME NEW A, NEW g, NEW d, NEW x \in AppearanceAsOf(A, g, d)
  PROVE  x.fit = None /\ CausalKeys(A, d, x.rows)
<1>1. PICK p : LET mine == OfPlayer(Before(A, g, d), p)
               IN x.rows = Keys(mine) /\ x.fit = None
  BY DEF AppearanceAsOf
<1>2. OfPlayer(Before(A, g, d), p) \in SUBSET Before(A, g, d)
  BY DEF OfPlayer
<1>3. QED
  BY <1>1, <1>2, KeysAreCausal

LEMMA RatesAreCausal ==
  ASSUME NEW A, NEW g, NEW d, NEW w, NEW x \in RatesAsOf(A, g, d, w)
  PROVE  CausalKeys(A, d, x.rows)
<1>1. PICK p : x.rows = Keys(OfPlayer(Before(A, g, d), p))
  BY DEF RatesAsOf
<1>2. OfPlayer(Before(A, g, d), p) \in SUBSET Before(A, g, d)
  BY DEF OfPlayer
<1>3. QED
  BY <1>1, <1>2, KeysAreCausal

LEMMA BonusIsCausal ==
  ASSUME NEW A, NEW g, NEW d, LeagueBonusAsOf(A, g, d) # None
  PROVE  CausalKeys(A, d, LeagueBonusAsOf(A, g, d).rows)
<1>1. LeagueBonusAsOf(A, g, d).rows = Keys(Before(A, g, d))
  BY DEF LeagueBonusAsOf
<1>2. QED
  BY <1>1, KeysAreCausal

LEMMA StrengthsAreCausal ==
  ASSUME NEW A, NEW g, NEW d, NEW w, NEW x \in StrengthAsOf(A, g, d, w)
  PROVE  x.rows \subseteq KnownIn(A, d) /\ x.league \subseteq KnownIn(A, d)
<1> DEFINE known == Before(TeamResults(A), g, d)
<1>1. PICK t : x.rows = FixturesOf({y \in known : y.team = t}) /\ x.league = FixturesOf(known)
  BY DEF StrengthAsOf
<1>2. FixturesOf(known) \subseteq KnownIn(A, d)
  BY DEF FixturesOf, Before, TeamResults, KnownAt, KnownIn
<1>3. QED
  BY <1>1, <1>2 DEF FixturesOf

\* The reads of a Gameweek's inputs, all at its deadline.
LEMMA InputsAreReads ==
  ASSUME NEW A, NEW g, NEW w, NEW in, in = Inputs(A, g, w)
  PROVE  /\ in.gw = g /\ in.deadline = InferredDeadline(A, g)
         /\ in.doubles = DoublePlayers(A, g)
         /\ in.appearances = AppearanceAsOf(A, g, in.deadline)
         /\ in.rates = RatesAsOf(A, g, in.deadline, w)
         /\ in.strengths = StrengthAsOf(A, g, in.deadline, w)
         /\ in.bonus = LeagueBonusAsOf(A, g, in.deadline)
  BY DEF Inputs

LEMMA OnlyIsOne ==
  ASSUME NEW S, S # {}
  PROVE  Only(S) \in S
  BY DEF Only

\* A row that is scored has all that it is scored with.
LEMMA ScoredRowsAreMatched ==
  ASSUME NEW A, NEW in, NEW r, Flags(A, in, r) = {}
  PROVE  /\ AppearanceOf(in, r.player) # {}
         /\ RateOf(in, r.player) # {}
         /\ in.bonus # None
         /\ StrengthOf(in, r.team) # {}
         /\ \E t \in Opponents(A, r) : StrengthOf(in, t) # {}
  BY DEF Flags, Projected, Rated, Matched

\* A fixture is between two clubs.
LEMMA OneOpponent ==
  ASSUME NEW A, WellFormed(A), NEW r \in A, NEW t \in Opponents(A, r)
  PROVE  Only(Opponents(A, r)) = t
<1>1. PICK q \in A : q.fixture = r.fixture /\ q.team = t /\ t # r.team
  BY DEF Opponents, TeamResults
<1>2. \A u \in Opponents(A, r) : u = t
  <2>1. ASSUME NEW u \in Opponents(A, r) PROVE u = t
    <3>1. PICK p \in A : p.fixture = r.fixture /\ p.team = u /\ u # r.team
      BY DEF Opponents, TeamResults
    <3>2. QED
      BY <1>1, <3>1 DEF WellFormed
  <2>2. QED
    BY <2>1
<1>3. QED
  BY <1>2, OnlyIsOne

\* What a prediction is made of, whatever appearance it is given.
LEMMA PredictionsAreCausal ==
  ASSUME NEW A, WellFormed(A), NEW g, NEW w, NEW in, in = Inputs(A, g, w),
         NEW r \in A, Flags(A, in, r) = {},
         NEW a, CausalKeys(A, in.deadline, a.rows),
         a.fit = None \/ CausalKeys(A, in.deadline, a.fit)
  PROVE  FixturesRead(Prediction(A, in, r, a)) \subseteq KnownIn(A, in.deadline)
<1> DEFINE x == Prediction(A, in, r, a)
           Known == KnownIn(A, in.deadline)
<1>1. /\ x.appearance = a /\ x.bonus = in.bonus
      /\ x.rate = Only(RateOf(in, r.player))
      /\ x.own = Only(StrengthOf(in, r.team))
      /\ x.against = Only(StrengthOf(in, Only(Opponents(A, r))))
  BY DEF Prediction
<1>2. x.rate \in in.rates
  BY <1>1, ScoredRowsAreMatched, OnlyIsOne DEF RateOf
<1>3. CausalKeys(A, in.deadline, x.rate.rows)
  BY <1>2, InputsAreReads, RatesAreCausal
<1>4. CausalKeys(A, in.deadline, x.bonus.rows)
  BY <1>1, InputsAreReads, ScoredRowsAreMatched, BonusIsCausal
<1>5. x.own \in in.strengths
  BY <1>1, ScoredRowsAreMatched, OnlyIsOne DEF StrengthOf
<1>6. x.against \in in.strengths
  <2>1. PICK t \in Opponents(A, r) : StrengthOf(in, t) # {}
    BY ScoredRowsAreMatched
  <2>2. x.against = Only(StrengthOf(in, t))
    BY <1>1, OneOpponent
  <2>3. QED
    BY <2>1, <2>2, OnlyIsOne DEF StrengthOf
<1>7. x.own.rows \cup x.own.league \cup x.against.rows \cup x.against.league \subseteq Known
  BY <1>5, <1>6, InputsAreReads, StrengthsAreCausal
<1> HIDE DEF x
<1>8. \A k \in x.appearance.rows \cup x.rate.rows \cup x.bonus.rows
                \cup (IF x.appearance.fit = None THEN {} ELSE x.appearance.fit) :
        k[2] \in Known
  BY <1>1, <1>3, <1>4 DEF CausalKeys
<1> HIDE DEF Known
<1>9. FixturesRead(x) \subseteq Known
  BY <1>7, <1>8 DEF FixturesRead
<1>10. QED
  BY <1>9 DEF x, Known

LEMMA ObservationsAreCausal ==
  ASSUME NEW A, WellFormed(A), NEW w, NEW o \in Backtest(A, w).observations
  PROVE  FixturesRead(o.predicted) \subseteq KnownIn(A, o.deadline)
<1>1. PICK g : o \in ObservationsOf(A, Inputs(A, g, w))
  BY DEF Backtest, InputsOf
<1>2. PICK in : in = Inputs(A, g, w)
  OBVIOUS
<1>3. PICK r \in Scored(A, in) :
        o = Observation(r, in.deadline, Prediction(A, in, r, Only(AppearanceOf(in, r.player))))
  BY <1>1, <1>2 DEF ObservationsOf
<1> DEFINE a == Only(AppearanceOf(in, r.player))
<1>4. r \in A /\ Flags(A, in, r) = {}
  BY DEF Scored, Singles, InGW, Scores
<1>5. a \in in.appearances
  BY <1>4, ScoredRowsAreMatched, OnlyIsOne DEF AppearanceOf
<1>6. a.fit = None /\ CausalKeys(A, in.deadline, a.rows)
  BY <1>2, <1>5, InputsAreReads, AppearancesAreCausal
<1>7. o.predicted = Prediction(A, in, r, a) /\ o.deadline = in.deadline
  BY <1>3 DEF Observation
<1> HIDE DEF a
<1>8. QED
  BY <1>2, <1>4, <1>6, <1>7, PredictionsAreCausal

-----------------------------------------------------------------------------
(* What is reported is an observation of a row of the archive. *)

Observes(A, o) == \E r \in A : o = Observation(r, InferredDeadline(A, r.gw), o.predicted)

LEMMA RowsAreObserved ==
  ASSUME NEW A, NEW g, NEW r \in InGW(A, g), NEW x
  PROVE  Observes(A, Observation(r, InferredDeadline(A, g), x))
  BY DEF InGW, Observes, Observation

LEMMA BacktestObserves ==
  ASSUME NEW A, NEW w, NEW o \in Backtest(A, w).observations
  PROVE  Observes(A, o)
<1>1. PICK g : o \in ObservationsOf(A, Inputs(A, g, w))
  BY DEF Backtest, InputsOf
<1>2. PICK in : in = Inputs(A, g, w)
  OBVIOUS
<1>3. in.gw = g /\ in.deadline = InferredDeadline(A, g)
  BY <1>2, InputsAreReads
<1>4. PICK r \in InGW(A, g) : \E x : o = Observation(r, in.deadline, x)
  <2>1. PICK r \in Scored(A, in) :
          o = Observation(r, in.deadline, Prediction(A, in, r, Only(AppearanceOf(in, r.player))))
    BY <1>1, <1>2 DEF ObservationsOf
  <2>2. r \in InGW(A, g)
    BY <1>3 DEF Scored, Singles
  <2>3. QED
    BY <2>1, <2>2
<1>5. QED
  BY <1>3, <1>4, RowsAreObserved

LEMMA NaiveObserves ==
  ASSUME NEW A, NEW w, NEW o \in MatchedNaive(A, Backtest(A, w).observations)
  PROVE  /\ Observes(A, o)
         /\ o.predicted = Mean(OfPlayer(MatchedHistory(A, o.deadline), o.key[1]))
         /\ \E q \in Backtest(A, w).observations : q.key = o.key
<1>1. PICK q \in Backtest(A, w).observations :
        o = [q EXCEPT !.predicted = Mean(OfPlayer(MatchedHistory(A, q.deadline), q.key[1]))]
  BY DEF MatchedNaive
<1>2. PICK r \in A : q = Observation(r, InferredDeadline(A, r.gw), q.predicted)
  BY BacktestObserves DEF Observes
<1>3. PICK m : m = Mean(OfPlayer(MatchedHistory(A, q.deadline), q.key[1]))
  OBVIOUS
<1>4. o = Observation(r, InferredDeadline(A, r.gw), m)
  BY <1>1, <1>2, <1>3 DEF Observation
<1>5. o.predicted = m /\ o.deadline = q.deadline /\ o.key = q.key
  BY <1>2, <1>4 DEF Observation
<1>6. QED
  BY <1>3, <1>4, <1>5 DEF Observes

LEMMA MeansObserve ==
  ASSUME NEW A, NEW o \in ExpandingMean(A)
  PROVE  /\ Observes(A, o)
         /\ o.predicted = Mean(OfPlayer(MatchedHistory(A, o.deadline), o.key[1]))
<1>1. PICK g \in Gameweeks(A) :
        \E r \in InGW(A, g) :
          o = Observation(r, InferredDeadline(A, g),
                          Mean(OfPlayer(MatchedHistory(A, InferredDeadline(A, g)), r.player)))
  BY DEF ExpandingMean, MatchedHistory
<1> PICK r \in InGW(A, g) :
        o = Observation(r, InferredDeadline(A, g),
                        Mean(OfPlayer(MatchedHistory(A, InferredDeadline(A, g)), r.player)))
  BY <1>1
<1>2. o.deadline = InferredDeadline(A, g) /\ o.key[1] = r.player
      /\ o.predicted = Mean(OfPlayer(MatchedHistory(A, InferredDeadline(A, g)), r.player))
  BY DEF Observation, Key
<1>3. Observes(A, o)
  BY RowsAreObserved
<1>4. QED
  BY <1>2, <1>3

\* A mean is of what was known.
LEMMA MeansAreCausal ==
  ASSUME NEW A, NEW d, NEW p, NEW k \in Mean(OfPlayer(MatchedHistory(A, d), p)).mean
  PROVE  k[2] \in KnownIn(A, d)
  BY DEF Mean, Keys, Key, OfPlayer, MatchedHistory, KnownIn

\* And so is the training set of a fold.
LEMMA TrainingIsCausal ==
  ASSUME NEW A, NEW rows, \A o \in rows : Observes(A, o),
         NEW fold \in Folds(rows), NEW o \in fold.training
  PROVE  o.key[2] \in KnownIn(A, fold.deadline)
<1>1. o \in rows /\ o.known <= fold.deadline
  BY DEF Folds, Training
<1>2. PICK r \in A : o = Observation(r, InferredDeadline(A, r.gw), o.predicted)
  BY <1>1 DEF Observes
<1>3. o.key[2] = r.fixture /\ o.known = KnownAt(r)
  BY <1>2 DEF Observation, Key
<1>4. QED
  BY <1>1, <1>3 DEF KnownIn

LEMMA AppearancesOfRows ==
  ASSUME NEW A, NEW g, NEW w, NEW in, in = Inputs(A, g, w), NEW o \in AppearancesOf(A, in)
  PROVE  \E r \in A : /\ o = AppearanceObservation(in, r)
                      /\ r.gw = g /\ r \in Singles(A, in) /\ Projected(in, r)
                      /\ o.predicted \in in.appearances
<1>1. PICK r \in Singles(A, in) : Projected(in, r) /\ o = AppearanceObservation(in, r)
  BY DEF AppearancesOf
<1>2. r \in A /\ r.gw = g
  BY <1>1, InputsAreReads DEF Singles, InGW
<1>3. Only(AppearanceOf(in, r.player)) \in in.appearances
  BY <1>1, OnlyIsOne DEF Projected, AppearanceOf
<1>4. o.predicted = Only(AppearanceOf(in, r.player))
  BY <1>1 DEF AppearanceObservation
<1>5. QED
  BY <1>1, <1>2, <1>3, <1>4

LEMMA AppearanceObservationsAreCausal ==
  ASSUME NEW A, NEW w, NEW o \in Backtest(A, w).appearances
  PROVE  CausalKeys(A, o.deadline, o.predicted.rows)
<1>1. PICK g : o \in AppearancesOf(A, Inputs(A, g, w))
  BY DEF Backtest, InputsOf
<1>2. PICK in : in = Inputs(A, g, w)
  OBVIOUS
<1>3. o.deadline = in.deadline /\ o.predicted \in in.appearances
  BY <1>1, <1>2, AppearancesOfRows DEF AppearanceObservation
<1>4. QED
  BY <1>2, <1>3, InputsAreReads, AppearancesAreCausal

-----------------------------------------------------------------------------
(* The policies. *)

\* A row that fits may be made of.
Fittable(A, w, r) ==
  /\ r \in A /\ r.gw \in Evaluated(A, w)
  /\ r.player \notin DoublePlayers(A, r.gw)
  /\ Projected(Inputs(A, r.gw, w), r)

LEMMA SinglesAre ==
  ASSUME NEW A, NEW w, NEW g, NEW in, in = Inputs(A, g, w), NEW r
  PROVE  r \in Singles(A, in) <=> r \in A /\ r.gw = g /\ r.player \notin DoublePlayers(A, g)
  BY InputsAreReads DEF Singles, InGW

\* More than one fixture is two of them.
LEMMA DoublesAgree ==
  ASSUME NEW A, WellFormed(A), NEW g
  PROVE  PolicyDoubles(A, g) = DoublePlayers(A, g)
<1> DEFINE F(p) == {r.fixture : r \in OfPlayer(InGW(A, g), p)}
<1>1. ASSUME NEW p PROVE IsFiniteSet(F(p))
  <2> DEFINE mine == OfPlayer(InGW(A, g), p)
             G == [r \in mine |-> r.fixture]
  <2>1. IsFiniteSet(mine)
    BY FS_Subset DEF WellFormed, OfPlayer, InGW
  <2>2. G \in [mine -> F(p)] /\ \A f \in F(p) : \E r \in mine : G[r] = f
    OBVIOUS
  <2> HIDE DEF mine, G, F
  <2>3. G \in Surjection(mine, F(p))
    BY <2>2, Fun_IsSurj
  <2>4. QED
    BY <2>1, <2>3, FS_Surjection
<1>2. ASSUME NEW p PROVE Cardinality(F(p)) > 1 <=> \E a, b \in F(p) : a # b
  <2> HIDE DEF F
  <2>1. CASE F(p) = {}
    BY <2>1, FS_EmptySet
  <2>2. CASE \E a : F(p) = {a}
    <3>1. PICK a : F(p) = {a}
      BY <2>2
    <3>2. Cardinality({a}) = 1
      BY FS_Singleton
    <3>3. QED
      BY <3>1, <3>2
  <2>3. CASE \E a, b \in F(p) : a # b
    <3>1. PICK a, b \in F(p) : a # b
      BY <2>3
    <3>2. {a, b} \subseteq F(p) /\ Cardinality({a, b}) = 2
      <4>1. IsFiniteSet({a}) /\ Cardinality({a}) = 1
        BY FS_Singleton
      <4>2. Cardinality({a} \cup {b}) = 2
        BY <3>1, <4>1, FS_AddElement
      <4>3. {a} \cup {b} = {a, b}
        OBVIOUS
      <4>4. QED
        BY <4>2, <4>3
    <3>3. Cardinality({a, b}) <= Cardinality(F(p)) /\ Cardinality(F(p)) \in Nat
      BY <1>1, <3>2, FS_Subset, FS_CardinalityType
    <3>4. QED
      BY <2>3, <3>2, <3>3
  <2>4. QED
    BY <2>1, <2>2, <2>3
<1>3. ASSUME NEW p
      PROVE  p \in PolicyDoubles(A, g) <=> p \in Players /\ \E a, b \in F(p) : a # b
  <2>1. p \in PolicyDoubles(A, g)
          <=> \E r, z \in InGW(A, g) : r.player = p /\ z.player = p /\ z.fixture # r.fixture
    BY DEF PolicyDoubles
  <2>2. \A r \in InGW(A, g) : r.player \in Players
    BY DEF InGW, WellFormed
  <2>3. QED
    BY <2>1, <2>2 DEF OfPlayer
<1>4. ASSUME NEW p PROVE p \in DoublePlayers(A, g) <=> p \in Players /\ Cardinality(F(p)) > 1
  BY DEF DoublePlayers
<1> HIDE DEF F
<1>5. QED
  BY <1>2, <1>3, <1>4

LEMMA InputsAgree ==
  ASSUME NEW A, WellFormed(A), NEW g, NEW w
  PROVE  PolicyInputs(A, g, w) = Inputs(A, g, w)
  BY DoublesAgree DEF PolicyInputs, Inputs

LEMMA WeeksAgree ==
  ASSUME NEW A, NEW w
  PROVE  PolicyWeeks(A, w) = Evaluated(A, w)
  BY DEF PolicyWeeks, Evaluated

LEMMA SinglesAgree ==
  ASSUME NEW A, NEW in
  PROVE  PolicySingles(A, in) = Singles(A, in)
  BY DEF PolicySingles, Singles

LEMMA FlagsAgree ==
  ASSUME NEW A, NEW in, NEW r
  PROVE  PolicyFlags(A, in, r) = Flags(A, in, r)
<1>1. Projected(in, r) <=> \E x \in in.appearances : x.player = r.player
  BY DEF Projected, AppearanceOf
<1>2. Rated(in, r) <=> \E x \in in.rates : x.player = r.player /\ UsableRates(x)
  BY DEF Rated, RateOf
<1>3. Matched(A, in, r)
        <=> \E own, against \in in.strengths : own.team = r.team /\ against.team \in Opponents(A, r)
  BY DEF Matched, StrengthOf
<1>4. QED
  BY <1>1, <1>2, <1>3 DEF PolicyFlags, Flags

LEMMA NegativesAgree ==
  ASSUME NEW in, NEW r
  PROVE  PolicyNegative(in, r) <=> NegativeBonus(in, r)
  BY DEF PolicyNegative, NegativeBonus, RateOf

\* The rows appended until the loop comes to Gameweek g.
AppendedRows(A, w, g) ==
  UNION {CalibrationRows(A, PolicyInputs(A, h, w)) : h \in {h \in PolicyWeeks(A, w) : h < g}}

LEMMA AppendedRowsAre ==
  ASSUME NEW A, WellFormed(A), NEW w, NEW g, NEW o \in AppendedRows(A, w, g)
  PROVE  \E r : /\ Fittable(A, w, r) /\ r.gw < g
                /\ o.key = Key(r) /\ o.gw = r.gw /\ o.known = KnownAt(r)
<1>1. PICK h \in Evaluated(A, w) : h < g /\ o \in CalibrationRows(A, Inputs(A, h, w))
  BY InputsAgree, WeeksAgree DEF AppendedRows
<1>2. PICK in : in = Inputs(A, h, w)
  OBVIOUS
<1>3. PICK r \in Singles(A, in) :
        /\ \E x \in in.appearances : x.player = r.player
        /\ o = [key |-> Key(r), gw |-> in.gw, known |-> KnownAt(r),
                predicted |-> Only(AppearanceOf(in, r.player))]
  BY <1>1, <1>2, SinglesAgree DEF CalibrationRows
<1>4. r \in A /\ r.gw = h /\ r.player \notin DoublePlayers(A, h) /\ in.gw = h
  BY <1>2, <1>3, SinglesAre, InputsAreReads
<1>5. Projected(in, r)
  BY <1>3 DEF Projected, AppearanceOf
<1>6. Fittable(A, w, r)
  BY <1>1, <1>2, <1>4, <1>5 DEF Fittable
<1>7. QED
  BY <1>1, <1>3, <1>4, <1>6

LEMMA FittablesAreAppended ==
  ASSUME NEW A, WellFormed(A), NEW w, NEW g, NEW r, Fittable(A, w, r), r.gw < g
  PROVE  \E o \in AppendedRows(A, w, g) : o.key = Key(r) /\ o.gw = r.gw /\ o.known = KnownAt(r)
<1>1. PICK in : in = Inputs(A, r.gw, w)
  OBVIOUS
<1> DEFINE o == [key |-> Key(r), gw |-> in.gw, known |-> KnownAt(r),
                 predicted |-> Only(AppearanceOf(in, r.player))]
<1>2. r \in PolicySingles(A, in) /\ \E x \in in.appearances : x.player = r.player
  BY <1>1, SinglesAre, SinglesAgree DEF Fittable, Projected, AppearanceOf
<1>3. o \in CalibrationRows(A, in)
  BY <1>2 DEF CalibrationRows
<1>4. in = PolicyInputs(A, r.gw, w) /\ r.gw \in PolicyWeeks(A, w) /\ in.gw = r.gw
  BY <1>1, InputsAgree, WeeksAgree, InputsAreReads DEF Fittable
<1>5. o.key = Key(r) /\ o.gw = r.gw /\ o.known = KnownAt(r)
  BY <1>4
<1> HIDE DEF o
<1>6. o \in AppendedRows(A, w, g)
  BY <1>3, <1>4 DEF AppendedRows
<1>7. QED
  BY <1>5, <1>6

\* A fit is of the fittable rows of earlier Gameweeks, as far as they are known.
LEMMA FitKeysAre ==
  ASSUME NEW A, WellFormed(A), NEW w, NEW g, NEW k, PolicyFit(A, w, g) # None
  PROVE  k \in PolicyFit(A, w, g)
           <=> \E r : /\ Fittable(A, w, r) /\ k = Key(r) /\ r.gw < g
                      /\ KnownAt(r) <= InferredDeadline(A, g)
<1>1. PICK d : d = InferredDeadline(A, g)
  OBVIOUS
<1>2. PolicyFit(A, w, g) = {o.key : o \in FitRows(AppendedRows(A, w, g), g, d)}
  BY <1>1 DEF PolicyFit, FitFor, AppendedRows
<1>3. k \in PolicyFit(A, w, g) <=> \E o \in FitRows(AppendedRows(A, w, g), g, d) : k = o.key
  BY <1>2
<1>4. ASSUME NEW o \in FitRows(AppendedRows(A, w, g), g, d), k = o.key
      PROVE  \E r : Fittable(A, w, r) /\ k = Key(r) /\ r.gw < g /\ KnownAt(r) <= d
  BY <1>4, AppendedRowsAre DEF FitRows
<1>5. ASSUME NEW r, Fittable(A, w, r), k = Key(r), r.gw < g, KnownAt(r) <= d
      PROVE  \E o \in FitRows(AppendedRows(A, w, g), g, d) : k = o.key
  BY <1>5, FittablesAreAppended DEF FitRows
<1>6. QED
  BY <1>1, <1>3, <1>4, <1>5

\* Each Gameweek's inputs with its fit, and the rows that a policy makes of them.
FittedInputs(A, w) ==
  {[in |-> Inputs(A, g, w), fit |-> PolicyFit(A, w, g)] : g \in Evaluated(A, w)}
PolicyRow(A, x, policy, r) ==
  Observation(r, x.in.deadline,
    Prediction(A, x.in, r, ApplyPolicy(policy, x.fit, Only(AppearanceOf(x.in, r.player)))))
PolicyRows(A, x, policy) == {PolicyRow(A, x, policy, r) : r \in PolicyScored(A, x.in)}

LEMMA FittedWeeks ==
  ASSUME NEW A, WellFormed(A), NEW w
  PROVE  {[in |-> PolicyInputs(A, g, w), fit |-> PolicyFit(A, w, g)] : g \in PolicyWeeks(A, w)}
           = FittedInputs(A, w)
  BY InputsAgree, WeeksAgree DEF FittedInputs

LEMMA PolicyBacktestIs ==
  ASSUME NEW A, WellFormed(A), NEW w
  PROVE  /\ PolicyBacktest(A, w).gaps = UNION {PolicyGaps(A, in) : in \in InputsOf(A, w)}
         /\ PolicyBacktest(A, w).evaluated = Evaluated(A, w)
         /\ PolicyBacktest(A, w).candidates
              = Cardinality(UNION {InGW(A, g) : g \in Evaluated(A, w)})
<1>1. PolicyBacktest(A, w).gaps = UNION {PolicyGaps(A, x.in) : x \in FittedInputs(A, w)}
  BY FittedWeeks DEF PolicyBacktest
<1>2. UNION {PolicyGaps(A, x.in) : x \in FittedInputs(A, w)}
        = UNION {PolicyGaps(A, in) : in \in InputsOf(A, w)}
  <2>1. \A x \in FittedInputs(A, w) : x.in \in InputsOf(A, w)
    BY DEF FittedInputs, InputsOf
  <2>2. ASSUME NEW in \in InputsOf(A, w) PROVE \E x \in FittedInputs(A, w) : x.in = in
    <3>1. PICK g \in Evaluated(A, w) : in = Inputs(A, g, w)
      BY DEF InputsOf
    <3> DEFINE x == [in |-> Inputs(A, g, w), fit |-> PolicyFit(A, w, g)]
    <3>2. x \in FittedInputs(A, w) /\ x.in = in
      BY <3>1 DEF FittedInputs
    <3>3. QED
      BY <3>2
  <2>3. QED
    BY <2>1, <2>2
<1>3. {r \in A : r.gw \in PolicyWeeks(A, w)} = UNION {InGW(A, g) : g \in Evaluated(A, w)}
  BY WeeksAgree DEF InGW
<1>4. QED
  BY <1>1, <1>2, <1>3, WeeksAgree DEF PolicyBacktest

LEMMA PolicyFitsAre ==
  ASSUME NEW A, WellFormed(A), NEW w, NEW x \in PolicyBacktest(A, w).fits
  PROVE  \E z \in FittedInputs(A, w) :
           x = [gw |-> z.in.gw, deadline |-> z.in.deadline, fit |-> z.fit]
<1>1. PolicyBacktest(A, w).fits
        = {[gw |-> z.in.gw, deadline |-> z.in.deadline, fit |-> z.fit] : z \in FittedInputs(A, w)}
  BY FittedWeeks DEF PolicyBacktest
<1>2. QED
  BY <1>1

LEMMA PolicyResultsAre ==
  ASSUME NEW A, WellFormed(A), NEW w, NEW policy \in Policies, NEW o
  PROVE  o \in PolicyBacktest(A, w).results[policy]
           <=> \E x \in FittedInputs(A, w) : o \in PolicyRows(A, x, policy)
<1>1. PolicyBacktest(A, w).results[policy]
        = UNION {PolicyRows(A, x, policy) : x \in FittedInputs(A, w)}
  BY FittedWeeks DEF PolicyBacktest, PolicyRows, PolicyRow
<1>2. QED
  BY <1>1

LEMMA FittedInputsAre ==
  ASSUME NEW A, NEW w, NEW x \in FittedInputs(A, w)
  PROVE  \E g \in Evaluated(A, w) :
           x.in = Inputs(A, g, w) /\ x.fit = PolicyFit(A, w, g)
  BY DEF FittedInputs

\* A fit is of outcomes known at the deadline it is used at.
LEMMA FitsAreCausal ==
  ASSUME NEW A, WellFormed(A), NEW w, NEW g
  PROVE  \/ PolicyFit(A, w, g) = None
         \/ CausalKeys(A, InferredDeadline(A, g), PolicyFit(A, w, g))
<1>1. ASSUME PolicyFit(A, w, g) # None, NEW k \in PolicyFit(A, w, g)
      PROVE  k[2] \in KnownIn(A, InferredDeadline(A, g))
  <2>1. PICK r : Fittable(A, w, r) /\ k = Key(r) /\ KnownAt(r) <= InferredDeadline(A, g)
    BY <1>1, FitKeysAre
  <2>2. QED
    BY <2>1 DEF Fittable, Key, KnownIn
<1>2. QED
  BY <1>1 DEF CausalKeys

\* The two copies of the loop score the same rows.
LEMMA SameRowsAreScored ==
  ASSUME NEW A, NEW in
  PROVE  PolicyScored(A, in) = Scored(A, in) /\ PolicyGaps(A, in) = GapsOf(A, in)
<1>1. \A r : PolicyFlags(A, in, r) = Flags(A, in, r)
  BY FlagsAgree
<1>2. \A r : Scores(A, in, r) <=> PolicyFlags(A, in, r) = {} /\ ~PolicyNegative(in, r)
  BY <1>1, NegativesAgree DEF Scores
<1>3. PolicyScored(A, in) = Scored(A, in)
  BY <1>2, SinglesAgree DEF PolicyScored, Scored
<1>4. Singles(A, in) \subseteq InGW(A, in.gw) /\ PolicySingles(A, in) = Singles(A, in)
  BY SinglesAgree DEF Singles
<1>5. ASSUME NEW gap
      PROVE  gap \in PolicyGaps(A, in)
               <=> \/ \E r \in InGW(A, in.gw) \ Singles(A, in) : gap = Gap(r, {"DOUBLE_GAMEWEEK_FIXTURE"})
                   \/ \E r \in Singles(A, in) : Flags(A, in, r) # {} /\ gap = Gap(r, Flags(A, in, r))
                   \/ \E r \in Singles(A, in) : /\ Flags(A, in, r) = {} /\ ~Scores(A, in, r)
                                                /\ gap = Gap(r, {"NEGATIVE_BONUS_SIGNAL"})
  <2>1. gap \in PolicyGaps(A, in)
          <=> \E r \in InGW(A, in.gw) \ Scored(A, in) :
                gap = IF r \notin Singles(A, in) THEN Gap(r, {"DOUBLE_GAMEWEEK_FIXTURE"})
                      ELSE IF Flags(A, in, r) # {} THEN Gap(r, Flags(A, in, r))
                      ELSE Gap(r, {"NEGATIVE_BONUS_SIGNAL"})
    BY <1>1, <1>3, <1>4 DEF PolicyGaps
  <2>2. \A r : r \in Scored(A, in) <=> r \in Singles(A, in) /\ Scores(A, in, r)
    BY DEF Scored
  <2>3. \A r : Scores(A, in, r) => Flags(A, in, r) = {}
    BY DEF Scores
  <2>4. QED
    BY <1>4, <2>1, <2>2, <2>3
<1>6. ASSUME NEW gap
      PROVE  gap \in GapsOf(A, in)
               <=> \/ \E r \in InGW(A, in.gw) \ Singles(A, in) : gap = Gap(r, {"DOUBLE_GAMEWEEK_FIXTURE"})
                   \/ \E r \in Singles(A, in) : Flags(A, in, r) # {} /\ gap = Gap(r, Flags(A, in, r))
                   \/ \E r \in Singles(A, in) : /\ Flags(A, in, r) = {} /\ ~Scores(A, in, r)
                                                /\ gap = Gap(r, {"NEGATIVE_BONUS_SIGNAL"})
  BY DEF GapsOf
<1>7. PolicyGaps(A, in) = GapsOf(A, in)
  BY <1>5, <1>6
<1>8. QED
  BY <1>3, <1>7

LEMMA PoliciesObserve ==
  ASSUME NEW A, WellFormed(A), NEW w, NEW policy \in Policies,
         NEW o \in PolicyBacktest(A, w).results[policy]
  PROVE  Observes(A, o) /\ FixturesRead(o.predicted) \subseteq KnownIn(A, o.deadline)
<1>1. PICK x \in FittedInputs(A, w) : o \in PolicyRows(A, x, policy)
  BY PolicyResultsAre
<1>2. PICK g \in Evaluated(A, w) :
        x.in = Inputs(A, g, w) /\ x.fit = PolicyFit(A, w, g)
  BY FittedInputsAre
<1>3. PICK r \in PolicyScored(A, x.in) : o = PolicyRow(A, x, policy, r)
  BY <1>1 DEF PolicyRows
<1>4. r \in Scored(A, x.in)
  BY <1>3, SameRowsAreScored
<1>5. r \in Singles(A, x.in) /\ Flags(A, x.in, r) = {}
  BY <1>4 DEF Scored, Scores
<1>6. x.in.deadline = InferredDeadline(A, g) /\ r \in InGW(A, g)
  BY <1>2, <1>5, InputsAreReads DEF Singles
<1>7. Observes(A, o)
  BY <1>3, <1>6, RowsAreObserved DEF PolicyRow
<1> DEFINE raw == Only(AppearanceOf(x.in, r.player))
           used == ApplyPolicy(policy, x.fit, raw)
<1>8. raw \in x.in.appearances
  BY <1>5, ScoredRowsAreMatched, OnlyIsOne DEF AppearanceOf
<1>9. raw.fit = None /\ CausalKeys(A, x.in.deadline, raw.rows)
  BY <1>2, <1>8, InputsAreReads, AppearancesAreCausal
<1>10. used = raw \/ (used.rows = raw.rows /\ used.fit = x.fit)
  <2>1. raw = [player |-> raw.player, rows |-> raw.rows, start |-> raw.start,
               minutes |-> raw.minutes, fit |-> raw.fit]
    BY <1>2, <1>8, InputsAreReads DEF AppearanceAsOf
  <2> HIDE DEF raw
  <2>2. QED
    BY <2>1 DEF ApplyPolicy
<1>11. x.fit = None \/ CausalKeys(A, x.in.deadline, x.fit)
  BY <1>2, <1>6, FitsAreCausal
<1>12. o.predicted = Prediction(A, x.in, r, used) /\ o.deadline = x.in.deadline
  BY <1>3 DEF Observation, PolicyRow
<1>13. r \in A
  BY <1>6 DEF InGW
<1> HIDE DEF used, raw
<1>14. FixturesRead(o.predicted) \subseteq KnownIn(A, o.deadline)
  <2>1. CausalKeys(A, x.in.deadline, used.rows)
    BY <1>9, <1>10
  <2>2. used.fit = None \/ CausalKeys(A, x.in.deadline, used.fit)
    BY <1>9, <1>10, <1>11
  <2>3. QED
    BY <1>2, <1>5, <1>12, <1>13, <2>1, <2>2, PredictionsAreCausal
<1>15. QED
  BY <1>7, <1>14

-----------------------------------------------------------------------------
(* The season and its archive. *)

LEMMA PartsAreWellFormed ==
  ASSUME NEW B, WellFormed(B), NEW A \in SUBSET B
  PROVE  WellFormed(A)
  BY FS_Subset DEF WellFormed

\* No outcome that is archived changes, and none is archived before it is known.
LEMMA SeasonStays ==
  ASSUME SeasonHolds, [Next]_vars
  PROVE  SeasonHolds' /\ Grows(archive, archive')
<1>1. CASE archive' = archive /\ kickoff' = kickoff /\ (clock' = clock \/ clock' = clock + 1)
  <2>1. clock' \in Nat /\ clock <= clock'
    BY <1>1 DEF SeasonHolds
  <2>2. \A r \in archive : KnownAt(r) \in Int
    BY SeasonAssumption DEF SeasonHolds, WellFormed, KnownAt
  <2>3. \A r \in archive : KnownAt(r) <= clock'
    BY <1>1, <2>1, <2>2 DEF SeasonHolds
  <2>4. QED
    BY <1>1, <2>1, <2>3 DEF SeasonHolds, Grows
<1>2. ASSUME NEW f \in FixtureIds, Postpone(f)
      PROVE  SeasonHolds' /\ Grows(archive, archive')
  <2>1. clock + 1 = Fixtures[f].at /\ kickoff[f] = Fixtures[f].at
        /\ archive' = archive /\ clock' = clock
    BY <1>2 DEF Postpone
  <2>2. PICK t \in Later[f] : kickoff' = [kickoff EXCEPT ![f] = t]
    BY <1>2 DEF Postpone
  <2>3. t \in Nat
    BY <2>2, SeasonAssumption
  <2>4. ASSUME NEW r \in archive PROVE r.fixture # f
    <3>1. r.kick = kickoff[r.fixture] /\ r.kick \in Nat /\ r.kick + Delay <= clock /\ clock \in Nat
      BY <2>4 DEF SeasonHolds, WellFormed, KnownAt
    <3>2. QED
      BY <2>1, <3>1, SeasonAssumption
  <2>5. kickoff' \in [FixtureIds -> Nat] /\ \A r \in archive : kickoff'[r.fixture] = kickoff[r.fixture]
    BY <2>2, <2>3, <2>4 DEF SeasonHolds
  <2>6. QED
    BY <2>1, <2>5 DEF SeasonHolds, Grows
<1>3. ASSUME NEW f \in FixtureIds, Play(f)
      PROVE  SeasonHolds' /\ Grows(archive, archive')
  <2>1. PICK o : archive' = archive \cup {Row(p, f, o[p]) : p \in Squad(f)}
    BY <1>3 DEF Play
  <2>2. clock' = clock /\ kickoff' = kickoff /\ f \notin Played /\ kickoff[f] + Delay = clock
    BY <1>3 DEF Play, Due
  <2> DEFINE new == {Row(p, f, o[p]) : p \in Squad(f)}
  <2>3. ASSUME NEW r \in new
        PROVE  /\ r.fixture = f /\ r.kick = kickoff[f] /\ r.kick \in Nat /\ KnownAt(r) = clock
               /\ r.team \in {Fixtures[f].home, Fixtures[f].away}
               /\ r.player \in Players
    <3>1. PICK p \in Squad(f) : r = Row(p, f, o[p])
      OBVIOUS
    <3>2. QED
      BY <2>2, <3>1 DEF Row, Squad, KnownAt, SeasonHolds
  <2>4. IsFiniteSet(new)
    <3>1. IsFiniteSet(Squad(f))
      BY SeasonAssumption, FS_Subset DEF Squad
    <3>2. [p \in Squad(f) |-> Row(p, f, o[p])] \in Surjection(Squad(f), new)
      <4> DEFINE F == [p \in Squad(f) |-> Row(p, f, o[p])]
      <4>1. F \in [Squad(f) -> new] /\ \A t \in new : \E p \in Squad(f) : F[p] = t
        OBVIOUS
      <4> HIDE DEF F, new
      <4>2. F \in Surjection(Squad(f), new)
        BY <4>1, Fun_IsSurj
      <4>3. QED
        BY <4>2 DEF F
    <3> HIDE DEF new
    <3>3. QED
      BY <3>1, <3>2, FS_Surjection
  <2>5. ASSUME NEW r \in new, NEW q \in new, Key(r) = Key(q) PROVE r = q
    BY <2>5 DEF Row, Key
  <2>6. \A r \in archive : r.fixture # f
    BY <2>2 DEF Played
  <2>7. \A r \in archive, q \in new : Key(r) # Key(q)
    BY <2>3, <2>6 DEF Key
  <2>8. archive' = archive \cup new
    BY <2>1
  <2> HIDE DEF new
  <2>9. WellFormed(archive')
    <3>1. IsFiniteSet(archive')
      BY <2>4, <2>8, FS_Union DEF SeasonHolds, WellFormed
    <3>2. \A r, q \in archive' : Key(r) = Key(q) => r = q
      BY <2>5, <2>7, <2>8 DEF SeasonHolds, WellFormed
    <3>3. \A r \in archive' : /\ r.kick \in Nat /\ r.player \in Players
                              /\ r.team \in {Fixtures[r.fixture].home, Fixtures[r.fixture].away}
      BY <2>3, <2>8 DEF SeasonHolds, WellFormed
    <3>4. QED
      BY <3>1, <3>2, <3>3 DEF WellFormed
  <2>10. \A r \in archive' : /\ r.fixture \in FixtureIds
                             /\ r.kick = kickoff'[r.fixture]
                             /\ KnownAt(r) <= clock'
    <3>1. \A r \in new : KnownAt(r) <= clock'
      BY <2>2, <2>3 DEF SeasonHolds
    <3>2. QED
      BY <2>2, <2>3, <2>8, <3>1 DEF SeasonHolds
  <2>11. Grows(archive, archive')
    BY <2>3, <2>6, <2>8 DEF Grows, SeasonHolds
  <2>12. QED
    BY <2>2, <2>9, <2>10, <2>11 DEF SeasonHolds
<1>4. QED
  BY <1>1, <1>2, <1>3
     DEF Next, vars, season, Tick, Transfer, RunSmoke, RunBacktest, AssessCalibration,
         AssessAppearance, ComparePolicies

-----------------------------------------------------------------------------
(* The inductive invariant. *)

LEMMA GrowthIsTransitive ==
  ASSUME NEW A, NEW B, NEW C, Grows(A, B), Grows(B, C)
  PROVE  Grows(A, C)
  BY DEF Grows

\* What a script reports: nothing, or the study of the archive as it is.
LEMMA StepReports ==
  ASSUME [Next]_vars
  PROVE  \/ studies' = studies
         \/ /\ archive' = archive
            /\ \E s : studies' = studies \cup {s} /\ s.revision[1] = archive /\ ReportOf(s, archive)
<1>1. CASE RunSmoke
  <2> DEFINE s == [kind |-> "smoke", revision |-> Revision, means |-> ExpandingMean(archive),
                   folds |-> Folds(ExpandingMean(archive))]
  <2>1. studies' = studies \cup {s} /\ archive' = archive
    BY <1>1 DEF RunSmoke, Report, season
  <2>2. s.revision[1] = archive /\ ReportOf(s, archive)
    BY DEF ReportOf, Revision
  <2>3. QED
    BY <2>1, <2>2
<1>2. ASSUME NEW w \in Settings, RunBacktest(w)
      PROVE  /\ archive' = archive
             /\ \E s : studies' = studies \cup {s} /\ s.revision[1] = archive /\ ReportOf(s, archive)
  <2> DEFINE b == Backtest(archive, w)
             s == [kind |-> "backtest", revision |-> Revision, asked |-> w, backtest |-> b,
                   folds |-> Folds(b.observations), naive |-> MatchedNaive(archive, b.observations)]
  <2>1. studies' = studies \cup {s} /\ archive' = archive
    BY <1>2 DEF RunBacktest, Report, season
  <2>2. s.revision[1] = archive /\ ReportOf(s, archive)
    BY DEF ReportOf, Revision
  <2>3. QED
    BY <2>1, <2>2
<1>3. ASSUME NEW w \in Settings, AssessCalibration(w)
      PROVE  /\ archive' = archive
             /\ \E s : studies' = studies \cup {s} /\ s.revision[1] = archive /\ ReportOf(s, archive)
  <2>1. PICK records :
          Report([kind |-> "calibration", revision |-> Revision, asked |-> w, records |-> records])
    BY <1>3, Zenon DEF AssessCalibration
  <2> DEFINE s == [kind |-> "calibration", revision |-> Revision, asked |-> w, records |-> records]
  <2>2. studies' = studies \cup {s} /\ archive' = archive
    BY <1>3, <2>1 DEF AssessCalibration, Report, season
  <2>3. s.revision[1] = archive /\ ReportOf(s, archive)
    BY DEF ReportOf, Revision
  <2>4. QED
    BY <2>2, <2>3
<1>4. ASSUME NEW w \in Settings, AssessAppearance(w)
      PROVE  /\ archive' = archive
             /\ \E s : studies' = studies \cup {s} /\ s.revision[1] = archive /\ ReportOf(s, archive)
  <2> DEFINE eligible == WalkForward(Backtest(archive, w).appearances, w.min)
             scored == WalkForward(ScoredCohort(Backtest(archive, w)), w.min)
             s == [kind |-> "appearance", revision |-> Revision, asked |-> w,
                   eligible |-> eligible, records |-> eligible \cup scored]
  <2>1. studies' = studies \cup {s} /\ archive' = archive
    BY <1>4, Zenon DEF AssessAppearance, Report, season
  <2>2. s.revision[1] = archive /\ ReportOf(s, archive)
    BY DEF ReportOf, Revision
  <2>3. QED
    BY <2>1, <2>2
<1>5. ASSUME NEW w \in Settings, ComparePolicies(w)
      PROVE  /\ archive' = archive
             /\ \E s : studies' = studies \cup {s} /\ s.revision[1] = archive /\ ReportOf(s, archive)
  <2> DEFINE bundle == PolicyBacktest(archive, w)
             agrees == Parity(Backtest(archive, w), bundle)
             s == [kind |-> "policies", revision |-> Revision, asked |-> w, bundle |-> bundle,
                   agrees |-> agrees]
  <2>1. studies' = studies \cup {s} /\ archive' = archive
    BY <1>5, Zenon DEF ComparePolicies, Report, season
  <2>2. s.revision[1] = archive /\ ReportOf(s, archive)
    BY DEF ReportOf, Revision
  <2>3. QED
    BY <2>1, <2>2
<1>6. QED
  BY <1>1, <1>2, <1>3, <1>4, <1>5 DEF Next, vars, Tick, Play, Postpone, Transfer

LEMMA ReportsStay ==
  ASSUME SeasonHolds, ReportsHold, [Next]_vars
  PROVE  ReportsHold'
<1>1. Grows(archive, archive')
  BY SeasonStays
<1>2. \A s \in studies : Grows(s.revision[1], archive')
  BY <1>1, GrowthIsTransitive DEF ReportsHold
<1>3. CASE studies' = studies
  BY <1>2, <1>3 DEF ReportsHold
<1>4. CASE /\ archive' = archive
           /\ \E s : studies' = studies \cup {s} /\ s.revision[1] = archive /\ ReportOf(s, archive)
  <2>1. PICK s : studies' = studies \cup {s} /\ s.revision[1] = archive /\ ReportOf(s, archive)
    BY <1>4
  <2>2. Grows(archive, archive)
    BY <1>1, <1>4
  <2>3. QED
    BY <1>2, <1>4, <2>1, <2>2 DEF ReportsHold
<1>5. QED
  BY <1>3, <1>4, StepReports

\* The inductive invariant holds in every reachable state.
THEOREM InvariantHolds == Spec => []IInv
<1>1. ASSUME Init PROVE IInv
  <2>1. WellFormed({})
    BY FS_EmptySet DEF WellFormed
  <2>2. QED
    BY <1>1, <2>1, SeasonAssumption DEF Init, SeasonInit, IInv, SeasonHolds, ReportsHold
<1>2. IInv /\ [Next]_vars => IInv'
  BY SeasonStays, ReportsStay DEF IInv
<1>3. QED
  BY <1>1, <1>2, PTL DEF Spec

-----------------------------------------------------------------------------
(* Causality. *)

\* What an archive shows to have been known is known of the season as well.
LEMMA KnownStaysKnown ==
  ASSUME SeasonHolds, NEW A \in SUBSET archive, NEW d
  PROVE  KnownIn(A, d) \subseteq {f \in Played : kickoff[f] + Delay <= d}
  BY DEF SeasonHolds, KnownIn, KnownAt, Played

\* No prediction, naive mean, appearance or policy reads an outcome that was not known at the
\* deadline it is made for, nor does a fold train on one: _eligible_rows, the as-of reads of
\* appearance, rates and strength, matched_naive, fit_for_gameweek and the folds of backtest.
THEOREM StudiesStayCausal == Spec => []StudiesAreCausal
<1>1. ASSUME IInv PROVE StudiesAreCausal
  <2> DEFINE Known(d) == {f \in Played : kickoff[f] + Delay <= d}
  <2> SUFFICES ASSUME NEW s \in studies
               PROVE
      /\ s.kind = "backtest" =>
           /\ \A o \in s.backtest.observations : FixturesRead(o.predicted) \subseteq Known(o.deadline)
           /\ \A o \in s.naive : \A k \in o.predicted.mean : k[2] \in Known(o.deadline)
           /\ \A o \in s.backtest.appearances : \A k \in o.predicted.rows : k[2] \in Known(o.deadline)
      /\ s.kind = "policies" =>
           \A policy \in Policies : \A o \in s.bundle.results[policy] :
             FixturesRead(o.predicted) \subseteq Known(o.deadline)
      /\ s.kind \in {"smoke", "backtest"} =>
           \A fold \in s.folds : \A o \in fold.training : o.key[2] \in Known(fold.deadline)
    BY DEF StudiesAreCausal
  <2>1. PICK A : A = s.revision[1]
    OBVIOUS
  <2>2. A \in SUBSET archive /\ ReportOf(s, A)
    BY <1>1, <2>1 DEF IInv, ReportsHold, Grows
  <2>3. WellFormed(A)
    BY <1>1, <2>2, PartsAreWellFormed DEF IInv, SeasonHolds
  <2>4. \A d : KnownIn(A, d) \subseteq Known(d)
    BY <1>1, <2>2, KnownStaysKnown DEF IInv
  <2> HIDE DEF Known
  <2>5. ASSUME s.kind = "backtest", NEW o \in s.backtest.observations
        PROVE  FixturesRead(o.predicted) \subseteq Known(o.deadline)
    BY <2>2, <2>3, <2>4, <2>5, ObservationsAreCausal DEF ReportOf
  <2>6. ASSUME s.kind = "backtest", NEW o \in s.naive, NEW k \in o.predicted.mean
        PROVE  k[2] \in Known(o.deadline)
    <3>1. o \in MatchedNaive(A, Backtest(A, s.asked).observations)
      BY <2>2, <2>6 DEF ReportOf
    <3>2. o.predicted = Mean(OfPlayer(MatchedHistory(A, o.deadline), o.key[1]))
      BY <3>1, NaiveObserves
    <3>3. k \in Mean(OfPlayer(MatchedHistory(A, o.deadline), o.key[1])).mean
      BY <2>6, <3>2
    <3>4. QED
      BY <2>4, <3>3, MeansAreCausal
  <2>7. ASSUME s.kind = "backtest", NEW o \in s.backtest.appearances, NEW k \in o.predicted.rows
        PROVE  k[2] \in Known(o.deadline)
    <3>1. CausalKeys(A, o.deadline, o.predicted.rows)
      BY <2>2, <2>7, AppearanceObservationsAreCausal DEF ReportOf
    <3>2. QED
      BY <2>4, <2>7, <3>1 DEF CausalKeys
  <2>8. ASSUME s.kind = "policies", NEW policy \in Policies, NEW o \in s.bundle.results[policy]
        PROVE  FixturesRead(o.predicted) \subseteq Known(o.deadline)
    BY <2>2, <2>3, <2>4, <2>8, PoliciesObserve DEF ReportOf
  <2>9. ASSUME s.kind \in {"smoke", "backtest"}, NEW fold \in s.folds, NEW o \in fold.training
        PROVE  o.key[2] \in Known(fold.deadline)
    <3>1. PICK rows : s.folds = Folds(rows) /\ \A q \in rows : Observes(A, q)
      <4>1. CASE s.kind = "smoke"
        BY <2>2, <4>1, MeansObserve DEF ReportOf
      <4>2. CASE s.kind = "backtest"
        BY <2>2, <4>2, BacktestObserves DEF ReportOf
      <4>3. QED
        BY <2>9, <4>1, <4>2
    <3>2. o.key[2] \in KnownIn(A, fold.deadline)
      BY <2>9, <3>1, TrainingIsCausal
    <3>3. QED
      BY <2>4, <3>2
  <2>10. QED
    BY <2>5, <2>6, <2>7, <2>8, <2>9
<1>2. QED
  BY <1>1, InvariantHolds, PTL

-----------------------------------------------------------------------------
(* Policies. *)

LEMMA RawIsUntouched ==
  ASSUME NEW fit, NEW a
  PROVE  ApplyPolicy("raw", fit, a) = a
  BY DEF ApplyPolicy

\* verify_raw_row_level_parity never finds the two loops apart.
LEMMA LoopsAgree ==
  ASSUME NEW A, WellFormed(A), NEW w
  PROVE  Parity(Backtest(A, w), PolicyBacktest(A, w))
<1>1. ASSUME NEW in \in InputsOf(A, w) PROVE \E x \in FittedInputs(A, w) : x.in = in
  <2>1. PICK g \in Evaluated(A, w) : in = Inputs(A, g, w)
    BY DEF InputsOf
  <2> DEFINE x == [in |-> Inputs(A, g, w), fit |-> PolicyFit(A, w, g)]
  <2>2. x \in FittedInputs(A, w) /\ x.in = in
    BY <2>1 DEF FittedInputs
  <2>3. QED
    BY <2>2
<1>2. \A x \in FittedInputs(A, w) : x.in \in InputsOf(A, w)
  BY DEF FittedInputs, InputsOf
<1>3. ASSUME NEW x \in FittedInputs(A, w)
      PROVE  PolicyRows(A, x, "raw") = ObservationsOf(A, x.in)
  BY SameRowsAreScored, RawIsUntouched DEF PolicyRows, PolicyRow, ObservationsOf
<1>4. Backtest(A, w).observations = UNION {ObservationsOf(A, in) : in \in InputsOf(A, w)}
  BY DEF Backtest
<1>5. \A o : o \in PolicyBacktest(A, w).results["raw"]
               <=> \E x \in FittedInputs(A, w) : o \in PolicyRows(A, x, "raw")
  BY PolicyResultsAre DEF Policies
<1>6. \A o : o \in PolicyBacktest(A, w).results["raw"] <=> o \in Backtest(A, w).observations
  BY <1>1, <1>2, <1>3, <1>4, <1>5
<1>7. PolicyBacktest(A, w).gaps = Backtest(A, w).gaps
  <2>1. Backtest(A, w).gaps = UNION {GapsOf(A, in) : in \in InputsOf(A, w)}
    BY DEF Backtest
  <2>2. PolicyBacktest(A, w).gaps = UNION {PolicyGaps(A, in) : in \in InputsOf(A, w)}
    BY PolicyBacktestIs
  <2>3. QED
    BY <2>1, <2>2, SameRowsAreScored
<1>8. /\ PolicyBacktest(A, w).evaluated = Backtest(A, w).evaluated
      /\ PolicyBacktest(A, w).candidates = Backtest(A, w).candidates
  BY PolicyBacktestIs DEF Backtest
<1>9. PolicyBacktest(A, w).results["raw"] = Backtest(A, w).observations
  <2>1. PICK S : S = PolicyBacktest(A, w).results["raw"]
    OBVIOUS
  <2>2. PICK T : T = Backtest(A, w).observations
    OBVIOUS
  <2>3. S = T
    BY <1>6, <2>1, <2>2
  <2>4. QED
    BY <2>1, <2>2, <2>3
<1>10. QED
  BY <1>7, <1>8, <1>9 DEF Parity

\* The appearances that the appearance study's fits are made of.
LEMMA AppearancesAreFittable ==
  ASSUME NEW A, NEW w, NEW o \in Backtest(A, w).appearances
  PROVE  \E r : Fittable(A, w, r) /\ o.key = Key(r) /\ o.gw = r.gw /\ o.known = KnownAt(r)
<1>1. PICK h \in Evaluated(A, w) : o \in AppearancesOf(A, Inputs(A, h, w))
  BY DEF Backtest, InputsOf
<1>2. PICK in : in = Inputs(A, h, w)
  OBVIOUS
<1>3. PICK r \in A : /\ o = AppearanceObservation(in, r)
                     /\ r.gw = h /\ r \in Singles(A, in) /\ Projected(in, r)
  BY <1>1, <1>2, AppearancesOfRows
<1>4. o.key = Key(r) /\ o.gw = r.gw /\ o.known = KnownAt(r)
  BY <1>3 DEF AppearanceObservation
<1>5. Fittable(A, w, r)
  BY <1>1, <1>2, <1>3, SinglesAre DEF Fittable
<1>6. QED
  BY <1>4, <1>5

LEMMA FittablesAppear ==
  ASSUME NEW A, NEW w, NEW r, Fittable(A, w, r)
  PROVE  \E o \in Backtest(A, w).appearances :
           o.key = Key(r) /\ o.gw = r.gw /\ o.known = KnownAt(r)
<1>1. PICK in : in = Inputs(A, r.gw, w)
  OBVIOUS
<1> DEFINE o == AppearanceObservation(in, r)
<1>2. r \in Singles(A, in) /\ Projected(in, r) /\ in \in InputsOf(A, w)
  BY <1>1, SinglesAre DEF Fittable, InputsOf
<1>3. o \in AppearancesOf(A, in)
  BY <1>2 DEF AppearancesOf
<1>4. o.key = Key(r) /\ o.gw = r.gw /\ o.known = KnownAt(r)
  BY DEF AppearanceObservation
<1> HIDE DEF o
<1>5. o \in Backtest(A, w).appearances
  BY <1>2, <1>3 DEF Backtest
<1>6. QED
  BY <1>4, <1>5

\* The row a policy scores is fittable.
LEMMA PolicyRowsAreFittable ==
  ASSUME NEW A, WellFormed(A), NEW w, NEW policy \in Policies,
         NEW o \in PolicyBacktest(A, w).results[policy]
  PROVE  \E r : Fittable(A, w, r) /\ o.gw = r.gw
<1>1. PICK y \in FittedInputs(A, w) : o \in PolicyRows(A, y, policy)
  BY PolicyResultsAre
<1>2. PICK r \in PolicyScored(A, y.in) : o = PolicyRow(A, y, policy, r)
  BY <1>1 DEF PolicyRows
<1>3. PICK g \in Evaluated(A, w) : y.in = Inputs(A, g, w)
  BY FittedInputsAre
<1>4. PICK in : in = y.in
  OBVIOUS
<1>5. r \in Singles(A, in) /\ Flags(A, in, r) = {}
  BY <1>2, <1>4, SameRowsAreScored DEF Scored, Scores
<1>6. r \in A /\ r.gw = g /\ r.player \notin DoublePlayers(A, g)
  BY <1>3, <1>4, <1>5, SinglesAre
<1>7. Projected(in, r)
  BY <1>5, ScoredRowsAreMatched DEF Projected
<1>8. o.gw = r.gw
  BY <1>2 DEF PolicyRow, Observation
<1>9. QED
  BY <1>3, <1>4, <1>6, <1>7, <1>8 DEF Fittable

\* As many earlier Gameweeks in the look back as on the way.
LEMMA LabelsAreAsMany ==
  ASSUME NEW A, WellFormed(A), NEW w, NEW g, NEW d, NEW min \in Nat,
         Cardinality(Labels(FitRows(AppendedRows(A, w, g), g, d))) >= min
  PROVE  Cardinality(Labels(PriorRows(Backtest(A, w).appearances, g))) >= min
<1>1. PICK S, T : /\ S = Labels(FitRows(AppendedRows(A, w, g), g, d))
                  /\ T = Labels(PriorRows(Backtest(A, w).appearances, g))
  OBVIOUS
<1>2. S \subseteq T
  <2>1. ASSUME NEW h \in S PROVE h \in T
    <3>1. PICK o \in AppendedRows(A, w, g) : o.gw = h
      BY <1>1 DEF Labels, FitRows
    <3>2. PICK r : Fittable(A, w, r) /\ r.gw < g /\ r.gw = h
      BY <3>1, AppendedRowsAre
    <3>3. PICK q \in Backtest(A, w).appearances : q.gw = h
      BY <3>2, FittablesAppear
    <3>4. QED
      BY <1>1, <3>2, <3>3 DEF Labels, PriorRows
  <2>2. QED
    BY <2>1
<1>3. IsFiniteSet(T)
  <2> DEFINE G == [r \in A |-> r.gw]
  <2>1. G \in [A -> Gameweeks(A)] /\ \A h \in Gameweeks(A) : \E r \in A : G[r] = h
    BY DEF Gameweeks
  <2> HIDE DEF G
  <2>2. IsFiniteSet(Gameweeks(A))
    BY <2>1, Fun_IsSurj, FS_Surjection DEF WellFormed
  <2>3. ASSUME NEW h \in T PROVE h \in Gameweeks(A)
    <3>1. PICK q \in Backtest(A, w).appearances : q.gw = h
      BY <1>1 DEF Labels, PriorRows
    <3>2. QED
      BY <3>1, AppearancesAreFittable DEF Fittable, Gameweeks
  <2>4. QED
    BY <2>2, <2>3, FS_Subset
<1>4. Cardinality(S) \in Nat /\ Cardinality(T) \in Nat /\ Cardinality(S) <= Cardinality(T)
  BY <1>2, <1>3, FS_Subset, FS_CardinalityType
<1>5. QED
  BY <1>1, <1>4

\* What the loop of the policies fits on its way, the appearance study fits looking back,
\* with the rows that were not known yet besides.
LEMMA FitsAreAssessed ==
  ASSUME NEW A, WellFormed(A), NEW w \in Settings, NEW x \in PolicyBacktest(A, w).fits,
         x.fit # None, NEW o \in PolicyBacktest(A, w).results["global"], o.gw = x.gw
  PROVE  \E rec \in WalkForward(Backtest(A, w).appearances, w.min) :
           rec.gw = x.gw /\ x.fit = {q.key : q \in {z \in rec.fitted : z.known <= x.deadline}}
<1>1. PICK z \in FittedInputs(A, w) : x = [gw |-> z.in.gw, deadline |-> z.in.deadline, fit |-> z.fit]
  BY PolicyFitsAre
<1>2. PICK g \in Evaluated(A, w) : z.in = Inputs(A, g, w) /\ z.fit = PolicyFit(A, w, g)
  BY FittedInputsAre
<1>3. PICK d : d = InferredDeadline(A, g)
  OBVIOUS
<1>4. x.gw = g /\ x.deadline = d /\ x.fit = PolicyFit(A, w, g)
  BY <1>1, <1>2, <1>3, InputsAreReads
<1>5. PICK rows : rows = Backtest(A, w).appearances
  OBVIOUS
<1>6. g \in Labels(rows)
  <2>1. PICK r : Fittable(A, w, r) /\ r.gw = g
    BY <1>4, PolicyRowsAreFittable DEF Policies
  <2>2. \E q \in rows : q.gw = g
    BY <1>5, <2>1, FittablesAppear
  <2>3. QED
    BY <2>2 DEF Labels
<1>7. Cardinality(Labels(PriorRows(rows, g))) >= w.min
  <2>1. Cardinality(Labels(FitRows(AppendedRows(A, w, g), g, d))) >= w.min
    BY <1>3, <1>4 DEF PolicyFit, FitFor, AppendedRows
  <2>2. w.min \in Nat
    BY SettingsAssumption
  <2>3. PICK min \in Nat : min = w.min
    BY <2>2
  <2>4. QED
    BY <1>5, <2>1, <2>3, LabelsAreAsMany
<1> DEFINE rec == [gw |-> g, deadline |-> (CHOOSE q \in rows : q.gw = g).deadline,
                   fitted |-> PriorRows(rows, g), evaluated |-> {q \in rows : q.gw = g}]
<1>8. rec \in WalkForward(rows, w.min)
  BY <1>6, <1>7 DEF WalkForward
<1>9. rec.gw = g /\ rec.fitted = PriorRows(rows, g)
  OBVIOUS
<1> HIDE DEF rec
<1>10. ASSUME NEW k
       PROVE  k \in x.fit <=> \E q \in rec.fitted : q.known <= d /\ k = q.key
  <2>1. k \in x.fit <=> \E r : Fittable(A, w, r) /\ k = Key(r) /\ r.gw < g /\ KnownAt(r) <= d
    BY <1>3, <1>4, FitKeysAre
  <2>2. ASSUME NEW r, Fittable(A, w, r), k = Key(r), r.gw < g, KnownAt(r) <= d
        PROVE  \E q \in rec.fitted : q.known <= d /\ k = q.key
    BY <1>5, <1>9, <2>2, FittablesAppear DEF PriorRows
  <2>3. ASSUME NEW q \in rec.fitted, q.known <= d, k = q.key
        PROVE  \E r : Fittable(A, w, r) /\ k = Key(r) /\ r.gw < g /\ KnownAt(r) <= d
    BY <1>5, <1>9, <2>3, AppearancesAreFittable DEF PriorRows
  <2>4. QED
    BY <2>1, <2>2, <2>3
<1>11. x.fit = {q.key : q \in {y \in rec.fitted : y.known <= x.deadline}}
  <2>1. PICK S : S = x.fit
    OBVIOUS
  <2>2. \A k : k \in {q.key : q \in {y \in rec.fitted : y.known <= d}}
                 <=> \E q \in rec.fitted : q.known <= d /\ k = q.key
    OBVIOUS
  <2>3. \E r0 : x.fit = {q.key : q \in r0}
    BY <1>3, <1>4 DEF PolicyFit, FitFor
  <2>4. QED
    BY <1>4, <1>10, <2>2, <2>3
<1>12. QED
  BY <1>4, <1>5, <1>8, <1>9, <1>11

\* The two copies of the walk-forward loop never come apart, and a policy's fit is the
\* appearance study's, but for rows not known at its deadline:
\* backtest_appearance_calibration_policies.
THEOREM PoliciesStayComparable == Spec => []PoliciesShareTheSample
<1>1. ASSUME IInv PROVE PoliciesShareTheSample
  <2>1. ASSUME NEW s \in studies PROVE WellFormed(s.revision[1]) /\ ReportOf(s, s.revision[1])
    <3>1. s.revision[1] \in SUBSET archive
      BY <1>1 DEF IInv, ReportsHold, Grows
    <3>2. QED
      BY <1>1, <3>1, PartsAreWellFormed DEF IInv, SeasonHolds, ReportsHold
  <2>2. ASSUME NEW s \in Of("policies") PROVE s.agrees
    <3>1. PICK A : A = s.revision[1]
      OBVIOUS
    <3>2. /\ WellFormed(A) /\ s.bundle = PolicyBacktest(A, s.asked)
          /\ s.agrees = Parity(Backtest(A, s.asked), s.bundle)
      BY <2>1, <3>1 DEF Of, ReportOf
    <3>3. QED
      BY <3>2, LoopsAgree
  <2>3. ASSUME NEW s \in Of("policies"), NEW t \in Of("appearance"),
               s.revision = t.revision, s.asked = t.asked,
               NEW x \in s.bundle.fits, x.fit # None,
               NEW o \in s.bundle.results["global"], o.gw = x.gw
        PROVE  \E rec \in t.eligible :
                 rec.gw = x.gw /\ x.fit = {q.key : q \in {z \in rec.fitted : z.known <= x.deadline}}
    <3>1. PICK A, w : A = s.revision[1] /\ w = s.asked
      OBVIOUS
    <3>2. WellFormed(A) /\ s.bundle = PolicyBacktest(A, w)
      BY <2>1, <3>1 DEF Of, ReportOf
    <3>3. w \in Settings /\ t.eligible = WalkForward(Backtest(A, w).appearances, w.min)
      BY <2>1, <2>3, <3>1 DEF Of, ReportOf
    <3>4. x \in PolicyBacktest(A, w).fits /\ o \in PolicyBacktest(A, w).results["global"]
      BY <3>2
    <3>5. QED
      BY <2>3, <3>2, <3>3, <3>4, FitsAreAssessed
  <2>4. QED
    BY <2>2, <2>3 DEF PoliciesShareTheSample
<1>2. QED
  BY <1>1, InvariantHolds, PTL

-----------------------------------------------------------------------------
(* Baselines. *)

LEMMA EveryRowHasAMean ==
  ASSUME NEW A, NEW r \in A
  PROVE  \E o \in ExpandingMean(A) : o.key = Key(r) /\ o.known = KnownAt(r)
                                     /\ o.deadline = InferredDeadline(A, r.gw)
<1> DEFINE d == InferredDeadline(A, r.gw)
           o == Observation(r, d, Mean(OfPlayer(MatchedHistory(A, d), r.player)))
<1>1. r.gw \in Gameweeks(A) /\ r \in InGW(A, r.gw)
  BY DEF Gameweeks, InGW
<1>2. o \in ExpandingMean(A)
  <2>1. o \in {Observation(x, d, Mean(OfPlayer({q \in A : KnownAt(q) <= d}, x.player)))
               : x \in InGW(A, r.gw)}
    BY <1>1 DEF MatchedHistory
  <2> HIDE DEF o
  <2>2. QED
    BY <1>1, <2>1 DEF ExpandingMean
<1>3. o.key = Key(r) /\ o.known = KnownAt(r) /\ o.deadline = d
  BY DEF Observation
<1>4. QED
  BY <1>2, <1>3

\* A mean is of the training set of its fold.
LEMMA MeansAreOfTheirFold ==
  ASSUME NEW A, WellFormed(A), NEW fold \in Folds(ExpandingMean(A)), NEW o \in fold.evaluation
  PROVE  o.predicted.mean = {q.key : q \in {z \in fold.training : z.key[1] = o.key[1]}}
<1>1. /\ o \in ExpandingMean(A) /\ o.deadline = fold.deadline
      /\ fold.training = Training(ExpandingMean(A), fold.deadline)
  BY DEF Folds
<1>2. PICK d, p : d = fold.deadline /\ p = o.key[1]
  OBVIOUS
<1>3. o.predicted = Mean(OfPlayer(MatchedHistory(A, d), p))
  BY <1>1, <1>2, MeansObserve
<1>4. o.predicted.mean = {Key(r) : r \in {x \in A : KnownAt(x) <= d /\ x.player = p}}
  BY <1>3 DEF Mean, Keys, OfPlayer, MatchedHistory
<1>5. PICK r \in A : o = Observation(r, InferredDeadline(A, r.gw), o.predicted)
  BY <1>1, MeansObserve DEF Observes
<1>6. d \in Int
  BY <1>1, <1>2, <1>5, DeadlineIsEarlier DEF Observation
<1>7. ASSUME NEW x \in A, KnownAt(x) <= d, x.player = p
      PROVE  \E q \in fold.training : q.key[1] = p /\ q.key = Key(x)
  <2>1. PICK q \in ExpandingMean(A) : q.key = Key(x) /\ q.known = KnownAt(x)
                                      /\ q.deadline = InferredDeadline(A, x.gw)
    BY EveryRowHasAMean
  <2>2. q.deadline \in Int /\ q.deadline < q.known /\ q.known \in Int /\ q.known <= d
    BY <1>7, <2>1, DeadlineIsEarlier, SeasonAssumption DEF WellFormed, KnownAt
  <2>3. q \in fold.training
    BY <1>1, <1>2, <1>6, <2>1, <2>2 DEF Training
  <2>4. QED
    BY <1>7, <2>1, <2>3 DEF Key
<1>8. ASSUME NEW q \in fold.training, q.key[1] = p
      PROVE  \E x \in A : KnownAt(x) <= d /\ x.player = p /\ q.key = Key(x)
  <2>1. q \in ExpandingMean(A) /\ q.known <= d
    BY <1>1, <1>2 DEF Training
  <2>2. PICK x \in A : q = Observation(x, InferredDeadline(A, x.gw), q.predicted)
    BY <2>1, MeansObserve DEF Observes
  <2>3. q.key = Key(x) /\ q.known = KnownAt(x) /\ x.player = q.key[1]
    BY <2>2 DEF Observation, Key
  <2>4. QED
    BY <1>8, <2>1, <2>3
<1>9. QED
  BY <1>2, <1>4, <1>7, <1>8

\* The naive comparator predicts what the expanding mean does.
LEMMA NaiveIsTheMean ==
  ASSUME NEW A, WellFormed(A), NEW w, NEW o \in ExpandingMean(A),
         NEW q \in MatchedNaive(A, Backtest(A, w).observations), o.key = q.key
  PROVE  o = q
<1>1. PICK r \in A : o = Observation(r, InferredDeadline(A, r.gw), o.predicted)
  BY MeansObserve DEF Observes
<1>2. PICK x \in A : q = Observation(x, InferredDeadline(A, x.gw), q.predicted)
  BY NaiveObserves DEF Observes
<1>3. r = x
  <2>1. o.key = Key(r) /\ q.key = Key(x)
    BY <1>1, <1>2 DEF Observation
  <2>2. QED
    BY <2>1 DEF WellFormed
<1>4. o.deadline = q.deadline
  BY <1>1, <1>2, <1>3 DEF Observation
<1>5. o.predicted = q.predicted
  BY <1>4, MeansObserve, NaiveObserves
<1>6. QED
  BY <1>1, <1>2, <1>3, <1>5

\* Three modules draw the line at what was known at a deadline, and draw the same:
\* historical.py, backtest.py and matched_naive.py.
THEOREM BaselinesStayAgreed == Spec => []BaselinesAgree
<1>1. ASSUME IInv PROVE BaselinesAgree
  <2>1. ASSUME NEW s \in studies PROVE WellFormed(s.revision[1]) /\ ReportOf(s, s.revision[1])
    <3>1. s.revision[1] \in SUBSET archive
      BY <1>1 DEF IInv, ReportsHold, Grows
    <3>2. QED
      BY <1>1, <3>1, PartsAreWellFormed DEF IInv, SeasonHolds, ReportsHold
  <2>2. ASSUME NEW s \in Of("smoke"), NEW fold \in s.folds, NEW o \in fold.evaluation
        PROVE  o.predicted.mean = {q.key : q \in {z \in fold.training : z.key[1] = o.key[1]}}
    <3>1. PICK A : A = s.revision[1]
      OBVIOUS
    <3>2. WellFormed(A) /\ s.folds = Folds(ExpandingMean(A))
      BY <2>1, <3>1 DEF Of, ReportOf
    <3>3. QED
      BY <3>2, MeansAreOfTheirFold
  <2>3. ASSUME NEW s \in Of("smoke"), NEW t \in Of("backtest"), s.revision = t.revision,
               NEW o \in s.means, NEW q \in t.naive, o.key = q.key
        PROVE  o = q
    <3>1. PICK A : A = s.revision[1]
      OBVIOUS
    <3>2. WellFormed(A) /\ s.means = ExpandingMean(A)
      BY <2>1, <3>1 DEF Of, ReportOf
    <3>3. t.naive = MatchedNaive(A, Backtest(A, t.asked).observations)
      BY <2>1, <2>3, <3>1 DEF Of, ReportOf
    <3>4. QED
      BY <2>3, <3>2, <3>3, NaiveIsTheMean
  <2>4. QED
    BY <2>2, <2>3 DEF BaselinesAgree
<1>2. QED
  BY <1>1, InvariantHolds, PTL

-----------------------------------------------------------------------------
(* Runs on a later archive. *)

LEMMA SameBefore ==
  ASSUME NEW A, NEW B, WellFormed(B), Grows(A, B), NEW g \in Gameweeks(A), NEW h
  PROVE  LET d == InferredDeadline(A, g) IN
           /\ Before(A, h, d) = Before(B, h, d)
           /\ Before(TeamResults(A), h, d) = Before(TeamResults(B), h, d)
<1>1. PICK d : d = InferredDeadline(A, g)
  OBVIOUS
<1>2. \A q \in B : KnownAt(q) <= d => q \in A
  BY <1>1, LaterIsUnknown
<1>3. A \subseteq B
  BY DEF Grows
<1>4. Before(A, h, d) = Before(B, h, d)
  BY <1>2, <1>3 DEF Before
<1>5. ASSUME NEW x \in TeamResults(B), KnownAt(x) <= d PROVE x \in TeamResults(A)
  <2>1. PICK r \in B : x = [team |-> r.team, fixture |-> r.fixture, gw |-> r.gw, kick |-> r.kick]
    BY DEF TeamResults
  <2>2. KnownAt(r) <= d
    BY <1>5, <2>1 DEF KnownAt
  <2>3. QED
    BY <1>2, <2>1, <2>2 DEF TeamResults
<1>6. TeamResults(A) \subseteq TeamResults(B)
  BY <1>3 DEF TeamResults
<1>7. Before(TeamResults(A), h, d) = Before(TeamResults(B), h, d)
  BY <1>5, <1>6 DEF Before
<1>8. QED
  BY <1>1, <1>4, <1>7

\* All that a Gameweek's rows are scored with, but who has a double Gameweek.
LEMMA SameInputs ==
  ASSUME NEW A, NEW B, WellFormed(B), Grows(A, B), NEW g \in Gameweeks(A), NEW w,
         NEW old, old = Inputs(A, g, w), NEW now, now = Inputs(B, g, w)
  PROVE  /\ old.gw = now.gw /\ old.deadline = now.deadline
         /\ old.appearances = now.appearances /\ old.rates = now.rates
         /\ old.strengths = now.strengths /\ old.bonus = now.bonus
<1>1. PICK d : d = InferredDeadline(A, g)
  OBVIOUS
<1>2. d = InferredDeadline(B, g)
  BY <1>1, DeadlineStays
<1>3. /\ Before(A, g, d) = Before(B, g, d)
      /\ Before(TeamResults(A), g, d) = Before(TeamResults(B), g, d)
  BY <1>1, SameBefore
<1>4. AppearanceAsOf(A, g, d) = AppearanceAsOf(B, g, d)
  BY <1>3 DEF AppearanceAsOf
<1>5. RatesAsOf(A, g, d, w) = RatesAsOf(B, g, d, w)
  BY <1>3 DEF RatesAsOf
<1>6. StrengthAsOf(A, g, d, w) = StrengthAsOf(B, g, d, w)
  BY <1>3 DEF StrengthAsOf
<1>7. LeagueBonusAsOf(A, g, d) = LeagueBonusAsOf(B, g, d)
  BY <1>3 DEF LeagueBonusAsOf
<1>8. /\ old.gw = g /\ old.deadline = d
      /\ old.appearances = AppearanceAsOf(A, g, d) /\ old.rates = RatesAsOf(A, g, d, w)
      /\ old.strengths = StrengthAsOf(A, g, d, w) /\ old.bonus = LeagueBonusAsOf(A, g, d)
  BY <1>1, InputsAreReads
<1>9. /\ now.gw = g /\ now.deadline = d
      /\ now.appearances = AppearanceAsOf(B, g, d) /\ now.rates = RatesAsOf(B, g, d, w)
      /\ now.strengths = StrengthAsOf(B, g, d, w) /\ now.bonus = LeagueBonusAsOf(B, g, d)
  BY <1>2, InputsAreReads
<1>10. QED
  BY <1>4, <1>5, <1>6, <1>7, <1>8, <1>9

\* All rows of a fixture are archived together.
LEMMA SameOpponents ==
  ASSUME NEW A, NEW B, Grows(A, B), NEW r \in A
  PROVE  Opponents(A, r) = Opponents(B, r)
<1>1. \A q \in B : q.fixture = r.fixture => q \in A
  BY DEF Grows
<1>2. {y \in TeamResults(A) : y.fixture = r.fixture} = {y \in TeamResults(B) : y.fixture = r.fixture}
  <2>1. ASSUME NEW y \in TeamResults(B), y.fixture = r.fixture PROVE y \in TeamResults(A)
    BY <1>1, <2>1 DEF TeamResults
  <2>2. TeamResults(A) \subseteq TeamResults(B)
    BY DEF TeamResults, Grows
  <2>3. QED
    BY <2>1, <2>2
<1>3. QED
  BY <1>2 DEF Opponents

\* The row an observation is of, with the inputs of its Gameweek.
ObservedRow(A, w, o, r) ==
  /\ r \in A /\ r.gw \in Evaluated(A, w)
  /\ LET in == Inputs(A, r.gw, w)
     IN /\ r \in Scored(A, in)
        /\ o = Observation(r, in.deadline,
                           Prediction(A, in, r, Only(AppearanceOf(in, r.player))))

LEMMA ObservedRowExists ==
  ASSUME NEW A, NEW w, NEW o \in Backtest(A, w).observations
  PROVE  \E r : ObservedRow(A, w, o, r)
<1>1. PICK g \in Evaluated(A, w) : o \in ObservationsOf(A, Inputs(A, g, w))
  BY DEF Backtest, InputsOf
<1>2. PICK in : in = Inputs(A, g, w)
  OBVIOUS
<1>3. PICK r \in Scored(A, in) :
        o = Observation(r, in.deadline, Prediction(A, in, r, Only(AppearanceOf(in, r.player))))
  BY <1>1, <1>2 DEF ObservationsOf
<1>4. r \in A /\ r.gw = g
  BY <1>2, InputsAreReads DEF Scored, Singles, InGW
<1>5. QED
  BY <1>2, <1>3, <1>4 DEF ObservedRow

LEMMA SamePrediction ==
  ASSUME NEW A, NEW B, WellFormed(B), Grows(A, B), NEW w,
         NEW o, NEW q, NEW r, ObservedRow(A, w, o, r), ObservedRow(B, w, q, r)
  PROVE  o = q
<1>1. PICK old, now : old = Inputs(A, r.gw, w) /\ now = Inputs(B, r.gw, w)
  OBVIOUS
<1>2. r.gw \in Gameweeks(A) /\ r \in A
  BY DEF ObservedRow, Evaluated
<1>3. /\ old.deadline = now.deadline
      /\ old.appearances = now.appearances /\ old.rates = now.rates
      /\ old.strengths = now.strengths /\ old.bonus = now.bonus
  BY <1>1, <1>2, SameInputs
<1>4. /\ \A p : AppearanceOf(old, p) = AppearanceOf(now, p) /\ RateOf(old, p) = RateOf(now, p)
      /\ \A t : StrengthOf(old, t) = StrengthOf(now, t)
  BY <1>3 DEF AppearanceOf, RateOf, StrengthOf
<1>5. Opponents(A, r) = Opponents(B, r)
  BY <1>2, SameOpponents
<1>6. \A x : Prediction(A, old, r, x) = Prediction(B, now, r, x)
  BY <1>3, <1>4, <1>5 DEF Prediction
<1>7. /\ o = Observation(r, old.deadline,
                         Prediction(A, old, r, Only(AppearanceOf(old, r.player))))
      /\ q = Observation(r, now.deadline,
                         Prediction(B, now, r, Only(AppearanceOf(now, r.player))))
  BY <1>1 DEF ObservedRow
<1>8. QED
  BY <1>3, <1>4, <1>6, <1>7

\* What was predicted for a row is not predicted otherwise from a later archive.
LEMMA ObservationsAgree ==
  ASSUME NEW A, NEW B, WellFormed(B), Grows(A, B), NEW w,
         NEW o \in Backtest(A, w).observations, NEW q \in Backtest(B, w).observations,
         o.key = q.key
  PROVE  o = q
<1>1. PICK r : ObservedRow(A, w, o, r)
  BY ObservedRowExists
<1>2. PICK x : ObservedRow(B, w, q, x)
  BY ObservedRowExists
<1>3. o.key = Key(r) /\ q.key = Key(x) /\ r \in B /\ x \in B
  BY <1>1, <1>2 DEF ObservedRow, Observation, Grows
<1>4. r = x
  BY <1>3 DEF WellFormed
<1>5. QED
  BY <1>1, <1>2, <1>4, SamePrediction

\* A double Gameweek that an archive shows, a later one shows.
LEMMA DoublesStay ==
  ASSUME NEW A, NEW B, WellFormed(B), Grows(A, B), NEW g, NEW p \in DoublePlayers(A, g)
  PROVE  p \in DoublePlayers(B, g)
<1> DEFINE rowsA == OfPlayer(InGW(A, g), p)
           rowsB == OfPlayer(InGW(B, g), p)
           old == {r.fixture : r \in rowsA}
           now == {r.fixture : r \in rowsB}
<1>1. p \in Players /\ Cardinality(old) > 1
  BY DEF DoublePlayers
<1>2. old \subseteq now
  BY DEF OfPlayer, InGW, Grows
<1>3. IsFiniteSet(now)
  <2>1. IsFiniteSet(rowsB)
    BY FS_Subset DEF OfPlayer, InGW, WellFormed
  <2> DEFINE F == [r \in rowsB |-> r.fixture]
  <2>2. F \in [rowsB -> now] /\ \A t \in now : \E r \in rowsB : F[r] = t
    OBVIOUS
  <2> HIDE DEF F, rowsB, now
  <2>3. F \in Surjection(rowsB, now)
    BY <2>2, Fun_IsSurj
  <2>4. QED
    BY <2>1, <2>3, FS_Surjection
<1>4. Cardinality(now) > 1
  <2> HIDE DEF old, now
  <2>1. Cardinality(old) <= Cardinality(now) /\ IsFiniteSet(old)
    BY <1>2, <1>3, FS_Subset
  <2>2. Cardinality(now) \in Nat /\ Cardinality(old) \in Nat
    BY <1>3, <2>1, FS_CardinalityType
  <2>3. QED
    BY <1>1, <2>1, <2>2
<1>5. QED
  BY <1>1, <1>4 DEF DoublePlayers

\* A later fit has no row that the earlier one could not have had, and has lost those of
\* players whose Gameweek became a double one.
LEMMA FitsOnlyLoseDoubles ==
  ASSUME NEW A, NEW B, WellFormed(B), Grows(A, B), NEW w,
         NEW x \in PolicyBacktest(A, w).fits, NEW y \in PolicyBacktest(B, w).fits,
         x.gw = y.gw, x.fit # None, y.fit # None
  PROVE  /\ y.fit \subseteq x.fit
         /\ \A k \in x.fit \ y.fit :
              \E gap \in PolicyBacktest(B, w).gaps :
                gap.key = k /\ gap.flags = {"DOUBLE_GAMEWEEK_FIXTURE"}
<1> WellFormed(A)
  BY PartsAreWellFormed DEF Grows
<1>1. PICK u \in FittedInputs(A, w) : x = [gw |-> u.in.gw, deadline |-> u.in.deadline, fit |-> u.fit]
  BY PolicyFitsAre
<1>2. PICK v \in FittedInputs(B, w) : y = [gw |-> v.in.gw, deadline |-> v.in.deadline, fit |-> v.fit]
  BY PolicyFitsAre
<1>3. PICK g \in Evaluated(A, w) :
        u.in = Inputs(A, g, w) /\ u.fit = PolicyFit(A, w, g)
  BY FittedInputsAre
<1>4. PICK h \in Evaluated(B, w) :
        v.in = Inputs(B, h, w) /\ v.fit = PolicyFit(B, w, h)
  BY FittedInputsAre
<1>5. g = h
  <2>1. u.in.gw = g /\ v.in.gw = h
    BY <1>3, <1>4, InputsAreReads
  <2>2. QED
    BY <1>1, <1>2, <2>1
<1>6. PICK d : d = InferredDeadline(A, g)
  OBVIOUS
<1>7. g \in Gameweeks(A)
  BY DEF Evaluated
<1>8. d = InferredDeadline(B, g)
  BY <1>6, <1>7, DeadlineStays
<1>9. x.fit = PolicyFit(A, w, g) /\ y.fit = PolicyFit(B, w, g)
  BY <1>1, <1>2, <1>3, <1>4, <1>5
<1>10. ASSUME NEW r \in A, r.gw \in Evaluated(A, w)
       PROVE  Projected(Inputs(A, r.gw, w), r) <=> Projected(Inputs(B, r.gw, w), r)
  <2>1. PICK old, now : old = Inputs(A, r.gw, w) /\ now = Inputs(B, r.gw, w)
    OBVIOUS
  <2>2. old.appearances = now.appearances
    BY <1>10, <2>1, SameInputs DEF Evaluated
  <2>3. QED
    BY <2>1, <2>2 DEF Projected, AppearanceOf
<1>11. \A k : k \in x.fit
         <=> \E r : Fittable(A, w, r) /\ k = Key(r) /\ r.gw < g /\ KnownAt(r) <= d
  BY <1>6, <1>9, FitKeysAre
<1>12. \A k : k \in y.fit
         <=> \E r : Fittable(B, w, r) /\ k = Key(r) /\ r.gw < g /\ KnownAt(r) <= d
  BY <1>8, <1>9, FitKeysAre
<1>13. ASSUME NEW r, Fittable(B, w, r), KnownAt(r) <= d PROVE Fittable(A, w, r)
  <2>1. r \in A
    BY <1>6, <1>7, <1>13, LaterIsUnknown DEF Fittable
  <2>2. r.gw \in Evaluated(A, w)
    BY <1>13, <2>1 DEF Fittable, Evaluated, Gameweeks
  <2>3. r.player \notin DoublePlayers(A, r.gw)
    BY <1>13, DoublesStay DEF Fittable
  <2>4. QED
    BY <1>10, <1>13, <2>1, <2>2, <2>3 DEF Fittable
<1>14. y.fit \subseteq x.fit
  BY <1>11, <1>12, <1>13
<1>15. ASSUME NEW k \in x.fit \ y.fit
       PROVE  \E gap \in PolicyBacktest(B, w).gaps :
                gap.key = k /\ gap.flags = {"DOUBLE_GAMEWEEK_FIXTURE"}
  <2>1. PICK r : Fittable(A, w, r) /\ k = Key(r) /\ r.gw < g /\ KnownAt(r) <= d
    BY <1>11
  <2>2. ~Fittable(B, w, r)
    BY <1>12, <2>1
  <2>3. r \in B /\ r.gw \in Evaluated(B, w)
    BY <2>1 DEF Fittable, Grows, Evaluated, Gameweeks
  <2>4. r.player \in DoublePlayers(B, r.gw)
    BY <1>10, <2>1, <2>2, <2>3 DEF Fittable
  <2>5. PICK in : in = Inputs(B, r.gw, w)
    OBVIOUS
  <2>6. r \in InGW(B, in.gw) \ Singles(B, in)
    BY <2>3, <2>4, <2>5, SinglesAre, InputsAreReads DEF InGW
  <2> DEFINE gap == Gap(r, {"DOUBLE_GAMEWEEK_FIXTURE"})
  <2>7. gap \in PolicyGaps(B, in)
    BY <2>6, SameRowsAreScored DEF GapsOf
  <2>8. gap.key = k /\ gap.flags = {"DOUBLE_GAMEWEEK_FIXTURE"}
    BY <2>1 DEF Gap
  <2> HIDE DEF gap
  <2>9. gap \in PolicyBacktest(B, w).gaps
    <3>1. in \in InputsOf(B, w)
      BY <2>3, <2>5 DEF InputsOf
    <3>2. PolicyBacktest(B, w).gaps = UNION {PolicyGaps(B, i) : i \in InputsOf(B, w)}
      BY PolicyBacktestIs
    <3>3. QED
      BY <2>7, <3>1, <3>2
  <2>10. QED
    BY <2>8, <2>9
<1>16. QED
  BY <1>14, <1>15

\* What was predicted for a row is never predicted otherwise by a later run with the same
\* windows, whatever was played, postponed or transferred meanwhile: the as-of reads of
\* benchwarmers_backtest, and the fits of backtest_appearance_calibration_policies.
THEOREM RerunsStayAgreed == Spec => []RerunsAgree
<1>1. ASSUME IInv PROVE RerunsAgree
  <2>1. ASSUME NEW s \in studies PROVE WellFormed(s.revision[1]) /\ ReportOf(s, s.revision[1])
    <3>1. s.revision[1] \in SUBSET archive
      BY <1>1 DEF IInv, ReportsHold, Grows
    <3>2. QED
      BY <1>1, <3>1, PartsAreWellFormed DEF IInv, SeasonHolds, ReportsHold
  <2>2. ASSUME NEW s \in Of("backtest"), NEW t \in Of("backtest"), s.asked = t.asked,
               NEW o \in s.backtest.observations, NEW q \in t.backtest.observations,
               o.key = q.key
        PROVE  o = q
    <3>1. PICK A, B, w : A = s.revision[1] /\ B = t.revision[1] /\ w = s.asked
      OBVIOUS
    <3>2. WellFormed(A) /\ WellFormed(B) /\ (Grows(A, B) \/ Grows(B, A))
      BY <1>1, <2>1, <3>1 DEF IInv, ReportsHold, Of
    <3>3. o \in Backtest(A, w).observations /\ q \in Backtest(B, w).observations
      BY <2>1, <2>2, <3>1 DEF Of, ReportOf
    <3>4. QED
      BY <2>2, <3>2, <3>3, ObservationsAgree
  <2>3. ASSUME NEW s \in Of("policies"), NEW t \in Of("policies"),
               s.asked = t.asked, s.revision[1] \subseteq t.revision[1],
               NEW x \in s.bundle.fits, NEW y \in t.bundle.fits,
               x.gw = y.gw, x.fit # None, y.fit # None
        PROVE  /\ y.fit \subseteq x.fit
               /\ \A k \in x.fit \ y.fit :
                    \E g \in t.bundle.gaps : g.key = k /\ g.flags = {"DOUBLE_GAMEWEEK_FIXTURE"}
    <3>1. PICK A, B, w : A = s.revision[1] /\ B = t.revision[1] /\ w = s.asked
      OBVIOUS
    <3>2. WellFormed(B) /\ (Grows(A, B) \/ Grows(B, A)) /\ A \subseteq B
      BY <1>1, <2>1, <2>3, <3>1 DEF IInv, ReportsHold, Of
    <3>3. Grows(A, B)
      BY <3>2 DEF Grows
    <3>4. s.bundle = PolicyBacktest(A, w) /\ t.bundle = PolicyBacktest(B, w)
      BY <2>1, <2>3, <3>1 DEF Of, ReportOf
    <3>5. x \in PolicyBacktest(A, w).fits /\ y \in PolicyBacktest(B, w).fits
      BY <3>4
    <3>6. /\ y.fit \subseteq x.fit
          /\ \A k \in x.fit \ y.fit :
               \E gap \in PolicyBacktest(B, w).gaps :
                 gap.key = k /\ gap.flags = {"DOUBLE_GAMEWEEK_FIXTURE"}
      BY <2>3, <3>2, <3>3, <3>5, FitsOnlyLoseDoubles
    <3>7. QED
      BY <3>4, <3>6
  <2>4. QED
    BY <2>2, <2>3 DEF RerunsAgree
<1>2. QED
  BY <1>1, InvariantHolds, PTL

-----------------------------------------------------------------------------
(* Every row is accounted for. *)

\* Things that are named by the rows of a set, one for each, are as many as the rows.
LEMMA Counted ==
  ASSUME NEW A, WellFormed(A), NEW R \in SUBSET A, NEW T,
         \A t \in T : \E r \in R : t.key = Key(r),
         \A r \in R : \E t \in T : t.key = Key(r),
         \A t, u \in T : t.key = u.key => t = u
  PROVE  IsFiniteSet(T) /\ Cardinality(T) = Cardinality(R)
<1> DEFINE F == [r \in R |-> CHOOSE t \in T : t.key = Key(r)]
<1>1. ASSUME NEW r \in R PROVE F[r] \in T /\ F[r].key = Key(r)
  OBVIOUS
<1>2. F \in [R -> T]
  BY <1>1
<1> HIDE DEF F
<1>3. \A r, q \in R : F[r] = F[q] => r = q
  BY <1>1 DEF WellFormed
<1>4. \A t \in T : \E r \in R : F[r] = t
  BY <1>1
<1>5. F \in Bijection(R, T)
  BY <1>2, <1>3, <1>4, Fun_IsBij
<1>6. IsFiniteSet(R)
  BY FS_Subset DEF WellFormed
<1>7. ExistsBijection(R, T)
  BY <1>5 DEF ExistsBijection
<1>8. QED
  BY <1>6, <1>7, FS_Bijection

\* So are their keys.
LEMMA KeysCounted ==
  ASSUME NEW A, WellFormed(A), NEW R \in SUBSET A
  PROVE  Cardinality(Keys(R)) = Cardinality(R)
<1> DEFINE F == [r \in R |-> Key(r)]
<1>1. F \in [R -> Keys(R)] /\ \A k \in Keys(R) : \E r \in R : F[r] = k
  BY DEF Keys
<1>2. \A r, q \in R : F[r] = F[q] => r = q
  BY DEF WellFormed
<1> HIDE DEF F
<1>3. F \in Bijection(R, Keys(R))
  BY <1>1, <1>2, Fun_IsBij
<1>4. IsFiniteSet(R)
  BY FS_Subset DEF WellFormed
<1>5. ExistsBijection(R, Keys(R))
  BY <1>3 DEF ExistsBijection
<1>6. QED
  BY <1>4, <1>5, FS_Bijection

\* The candidates, and what becomes of them.
Candidates(A, w) == UNION {InGW(A, g) : g \in Evaluated(A, w)}
In(A, w, r) == Inputs(A, r.gw, w)
ScoredRows(A, w) == {r \in Candidates(A, w) : r \in Scored(A, In(A, w, r))}
DoubleRows(A, w) == {r \in Candidates(A, w) : r \notin Singles(A, In(A, w, r))}
UnprojectedRows(A, w) ==
  {r \in Candidates(A, w) : r \in Singles(A, In(A, w, r)) /\ ~Projected(In(A, w, r), r)}
ProjectedRows(A, w) ==
  {r \in Candidates(A, w) : r \in Singles(A, In(A, w, r)) /\ Projected(In(A, w, r), r)}

\* The flags of the gap of a row that is not scored.
GapFlags(A, in, r) ==
  IF r \notin Singles(A, in) THEN {"DOUBLE_GAMEWEEK_FIXTURE"}
  ELSE IF Flags(A, in, r) # {} THEN Flags(A, in, r)
  ELSE {"NEGATIVE_BONUS_SIGNAL"}

LEMMA CandidatesAre ==
  ASSUME NEW A, NEW w, NEW r
  PROVE  r \in Candidates(A, w) <=> r \in A /\ r.gw \in Evaluated(A, w)
  BY DEF Candidates, InGW

\* One gap for each row that is not scored.
LEMMA GapsAre ==
  ASSUME NEW A, NEW w, NEW gap
  PROVE  gap \in Backtest(A, w).gaps
           <=> \E r \in Candidates(A, w) \ ScoredRows(A, w) :
                 gap = Gap(r, GapFlags(A, In(A, w, r), r))
<1>1. Backtest(A, w).gaps = UNION {GapsOf(A, in) : in \in InputsOf(A, w)}
  BY DEF Backtest
<1>2. ASSUME NEW g \in Evaluated(A, w), NEW in, in = Inputs(A, g, w)
      PROVE  gap \in GapsOf(A, in)
               <=> \E r \in InGW(A, g) \ Scored(A, in) : gap = Gap(r, GapFlags(A, in, r))
  <2>1. in.gw = g
    BY <1>2, InputsAreReads
  <2>2. Singles(A, in) \subseteq InGW(A, g)
    BY <2>1 DEF Singles
  <2>3. ASSUME NEW r \in InGW(A, g)
        PROVE  /\ r \notin Singles(A, in) =>
                    r \notin Scored(A, in) /\ GapFlags(A, in, r) = {"DOUBLE_GAMEWEEK_FIXTURE"}
               /\ r \in Singles(A, in) /\ Flags(A, in, r) # {} =>
                    r \notin Scored(A, in) /\ GapFlags(A, in, r) = Flags(A, in, r)
               /\ r \in Singles(A, in) /\ Flags(A, in, r) = {} =>
                    GapFlags(A, in, r) = {"NEGATIVE_BONUS_SIGNAL"}
                    /\ (r \notin Scored(A, in) <=> ~Scores(A, in, r))
    BY DEF Scored, Scores, GapFlags
  <2>4. gap \in GapsOf(A, in)
          <=> \/ \E r \in InGW(A, g) \ Singles(A, in) : gap = Gap(r, {"DOUBLE_GAMEWEEK_FIXTURE"})
              \/ \E r \in Singles(A, in) : Flags(A, in, r) # {} /\ gap = Gap(r, Flags(A, in, r))
              \/ \E r \in Singles(A, in) : /\ Flags(A, in, r) = {} /\ ~Scores(A, in, r)
                                           /\ gap = Gap(r, {"NEGATIVE_BONUS_SIGNAL"})
    BY <2>1 DEF GapsOf
  <2>5. QED
    BY <2>2, <2>3, <2>4
<1>3. gap \in Backtest(A, w).gaps
        <=> \E g \in Evaluated(A, w) : gap \in GapsOf(A, Inputs(A, g, w))
  BY <1>1 DEF InputsOf
<1>4. \A g \in Evaluated(A, w) :
        gap \in GapsOf(A, Inputs(A, g, w))
          <=> \E r \in InGW(A, g) \ Scored(A, Inputs(A, g, w)) :
                gap = Gap(r, GapFlags(A, Inputs(A, g, w), r))
  BY <1>2
<1>5. \A r : r \in Candidates(A, w) \ ScoredRows(A, w)
               <=> r \in A /\ r.gw \in Evaluated(A, w) /\ r \notin Scored(A, Inputs(A, r.gw, w))
  BY CandidatesAre DEF ScoredRows, In
<1>6. QED
  BY <1>3, <1>4, <1>5 DEF InGW, In

\* The rows that are scored, from their observations and back.
LEMMA ObservationsAre ==
  ASSUME NEW A, WellFormed(A), NEW w
  PROVE  /\ \A o \in Backtest(A, w).observations : \E r \in ScoredRows(A, w) : o.key = Key(r)
         /\ \A r \in ScoredRows(A, w) : \E o \in Backtest(A, w).observations : o.key = Key(r)
         /\ \A o, q \in Backtest(A, w).observations : o.key = q.key => o = q
<1>1. ASSUME NEW o \in Backtest(A, w).observations
      PROVE  \E r \in ScoredRows(A, w) : o.key = Key(r)
  <2>1. PICK r : ObservedRow(A, w, o, r)
    BY ObservedRowExists
  <2>2. r \in ScoredRows(A, w)
    BY <2>1, CandidatesAre DEF ObservedRow, ScoredRows, In
  <2>3. QED
    BY <2>1, <2>2 DEF ObservedRow, Observation
<1>2. ASSUME NEW r \in ScoredRows(A, w)
      PROVE  \E o \in Backtest(A, w).observations : o.key = Key(r)
  <2>1. PICK in : in = Inputs(A, r.gw, w)
    OBVIOUS
  <2>2. in \in InputsOf(A, w) /\ r \in Scored(A, in)
    BY <2>1, CandidatesAre DEF ScoredRows, In, InputsOf
  <2> DEFINE o == Observation(r, in.deadline,
                              Prediction(A, in, r, Only(AppearanceOf(in, r.player))))
  <2>3. o \in ObservationsOf(A, in) /\ o.key = Key(r)
    BY <2>2 DEF ObservationsOf, Observation
  <2> HIDE DEF o
  <2>4. Backtest(A, w).observations = UNION {ObservationsOf(A, i) : i \in InputsOf(A, w)}
    BY DEF Backtest
  <2>5. QED
    BY <2>2, <2>3, <2>4
<1>3. \A o, q \in Backtest(A, w).observations : o.key = q.key => o = q
  BY ObservationsAgree DEF Grows
<1>4. QED
  BY <1>1, <1>2, <1>3

\* The rows with an appearance, from their observations and back.
LEMMA AppearanceRowsAre ==
  ASSUME NEW A, WellFormed(A), NEW w
  PROVE  /\ \A o \in Backtest(A, w).appearances : \E r \in ProjectedRows(A, w) : o.key = Key(r)
         /\ \A r \in ProjectedRows(A, w) : \E o \in Backtest(A, w).appearances : o.key = Key(r)
         /\ \A o, q \in Backtest(A, w).appearances : o.key = q.key => o = q
<1>1. Backtest(A, w).appearances = UNION {AppearancesOf(A, i) : i \in InputsOf(A, w)}
  BY DEF Backtest
<1>2. ASSUME NEW o \in Backtest(A, w).appearances
      PROVE  \E r \in ProjectedRows(A, w) : o = AppearanceObservation(In(A, w, r), r)
  <2>1. PICK g \in Evaluated(A, w) : o \in AppearancesOf(A, Inputs(A, g, w))
    BY <1>1 DEF InputsOf
  <2>2. PICK in : in = Inputs(A, g, w)
    OBVIOUS
  <2>3. PICK r \in A : /\ o = AppearanceObservation(in, r)
                       /\ r.gw = g /\ r \in Singles(A, in) /\ Projected(in, r)
    BY <2>1, <2>2, AppearancesOfRows
  <2>4. in = In(A, w, r) /\ r \in Candidates(A, w)
    BY <2>1, <2>2, <2>3, CandidatesAre DEF In
  <2>5. QED
    BY <2>3, <2>4 DEF ProjectedRows
<1>3. ASSUME NEW r \in ProjectedRows(A, w)
      PROVE  \E o \in Backtest(A, w).appearances : o.key = Key(r)
  <2>1. PICK in : in = Inputs(A, r.gw, w)
    OBVIOUS
  <2>2. in \in InputsOf(A, w) /\ r \in Singles(A, in) /\ Projected(in, r)
    BY <2>1, CandidatesAre DEF ProjectedRows, In, InputsOf
  <2> DEFINE o == AppearanceObservation(in, r)
  <2>3. o \in AppearancesOf(A, in) /\ o.key = Key(r)
    BY <2>2 DEF AppearancesOf, AppearanceObservation
  <2> HIDE DEF o
  <2>4. QED
    BY <1>1, <2>2, <2>3
<1>4. ASSUME NEW o \in Backtest(A, w).appearances, NEW q \in Backtest(A, w).appearances,
             o.key = q.key
      PROVE  o = q
  <2>1. PICK r \in ProjectedRows(A, w) : o = AppearanceObservation(In(A, w, r), r)
    BY <1>2
  <2>2. PICK x \in ProjectedRows(A, w) : q = AppearanceObservation(In(A, w, x), x)
    BY <1>2
  <2>3. r \in A /\ x \in A
    BY CandidatesAre DEF ProjectedRows
  <2>4. o.key = Key(r) /\ q.key = Key(x)
    BY <2>1, <2>2 DEF AppearanceObservation
  <2>5. r = x
    BY <1>4, <2>3, <2>4 DEF WellFormed
  <2>6. QED
    BY <2>1, <2>2, <2>5
<1>5. \A o \in Backtest(A, w).appearances : \E r \in ProjectedRows(A, w) : o.key = Key(r)
  BY <1>2 DEF AppearanceObservation
<1>6. QED
  BY <1>3, <1>4, <1>5

\* What the flags of a gap say of its row.
LEMMA GapFlagsTell ==
  ASSUME NEW A, NEW in, NEW r
  PROVE  /\ "DOUBLE_GAMEWEEK_FIXTURE" \in GapFlags(A, in, r) <=> r \notin Singles(A, in)
         /\ "MISSING_APPEARANCE_HISTORY" \in GapFlags(A, in, r)
              <=> r \in Singles(A, in) /\ ~Projected(in, r)
<1>1. /\ "DOUBLE_GAMEWEEK_FIXTURE" \notin Flags(A, in, r)
      /\ "MISSING_APPEARANCE_HISTORY" \in Flags(A, in, r) <=> ~Projected(in, r)
  BY DEF Flags
<1>2. QED
  BY <1>1 DEF GapFlags

\* Gaps with some flag, one for each row that has it.
Flagged(A, w, flag) == {g \in Backtest(A, w).gaps : flag \in g.flags}

LEMMA FlaggedGapsCounted ==
  ASSUME NEW A, WellFormed(A), NEW w, NEW R \in SUBSET Candidates(A, w), NEW flag,
         \A r \in Candidates(A, w) :
           r \in R <=> r \notin ScoredRows(A, w) /\ flag \in GapFlags(A, In(A, w, r), r)
  PROVE  Cardinality(Flagged(A, w, flag)) = Cardinality(R)
<1> DEFINE T == Flagged(A, w, flag)
           GapOf(r) == Gap(r, GapFlags(A, In(A, w, r), r))
<1>1. \A r : GapOf(r).key = Key(r) /\ GapOf(r).flags = GapFlags(A, In(A, w, r), r)
  BY DEF Gap
<1>2. \A g : g \in Backtest(A, w).gaps
               <=> \E r \in Candidates(A, w) \ ScoredRows(A, w) : g = GapOf(r)
  BY GapsAre
<1> HIDE DEF GapOf
<1>3. \A t \in T : \E r \in R : t = GapOf(r)
  BY <1>1, <1>2 DEF Flagged
<1>4. \A r \in R : GapOf(r) \in T
  BY <1>1, <1>2 DEF Flagged
<1>5. R \in SUBSET A
  BY CandidatesAre
<1> HIDE DEF T
<1>6. \A t \in T : \E r \in R : t.key = Key(r)
  BY <1>1, <1>3
<1>7. \A r \in R : \E t \in T : t.key = Key(r)
  BY <1>1, <1>4
<1>8. \A t, u \in T : t.key = u.key => t = u
  BY <1>1, <1>3, <1>5 DEF WellFormed
<1>9. Cardinality(T) = Cardinality(R)
  BY <1>5, <1>6, <1>7, <1>8, Counted
<1>10. QED
  BY <1>9 DEF T

LEMMA RowsArePartitioned ==
  ASSUME NEW A, WellFormed(A), NEW w
  PROVE  Cardinality(Candidates(A, w))
           = Cardinality(DoubleRows(A, w)) + Cardinality(UnprojectedRows(A, w))
             + Cardinality(ProjectedRows(A, w))
<1>1. PICK C, D, U, P : /\ C = Candidates(A, w) /\ D = DoubleRows(A, w)
                        /\ U = UnprojectedRows(A, w) /\ P = ProjectedRows(A, w)
  OBVIOUS
<1>2. C = D \cup (U \cup P) /\ D \cap (U \cup P) = {} /\ U \cap P = {}
  BY <1>1 DEF DoubleRows, UnprojectedRows, ProjectedRows
<1>3. C \in SUBSET A
  BY <1>1, CandidatesAre
<1>4. IsFiniteSet(D) /\ IsFiniteSet(U) /\ IsFiniteSet(P)
  BY <1>2, <1>3, FS_Subset DEF WellFormed
<1>5. IsFiniteSet(U \cup P) /\ Cardinality(U \cup P) = Cardinality(U) + Cardinality(P) - Cardinality({})
  BY <1>2, <1>4, FS_Union
<1>6. Cardinality(C) = Cardinality(D) + Cardinality(U \cup P) - Cardinality({})
  BY <1>2, <1>4, <1>5, FS_Union
<1>7. /\ Cardinality({}) = 0
      /\ Cardinality(D) \in Nat /\ Cardinality(U) \in Nat /\ Cardinality(P) \in Nat
  BY <1>4, FS_CardinalityType, FS_EmptySet
<1>8. Cardinality(C) = Cardinality(D) + Cardinality(U) + Cardinality(P)
  BY <1>5, <1>6, <1>7
<1>9. QED
  BY <1>1, <1>8

\* The account of a backtest.
Accounted(b) ==
  LET scored == {o.key : o \in b.observations}
      gaps == {g.key : g \in b.gaps}
  IN /\ scored \cap gaps = {}
     /\ Cardinality(scored) = Cardinality(b.observations)
     /\ Cardinality(gaps) = Cardinality(b.gaps)
     /\ b.candidates = Cardinality(scored \cup gaps)
     /\ scored \subseteq {o.key : o \in b.appearances}
     /\ b.candidates = b.doubles + b.missing + Cardinality(b.appearances)

LEMMA BacktestIsAccounted ==
  ASSUME NEW A, WellFormed(A), NEW w
  PROVE  Accounted(Backtest(A, w))
<1>1. PICK b : b = Backtest(A, w)
  OBVIOUS
<1> DEFINE scored == {o.key : o \in b.observations}
           gaps == {g.key : g \in b.gaps}
           C == Candidates(A, w)
           S == ScoredRows(A, w)
<1>2. C \in SUBSET A /\ S \in SUBSET C
  BY CandidatesAre DEF ScoredRows
<1>3. scored = Keys(S)
  BY <1>1, ObservationsAre DEF Keys
<1>4. ASSUME NEW g \in b.gaps
      PROVE  \E r \in C \ S : g = Gap(r, GapFlags(A, In(A, w, r), r)) /\ g.key = Key(r)
  BY <1>1, GapsAre DEF Gap
<1>5. ASSUME NEW r \in C \ S PROVE \E g \in b.gaps : g.key = Key(r)
  <2> DEFINE g == Gap(r, GapFlags(A, In(A, w, r), r))
  <2>1. g \in b.gaps
    BY <1>1, <1>5, GapsAre
  <2>2. g.key = Key(r)
    BY DEF Gap
  <2>3. QED
    BY <2>1, <2>2
<1>6. gaps = Keys(C \ S)
  BY <1>4, <1>5 DEF Keys
<1>7. \A g, h \in b.gaps : g.key = h.key => g = h
  BY <1>2, <1>4 DEF WellFormed
<1> HIDE DEF C, S
<1>8. scored \cap gaps = {}
  BY <1>2, <1>3, <1>6 DEF Keys, WellFormed
<1>9. Cardinality(scored) = Cardinality(b.observations)
  <2>1. S \in SUBSET A
    BY <1>2
  <2>2. Cardinality(b.observations) = Cardinality(S)
    BY <1>1, <2>1, ObservationsAre, Counted DEF S
  <2>3. QED
    BY <1>3, <2>1, <2>2, KeysCounted
<1>10. Cardinality(gaps) = Cardinality(b.gaps)
  <2>1. C \ S \in SUBSET A
    BY <1>2
  <2>2. \A g \in b.gaps : \E r \in C \ S : g.key = Key(r)
    BY <1>4
  <2>3. Cardinality(b.gaps) = Cardinality(C \ S)
    BY <1>5, <1>7, <2>1, <2>2, Counted
  <2>4. QED
    BY <1>6, <2>1, <2>3, KeysCounted
<1>11. b.candidates = Cardinality(C)
  BY <1>1 DEF Backtest, C, Candidates
<1>12. b.candidates = Cardinality(scored \cup gaps)
  <2>1. scored \cup gaps = Keys(C)
    BY <1>2, <1>3, <1>6 DEF Keys
  <2>2. QED
    BY <1>2, <1>11, <2>1, KeysCounted
<1>13. scored \subseteq {o.key : o \in b.appearances}
  <2>1. ASSUME NEW r \in S PROVE r \in ProjectedRows(A, w)
    <3>1. r \in C /\ r \in Scored(A, In(A, w, r))
      BY <2>1 DEF S, C, ScoredRows
    <3>2. r \in Singles(A, In(A, w, r)) /\ Flags(A, In(A, w, r), r) = {}
      BY <3>1 DEF Scored, Scores
    <3>3. Projected(In(A, w, r), r)
      BY <3>2, ScoredRowsAreMatched DEF Projected
    <3>4. QED
      BY <3>1, <3>2, <3>3 DEF ProjectedRows, C
  <2>2. \A r \in ProjectedRows(A, w) : \E o \in b.appearances : o.key = Key(r)
    BY <1>1, AppearanceRowsAre
  <2>3. QED
    BY <1>3, <2>1, <2>2 DEF Keys
<1>14. Cardinality(b.appearances) = Cardinality(ProjectedRows(A, w))
  <2>1. ProjectedRows(A, w) \in SUBSET A
    BY CandidatesAre DEF ProjectedRows
  <2>2. QED
    BY <1>1, <2>1, AppearanceRowsAre, Counted
<1>15. \A r \in C : r \notin Singles(A, In(A, w, r)) \/ ~Projected(In(A, w, r), r) => r \notin S
  <2>1. ASSUME NEW r \in S
        PROVE  r \in Singles(A, In(A, w, r)) /\ Projected(In(A, w, r), r)
    <3>1. r \in Singles(A, In(A, w, r)) /\ Flags(A, In(A, w, r), r) = {}
      BY <2>1 DEF S, ScoredRows, Scored, Scores
    <3>2. QED
      BY <3>1, ScoredRowsAreMatched DEF Projected
  <2>2. QED
    BY <2>1
<1>16. b.doubles = Cardinality(DoubleRows(A, w))
  <2>1. b.doubles = Cardinality(Flagged(A, w, "DOUBLE_GAMEWEEK_FIXTURE"))
    BY <1>1 DEF Backtest, Flagged
  <2>2. DoubleRows(A, w) \in SUBSET C
    BY DEF DoubleRows, C
  <2>3. \A r \in C : r \in DoubleRows(A, w)
          <=> r \notin S /\ "DOUBLE_GAMEWEEK_FIXTURE" \in GapFlags(A, In(A, w, r), r)
    BY <1>15, GapFlagsTell DEF DoubleRows, C
  <2>4. QED
    BY <2>1, <2>2, <2>3, FlaggedGapsCounted DEF C, S
<1>17. b.missing = Cardinality(UnprojectedRows(A, w))
  <2>1. b.missing = Cardinality(Flagged(A, w, "MISSING_APPEARANCE_HISTORY"))
    BY <1>1 DEF Backtest, Flagged
  <2>2. UnprojectedRows(A, w) \in SUBSET C
    BY DEF UnprojectedRows, C
  <2>3. \A r \in C : r \in UnprojectedRows(A, w)
          <=> r \notin S /\ "MISSING_APPEARANCE_HISTORY" \in GapFlags(A, In(A, w, r), r)
    BY <1>15, GapFlagsTell DEF UnprojectedRows, C
  <2>4. QED
    BY <2>1, <2>2, <2>3, FlaggedGapsCounted DEF C, S
<1>18. b.candidates = b.doubles + b.missing + Cardinality(b.appearances)
  BY <1>11, <1>14, <1>16, <1>17, RowsArePartitioned DEF C
<1>19. Accounted(b)
  BY <1>8, <1>9, <1>10, <1>12, <1>13, <1>18 DEF Accounted
<1>20. QED
  BY <1>1, <1>19

LEMMA ReportsObserve ==
  ASSUME NEW s, NEW A, WellFormed(A), ReportOf(s, A), NEW o \in ObservationsIn(s)
  PROVE  Observes(A, o)
<1>1. CASE s.kind = "smoke"
  <2>1. o \in ExpandingMean(A)
    BY <1>1 DEF ObservationsIn, ReportOf
  <2>2. QED
    BY <2>1, MeansObserve
<1>2. CASE s.kind = "backtest"
  <2>1. \/ o \in Backtest(A, s.asked).observations
        \/ o \in MatchedNaive(A, Backtest(A, s.asked).observations)
    BY <1>2 DEF ObservationsIn, ReportOf
  <2>2. QED
    BY <2>1, BacktestObserves, NaiveObserves
<1>3. CASE s.kind = "policies"
  <2>1. PICK policy \in Policies : o \in s.bundle.results[policy]
    BY <1>3 DEF ObservationsIn
  <2>2. o \in PolicyBacktest(A, s.asked).results[policy]
    BY <1>3, <2>1 DEF ReportOf
  <2>3. QED
    BY <2>2, PoliciesObserve
<1>4. QED
  BY <1>1, <1>2, <1>3 DEF ObservationsIn

\* Every candidate row is either scored or a gap, once; the appearance sample is every row but
\* the double Gameweeks and the missing histories; and what a study reports is an observation as
\* BacktestObservation accepts it: benchwarmers_backtest, backtest.py.
THEOREM RowsStayAccounted == Spec => []EveryRowIsAccounted
<1>1. ASSUME IInv PROVE EveryRowIsAccounted
  <2>1. ASSUME NEW s \in studies
        PROVE  /\ s.revision[1] \in SUBSET archive
               /\ WellFormed(s.revision[1]) /\ ReportOf(s, s.revision[1])
    <3>1. s.revision[1] \in SUBSET archive
      BY <1>1 DEF IInv, ReportsHold, Grows
    <3>2. QED
      BY <1>1, <3>1, PartsAreWellFormed DEF IInv, SeasonHolds, ReportsHold
  <2>2. ASSUME NEW s \in Of("backtest")
        PROVE  Accounted(s.backtest)
    <3>1. PICK A, w : A = s.revision[1] /\ w = s.asked
      OBVIOUS
    <3>2. WellFormed(A) /\ s.backtest = Backtest(A, w)
      BY <2>1, <3>1 DEF Of, ReportOf
    <3>3. QED
      BY <3>2, BacktestIsAccounted
  <2>3. ASSUME NEW s \in studies, NEW o \in ObservationsIn(s)
        PROVE  o.cutoff <= o.deadline /\ o.deadline <= o.kick /\ o.kick <= o.known /\ o.known <= clock
    <3>1. PICK A : A = s.revision[1]
      OBVIOUS
    <3>2. A \in SUBSET archive /\ WellFormed(A) /\ ReportOf(s, A)
      BY <2>1, <3>1
    <3>3. PICK r \in A : o = Observation(r, InferredDeadline(A, r.gw), o.predicted)
      BY <3>2, ReportsObserve DEF Observes
    <3>4. PICK d : d = InferredDeadline(A, r.gw)
      OBVIOUS
    <3>5. o.cutoff = d /\ o.deadline = d /\ o.kick = r.kick /\ o.known = r.kick + Delay
      BY <3>3, <3>4 DEF Observation, KnownAt
    <3>6. d \in Int /\ d < r.kick /\ r.kick \in Nat /\ r.kick + Delay <= clock
      BY <1>1, <3>2, <3>4, DeadlineIsEarlier DEF IInv, SeasonHolds, WellFormed, KnownAt
    <3>7. QED
      BY <3>5, <3>6, SeasonAssumption
  <2>4. QED
    BY <2>2, <2>3 DEF EveryRowIsAccounted, Accounted
<1>2. QED
  BY <1>1, InvariantHolds, PTL
===============================================================================

-------------------------------- MODULE Studies --------------------------------
(***************************************************************************)
(* The backtests and calibration studies of validation/, as the scripts    *)
(* run them while the season goes on and its archive grows:                *)
(*                                                                         *)
(*   RunSmoke           scripts/backtest_smoke.py                          *)
(*   RunBacktest        scripts/backtest_benchwarmers.py                   *)
(*   AssessCalibration  scripts/assess_backtest_calibration.py             *)
(*   AssessAppearance   scripts/assess_appearance_calibration.py           *)
(*   ComparePolicies    scripts/backtest_appearance_calibration_policies.py *)
(*                                                                         *)
(* The eleven scoring components are an injective function of what they    *)
(* are given: a prediction is the record of its inputs.  So is a fit: the  *)
(* keys of its rows.  Metrics and bootstraps are left out.                 *)
(***************************************************************************)
EXTENDS SeasonArchive

CONSTANTS
  Settings,      \* arguments: from, to, short, defcon, min
  StudyDays      \* bound: when a study may be run

ASSUME SettingsAssumption ==
  \A w \in Settings : w.from \in Nat \ {0} /\ w.to \in Nat /\ w.from <= w.to
                      /\ {w.short, w.defcon, w.min} \subseteq Nat \ {0}

vars == <<season, reference, studies>>

Init == SeasonInit /\ reference = None /\ studies = {}

-----------------------------------------------------------------------------
(* The expanding mean of a player's points, as historical.py and           *)
(* matched_naive.py each compute it: the rows the mean is of.              *)

Observation(r, d, prediction) ==
  [key |-> Key(r), gw |-> r.gw, deadline |-> d, kick |-> r.kick, cutoff |-> d,
   known |-> KnownAt(r), predicted |-> prediction, actual |-> r.points]

Mean(rows) == [mean |-> Keys(rows)]

\* Every row of every Gameweek; no history is a cold start.
ExpandingMean(A) ==
  UNION {LET d == InferredDeadline(A, g)
             history == {r \in A : KnownAt(r) <= d}
         IN {Observation(r, d, Mean(OfPlayer(history, r.player))) : r \in InGW(A, g)}
         : g \in Gameweeks(A)}

\* Mutant of MatchedHistory: known before the deadline, not at it.
StrictHistory(A, d) == {r \in A : KnownAt(r) < d}
MatchedHistory(A, d) == {r \in A : KnownAt(r) <= d}

\* The model's own scored rows, predicted by the mean.
MatchedNaive(A, observations) ==
  {[o EXCEPT !.predicted = Mean(OfPlayer(MatchedHistory(A, o.deadline), o.key[1]))]
   : o \in observations}

\* Mutant of Training: whatever was predicted earlier.
EarlierDeadlines(observations, d) == {o \in observations : o.deadline < d}
Training(observations, d) == {o \in observations : o.deadline < d /\ o.known <= d}

Folds(observations) ==
  {[deadline |-> d, training |-> Training(observations, d),
    evaluation |-> {o \in observations : o.deadline = d}]
   : d \in {o.deadline : o \in observations}}

-----------------------------------------------------------------------------
(* The walk-forward backtest of the model. *)

Evaluated(A, w) == Gameweeks(A) \cap w.from .. w.to

DoublePlayers(A, g) ==
  {p \in Players : Cardinality({r.fixture : r \in OfPlayer(InGW(A, g), p)}) > 1}

\* What one Gameweek's rows are scored with.
Inputs(A, g, w) ==
  LET d == InferredDeadline(A, g) IN
    [gw |-> g, deadline |-> d, doubles |-> DoublePlayers(A, g),
     appearances |-> AppearanceAsOf(A, g, d), rates |-> RatesAsOf(A, g, d, w),
     strengths |-> StrengthAsOf(A, g, d, w), bonus |-> LeagueBonusAsOf(A, g, d)]

Singles(A, in) == {r \in InGW(A, in.gw) : r.player \notin in.doubles}

AppearanceOf(in, p) == {x \in in.appearances : x.player = p}
RateOf(in, p) == {x \in in.rates : x.player = p /\ UsableRates(x)}
StrengthOf(in, t) == {x \in in.strengths : x.team = t}

Projected(in, r) == AppearanceOf(in, r.player) # {}
Rated(in, r) == RateOf(in, r.player) # {}
Matched(A, in, r) ==
  StrengthOf(in, r.team) # {} /\ \E t \in Opponents(A, r) : StrengthOf(in, t) # {}

Flags(A, in, r) ==
  (IF Projected(in, r) THEN {} ELSE {"MISSING_APPEARANCE_HISTORY"}) \cup
  (IF Rated(in, r) THEN {} ELSE {"NO_USABLE_PLAYER_RATE_HISTORY"}) \cup
  (IF Matched(A, in, r) THEN {} ELSE {"MISSING_TEAM_STRENGTH"}) \cup
  (IF in.bonus # None THEN {} ELSE {"NO_LEAGUE_AVERAGE_BONUS_RATES"})

\* Per start; with none, the league's.
NegativeBonus(in, r) ==
  \E rate \in RateOf(in, r.player) :
    IF rate.starts > 0 THEN rate.bps < 0 ELSE in.bonus.bps < 0

Scores(A, in, r) == Flags(A, in, r) = {} /\ ~NegativeBonus(in, r)

Gap(r, flags) == [key |-> Key(r), gw |-> r.gw, team |-> r.team, flags |-> flags]

GapsOf(A, in) ==
  {Gap(r, {"DOUBLE_GAMEWEEK_FIXTURE"}) : r \in InGW(A, in.gw) \ Singles(A, in)} \cup
  {Gap(r, Flags(A, in, r)) : r \in {s \in Singles(A, in) : Flags(A, in, s) # {}}} \cup
  {Gap(r, {"NEGATIVE_BONUS_SIGNAL"})
   : r \in {s \in Singles(A, in) : Flags(A, in, s) = {} /\ ~Scores(A, in, s)}}

Only(S) == CHOOSE x \in S : TRUE

Prediction(A, in, r, appearance) ==
  [appearance |-> appearance, rate |-> Only(RateOf(in, r.player)), bonus |-> in.bonus,
   own |-> Only(StrengthOf(in, r.team)), against |-> Only(StrengthOf(in, Only(Opponents(A, r))))]

Scored(A, in) == {r \in Singles(A, in) : Scores(A, in, r)}

ObservationsOf(A, in) ==
  {Observation(r, in.deadline, Prediction(A, in, r, Only(AppearanceOf(in, r.player))))
   : r \in Scored(A, in)}

AppearanceObservation(in, r) ==
  [key |-> Key(r), gw |-> r.gw, deadline |-> in.deadline, known |-> KnownAt(r),
   predicted |-> Only(AppearanceOf(in, r.player)), started |-> r.starts]

\* Mutant of AppearancesOf: of the rows the model scores.
ScoredAppearancesOf(A, in) == {AppearanceObservation(in, r) : r \in Scored(A, in)}

\* Whoever has a causal appearance: not only those the model can score.
AppearancesOf(A, in) ==
  {AppearanceObservation(in, r) : r \in {s \in Singles(A, in) : Projected(in, s)}}

InputsOf(A, w) == {Inputs(A, g, w) : g \in Evaluated(A, w)}

Backtest(A, w) ==
  LET inputs == InputsOf(A, w)
      rows == UNION {InGW(A, g) : g \in Evaluated(A, w)}
      appearances == UNION {AppearancesOf(A, in) : in \in inputs}
  IN [observations |-> UNION {ObservationsOf(A, in) : in \in inputs},
      appearances |-> appearances,
      gaps |-> UNION {GapsOf(A, in) : in \in inputs},
      evaluated |-> Evaluated(A, w),
      candidates |-> Cardinality(rows),
      doubles |-> Cardinality({g \in UNION {GapsOf(A, in) : in \in inputs} :
                                 "DOUBLE_GAMEWEEK_FIXTURE" \in g.flags}),
      missing |-> Cardinality({g \in UNION {GapsOf(A, in) : in \in inputs} :
                                 "MISSING_APPEARANCE_HISTORY" \in g.flags})]

-----------------------------------------------------------------------------
(* Calibration: actual against predicted, fitted Gameweek by Gameweek. *)

Degenerate(values) == \A x, y \in values : x = y

\* Neither of the fits has a slope of fewer than two rows, or of equal predictions.
Fits(rows, Value(_)) == Cardinality(rows) >= 2 /\ ~Degenerate({Value(o) : o \in rows})

\* A share <<n, rows>> over a common denominator.
Share(s) == (s[1] * 5040) \div s[2]
StartOf(o) == Share(o.predicted.start)
MinutesOf(o) == Share(o.predicted.minutes)
PointsOf(o) == o.predicted

PriorRows(rows, g) == {o \in rows : o.gw < g}
Labels(rows) == {o.gw : o \in rows}

\* The Gameweeks with enough earlier ones, each with the rows its fit is of: every
\* row of an earlier Gameweek.
WalkForward(rows, min) ==
  {[gw |-> g, deadline |-> (CHOOSE o \in rows : o.gw = g).deadline,
    fitted |-> PriorRows(rows, g), evaluated |-> {o \in rows : o.gw = g}]
   : g \in {h \in Labels(rows) : Cardinality(Labels(PriorRows(rows, h))) >= min}}

\* A slope for each step, and one of all the steps' own rows together.
Calibrates(records, Value(_)) ==
  /\ records # {}
  /\ \A rec \in records : Fits(rec.fitted, Value)
  /\ Fits(UNION {rec.evaluated : rec \in records}, Value)

-----------------------------------------------------------------------------
(* Three policies: raw, a fit for every row, a fit for likely starters. *)

Policies == {"raw", "global", "high_end_shrinkage"}
LikelyStarter(s) == 10 * s[1] >= 8 * s[2]

FitRows(rows, g, d) == {o \in rows : o.gw < g /\ o.known <= d}

\* fit_for_gameweek: no fit without enough Gameweeks that still have rows.
FitFor(rows, g, d, min) ==
  LET eligible == FitRows(rows, g, d) IN
    IF Cardinality(Labels(eligible)) >= min /\ Fits(eligible, StartOf)
    THEN {o.key : o \in eligible} ELSE None

\* Without a fit every policy is the raw one; of a share of zero nothing is rescaled.
ApplyPolicy(policy, fit, appearance) ==
  IF /\ policy # "raw" /\ fit # None /\ appearance.start[1] > 0
     /\ policy = "global" \/ LikelyStarter(appearance.start)
  THEN [appearance EXCEPT !.fit = fit] ELSE appearance

\* The loop of the policies is written a second time, beside the backtest's: what they
\* share is the as-of reads.
PolicyWeeks(A, w) == {g \in w.from .. w.to : g \in Gameweeks(A)}

\* Whoever has two fixtures of the Gameweek.
PolicyDoubles(A, g) ==
  {r.player : r \in {q \in InGW(A, g) :
                       \E z \in InGW(A, g) : z.player = q.player /\ z.fixture # q.fixture}}

PolicyInputs(A, g, w) ==
  [gw |-> g, deadline |-> InferredDeadline(A, g), doubles |-> PolicyDoubles(A, g),
   appearances |-> AppearanceAsOf(A, g, InferredDeadline(A, g)),
   rates |-> RatesAsOf(A, g, InferredDeadline(A, g), w),
   strengths |-> StrengthAsOf(A, g, InferredDeadline(A, g), w),
   bonus |-> LeagueBonusAsOf(A, g, InferredDeadline(A, g))]

PolicySingles(A, in) == {r \in InGW(A, in.gw) : ~\E p \in in.doubles : p = r.player}

PolicyFlags(A, in, r) ==
  {flag \in {"MISSING_APPEARANCE_HISTORY", "NO_USABLE_PLAYER_RATE_HISTORY",
             "MISSING_TEAM_STRENGTH", "NO_LEAGUE_AVERAGE_BONUS_RATES"} :
     \/ /\ flag = "MISSING_APPEARANCE_HISTORY"
        /\ ~\E x \in in.appearances : x.player = r.player
     \/ /\ flag = "NO_USABLE_PLAYER_RATE_HISTORY"
        /\ ~\E x \in in.rates : x.player = r.player /\ UsableRates(x)
     \/ /\ flag = "MISSING_TEAM_STRENGTH"
        /\ ~\E own, against \in in.strengths : own.team = r.team /\ against.team \in Opponents(A, r)
     \/ flag = "NO_LEAGUE_AVERAGE_BONUS_RATES" /\ in.bonus = None}

PolicyNegative(in, r) ==
  \E x \in in.rates :
    /\ x.player = r.player /\ UsableRates(x)
    /\ x.starts > 0 => x.bps < 0
    /\ ~(x.starts > 0) => in.bonus.bps < 0

\* Mutant of PolicyScored: a negative bonus signal is no gap.
PolicyScoredAll(A, in) == {r \in PolicySingles(A, in) : PolicyFlags(A, in, r) = {}}

PolicyScored(A, in) ==
  {r \in PolicySingles(A, in) : PolicyFlags(A, in, r) = {} /\ ~PolicyNegative(in, r)}

PolicyGaps(A, in) ==
  {IF r \notin PolicySingles(A, in) THEN Gap(r, {"DOUBLE_GAMEWEEK_FIXTURE"})
   ELSE IF PolicyFlags(A, in, r) # {} THEN Gap(r, PolicyFlags(A, in, r))
   ELSE Gap(r, {"NEGATIVE_BONUS_SIGNAL"})
   : r \in InGW(A, in.gw) \ PolicyScored(A, in)}

\* Mutant of CalibrationRows: appended only behind the gate of the flags.
ScoredCalibrationRows(A, in) ==
  {[key |-> Key(r), gw |-> in.gw, known |-> KnownAt(r),
    predicted |-> Only(AppearanceOf(in, r.player))] : r \in PolicyScored(A, in)}

\* Appended before the gate of the flags.
CalibrationRows(A, in) ==
  {[key |-> Key(r), gw |-> in.gw, known |-> KnownAt(r),
    predicted |-> Only(AppearanceOf(in, r.player))]
   : r \in {s \in PolicySingles(A, in) : \E x \in in.appearances : x.player = s.player}}

\* A Gameweek is fitted when the loop comes to it: of the rows appended until then.
PolicyFit(A, w, g) ==
  FitFor(UNION {CalibrationRows(A, PolicyInputs(A, h, w)) : h \in {h \in PolicyWeeks(A, w) : h < g}},
         g, InferredDeadline(A, g), w.min)

PolicyBacktest(A, w) ==
  LET weeks == {[in |-> PolicyInputs(A, g, w), fit |-> PolicyFit(A, w, g)] : g \in PolicyWeeks(A, w)}
      Of(policy, x) ==
        {Observation(r, x.in.deadline,
                     Prediction(A, x.in, r, ApplyPolicy(policy, x.fit, Only(AppearanceOf(x.in, r.player)))))
         : r \in PolicyScored(A, x.in)}
  IN [results |-> [policy \in Policies |-> UNION {Of(policy, x) : x \in weeks}],
      fits |-> {[gw |-> x.in.gw, deadline |-> x.in.deadline, fit |-> x.fit] : x \in weeks},
      gaps |-> UNION {PolicyGaps(A, x.in) : x \in weeks},
      evaluated |-> PolicyWeeks(A, w),
      candidates |-> Cardinality({r \in A : r.gw \in PolicyWeeks(A, w)})]

\* verify_raw_row_level_parity.
Parity(canonical, bundle) ==
  /\ bundle.results["raw"] = canonical.observations
  /\ bundle.gaps = canonical.gaps
  /\ bundle.candidates = canonical.candidates
  /\ bundle.evaluated = canonical.evaluated

-----------------------------------------------------------------------------
(* The scripts. *)

Revision == <<archive, club>>
Of(kind) == {s \in studies : s.kind = kind}

\* A study reads no clock: on some days, and once of what is archived by then.
RoomFor(kind) ==
  /\ Cardinality(studies) < MaxStudies /\ clock \in StudyDays /\ Due = {} /\ archive # {}
  /\ \A s \in Of(kind) : s.revision # Revision

\* What every script that replays the model needs of the archive.
Replayable == TeamsTellApart(archive, club)

\* The file is of the same import and range, or the script stops.
ReferenceFor(w) ==
  reference # None /\ reference.revision = Revision /\ reference.from = w.from /\ reference.to = w.to

\* verify_self_check: and of the same metrics.
SelfCheck(w, observations) == ReferenceFor(w) /\ reference.scored = observations

Report(study) == studies' = studies \cup {study}

RunSmoke ==
  /\ RoomFor("smoke")
  /\ LET means == ExpandingMean(archive) IN
       Report([kind |-> "smoke", revision |-> Revision,
               means |-> means, folds |-> Folds(means)])
  /\ UNCHANGED <<season, reference>>

RunBacktest(w) ==
  /\ RoomFor("backtest") /\ Replayable
  /\ LET b == Backtest(archive, w) IN
       /\ Report([kind |-> "backtest", revision |-> Revision, asked |-> w,
                  backtest |-> b, folds |-> Folds(b.observations),
                  naive |-> MatchedNaive(archive, b.observations)])
       /\ reference' = [revision |-> Revision, from |-> w.from, to |-> w.to,
                        scored |-> b.observations]
  /\ UNCHANGED season

AssessCalibration(w) ==
  /\ RoomFor("calibration") /\ Replayable
  /\ LET b == Backtest(archive, w)
         records == WalkForward(b.observations, w.min)
     IN /\ SelfCheck(w, b.observations) /\ b.observations # {}
        /\ Calibrates(records, PointsOf)
        /\ Report([kind |-> "calibration", revision |-> Revision, asked |-> w, records |-> records])
  /\ UNCHANGED <<season, reference>>

\* Of every row with an appearance, and of those the model scores too.
ScoredCohort(b) == {o \in b.appearances : o.key \in {q.key : q \in b.observations}}

AssessAppearance(w) ==
  /\ RoomFor("appearance") /\ Replayable
  /\ LET b == Backtest(archive, w)
         eligible == WalkForward(b.appearances, w.min)
         scored == WalkForward(ScoredCohort(b), w.min)
     IN /\ SelfCheck(w, b.observations) /\ b.observations # {}
        /\ \A records \in {eligible, scored} :
             Calibrates(records, StartOf) /\ Calibrates(records, MinutesOf)
        /\ Report([kind |-> "appearance", revision |-> Revision, asked |-> w,
                   eligible |-> eligible, records |-> eligible \cup scored])
  /\ UNCHANGED <<season, reference>>

\* A script that finds its two loops apart writes nothing: `agrees'.
ComparePolicies(w) ==
  /\ RoomFor("policies") /\ Replayable /\ ReferenceFor(w)
  /\ LET bundle == PolicyBacktest(archive, w)
         canonical == Backtest(archive, w)
     IN /\ \A policy \in Policies : bundle.results[policy] # {}
        /\ Parity(canonical, bundle) => SelfCheck(w, bundle.results["raw"])
        /\ Report([kind |-> "policies", revision |-> Revision, asked |-> w, bundle |-> bundle,
                   agrees |-> Parity(canonical, bundle)])
  /\ UNCHANGED <<season, reference>>

Next ==
  \/ Tick
  \/ \E f \in FixtureIds : Play(f)
  \/ \E f \in FixtureIds : Postpone(f)
  \/ \E p \in Players : Transfer(p)
  \/ RunSmoke
  \/ \E w \in Settings : RunBacktest(w)
  \/ \E w \in Settings : AssessCalibration(w)
  \/ \E w \in Settings : AssessAppearance(w)
  \/ \E w \in Settings : ComparePolicies(w)

Spec == Init /\ [][Next]_vars

-----------------------------------------------------------------------------
(* Properties. *)

ObservationsIn(s) ==
  CASE s.kind = "smoke" -> s.means
    [] s.kind = "backtest" -> s.backtest.observations \cup s.naive
    [] s.kind = "policies" -> UNION {s.bundle.results[policy] : policy \in Policies}
    [] OTHER -> {}

\* What a prediction was made of.
FixturesRead(x) ==
  {k[2] : k \in x.appearance.rows \cup x.rate.rows \cup x.bonus.rows
                \cup (IF x.appearance.fit = None THEN {} ELSE x.appearance.fit)}
  \cup x.own.rows \cup x.own.league \cup x.against.rows \cup x.against.league

(* No prediction of the model, of a naive mean or of a policy reads an outcome that was  *)
(* not known at the deadline it is made for, though a postponed fixture keeps an earlier *)
(* Gameweek label; nor does a fold train on one (player_rates_asof.py, appearance_asof.py, *)
(* team_strength_asof.py, backtest.py:117-128, matched_naive.py, fit_for_gameweek).      *)
StudiesAreCausal ==
  \A s \in studies :
    LET Known(d) == {f \in Played : kickoff[f] + Delay <= d} IN
      /\ s.kind = "backtest" =>
           /\ \A o \in s.backtest.observations : FixturesRead(o.predicted) \subseteq Known(o.deadline)
           /\ \A o \in s.naive : \A k \in o.predicted.mean : k[2] \in Known(o.deadline)
           /\ \A o \in s.backtest.appearances : \A k \in o.predicted.rows : k[2] \in Known(o.deadline)
      /\ s.kind = "policies" =>
           \A policy \in Policies : \A o \in s.bundle.results[policy] :
             FixturesRead(o.predicted) \subseteq Known(o.deadline)
      /\ s.kind \in {"smoke", "backtest"} =>
           \A fold \in s.folds : \A o \in fold.training : o.key[2] \in Known(fold.deadline)

(* What was predicted for a row is never predicted otherwise by a later run with the     *)
(* same windows: no outcome that arrives later reaches back.  A policy's fit may lose    *)
(* rows, and only those whose player turned out to have a double Gameweek.               *)
RerunsAgree ==
  /\ \A s, t \in Of("backtest") :
       s.asked = t.asked =>
         \A o \in s.backtest.observations, q \in t.backtest.observations :
           o.key = q.key => o = q
  /\ \A s, t \in Of("policies") :
       s.asked = t.asked /\ s.revision[1] \subseteq t.revision[1] =>
         \A x \in s.bundle.fits, y \in t.bundle.fits :
           x.gw = y.gw /\ x.fit # None /\ y.fit # None =>
             /\ y.fit \subseteq x.fit
             /\ \A k \in x.fit \ y.fit :
                  \E g \in t.bundle.gaps : g.key = k /\ g.flags = {"DOUBLE_GAMEWEEK_FIXTURE"}

(* Every candidate row is either scored or a gap, once; the appearance sample is every   *)
(* row but the double Gameweeks and the missing histories, whether or not the model can  *)
(* score it (benchwarmers_backtest.py:151-157, 316-332); and whatever a study reports is *)
(* an observation as BacktestObservation accepts it: its deadline is not after the       *)
(* kick-off, nor its outcome known before that (backtest.py:37-66).                      *)
EveryRowIsAccounted ==
  /\ \A s \in Of("backtest") :
       LET b == s.backtest
           scored == {o.key : o \in b.observations}
           gaps == {g.key : g \in b.gaps}
       IN /\ scored \cap gaps = {}
          /\ Cardinality(scored) = Cardinality(b.observations)
          /\ Cardinality(gaps) = Cardinality(b.gaps)
          /\ b.candidates = Cardinality(scored \cup gaps)
          /\ scored \subseteq {o.key : o \in b.appearances}
          /\ b.candidates = b.doubles + b.missing + Cardinality(b.appearances)
  /\ \A s \in studies : \A o \in ObservationsIn(s) :
       o.cutoff <= o.deadline /\ o.deadline <= o.kick /\ o.kick <= o.known /\ o.known <= clock

(* The walk-forward loop is written twice, and the copies never come apart: same rows,   *)
(* same gaps, same predictions (verify_raw_row_level_parity).  And a fit that the loop   *)
(* of the policies takes on its way is of the very rows the appearance study, looking    *)
(* back over the season, fits for that Gameweek, but for those not known at its deadline *)
(* (appearance_policy_backtest.py:670-684 claims it of the rows it appends).             *)
PoliciesShareTheSample ==
  \A s \in Of("policies") :
    /\ s.agrees
    /\ \A t \in Of("appearance") : s.revision = t.revision /\ s.asked = t.asked =>
         \A x \in s.bundle.fits :
           x.fit # None /\ (\E o \in s.bundle.results["global"] : o.gw = x.gw) =>
             \E rec \in t.eligible :
               /\ rec.gw = x.gw
               /\ x.fit = {o.key : o \in {q \in rec.fitted : q.known <= x.deadline}}

(* Three modules draw the line at what was known at a deadline, and draw the same: the   *)
(* mean a row is predicted with is the one of that player's rows in the training set of  *)
(* its fold (historical.py, backtest.py), and the naive comparator of the model's rows   *)
(* predicts what the expanding mean predicts for them (matched_naive.py:30-37).          *)
BaselinesAgree ==
  /\ \A s \in Of("smoke") : \A fold \in s.folds : \A o \in fold.evaluation :
       o.predicted.mean = {q.key : q \in {z \in fold.training : z.key[1] = o.key[1]}}
  /\ \A s \in Of("smoke"), t \in Of("backtest") :
       s.revision = t.revision =>
         \A o \in s.means, q \in t.naive : o.key = q.key => o = q

(* walk_forward_calibration.py:3-8 claims of its fits the boundary every other backtest  *)
(* input enforces: only outcomes known at the deadline.                                  *)
CalibrationIsCausal ==
  \A s \in Of("calibration") \cup Of("appearance") :
    \A rec \in s.records : \A o \in rec.fitted : o.known <= rec.deadline
===============================================================================

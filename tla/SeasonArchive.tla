----------------------------- MODULE SeasonArchive -----------------------------
(***************************************************************************)
(* A season as its public archive records it, and what of that archive the *)
(* studies of validation/ read at a deadline:                              *)
(*                                                                         *)
(*   the deadlines                    historical.py                        *)
(*   results and names of the teams   team_fixture_results.py              *)
(*   strengths of the teams           team_strength_asof.py                *)
(*   rate windows, league averages    player_rates_asof.py                 *)
(*   appearances                      appearance_asof.py                   *)
(*                                                                         *)
(* The archive has one row for every player of both clubs of a fixture     *)
(* whose outcome is known.  A fixture that is postponed keeps its Gameweek *)
(* label.  A row is named by its player and fixture; a sum over rows that  *)
(* no decision is taken on is the set of the rows summed.                  *)
(***************************************************************************)
EXTENDS Integers, FiniteSets, FiniteSetsExt

CONSTANTS
  Fixtures,        \* by identifier: Gameweek, home and away club, kick-off
  Teams,           \* the clubs, numbered as the provider numbers them
  FirstClub,       \* club of each player at the start
  Movers,          \* the players who may be transferred, and
  NewClub,         \* where to
  Outcomes,        \* of each player: starts, minutes, bps and points of a match
  Later,           \* kick-offs a fixture may be postponed to
  TransferDays,    \* bound: when the players may be transferred
  Buffer, Delay,   \* deadline_buffer, outcome_delay
  MaxTime,         \* bounds of one behaviour
  MaxStudies,
  None

Players == DOMAIN FirstClub
FixtureIds == DOMAIN Fixtures

ASSUME SeasonAssumption ==
  /\ Buffer \in Nat \ {0} /\ Delay \in Nat \ {0} /\ MaxTime \in Nat /\ MaxStudies \in Nat
  /\ IsFiniteSet(Players)
  /\ \A p \in Players : FirstClub[p] \in Teams /\ Outcomes[p] # {}
  /\ \A f \in FixtureIds : /\ Fixtures[f].at \in Nat
                           /\ Fixtures[f].home # Fixtures[f].away
                           /\ Later[f] \subseteq {t \in Nat : t > Fixtures[f].at}
  /\ \A p \in Players : \A o \in Outcomes[p] :
       o.starts \in {0, 1} /\ o.minutes \in 0 .. 90 /\ o.bps \in Int /\ o.points \in Int

VARIABLES
  clock,
  kickoff,     \* of each fixture, as scheduled now
  club,        \* of each player: players_raw.csv
  archive,     \* merged_gw.csv
  reference,   \* the result file of the backtest: see Studies
  studies      \* what the scripts reported

season == <<clock, kickoff, club, archive>>

SeasonInit ==
  /\ clock = 0
  /\ kickoff = [f \in FixtureIds |-> Fixtures[f].at]
  /\ club = FirstClub
  /\ archive = {}

Played == {r.fixture : r \in archive}
Due == {f \in FixtureIds \ Played : kickoff[f] + Delay = clock}

\* A behaviour ends with its last study, which nothing later can change.
Tick ==
  /\ clock < MaxTime /\ Due = {} /\ Cardinality(studies) < MaxStudies
  /\ clock' = clock + 1
  /\ UNCHANGED <<kickoff, club, archive, reference, studies>>

Squad(f) == {p \in Players : club[p] \in {Fixtures[f].home, Fixtures[f].away}}

Row(p, f, o) ==
  [player |-> p, team |-> club[p], fixture |-> f, gw |-> Fixtures[f].gw, kick |-> kickoff[f],
   starts |-> o.starts, minutes |-> o.minutes, bps |-> o.bps, points |-> o.points]

\* The outcome is known, and the next revision of the archive has it.
Play(f) ==
  /\ f \in Due
  /\ \E o \in [Squad(f) -> UNION {Outcomes[p] : p \in Players}] :
       /\ \A p \in Squad(f) : o[p] \in Outcomes[p]
       /\ archive' = archive \cup {Row(p, f, o[p]) : p \in Squad(f)}
  /\ UNCHANGED <<clock, kickoff, club, reference, studies>>

\* On the eve: nothing reads a kick-off before the archive has it.
Postpone(f) ==
  /\ clock + 1 = Fixtures[f].at /\ kickoff[f] = Fixtures[f].at
  /\ \E t \in Later[f] : kickoff' = [kickoff EXCEPT ![f] = t]
  /\ UNCHANGED <<clock, club, archive, reference, studies>>

Transfer(p) ==
  /\ p \in Movers /\ club[p] # NewClub /\ clock \in TransferDays
  /\ club' = [club EXCEPT ![p] = NewClub]
  /\ UNCHANGED <<clock, kickoff, archive, reference, studies>>

-----------------------------------------------------------------------------
(* Rows of an archive A, a set of rows. *)

Key(r) == <<r.player, r.fixture>>
Keys(A) == {Key(r) : r \in A}
KnownAt(r) == r.kick + Delay
OfPlayer(A, p) == {r \in A : r.player = p}
InGW(A, g) == {r \in A : r.gw = g}
Since(A, g) == {r \in A : r.gw >= g}
Gameweeks(A) == {r.gw : r \in A}
Total(A, field) == MapThenSumSet(LAMBDA r : r[field], A)

\* infer_gameweek_deadlines: there is no archive of the official ones.
InferredDeadline(A, g) == Min({r.kick : r \in InGW(A, g)}) - Buffer

\* Mutant of Before: by the label of the Gameweek alone.
LabelledBefore(A, g, d) == {r \in A : r.gw < g}

\* What the as-of reads take: an earlier label, and an outcome known by the deadline.
Before(A, g, d) == {r \in A : r.gw < g /\ KnownAt(r) <= d}

-----------------------------------------------------------------------------
(* Players as of Gameweek g and deadline d. *)

\* Each row is one scenario, all of them equally likely: <<starts, rows>> is the
\* probability of a start, <<minutes, rows>> the minutes expected.
AppearanceAsOf(A, g, d) ==
  LET rows == Before(A, g, d) IN
    {LET mine == OfPlayer(rows, p) IN
         [player |-> p, rows |-> Keys(mine), start |-> <<Total(mine, "starts"), Cardinality(mine)>>,
          minutes |-> <<Total(mine, "minutes"), Cardinality(mine)>>, fit |-> None]
     : p \in {r.player : r \in rows}}

\* Every prior row, and the windows that trail the Gameweek.
RatesAsOf(A, g, d, w) ==
  LET rows == Before(A, g, d) IN
    {LET mine == OfPlayer(rows, p) IN
         [player |-> p, rows |-> Keys(mine),
          short |-> Keys(Since(mine, g - w.short)), defcon |-> Keys(Since(mine, g - w.defcon)),
          minutes |-> Total(mine, "minutes"), starts |-> Total(mine, "starts"),
          bps |-> Total(mine, "bps")]
     : p \in {r.player : r \in rows}}

\* Observed minutes, not the provider's placeholder of none.
UsableRates(rate) == rate.minutes > 0

\* No starts, no league average.
LeagueBonusAsOf(A, g, d) ==
  LET rows == Before(A, g, d) IN
    IF Total(rows, "starts") = 0 THEN None
    ELSE [rows |-> Keys(rows), bps |-> Total(rows, "bps")]

-----------------------------------------------------------------------------
(* Teams. *)

\* One result of a team and fixture, whoever of its players has a row of it.
TeamResults(A) == {[team |-> r.team, fixture |-> r.fixture, gw |-> r.gw, kick |-> r.kick] : r \in A}
FixturesOf(T) == {x.fixture : x \in T}

\* Mutant of StrengthAsOf: the league is the one of the whole archive.
StrengthInLeague(A, g, d, w) ==
  LET known == Before(TeamResults(A), g, d) IN
    {LET mine == {x \in known : x.team = t} IN
         [team |-> t, rows |-> FixturesOf(mine), short |-> FixturesOf(Since(mine, g - w.short)),
          league |-> FixturesOf(TeamResults(A))]
     : t \in {x.team : x \in known}}

\* A team's own results, and those of every team: the league's averages.
StrengthAsOf(A, g, d, w) ==
  LET known == Before(TeamResults(A), g, d) IN
    {LET mine == {x \in known : x.team = t} IN
         [team |-> t, rows |-> FixturesOf(mine), short |-> FixturesOf(Since(mine, g - w.short)),
          league |-> FixturesOf(known)]
     : t \in {x.team : x \in known}}

\* Rows of a team's name whose players are now with club c.
Votes(A, clubs, t, c) == Cardinality({r \in A : r.team = t /\ clubs[r.player] = c})

\* The club with the most rows, the lowest number among equals.
TeamId(A, clubs, t) ==
  CHOOSE c \in Teams :
    \A b \in Teams \ {c} : \/ Votes(A, clubs, t, c) > Votes(A, clubs, t, b)
                           \/ Votes(A, clubs, t, c) = Votes(A, clubs, t, b) /\ c < b

TeamNames(A) == {r.team : r \in A}

\* build_team_name_to_id raises when two names have one number.
TeamsTellApart(A, clubs) ==
  \A t, u \in TeamNames(A) : TeamId(A, clubs, t) = TeamId(A, clubs, u) => t = u

Opponents(A, r) == {x.team : x \in {y \in TeamResults(A) : y.fixture = r.fixture}} \ {r.team}
===============================================================================

------------------------------ MODULE SquadRating ------------------------------
(***************************************************************************)
(* How good is a squad among others?  decision/squad_rating.py samples     *)
(* legal squads within a budget, spends what they leave, and rates a squad *)
(* by its percentile among them.  The draws of the sampler are free        *)
(* choices: what is modelled is what it may draw from.                     *)
(***************************************************************************)
EXTENDS SquadSearch

CONSTANTS
  SpendBand,          \* spend_band_tenths
  MinimumPopulation,  \* MINIMUM_BENCHMARK_POPULATION
  TargetPopulation,   \* target_population
  RankWindow          \* the ranks a player may lose to spend more

ASSUME RatingAssumption ==
  /\ SpendBand \in Nat
  /\ MinimumPopulation \in Nat \ {0} /\ TargetPopulation \in Nat \ {0}

-----------------------------------------------------------------------------
(* Sampling. *)

\* What the slots after a number of them cost at least.
MinimumAfter(market, slot) ==
  SumFunction([q \in Positions |->
    CostOf(market, Foremost(OfPosition(Common(market), q),
                            Cardinality({k \in slot + 1 .. 15 : Order[k] = q}),
                            LAMBDA p, r : \/ market.price[p] < market.price[r]
                                          \/ market.price[p] = market.price[r] /\ p < r))])

Viable(market, budget, S, slot, p) ==
  /\ p \in OfPosition(Common(market), Order[slot]) \ S
  /\ Cardinality({r \in S : market.club[r] = market.club[p]}) < ClubLimit
  /\ CostOf(market, S \cup {p}) + MinimumAfter(market, slot) <= budget

\* The squads that _sample_squad_ids may return.
Samples(market, budget) ==
  FoldLeft(LAMBDA squads, slot :
             UNION {{S \cup {p} : p \in {r \in Players : Viable(market, budget, S, slot, r)}} :
                    S \in squads},
           {{}}, [k \in 1 .. 15 |-> k])

ScoreRank(market, p) ==
  LET points == Outlook(market, 1) IN
    1 + Cardinality({r \in OfPosition(Common(market), PositionOf[p]) : Ahead(points, r, p)})

\* Whether a player may come for another, to spend more.
SpendsMore(market, budget, S, out, in) ==
  /\ PositionOf[in] = PositionOf[out]
  /\ market.price[in] > market.price[out]
  /\ CostOf(market, (S \ {out}) \cup {in}) <= budget
  /\ \/ market.club[in] = market.club[out]
     \/ Cardinality({r \in S : market.club[r] = market.club[in]}) < ClubLimit
  /\ ScoreRank(market, in) <= ScoreRank(market, out) + RankWindow

\* The swaps that spend more, the one that spends most first.
Swaps(market, budget, S) ==
  {s \in S \X (Common(market) \ S) : SpendsMore(market, budget, S, s[1], s[2])}

SwapBefore(market, s, t) ==
  LET rise(u) == market.price[u[2]] - market.price[u[1]] IN
    \/ rise(s) > rise(t)
    \/ /\ rise(s) = rise(t)
       /\ \/ ScoreRank(market, s[2]) < ScoreRank(market, t[2])
          \/ ScoreRank(market, s[2]) = ScoreRank(market, t[2]) /\ Precedes(s, t)

UpgradeOnce(market, budget, S) ==
  LET swaps == Swaps(market, budget, S)
      best == CHOOSE s \in swaps : \A t \in swaps \ {s} : SwapBefore(market, s, t)
  IN IF CostOf(market, S) >= budget - SpendBand \/ swaps = {} THEN S
     ELSE (S \ {best[1]}) \cup {best[2]}

\* _upgrade_sample_to_budget_band: every swap spends more, so it ends within the money
\* that is left.
Upgrade(market, budget, S) ==
  FoldLeft(LAMBDA T, k : UpgradeOnce(market, budget, T), S,
           [k \in 1 .. Over(budget - SpendBand, CostOf(market, S)) |-> k])

\* combinatorial_upper_bound: the squads there are, clubs and money apart.
UpperBound(market) ==
  FoldFunction(LAMBDA n, m : n * m, 1,
               [q \in Positions |-> Cardinality(kSubset(PositionCounts[q],
                                                       OfPosition(Common(market), q)))])

\* The squads that the draws may lead to; where there are too few of them none is drawn.
Drawn(market, budget) ==
  IF UpperBound(market) < MinimumPopulation THEN {}
  ELSE {Upgrade(market, budget, S) : S \in Samples(market, budget)}

-----------------------------------------------------------------------------
(* The population. *)

\* What a squad must cost at least to be preferred, whoever else was sampled.
Floor(market, budget, sampled) ==
  Least(budget, Max({CostOf(market, S) : S \in sampled})) - SpendBand

\* The populations a benchmark may keep of the squads that were sampled: of those within
\* the band of what could be spent, then the dearest of the others.
Populations(market, budget, sampled) ==
  LET near == {S \in sampled : CostOf(market, S) >= Floor(market, budget, sampled)}
      Dearer(S, T) == \/ CostOf(market, S) > CostOf(market, T)
                      \/ CostOf(market, S) = CostOf(market, T) /\ Earlier(S, T)
  IN IF Cardinality(near) >= TargetPopulation THEN kSubset(TargetPopulation, near)
     ELSE {near \cup Foremost(sampled \ near, TargetPopulation - Cardinality(near), Dearer)}

\* rate_squad: withheld when the population is too small.
Rated(population) == Cardinality(population) >= MinimumPopulation

\* build_materialized_benchmark_artifact: what the release brings, of all the budgets it
\* was built for, and when it may be used.
Master(built) == UNION {b.population : b \in built}
Ready(built) == \A b \in built : Rated(b.population)

\* Mutant of Share: what a squad costs is looked at for the band only.
ShareOfBand(market, budget, master) ==
  LET affordable == {S \in master : CostOf(market, S) <= budget}
      Near(S) == CostOf(market, S) >= budget - SpendBand
      Prefer(S, T) == \/ Near(S) /\ ~Near(T)
                      \/ (Near(S) <=> Near(T)) /\ Earlier(S, T)
  IN Foremost(affordable, TargetPopulation, Prefer)

\* benchmark_from_materialized_artifact: a budget's share of the squads that the release
\* brought, whatever the budgets they were sampled for.
Share(market, budget, master) ==
  LET affordable == {S \in master : CostOf(market, S) <= budget}
      Near(S) == CostOf(market, S) >= budget - SpendBand
      Prefer(S, T) == \/ Near(S) /\ ~Near(T)
                      \/ /\ Near(S) <=> Near(T)
                         /\ \/ CostOf(market, S) > CostOf(market, T)
                            \/ CostOf(market, S) = CostOf(market, T) /\ Earlier(S, T)
  IN Foremost(affordable, TargetPopulation, Prefer)

Total(market, S) == HoldScore(market, Bought(market, S, CostOf(market, S)), 1)

\* empirical_percentile, in halves of a squad.
Percentile(value, totals, population) ==
  2 * Cardinality({S \in population : totals[S] < value})
    + Cardinality({S \in population : totals[S] = value})

===============================================================================

----------------------------- MODULE DecisionStack -----------------------------
(***************************************************************************)
(* A season with the decision stack: a squad is searched for slot by slot, *)
(* transfers are planned week by week and made, a wildcard is compared     *)
(* with holding, the team plays, the squad is rated, and a new release     *)
(* changes prices and projections.  Lineups, TransferPlans, SquadSearch    *)
(* and SquadRating say what each step computes.                            *)
(*                                                                         *)
(* `squad' is what the manager owns, `task' the computation in hand.  An   *)
(* input that the code answers with ValueError starts no task.             *)
(***************************************************************************)
EXTENDS SquadRating

CONSTANTS
  Markets,            \* the releases: prices, points and who is on sale
  Rules,              \* the searches that may be asked for
  Options,            \* the plans
  WildcardRules,      \* the wildcards: rules and how many weeks to roll
  Budgets,            \* what the squads that are rated may spend
  Anchors,            \* DEFAULT_MATERIALIZED_BUDGET_ANCHORS: what a release samples for
  FreeTransfers,      \* how many free transfers a squad may be registered with
  MaxReleases,        \* bound: releases in a behaviour
  MaxDraws,           \* bound: squads sampled for a benchmark
  MaxBlanks           \* bound: starters who do not play

ASSUME MarketsAssumption ==
  \A m \in Markets :
    /\ m = [price |-> m.price, club |-> m.club, xp |-> m.xp, onSale |-> m.onSale]
    /\ m.price \in [Players -> Nat] /\ DOMAIN m.club = Players
    /\ m.xp \in Seq([Players -> Int]) /\ m.xp # <<>>
    /\ m.onSale \in Seq(SUBSET Players) /\ Len(m.onSale) = Len(m.xp)

Ruled == [locked : SUBSET Players, excluded : SUBSET Players, budget : Nat, beam : Nat,
          lens : Nat, planned : BOOLEAN, shortlist : Nat, transferBeam : Nat,
          transferLens : Nat, returned : Nat]

ASSUME RequestsAssumption ==
  /\ Rules \subseteq Ruled
  /\ \A w \in WildcardRules : w.rules \in Ruled /\ w.roll \in Nat
  /\ Options \subseteq [forced : SUBSET Nat, protected : SUBSET Players,
                       excluded : SUBSET Players, lens : Nat \ {0}, pairs : BOOLEAN,
                       shortlist : Nat \ {0}, beam : Nat \ {0}]
  /\ Budgets \subseteq Nat /\ Anchors \subseteq Nat
  /\ FreeTransfers \subseteq 0 .. MaxFree

VARIABLES market, squad, task, releases
vars == <<market, squad, task, releases>>

NoSquad == [order |-> <<>>, held |-> <<>>, bank |-> 0, free |-> 0,
            wildcard |-> FALSE]
Idle == [kind |-> "idle"]
Decided == [kind |-> "decided"]    \* the week's moves are made, its deadline passes

Init ==
  /\ market \in Markets
  /\ squad = NoSquad
  /\ task = Idle
  /\ releases = 1

-----------------------------------------------------------------------------
(* The first squad. *)

StartSearch(rules) ==
  /\ task = Idle /\ squad = NoSquad
  /\ Accepts(market, rules)
  /\ task' = [kind |-> "search", rules |-> rules, slot |-> 1, partials |-> {Seed(market, rules)}]
  /\ UNCHANGED <<market, squad, releases>>

SearchSlot ==
  /\ task.kind = "search" /\ task.slot <= Len(OpenSlots(task.rules))
  /\ task.partials # {}
  /\ task' = [task EXCEPT
                !.slot = @ + 1,
                !.partials = FillSlot(market, task.rules, CandidateIds(market, task.rules), @,
                                      OpenSlots(task.rules)[task.slot])]
  /\ UNCHANGED <<market, squad, releases>>

SearchFails ==
  /\ task.kind = "search" /\ task.partials = {}
  /\ task' = Idle
  /\ UNCHANGED <<market, squad, releases>>

\* Whoever asked registers the squad that was recommended, with the free transfers of the
\* week.
TakeSquad ==
  /\ task.kind = "search" /\ task.slot > Len(OpenSlots(task.rules))
  /\ task.partials # {}
  /\ \E best \in Best(Shortlisted(Completed(market, task.rules, task.partials),
                                   task.rules.returned)) :
        /\ \E free \in FreeTransfers : squad' = [best.squad EXCEPT !.free = free]
        /\ task' = [kind |-> "found", rules |-> task.rules, partials |-> task.partials,
                    best |-> best]
  /\ UNCHANGED <<market, releases>>

-----------------------------------------------------------------------------
(* Transfers. *)

\* plan_rolling_horizon: who is protected must be owned, and may not be excluded.
StartPlan(options) ==
  /\ task = Idle /\ squad # NoSquad
  /\ options.protected \subseteq Owned(squad)
  /\ options.protected \cap options.excluded = {}
  /\ task' = [kind |-> "plan", options |-> options, week |-> 1,
              plans |-> {Begun(market, squad)}]
  /\ UNCHANGED <<market, squad, releases>>

PlanGameweek ==
  /\ task.kind = "plan" /\ task.week <= Len(market.xp)
  /\ task' = [task EXCEPT !.week = @ + 1,
                          !.plans = PlanWeek(market, @, task.options, task.week)]
  /\ UNCHANGED <<market, squad, releases>>

\* The manager makes the moves of the first week of the recommended plan.
MakeTransfers ==
  /\ task.kind = "plan" /\ task.week > Len(market.xp)
  /\ \E plan \in Returned(task.plans) :
       squad' = [AfterMoves(market, squad, plan.weeks[1])
                   EXCEPT !.free = Advance(squad.free, Cardinality(DOMAIN plan.weeks[1]))]
  /\ task' = Decided
  /\ UNCHANGED <<market, releases>>

PlayWildcard(w) ==
  /\ task = Idle /\ squad.wildcard
  /\ Len(market.xp) >= 2 /\ w.roll < Len(market.xp)
  /\ \E candidates \in {WildcardCandidates(market, squad, w.rules)} \ {{}} :
       \E compared \in CompareWildcard(market, squad, candidates, w.roll) :
         /\ squad' = compared.squad
         /\ task' = [kind |-> "wildcard", rules |-> w.rules, compared |-> compared,
                     before |-> squad]
  /\ UNCHANGED <<market, releases>>

\* recommend_single_transfers and the goalkeeper audit, with whoever else is on sale.
AdviseTransfer ==
  /\ task = Idle /\ squad # NoSquad
  /\ \E targets \in {market.onSale[1] \ Owned(squad)} :
       task' = [kind |-> "advice", gain |-> SingleGain(market, squad, targets, 1),
                audits |-> {KeeperAudit(market, squad, targets, 1) :
                              t \in {u \in {targets} : KeeperAuditApplies(market, squad, u)}}]
  /\ UNCHANGED <<market, squad, releases>>

-----------------------------------------------------------------------------
(* The team plays, and is rated. *)

PlayGameweek(blanks) ==
  /\ task = Idle /\ squad # NoSquad
  /\ \E lineup \in {LineupOf(squad, market.xp[1])} :
       /\ blanks \subseteq lineup.starters
       /\ task' = [kind |-> "played", lineup |-> lineup, blanks |-> blanks,
                   team |-> ResolveSubstitutions(Places(squad), lineup, blanks),
                   worth |-> BenchPoints(Places(squad), lineup, Expected(squad, market.xp[1]),
                                         blanks)]
  /\ UNCHANGED <<market, squad, releases>>

\* A benchmark is sampled for one budget after the other: `left' are the budgets to come,
\* `built' what was sampled and kept for the budgets before.
Building(release, budget, left, built) ==
  [kind |-> "benchmark", release |-> release, budget |-> budget, left |-> left,
   built |-> built, sampled |-> {}, drawn |-> Drawn(market, budget)]

\* build_squad_benchmark for the budget of a squad, when the release has none that is ready.
StartBenchmark(budget) ==
  /\ task = Idle /\ squad = NoSquad
  /\ task' = Building(FALSE, budget, {}, {})
  /\ UNCHANGED <<market, squad, releases>>

\* build_materialized_benchmark_artifact, from the lowest budget to the highest.
StartMaster ==
  /\ task = Idle /\ squad = NoSquad
  /\ \E first \in Anchors :
       /\ \A a \in Anchors : first <= a
       /\ task' = Building(TRUE, first, Anchors \ {first}, {})
  /\ UNCHANGED <<market, squad, releases>>

\* However often it draws, it stops at twice the squads it keeps.
DrawSquad ==
  /\ task.kind = "benchmark"
  /\ Cardinality(task.sampled) < Least(MaxDraws, 2 * TargetPopulation)
  /\ \E S \in task.drawn \ task.sampled : task' = [task EXCEPT !.sampled = @ \cup {S}]
  /\ UNCHANGED <<market, squad, releases>>

\* What is kept for a budget, nothing if nothing was sampled: then it is unavailable.
Built(population) ==
  task.built \cup
    {[budget |-> task.budget, sampled |-> task.sampled, population |-> population]}

CloseAnchor ==
  /\ task.kind = "benchmark" /\ task.release
  /\ \E population \in Populations(market, task.budget, task.sampled) :
       \/ /\ task.left = {}
          /\ task' = [kind |-> "released", built |-> Built(population)]
       \/ \E next \in task.left :
            /\ \A a \in task.left : next <= a
            /\ task' = Building(TRUE, next, task.left \ {next}, Built(population))
  /\ UNCHANGED <<market, squad, releases>>

Rating(release, budget, built, population) ==
  [kind |-> "rated", release |-> release, budget |-> budget, built |-> built,
   available |-> Rated(population), totals |-> [S \in population |-> Total(market, S)]]

\* _squad_rating_payload: from the release's squads if all of its budgets are ready.
RateReleased(budget) ==
  /\ task.kind = "released" /\ Ready(task.built)
  /\ task' = Rating(TRUE, budget, task.built, Share(market, budget, Master(task.built)))
  /\ UNCHANGED <<market, squad, releases>>

RateSquad ==
  /\ task.kind = "benchmark" /\ ~task.release
  /\ \E population \in Populations(market, task.budget, task.sampled) :
       task' = Rating(FALSE, task.budget, Built(population), population)
  /\ UNCHANGED <<market, squad, releases>>

Finish ==
  /\ task.kind \in {"found", "advice", "wildcard", "played", "released", "rated"}
  /\ task' = IF task.kind = "wildcard" THEN Decided ELSE Idle
  /\ UNCHANGED <<market, squad, releases>>

-----------------------------------------------------------------------------
(* A new release. *)

\* What the game pays for a player: half of what he has gained since he was bought.
SellingPrice(paid, price) == IF price > paid THEN paid + (price - paid) \div 2 ELSE price

NewRelease(m) ==
  /\ task \in {Idle, Decided} /\ squad # NoSquad /\ releases < MaxReleases
  /\ m # market /\ market' = m
  /\ squad' = [squad EXCEPT !.held = [p \in DOMAIN @ |->
                 [paid |-> @[p].paid, sells |-> SellingPrice(@[p].paid, m.price[p])]]]
  /\ releases' = releases + 1
  /\ task' = Idle

Next ==
  \/ \E rules \in Rules : StartSearch(rules)
  \/ SearchSlot \/ SearchFails \/ TakeSquad
  \/ \E options \in Options : StartPlan(options)
  \/ PlanGameweek \/ MakeTransfers \/ AdviseTransfer
  \/ \E w \in WildcardRules : PlayWildcard(w)
  \/ \E blanks \in UNION {kSubset(n, Slots) : n \in 0 .. MaxBlanks} : PlayGameweek(blanks)
  \/ \E budget \in Budgets : StartBenchmark(budget) \/ RateReleased(budget)
  \/ StartMaster \/ DrawSquad \/ CloseAnchor \/ RateSquad \/ Finish
  \/ \E m \in Markets : NewRelease(m)

Spec == Init /\ [][Next]_vars

-----------------------------------------------------------------------------
(* Properties. *)

\* The lineup of lineup.py, found by trying formations, is the best of all elevens the
\* rules allow, and a captain no starter beats leads it.  To ask what happens without a
\* player who is on the bench anyway (role_scenario_sensitivity.py) changes nothing, unless
\* he was expected to lose points: then to blank is worth more than to play.
LineupIsBest ==
  task.kind = "found" =>
    \A w \in Horizon(market) :
      LET pos == Places(squad)
          xp == Expected(squad, market.xp[w])
          lineup == RecommendLineup(pos, xp)
      IN /\ lineup.starters \in LegalElevens(pos)
         /\ \A S \in LegalElevens(pos) : Points(xp, S) <= Points(xp, lineup.starters)
         /\ \A i \in lineup.starters : xp[i] <= xp[lineup.captain]
         /\ \A i \in {j \in Slots \ lineup.starters : xp[j] >= 0} :
              ~RoleScenario(pos, xp, i).changed /\ ~RoleScenario(pos, xp, i).captain

\* Substitutions (autosub.py) are made one by one in the order of the slots and never
\* undone: the team stays legal nevertheless, no other choice brings more players on, and
\* nobody on the bench is passed over who could have come on first.  What the bench is
\* worth is what some legal choice of it wins.
SubsAreFair ==
  task.kind = "played" =>
    LET pos == Places(squad)
        lineup == task.lineup
        team == task.team
    IN /\ IsLegalStartingXI(pos, team.field)
       /\ Range(team.used) \subseteq task.blanks
       /\ \A r \in Replacements(pos, lineup, task.blanks) :
            Cardinality(r.on) <= Cardinality(DOMAIN team.used)
       /\ \E r \in Replacements(pos, lineup, task.blanks) :
            LET on == r.on \cup {i \in {lineup.benchKeeper} : At(pos, task.blanks, "GK") # {}}
            IN task.worth = Points(Expected(squad, market.xp[1]), on)
       /\ \A i \in task.blanks \ Range(team.used), j \in Range(lineup.bench) \ DOMAIN team.used :
            ~IsLegalStartingXI(pos, (team.field \ {i}) \cup {j})

\* What a plan's moves cost, week by week, from the free transfers it started with.
Granted(plan, free) ==
  FoldLeft(LAMBDA acc, moves :
             [free |-> Advance(acc.free, Cardinality(DOMAIN moves)),
              cost |-> acc.cost + Over(Cardinality(DOMAIN moves), acc.free) * HitCost],
           [free |-> free, cost |-> 0], plan.weeks)

\* Every plan in the beam of plan_rolling_horizon could be played: its squad is legal once
\* anyone has moved, nobody protected is sold and nobody excluded or off sale is bought,
\* a forced week rolls, and its hits are those of its moves, with never more than five
\* free transfers banked.
PlansAreSound ==
  task.kind = "plan" =>
    \A plan \in task.plans :
      LET options == task.options
          bought(k) == Range(plan.weeks[k])
      IN /\ plan.bank >= 0 /\ plan.free \in 0 .. MaxFree
         /\ LegalSquad(market, Owned(plan)) \/ Owned(plan) = Owned(squad)
         /\ SquadValue(plan) = SquadValue(squad)
         /\ options.protected \subseteq Owned(plan)
         /\ \A k \in DOMAIN plan.weeks :
              /\ bought(k) \subseteq market.onSale[k] \ options.excluded
              /\ k \in options.forced => plan.weeks[k] = <<>>
         /\ plan.cost = Granted(plan, squad.free).cost
         /\ plan.free = Granted(plan, squad.free).free

\* Every path of moves over n weeks, none pruned, and whether the beam has room for them.
Paths(options, n) ==
  FoldLeft(LAMBDA plans, w : Expanded(market, plans, options, w),
           {Begun(market, squad)}, [w \in 1 .. n |-> w])
HoldsAllPaths(options) ==
  \A n \in Horizon(market) : Cardinality(Paths(options, n)) <= options.beam

\* The one week of a market.
ThisWeek == [market EXCEPT !.xp = SubSeq(@, 1, 1), !.onSale = SubSeq(@, 1, 1)]

\* One move, or two at once, of players who are on sale.
UpToTwoMoves ==
  UNION {[outs -> market.onSale[1] \ Owned(squad)] :
         outs \in kSubset(1, Owned(squad)) \cup kSubset(2, Owned(squad))}

\* However narrow the beam, planning is never worse than doing nothing: the best plan in
\* it promises at least what holding the squad brings, and the recommended plan keeps the
\* promise.  When the beam has room for every path, nothing better was given up by keeping
\* one plan of each state (_state_key).
\* The advice of a single week (transfer.py) finds whatever the planner finds in that week,
\* and what the goalkeeper audit promises can be done: one or two moves, made at once, win it.
PlanningPays ==
  /\ task.kind = "plan" /\ task.week > Len(market.xp) =>
       /\ Objective(Recommended(task.plans)) >= Objective(Holding(market, squad))
       /\ HoldsAllPaths(task.options) =>
            \A p \in Paths(task.options, Len(market.xp)) :
              Objective(p) <= Objective(Recommended(task.plans))
  /\ task.kind = "advice" =>
       /\ \A plan \in Expanded(ThisWeek, {Begun(ThisWeek, squad)},
                               [forced |-> {}, protected |-> {}, excluded |-> {},
                                lens |-> Cardinality(Players), pairs |-> FALSE], 1) :
            plan.net <= HoldScore(ThisWeek, squad, 1) + task.gain
       /\ \A gain \in task.audits :
            \E m \in UpToTwoMoves :
              /\ \A out \in DOMAIN m : PositionOf[m[out]] = PositionOf[out]
              /\ Cardinality(Range(m)) = Cardinality(DOMAIN m)
              /\ Affordable(market, squad, m)
              /\ gain <= Step(ThisWeek, Begun(ThisWeek, squad), m, 1).net
                           - HoldScore(ThisWeek, squad, 1)

\* The partial squads of the first n open slots, none cut, and whether the beam has room
\* for them.
AllPartials(rules, n) ==
  FoldLeft(LAMBDA partials, q :
             Extended(market, rules, CandidateIds(market, rules), partials, q),
           {Seed(market, rules)}, [k \in 1 .. n |-> OpenSlots(rules)[k]])
HoldsAllPartials(rules) ==
  \A n \in DOMAIN OpenSlots(rules) : Cardinality(AllPartials(rules, n)) <= rules.beam

\* Every squad that the rules allow and the budget buys, from the players in the lenses.
Affordables(rules) ==
  LET cands == CandidateIds(market, rules)
      of(q) == {S \in kSubset(PositionCounts[q], OfPosition(cands, q)) :
                  OfPosition(rules.locked, q) \subseteq S}
  IN {S \in {A \cup B \cup C \cup D : A \in of("GK"), B \in of("DEF"), C \in of("MID"),
                                       D \in of("FWD")} :
        LegalSquad(market, S) /\ CostOf(market, S) <= rules.budget}

\* The squads of optimize_initial_squad are legal, affordable, hold the locked players and
\* none that is excluded.  When the beam has room the search completes every such squad,
\* each of them once, and as long as the counterfactuals of audit_dominance have no players
\* whom the lenses had left out, none of them dominates the squad that is recommended.
SearchIsSound ==
  task.kind = "found" =>
    LET rules == task.rules
        found == {rules.locked \cup Range(s.ids) : s \in task.partials}
    IN /\ found \subseteq Affordables(rules)
       /\ \A S \in found : S \cap rules.excluded = {}
       /\ Cardinality(found) = Cardinality(task.partials)
       /\ HoldsAllPartials(rules) =>
            /\ found = Affordables(rules)
            /\ /\ rules.locked = {} /\ ~rules.planned
               /\ \A c \in Challengers(market, rules, task.best) :
                    Owned(c.squad) \subseteq CandidateIds(market, rules)
               => ~IsDominated(market, rules, task.best)

\* As long as prices do not change no decision makes or loses money: neither transfers nor
\* a wildcard, which frees what the squad would sell for and pays market prices.
MoneyIsKept ==
  [][squad # NoSquad /\ market' = market => SquadValue(squad') = SquadValue(squad)]_vars

\* A wildcard leaves a legal squad and the banked free transfers.  Unless the squad that
\* is owned was ruled out, it is worth at least what holding is worth, up to the free
\* transfer that a week of holding grants and the wildcard's week does not.
WildcardIsWorthwhile ==
  task.kind = "wildcard" =>
    /\ LegalSquad(market, Owned(squad)) /\ squad.free = task.before.free
    /\ task.rules.locked \subseteq Owned(squad) /\ task.rules.excluded \cap Owned(squad) = {}
    /\ /\ task.rules.locked \subseteq Owned(task.before)
       /\ task.rules.excluded \cap Owned(task.before) = {}
       /\ LegalSquad(market, Owned(task.before))
       => task.compared.objective + TerminalValue >= task.compared.hold

\* A squad is rated among squads that are legal and within its budget, and whoever earns
\* more is rated higher.  Of all that was sampled for a budget no higher than its own no
\* squad is passed over for one that spends less, unless both are in that budget's band:
\* merging the squads of six budgets and choosing again does not lose what each choice
\* promised.  Nor does a release that says it is ready leave a squad unrated that can
\* spend what its lowest budget does, though each budget was counted on its own; and of
\* its own squads it passes over the cheapest.
BenchmarkIsFair ==
  task.kind = "rated" =>
    LET population == DOMAIN task.totals
        totals == task.totals
        cost(S) == CostOf(market, S)
    IN /\ \A S \in population : LegalSquad(market, S) /\ cost(S) <= task.budget
       /\ Cardinality(population) <= TargetPopulation
       /\ \A b \in {c \in task.built : c.budget <= task.budget} :
            /\ Cardinality(population) >= Least(TargetPopulation, Cardinality(b.sampled))
            /\ task.release => task.available
            /\ \A S \in population, T \in b.sampled \ population :
                 \/ cost(S) >= cost(T)
                 \/ Least(cost(S), cost(T)) >= Floor(market, b.budget, b.sampled)
       /\ task.release =>
            \A S \in population, T \in Master(task.built) \ population :
              cost(T) <= task.budget => cost(S) >= cost(T)
       /\ \A S, T \in population :
            totals[S] < totals[T]
              => Percentile(totals[S], totals, population)
                   < Percentile(totals[T], totals, population)

===============================================================================

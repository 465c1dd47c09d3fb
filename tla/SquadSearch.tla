------------------------------ MODULE SquadSearch ------------------------------
(***************************************************************************)
(* Whole squads: the search of decision/initial_squad.py, the audit of     *)
(* initial_squad_dominance.py and the wildcard of wildcard.py.             *)
(*                                                                         *)
(* The search fills the open slots one after the other.  A partial squad   *)
(* has the sequence of its picks, its cost and its points; the locked      *)
(* players are in every squad.                                             *)
(* `rules' says which players are locked and which excluded, how much may  *)
(* be spent, how many partial squads are kept (beam) and how many of each  *)
(* position every lens contributes (lens); whether the best of what it     *)
(* finds (shortlist) are planned ahead, with what beam and lens            *)
(* (transferBeam, transferLens).                                           *)
(***************************************************************************)
EXTENDS TransferPlans

CONSTANTS
  Enabler,            \* CHEAP_ENABLER_MAX_PRICE_TENTHS, for each position
  PremiumMargin,      \* PREMIUM_PRICE_MARGIN_TENTHS
  WildcardLens,       \* candidates_per_position of compare_wildcard
  WildcardShortlist   \* its bundle_shortlist

Order == <<"FWD", "FWD", "FWD", "MID", "MID", "MID", "MID", "MID",
           "DEF", "DEF", "DEF", "DEF", "DEF", "GK", "GK">>

OfPosition(S, q) == {p \in S : PositionOf[p] = q}
CostOf(market, S) == SumFunctionOnSet(market.price, S)
LegalSquad(market, S) ==
  /\ \A q \in Positions : Cardinality(OfPosition(S, q)) = PositionCounts[q]
  /\ Clubs(market, S)

\* Players who can be bought in every week of the horizon.
Common(market) == {p \in Players : \A w \in Horizon(market) : p \in market.onSale[w]}

-----------------------------------------------------------------------------
(* The search. *)

\* _validate_pools, _validate_constraints and SquadConstraints: what is refused at once.
Accepts(market, rules) ==
  /\ rules.locked \cap rules.excluded = {}
  /\ rules.locked \subseteq Common(market)
  /\ \A q \in Positions :
       /\ Cardinality(OfPosition(Common(market), q)) >= PositionCounts[q]
       /\ Cardinality(OfPosition(rules.locked, q)) <= PositionCounts[q]
  /\ Clubs(market, rules.locked)
  /\ CostOf(market, rules.locked) <= rules.budget

Foremost(S, n, Before(_, _)) == {p \in S : Cardinality({q \in S : Before(q, p)}) < n}

\* _candidate_ids: the best by points, by points for money and by price, and the locked.
CandidateIds(market, rules) ==
  LET points == Outlook(market, 1)
      price == market.price
      in(q) == OfPosition(Common(market) \ rules.excluded, q)
      ForMoney(p, r) == \/ points[p] * price[r] > points[r] * price[p]
                        \/ points[p] * price[r] = points[r] * price[p] /\ Ahead(points, p, r)
      ByPrice(p, r) == price[p] < price[r] \/ (price[p] = price[r] /\ Ahead(points, p, r))
  IN rules.locked \cup
     UNION {FirstOf(points, in(q), rules.lens)
              \cup Foremost(in(q), rules.lens, ForMoney)
              \cup Foremost(in(q), PositionCounts[q], ByPrice) : q \in Positions}

\* The slots that the locked players leave open.
OpenSlots(rules) ==
  LET consumed(k) == Cardinality({j \in 1 .. k - 1 : Order[j] = Order[k]})
      open == {k \in 1 .. 15 : consumed(k) >= Cardinality(OfPosition(rules.locked, Order[k]))}
  IN [n \in 1 .. Cardinality(open) |-> Order[InSlotOrder(open)[n]]]

\* The least that the rest of the squad can cost, clubs apart.
MinimumRemaining(market, cands, chosen) ==
  SumFunction([q \in Positions |->
    CostOf(market, Foremost(OfPosition(cands \ chosen, q),
                            PositionCounts[q] - Cardinality(OfPosition(chosen, q)),
                            LAMBDA p, r : \/ market.price[p] < market.price[r]
                                          \/ market.price[p] = market.price[r] /\ p < r))])

CanComplete(cands, chosen) ==
  \A q \in Positions : Cardinality(OfPosition(cands \ chosen, q))
                         >= PositionCounts[q] - Cardinality(OfPosition(chosen, q))

\* Mutant of Fits: some money must be left.
FitsWithChange(market, rules, cands, partial, p) ==
  LET before == rules.locked \cup Range(partial.ids) IN
    /\ p \notin before
    /\ \A r \in OfPosition(Range(partial.ids), PositionOf[p]) : p > r
    /\ Clubs(market, before \cup {p})
    /\ CanComplete(cands, before \cup {p})
    /\ partial.cost + market.price[p] + MinimumRemaining(market, cands, before \cup {p})
         < rules.budget

\* Picks of a position are made in the order of their numbers, the locked apart.
Fits(market, rules, cands, partial, p) ==
  LET before == rules.locked \cup Range(partial.ids) IN
    /\ p \notin before
    /\ \A r \in OfPosition(Range(partial.ids), PositionOf[p]) : p > r
    /\ Clubs(market, before \cup {p})
    /\ CanComplete(cands, before \cup {p})
    /\ partial.cost + market.price[p] + MinimumRemaining(market, cands, before \cup {p})
         <= rules.budget

Sooner(s, t) == \E k \in DOMAIN s : s[k] < t[k] /\ \A j \in 1 .. k - 1 : s[j] = t[j]

PartialBefore(s, t) ==
  \/ s.proxy > t.proxy
  \/ s.proxy = t.proxy /\ s.cost < t.cost
  \/ s.proxy = t.proxy /\ s.cost = t.cost /\ Sooner(s.ids, t.ids)

\* The locked players alone.
Seed(market, rules) ==
  [ids |-> <<>>, cost |-> CostOf(market, rules.locked),
   proxy |-> Points(Outlook(market, 1), rules.locked)]

\* One slot of the search: every partial squad with every pick that fits.
Extended(market, rules, cands, partials, q) ==
  LET points == Outlook(market, 1)
      With(s, p) == [ids |-> Append(s.ids, p), cost |-> s.cost + market.price[p],
                     proxy |-> s.proxy + points[p]]
  IN UNION {{With(s, p) : p \in {r \in OfPosition(cands, q) : Fits(market, rules, cands, s, r)}} :
            s \in partials}
FillSlot(market, rules, cands, partials, q) ==
  LET expanded == Extended(market, rules, cands, partials, q)
  IN IF Cardinality(expanded) <= rules.beam THEN expanded
     ELSE Foremost(expanded, rules.beam, PartialBefore)

-----------------------------------------------------------------------------
(* A completed squad. *)

\* _provisional_squad: by the points of the first week, eleven and a bench.
Layout == <<"GK", "DEF", "DEF", "DEF", "MID", "MID", "MID", "MID", "FWD", "FWD", "FWD",
            "GK", "DEF", "DEF", "MID">>
Provisional(S, xp) ==
  LET Placed(i) == Ranked(xp, OfPosition(S, Layout[i]))
                     [Cardinality({j \in 1 .. i : Layout[j] = Layout[i]})]
  IN [i \in 1 .. 11 |-> Placed(i)] \o [i \in 1 .. 4 |-> Placed(11 + i)]

Aligned(order, lineup) ==
  LET slots == InSlotOrder(lineup.starters) \o <<lineup.benchKeeper>> \o lineup.bench
  IN [i \in Slots |-> order[slots[i]]]

InLineup(order, xp) == Aligned(order, LineupOf([order |-> order], xp))

\* A squad bought today, with the free transfer of the week after the first deadline.
Bought(market, S, budget) ==
  [order |-> InLineup(Provisional(S, market.xp[1]), market.xp[1]),
   held |-> [p \in S |-> [paid |-> market.price[p], sells |-> market.price[p]]],
   bank |-> budget - CostOf(market, S),
   free |-> 1,
   wildcard |-> TRUE]

Future(market) ==
  [market EXCEPT !.xp = Tail(@), !.onSale = Tail(@)]

\* _evaluate_squad, and _evaluate_planned_transfers when transfers are planned too.
Candidate(market, squad) ==
  [squad |-> squad, cost |-> CostOf(market, Owned(squad)), total |-> HoldScore(market, squad, 1),
   hits |-> 0]
Evaluated(market, rules, S) == Candidate(market, Bought(market, S, rules.budget))

Planned(market, candidate, plan) ==
  [candidate EXCEPT !.total = LineupOf(candidate.squad, market.xp[1]).total + plan.net,
                    !.hits = plan.cost]

\* _evaluate_planned_transfers plans with no value for the free transfers that are left.
LookAhead == INSTANCE TransferPlans WITH TerminalValue <- 0
WithTransfers(market, rules, candidate) ==
  Planned(market, candidate,
          LookAhead!Recommended(LookAhead!PlanHorizon(Future(market), candidate.squad,
            [forced |-> {}, protected |-> rules.locked, excluded |-> rules.excluded,
             lens |-> rules.transferLens, pairs |-> FALSE, shortlist |-> 1,
             beam |-> rules.transferBeam])))

BetterSquad(c, d) ==
  \/ c.total > d.total
  \/ c.total = d.total /\ c.hits < d.hits
  \/ c.total = d.total /\ c.hits = d.hits /\ c.cost < d.cost
  \/ /\ c.total = d.total /\ c.hits = d.hits /\ c.cost = d.cost
     /\ Sooner(c.squad.order, d.squad.order)

Shortlisted(candidates, n) == Foremost(candidates, n, BetterSquad)

\* The squads of a search that has filled every slot, the best of them planned ahead.
PlannedAhead(market, rules, frozen) ==
  IF rules.planned /\ Len(market.xp) > 1
    THEN {WithTransfers(market, rules, c) : c \in Shortlisted(frozen, rules.shortlist)}
    ELSE frozen
Completed(market, rules, partials) ==
  PlannedAhead(market, rules,
               {Evaluated(market, rules, rules.locked \cup Range(s.ids)) : s \in partials})

Search(market, rules) ==
  LET cands == CandidateIds(market, rules) IN
    IF ~Accepts(market, rules) THEN {}
    ELSE FoldLeft(LAMBDA partials, q : FillSlot(market, rules, cands, partials, q),
                  {Seed(market, rules)}, OpenSlots(rules))

\* optimize_initial_squad: the best squads, none if the search finds none.
OptimizeInitialSquad(market, rules) ==
  Shortlisted(Completed(market, rules, Search(market, rules)), rules.returned)

\* Whatever no other is better than: the squad that is returned first.
Best(candidates) == {c \in candidates : \A d \in candidates : ~BetterSquad(d, c)}

-----------------------------------------------------------------------------
(* The audit of a search: would it do better without one of its players? *)

Free(excluded, rules) ==
  [rules EXCEPT !.locked = {}, !.excluded = excluded, !.returned = 1]

BenchOf(squad, xp) ==
  LET lineup == LineupOf(squad, xp) IN
    {squad.order[i] : i \in {lineup.benchKeeper} \cup Range(lineup.bench)}

\* The players whom each counterfactual excludes: the dearer goalkeeper, whoever is dear
\* and never starts, the dearest premium player who is never captain.
Counterfactuals(market, squad) ==
  LET Dearer(p, r) == \/ market.price[p] > market.price[r]
                      \/ market.price[p] = market.price[r] /\ p > r
      captains == {squad.order[LineupOf(squad, market.xp[w]).captain] : w \in Horizon(market)}
      premium == {p \in Owned(squad) \ captains :
                    market.price[p] >= Enabler[PositionOf[p]] + PremiumMargin}
  IN {Foremost(OfPosition(Owned(squad), "GK"), 1, Dearer),
      {p \in Owned(squad) : /\ PositionOf[p] # "GK"
                            /\ market.price[p] > Enabler[PositionOf[p]]
                            /\ \A w \in Horizon(market) : p \in BenchOf(squad, market.xp[w])},
      Foremost(premium, 1, Dearer)} \ {{}}

Dominates(c, d) ==
  c.total >= d.total /\ c.cost <= d.cost /\ (c.total > d.total \/ c.cost < d.cost)

\* audit_dominance: every rerun starts from no constraints but the exclusion.
Challengers(market, rules, candidate) ==
  UNION {OptimizeInitialSquad(market, Free(excluded, rules)) :
         excluded \in Counterfactuals(market, candidate.squad)}
IsDominated(market, rules, candidate) ==
  \E c \in Challengers(market, rules, candidate) : Dominates(c, candidate)

-----------------------------------------------------------------------------
(* The wildcard. *)

\* What keeping an owned player costs: what he would sell for.
Retained(market, squad, p) ==
  IF p \in Owned(squad) THEN squad.held[p].sells ELSE market.price[p]

Priced(market, squad) ==
  [market EXCEPT !.price = [p \in Players |-> Retained(market, squad, p)]]

\* Mutant of Restored: the free transfers start again from one.
RestoredWithOne(market, squad, bought) ==
  [bought EXCEPT !.held = [p \in Owned(bought) |->
                             IF p \in Owned(squad) THEN squad.held[p]
                             ELSE [paid |-> market.price[p], sells |-> market.price[p]]],
                 !.free = 1,
                 !.wildcard = FALSE]

\* What was paid for the players who stay is restored, and the free transfers stay.
Restored(market, squad, bought) ==
  [bought EXCEPT !.held = [p \in Owned(bought) |->
                             IF p \in Owned(squad) THEN squad.held[p]
                             ELSE [paid |-> market.price[p], sells |-> market.price[p]]],
                 !.free = squad.free,
                 !.wildcard = FALSE]

\* wildcard_candidates: the squads that the team value buys, and the one that is owned.
OrOwned(market, squad, rules, found) ==
  IF found = {} THEN {}
  ELSE found \cup
    {s \in {[squad EXCEPT !.wildcard = FALSE]} :
       /\ rules.locked \subseteq Owned(squad) /\ rules.excluded \cap Owned(squad) = {}
       /\ Clubs(market, Owned(squad))
       /\ \A c \in found : Owned(c) # Owned(squad)}
WildcardCandidates(market, squad, rules) ==
  OrOwned(market, squad, rules,
          {Restored(market, squad, c.squad) :
             c \in OptimizeInitialSquad(Priced(market, squad),
                     [rules EXCEPT !.budget = SquadValue(squad), !.planned = FALSE])})

Rolls(n) ==
  [forced |-> 1 .. n, protected |-> {}, excluded |-> {}, lens |-> WildcardLens, pairs |-> TRUE,
   shortlist |-> WildcardShortlist, beam |-> 6]

\* What a candidate is worth: its first lineup, and a plan that rolls at first.
WildcardObjective(market, candidate, roll) ==
  LineupOf(candidate, market.xp[1]).total
    + Objective(Recommended(PlanHorizon(Future(market), candidate, Rolls(roll))))

Holding(market, squad) ==
  Recommended(PlanHorizon(market, squad, Rolls(Len(market.xp))))

\* compare_wildcard, of the candidates it found.
Compared(best, hold, transfers) ==
  [squad |-> best[2], objective |-> best[1], hold |-> hold, transfers |-> Max({transfers, hold})]
HighestOf(scored) == {s \in scored : \A t \in scored : s[1] >= t[1]}
CompareWildcard(market, squad, candidates, roll) ==
  {Compared(best, Objective(Holding(market, squad)),
            Objective(Recommended(PlanHorizon(market, squad, Rolls(0))))) :
     best \in HighestOf({<<WildcardObjective(market, c, roll), c>> : c \in candidates})}

===============================================================================

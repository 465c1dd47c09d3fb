----------------------------- MODULE TransferPlans -----------------------------
(***************************************************************************)
(* Transfers over a horizon: decision/transfer.py, transfer_bundle.py,     *)
(* transfer_dominance.py and rolling.py.  A market is what a release knows *)
(* of its players:                                                         *)
(*                                                                         *)
(*   price    their prices, frozen for the horizon                         *)
(*   club     their clubs                                                  *)
(*   xp       for each week of the horizon, their expected points          *)
(*   onSale   for each week, the players who can be bought                 *)
(*                                                                         *)
(* A squad puts players into slots (order), remembers what was paid for    *)
(* them and what they sell for (held), and has money and free transfers.   *)
(* `options' say which weeks must roll (forced), who may not leave or come *)
(* (protected, excluded), how many players of a position are considered    *)
(* (lens), whether two may move at once and how many such pairs are tried  *)
(* (pairs, shortlist), and how many plans are kept (beam).                 *)
(* A plan is a squad with the moves of its weeks, a function from those    *)
(* who leave to those who come, the points they earn and what they cost.   *)
(***************************************************************************)
EXTENDS Lineups

CONSTANTS
  Players,            \* natural numbers: fpl_id
  PositionOf,
  HitCost,            \* DEFAULT_HIT_COST
  TerminalValue       \* terminal_ft_value: what a free transfer left over is worth

ASSUME PlayersAssumption ==
  /\ Players \subseteq Nat /\ IsFiniteSet(Players)
  /\ PositionOf \in [Players -> Positions]
  /\ HitCost \in Nat /\ TerminalValue \in Nat

MaxFree == 5
ClubLimit == 3

Horizon(market) == DOMAIN market.xp
Owned(squad) == Range(squad.order)
Places(squad) == [i \in Slots |-> PositionOf[squad.order[i]]]
Expected(squad, xp) == [i \in Slots |-> xp[squad.order[i]]]
LineupOf(squad, xp) == RecommendLineup(Places(squad), Expected(squad, xp))
Clubs(market, S) ==
  \A c \in Range(market.club) : Cardinality({p \in S : market.club[p] = c}) <= ClubLimit
SellingValue(squad) == SumFunction([p \in Owned(squad) |-> squad.held[p].sells])
SquadValue(squad) == squad.bank + SellingValue(squad)

Least(a, b) == IF a < b THEN a ELSE b
Over(n, free) == IF n > free THEN n - free ELSE 0

-----------------------------------------------------------------------------
(* Moves. *)

\* Mutant of AfterMoves: who comes is held at what the one who leaves was sold for.
AfterMovesAtOldPrice(market, squad, moves) ==
  [squad EXCEPT
     !.order = [i \in Slots |-> IF @[i] \in DOMAIN moves THEN moves[@[i]] ELSE @[i]],
     !.held = [p \in (Owned(squad) \ DOMAIN moves) \cup Range(moves) |->
                 IF p \in Owned(squad) THEN @[p]
                 ELSE @[CHOOSE out \in DOMAIN moves : moves[out] = p]],
     !.bank = @ + SumFunction([out \in DOMAIN moves |->
                                 squad.held[out].sells - market.price[moves[out]]])]

\* Who comes takes the slot of the one who leaves, at the market price.
AfterMoves(market, squad, moves) ==
  [squad EXCEPT
     !.order = [i \in Slots |-> IF @[i] \in DOMAIN moves THEN moves[@[i]] ELSE @[i]],
     !.held = [p \in (Owned(squad) \ DOMAIN moves) \cup Range(moves) |->
                 IF p \in Owned(squad) THEN @[p]
                 ELSE [paid |-> market.price[p], sells |-> market.price[p]]],
     !.bank = @ + SumFunction([out \in DOMAIN moves |->
                                 squad.held[out].sells - market.price[moves[out]]])]

\* What a transfer leaves must be strictly legal, though the squad before it may hold
\* more players of a club than are allowed now.
Affordable(market, squad, moves) ==
  LET after == AfterMoves(market, squad, moves) IN
    after.bank >= 0 /\ Clubs(market, Owned(after))

\* Mutant of Cost: the free transfers are those that are left afterwards.
CostOfRest(squad, n) == Over(n, Over(squad.free, n)) * HitCost
Cost(squad, n) == Over(n, squad.free) * HitCost

\* _advance_free_transfers
Advance(free, n) == Least(MaxFree, Over(free, n) + 1)

-----------------------------------------------------------------------------
(* One Gameweek. *)

SingleMoves(market, squad, targets) ==
  UNION {[{out} -> targets] : out \in Owned(squad)}
SingleTransfers(market, squad, targets) ==
  {m \in SingleMoves(market, squad, targets) :
     \A out \in DOMAIN m : /\ PositionOf[m[out]] = PositionOf[out]
                            /\ Affordable(market, squad, m)}

\* recommend_single_transfers: the points won by the best transfer, after its cost; none
\* is made that wins nothing.
SingleGain(market, squad, targets, w) ==
  LET before == LineupOf(squad, market.xp[w]).total
      gains == {LineupOf(AfterMoves(market, squad, m), market.xp[w]).total - before
                  - Cost(squad, 1) : m \in SingleTransfers(market, squad, targets)}
  IN Max({0} \cup gains)

\* audit_goalkeeper_reinvestment: sell the dearest goalkeeper for the cheapest, and make
\* the best transfer of others with what that brings.
Dearest(market, S) ==
  CHOOSE p \in S : \A q \in S : \/ market.price[p] > market.price[q]
                                \/ market.price[p] = market.price[q] /\ p <= q
Cheapest(market, S) ==
  CHOOSE p \in S : \A q \in S : \/ market.price[p] < market.price[q]
                                \/ market.price[p] = market.price[q] /\ p <= q
Keepers(S) == {p \in S : PositionOf[p] = "GK"}

KeeperSwap(market, squad, targets) ==
  [out \in {Dearest(market, Keepers(Owned(squad)))} |-> Cheapest(market, Keepers(targets))]

KeeperAuditApplies(market, squad, targets) ==
  /\ Keepers(targets) # {}
  /\ \A out \in DOMAIN KeeperSwap(market, squad, targets) :
       market.price[KeeperSwap(market, squad, targets)[out]] < market.price[out]
  /\ Affordable(market, squad, KeeperSwap(market, squad, targets))

KeeperAudit(market, squad, targets, w) ==
  LET swapped == AfterMoves(market, squad, KeeperSwap(market, squad, targets))
      rest == {p \in targets : PositionOf[p] # "GK"}
      gain == SingleGain(market, swapped, rest, w)
      options == {<<>>} \cup {m \in SingleTransfers(market, swapped, rest) :
                    LineupOf(AfterMoves(market, swapped, m), market.xp[w]).total
                      - LineupOf(swapped, market.xp[w]).total - Cost(squad, 1) = gain}
      best == IF gain = 0 THEN <<>> ELSE CHOOSE m \in options \ {<<>>} : TRUE
      used == IF best = <<>> THEN 1 ELSE 2
  IN LineupOf(AfterMoves(market, swapped, best), market.xp[w]).total
       - LineupOf(squad, market.xp[w]).total - Cost(squad, used)

-----------------------------------------------------------------------------
(* The horizon. *)

\* Points of a player in the weeks from w on, and of a squad that is kept.
Outlook(market, w) ==
  [p \in Players |-> SumFunction([v \in {u \in Horizon(market) : u >= w} |-> market.xp[v][p]])]
HoldScore(market, squad, w) ==
  SumFunction([v \in {u \in Horizon(market) : u >= w} |-> LineupOf(squad, market.xp[v]).total])

\* _candidate_targets: by points, and of each position the two cheapest.
Candidates(market, squad, excluded, lens, w) ==
  LET outlook == Outlook(market, w)
      eligible == (market.onSale[w] \ Owned(squad)) \ excluded
      in(q) == {p \in eligible : PositionOf[p] = q}
      Cheaper(p, r) == \/ market.price[p] < market.price[r]
                       \/ market.price[p] = market.price[r] /\ Ahead(outlook, p, r)
  IN UNION {FirstOf(outlook, in(q), lens)
              \cup {p \in in(q) : Cardinality({r \in in(q) : Cheaper(r, p)}) < 2} :
            q \in Positions}

\* shortlisted_pairs: two moves that are legal together, the best by outlook.  Of two ways
\* to match the same players one is kept.
Pairs(market, squad, targets, protected, shortlist, w) ==
  LET outlook == Outlook(market, w)
      two == UNION {[outs -> targets] : outs \in kSubset(2, Owned(squad) \ protected)}
      all == {m \in two :
                /\ \A a \in DOMAIN m : PositionOf[m[a]] = PositionOf[a]
                /\ \A a, b \in DOMAIN m : a # b => m[a] # m[b]
                /\ \A a, b \in DOMAIN m : PositionOf[a] = PositionOf[b] /\ a < b => m[a] < m[b]
                /\ Affordable(market, squad, m)}
      Gain(m) == SumFunction([out \in DOMAIN m |-> outlook[m[out]] - outlook[out]])
      scored == {<<Gain(m), m>> : m \in all}
      Better(s, t) ==
        \/ s[1] > t[1]
        \/ /\ s[1] = t[1]
           /\ \/ Earlier(DOMAIN s[2], DOMAIN t[2])
              \/ DOMAIN s[2] = DOMAIN t[2] /\ Earlier(Range(s[2]), Range(t[2]))
  IN {s[2] : s \in {t \in scored : Cardinality({u \in scored : Better(u, t)}) < shortlist}}

\* The moves a week may make.
Moves(market, plan, options, w) ==
  LET targets == Candidates(market, plan, options.excluded, options.lens, w) IN
    IF w \in options.forced THEN {<<>>}
    ELSE {<<>>}
      \cup {m \in SingleTransfers(market, plan, targets) : DOMAIN m \cap options.protected = {}}
      \cup IF options.pairs
              THEN Pairs(market, plan, targets, options.protected, options.shortlist, w)
              ELSE {}

Remaining(market, w) == Cardinality({v \in Horizon(market) : v > w})

\* Mutant of Ranking: the weeks to come are not looked at.
RankingOfNow(market, plan, w) ==
  plan.net + TerminalValue * Least(MaxFree, plan.free + Remaining(market, w))

Ranking(market, plan, w) ==
  plan.net + HoldScore(market, plan, w + 1)
    + TerminalValue * Least(MaxFree, plan.free + Remaining(market, w))

\* A week of the plan: the moves, the lineup, the free transfer of the next week.
Step(market, plan, moves, w) ==
  LET n == Cardinality(DOMAIN moves)
      squad == AfterMoves(market, plan, moves)
      next == [squad EXCEPT
                 !.free = Advance(plan.free, n),
                 !.cost = @ + Cost(plan, n),
                 !.net = @ + LineupOf(squad, market.xp[w]).total - Cost(plan, n),
                 !.weeks = Append(@, moves)]
  IN [next EXCEPT !.rank = Ranking(market, next, w)]

Begun(market, squad) ==
  [order |-> squad.order, held |-> squad.held, bank |-> squad.bank, free |-> squad.free,
   net |-> 0, cost |-> 0, weeks |-> <<>>, rank |-> HoldScore(market, squad, 1)]

Expanded(market, plans, options, w) ==
  UNION {{Step(market, plan, m, w) : m \in Moves(market, plan, options, w)} : plan \in plans}

\* _state_sort_key; what is still equal is ordered by the players who move.
Decision(moves) ==
  IF Cardinality(DOMAIN moves) = 1
    THEN LET out == CHOOSE p \in DOMAIN moves : TRUE IN <<out, moves[out]>>
    ELSE <<0, 0>>
Precedes(u, v) == u[1] < v[1] \/ (u[1] = v[1] /\ u[2] < v[2])
DecidedEarlier(p, q) ==
  \E k \in DOMAIN p.weeks :
    /\ Precedes(Decision(p.weeks[k]), Decision(q.weeks[k]))
    /\ \A j \in 1 .. k - 1 : Decision(p.weeks[j]) = Decision(q.weeks[j])
MovedEarlier(p, q) ==
  LET k == CHOOSE i \in DOMAIN p.weeks : /\ p.weeks[i] # q.weeks[i]
                                         /\ \A j \in 1 .. i - 1 : p.weeks[j] = q.weeks[j]
  IN \/ Earlier(DOMAIN q.weeks[k], DOMAIN p.weeks[k]) /\ DOMAIN p.weeks[k] = {}
     \/ Earlier(DOMAIN p.weeks[k], DOMAIN q.weeks[k]) /\ DOMAIN q.weeks[k] # {}
     \/ /\ DOMAIN p.weeks[k] = DOMAIN q.weeks[k]
        /\ Earlier(Range(p.weeks[k]), Range(q.weeks[k]))

Prior(p, q) ==
  \/ p.rank > q.rank
  \/ p.rank = q.rank /\ p.net > q.net
  \/ p.rank = q.rank /\ p.net = q.net /\ p.cost < q.cost
  \/ /\ p.rank = q.rank /\ p.net = q.net /\ p.cost = q.cost
     /\ \/ DecidedEarlier(p, q)
        \/ ~DecidedEarlier(q, p) /\ p.weeks # q.weeks /\ MovedEarlier(p, q)

\* _state_key: plans that own the same players at the same prices, with the same money
\* and free transfers, differ only in how they got there.
SameState(p, q) == p.held = q.held /\ p.bank = q.bank /\ p.free = q.free

Distinct(plans) == {p \in plans : \A q \in plans : SameState(p, q) => ~Prior(q, p)}
Kept(plans, n) ==
  IF Cardinality(plans) <= n THEN plans
  ELSE {p \in plans : Cardinality({q \in plans : Prior(q, p)}) < n}

\* One week of plan_rolling_horizon.
PlanWeek(market, plans, options, w) ==
  Kept(Distinct(Expanded(market, plans, options, w)), options.beam)

Objective(plan) == plan.net + TerminalValue * plan.free

Preferred(p, q) ==
  \/ Objective(p) > Objective(q)
  \/ Objective(p) = Objective(q) /\ p.cost < q.cost
  \/ Objective(p) = Objective(q) /\ p.cost = q.cost /\ Prior(p, q)

\* Whatever no other is preferred to: the plan that is returned first.
Returned(plans) == {p \in plans : \A q \in plans : ~Preferred(q, p)}
Recommended(plans) == CHOOSE p \in Returned(plans) : TRUE

\* A whole horizon at once.
PlanHorizon(market, squad, options) ==
  FoldLeft(LAMBDA plans, w : PlanWeek(market, plans, options, w),
           {Begun(market, squad)}, [w \in Horizon(market) |-> w])

===============================================================================

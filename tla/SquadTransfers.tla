----------------------------- MODULE SquadTransfers -----------------------------
(***************************************************************************)
(* What the decision service does with a submitted plan: validate_squad of *)
(* decision/squad.py, and ChipPlan, _validated_web_squad,                  *)
(* _apply_pending_transfers and _plan_summary of webapp/service.py.        *)
(*                                                                         *)
(* A plan is what the browser sends (SquadRequest of api/index.py).  An    *)
(* owned squad is a function from its players to their selling prices,     *)
(* beside the money in the bank.  Lineups, captains and points are left    *)
(* out: no move depends on them.                                           *)
(***************************************************************************)
EXTENDS Integers, FiniteSets, SequencesExt

CONSTANTS
  Players,
  PositionNames,   \* GK, DEF, MID, FWD
  PositionOf,
  Quota,           \* POSITION_COUNTS: how many of each position a squad has
  Clubs,
  ClubOf,
  ClubLimit,       \* three players of one club
  FreeLimit,       \* MAX_FREE_TRANSFERS
  Chips,           \* CHIP_NAMES
  LastRelease,     \* releases are published one after the other
  Price,           \* for each release, the current prices of its catalog
  OnSale,          \* for each release, the players whose status is "a" or "d"
  FirstGameweek    \* for each release, the first Gameweek of its horizon

Releases == 1 .. LastRelease

ASSUME SquadAssumption ==
  /\ IsFiniteSet(Players) /\ IsFiniteSet(PositionNames) /\ IsFiniteSet(Clubs)
  /\ PositionOf \in [Players -> PositionNames]
  /\ Quota \in [PositionNames -> Nat]
  /\ ClubOf \in [Players -> Clubs]
  /\ ClubLimit \in Nat /\ FreeLimit \in Nat
  /\ {"wildcard", "free_hit"} \subseteq Chips
  /\ "none" \notin Chips
  /\ LastRelease \in Nat \ {0}
  /\ \A r \in Releases :
       /\ \E C \in SUBSET Players : Price[r] \in [C -> Nat \ {0}]
       /\ OnSale[r] \in SUBSET DOMAIN Price[r]
  /\ FirstGameweek \in [Releases -> Nat]

NoChip == "none"
NoSetup == [gameweek |-> 0, players |-> {}]

\* A move keeps the position.
Moves == {m \in [out: Players, in: Players] :
            m.out # m.in /\ PositionOf[m.out] = PositionOf[m.in]}
Catalog(r) == DOMAIN Price[r]

Unlimited(chip) == chip \in {"wildcard", "free_hit"}

-----------------------------------------------------------------------------
(* Squads. *)

\* The players of a legal squad.
LegalPlayers(S) ==
  /\ \A q \in PositionNames : Cardinality({p \in S : PositionOf[p] = q}) = Quota[q]
  /\ \A c \in Clubs : Cardinality({p \in S : ClubOf[p] = c}) <= ClubLimit

\* selling_prices.get(fpl_id, price_tenths)
Owned(plan, r) ==
  [held |-> [p \in plan.squad |->
               IF p \in DOMAIN plan.selling THEN plan.selling[p] ELSE Price[r][p]],
   bank |-> plan.bank]

\* Nobody sells above the market, and nobody owes.
Legal(owned, r) ==
  /\ LegalPlayers(DOMAIN owned.held)
  /\ \A p \in DOMAIN owned.held : owned.held[p] \in 1 .. Price[r][p]
  /\ owned.bank >= 0

\* Money in the bank and in the squad (team_value_tenths).
TeamValue(owned) == owned.bank + SumFunction(owned.held)

-----------------------------------------------------------------------------
(* Staged moves. *)

Rejected == [held |-> <<>>, bank |-> -1]

MoveFits(owned, move, r) ==
  /\ owned # Rejected
  /\ move.out \in DOMAIN owned.held
  /\ move.in \notin DOMAIN owned.held
  /\ move.in \in OnSale[r]
  /\ PositionOf[move.in] = PositionOf[move.out]

\* One player is sold at his selling price, one is bought at the market price.
Move(owned, move, r) ==
  IF ~MoveFits(owned, move, r) THEN Rejected ELSE
    [held |-> [p \in (DOMAIN owned.held \ {move.out}) \cup {move.in} |->
                 IF p = move.in THEN Price[r][p] ELSE owned.held[p]],
     bank |-> owned.bank + owned.held[move.out] - Price[r][move.in]]

\* The staged moves one after the other; only their result has to be legal.
AfterMoves(plan, r) ==
  FoldLeft(LAMBDA owned, move : Move(owned, move, r), Owned(plan, r), plan.pending)

\* Whether the service scores the plan (and does not refuse it with 422).
Scores(plan, r) ==
  /\ plan.bank \in Nat /\ plan.free \in 0 .. FreeLimit
  /\ plan.chip \notin plan.used
  /\ plan.squad \subseteq Catalog(r)
  /\ Legal(Owned(plan, r), r)
  /\ LET owned == AfterMoves(plan, r) IN owned # Rejected /\ Legal(owned, r)

\* Only the lineup request looks at the submitted XI.
SetupFits(plan, r) ==
  plan.setup # NoSetup =>
    plan.setup = [gameweek |-> FirstGameweek[r], players |-> plan.squad]

\* Free transfers after n moves.
FreeAfter(plan, n) ==
  IF Unlimited(plan.chip) \/ n = 0 THEN plan.free
  ELSE IF n > plan.free THEN 0 ELSE plan.free - n

\* plan_summary: the effective state that a commit takes over.
Summary(plan, r) ==
  LET owned == AfterMoves(plan, r) IN
    [squad |-> DOMAIN owned.held, bank |-> owned.bank, selling |-> owned.held,
     free |-> FreeAfter(plan, Len(plan.pending)),
     chip |-> plan.chip, commitAllowed |-> plan.chip # "free_hit"]

===============================================================================

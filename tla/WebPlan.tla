--------------------------------- MODULE WebPlan ---------------------------------
(***************************************************************************)
(* The planning page, web/app.js: one plan in memory and in local storage, *)
(* handlers that change it, and requests whose answers arrive in any       *)
(* order, late, or never, while other handlers run.                        *)
(*                                                                         *)
(* An answer is kept as the plan it is about and the release it was        *)
(* computed from, which is any that was published since it was asked for;  *)
(* the service's part is SquadTransfers.  Which of the possible moves a    *)
(* scan suggests depends on points, so any of them may be suggested.       *)
(* Equal requests in flight together count as one.  Before the workspace   *)
(* is loaded, the handlers bound by init() can run, and those bound where  *)
(* a panel is rendered without state.bootstrap; where it is needed,        *)
(* rendering throws and the rest of the handler does not happen.           *)
(***************************************************************************)
EXTENDS SquadTransfers

CONSTANTS
  DefaultSquad,    \* DEFAULT_SQUAD
  Banks,           \* what is typed into the bank field
  Frees,           \* the options of the free-transfer menu
  Entries,         \* picks of FPL entries: [gameweek, players, bank]
  SavedPlans,      \* what earlier visits left in local storage
  SquadSize,       \* 15
  MaxInputs,       \* bound: handlers run in one behaviour
  MaxInFlight,     \* bound: requests in flight
  MaxPending       \* bound: staged moves

NoPrices == [p \in {} |-> 0]

\* The fields of a plan, and the types that matter to more than one operation.
IsPlan(p) ==
  /\ p = [squad |-> p.squad, bank |-> p.bank, free |-> p.free, selling |-> p.selling,
          setup |-> p.setup, pending |-> p.pending, chip |-> p.chip, used |-> p.used]
  /\ p.pending \in Seq(Moves) /\ p.used \subseteq Chips

\* A submitted XI that can be compared with the squad.
SetupIsWhole(p) ==
  p.setup # NoSetup =>
    /\ p.squad \subseteq Players /\ Cardinality(p.squad) = SquadSize
    /\ p.setup.players \subseteq Players /\ Cardinality(p.setup.players) = SquadSize

ASSUME PageAssumption ==
  /\ DefaultSquad \in SUBSET Players
  /\ Banks \subseteq Int /\ Frees \subseteq 0 .. FreeLimit
  /\ \A e \in Entries :
       /\ e.players \subseteq Players /\ Cardinality(e.players) = SquadSize
       /\ e.gameweek \in Nat \ {0} /\ e.bank \in Nat
  /\ \A p \in SavedPlans : IsPlan(p) /\ SetupIsWhole(p)
  /\ MaxInputs \in Nat /\ MaxInFlight \in Nat /\ MaxPending \in Nat

VARIABLES
  release,     \* the release the service reads
  bootstrap,   \* the release of state.bootstrap
  plan,        \* state.plan
  stored,      \* localStorage["touchline-plan"]
  lineups,     \* state.lineups
  transfers,   \* state.transfers, as far as its moves are on display
  flight,      \* requests without an answer
  inputs,      \* how many handlers have run
  torn         \* history: an import broke off, and nothing was stored since

answers == <<lineups, transfers>>
vars == <<release, bootstrap, plan, stored, answers, flight, inputs, torn>>

NotLoaded == 0
Loaded == bootstrap # NotLoaded

NoAnswer == [release |-> 0]

\* loadPlan(): a stored chip survives only while it is available.
LoadPlan(p) == [p EXCEPT !.chip = IF @ \in p.used THEN NoChip ELSE @]

\* The page is opened.
Init ==
  /\ release = 1 /\ bootstrap = NotLoaded
  /\ \E p \in SavedPlans : plan = LoadPlan(p) /\ stored = LoadPlan(p)
  /\ lineups = NoAnswer /\ transfers = NoAnswer
  /\ flight = {} /\ inputs = 0 /\ torn = FALSE

-----------------------------------------------------------------------------
(* Helpers of the handlers. *)

Input ==
  /\ inputs < MaxInputs
  /\ inputs' = inputs + 1
  /\ UNCHANGED <<release, bootstrap>>

\* state.plan is changed and persistPlan() called.
Keep(p) == plan' = p /\ stored' = p /\ torn' = FALSE
KeepsPlan == UNCHANGED <<plan, stored, torn>>

\* api(): the request holds the plan as it is now.
Send(request) ==
  /\ Cardinality(flight) < MaxInFlight
  /\ flight' = flight \cup {request}

AskLineups(p) == Send([kind |-> "lineups", plan |-> p, since |-> release])

\* Staged moves are rendered with the names of the bootstrap.
CanRender(p) == Loaded \/ p.pending = <<>>

\* resetTransfersView() and runLineups(), unless rendering throws in between.
ResetAndRerun(p) ==
  /\ IF CanRender(p) THEN transfers' = NoAnswer /\ AskLineups(p)
     ELSE UNCHANGED <<transfers, flight>>
  /\ UNCHANGED lineups

-----------------------------------------------------------------------------
(* Handlers. *)

\* runLineups(), by the button or by useDemoSquad().
Refresh == Input /\ AskLineups(plan) /\ KeepsPlan /\ UNCHANGED answers

\* runTransfers()
Scan ==
  /\ Input /\ Send([kind |-> "transfers", plan |-> plan, since |-> release])
  /\ KeepsPlan /\ UNCHANGED answers

\* Mutant of EditSquad: the submitted XI is kept.
EditKeepsSetup(old, new) ==
  /\ Input /\ Loaded
  /\ old \in plan.squad \cap Catalog(bootstrap)
  /\ new \in Catalog(bootstrap) \ plan.squad
  /\ PositionOf[new] = PositionOf[old]
  /\ LET p == [plan EXCEPT !.squad = (@ \ {old}) \cup {new}, !.pending = <<>>]
     IN  Keep(p) /\ AskLineups(p)
  /\ UNCHANGED answers

\* A player is replaced in the squad editor.
EditSquad(old, new) ==
  /\ Input /\ Loaded
  /\ old \in plan.squad \cap Catalog(bootstrap)
  /\ new \in Catalog(bootstrap) \ plan.squad
  /\ PositionOf[new] = PositionOf[old]
  /\ LET p == [plan EXCEPT !.squad = (@ \ {old}) \cup {new},
                           !.pending = <<>>, !.setup = NoSetup]
     IN  Keep(p) /\ AskLineups(p)
  /\ UNCHANGED answers

SetActiveChip(chip) ==
  /\ Input /\ Loaded
  /\ chip \notin plan.used /\ chip # plan.chip
  /\ LET p == [plan EXCEPT !.chip = chip] IN Keep(p) /\ ResetAndRerun(p)

\* A chip is marked used, or available again.
ToggleChipStatus(chip) ==
  /\ Input /\ Loaded
  /\ LET nowUsed == chip \notin plan.used
         cleared == nowUsed /\ chip = plan.chip
         p == [plan EXCEPT
                 !.used = IF nowUsed THEN @ \cup {chip} ELSE @ \ {chip},
                 !.chip = IF cleared THEN NoChip ELSE @]
     IN  /\ Keep(p) /\ AskLineups(p)
         /\ transfers' = IF cleared THEN NoAnswer ELSE transfers
  /\ UNCHANGED lineups

RemovePendingTransfer(i) ==
  /\ Input /\ Loaded
  /\ LET p == [plan EXCEPT !.pending = RemoveAt(@, i)] IN Keep(p) /\ ResetAndRerun(p)

\* What a scan can suggest: moves that the service accepts on top of the staged ones.
Suggestions ==
  LET q == transfers.plan IN
    {moves \in SeqOf(Moves, MaxPending) :
       /\ moves # <<>>
       /\ Scores([q EXCEPT !.pending = @ \o moves], transfers.release)}

\* Stage this move, or all moves of a path.
StageTransfers(moves) ==
  /\ Input
  /\ Len(plan.pending) + Len(moves) <= MaxPending
  /\ LET p == [plan EXCEPT !.pending = @ \o moves] IN Keep(p) /\ ResetAndRerun(p)

\* Mutant of Committed: the bank is computed from the plan as it is now.
CommittedOwnBank(summary) ==
  [plan EXCEPT
     !.squad = summary.squad, !.free = summary.free,
     !.selling = summary.selling, !.pending = <<>>, !.setup = NoSetup,
     !.used = IF summary.chip = "wildcard" THEN @ \cup {"wildcard"} ELSE @,
     !.chip = IF summary.chip = "wildcard" THEN NoChip ELSE @]

\* Mutant of Committed: what was played is read off the plan as it is now.
CommittedActiveChip(summary) ==
  [plan EXCEPT
     !.squad = summary.squad, !.bank = summary.bank, !.free = summary.free,
     !.selling = summary.selling, !.pending = <<>>, !.setup = NoSetup,
     !.used = IF plan.chip = "wildcard" THEN @ \cup {"wildcard"} ELSE @,
     !.chip = IF plan.chip = "wildcard" THEN NoChip ELSE @]

\* The committed plan: the summary's, not the plan's own.
Committed(summary) ==
  [plan EXCEPT
     !.squad = summary.squad, !.bank = summary.bank, !.free = summary.free,
     !.selling = summary.selling, !.pending = <<>>, !.setup = NoSetup,
     !.used = IF summary.chip = "wildcard" THEN @ \cup {"wildcard"} ELSE @,
     !.chip = IF summary.chip = "wildcard" THEN NoChip ELSE @]

\* Mutant of CommitPendingTransfers: the plan is stored before the chip is spent.
CommitStoresFirst ==
  /\ Input /\ Loaded
  /\ lineups # NoAnswer /\ plan.pending # <<>>
  /\ LET summary == Summary(lineups.plan, lineups.release)
         p == Committed(summary)
     IN  /\ summary.commitAllowed
         /\ plan' = p /\ torn' = FALSE
         /\ stored' = [p EXCEPT !.used = plan.used, !.chip = plan.chip]
         /\ ResetAndRerun(p)

\* Commit to squad: the summary on display decides.
CommitPendingTransfers ==
  /\ Input /\ Loaded
  /\ lineups # NoAnswer /\ plan.pending # <<>>
  /\ LET summary == Summary(lineups.plan, lineups.release) IN
       /\ summary.commitAllowed
       /\ Keep(Committed(summary))
       /\ ResetAndRerun(Committed(summary))

SetBank(bank) ==
  /\ Input
  /\ LET p == [plan EXCEPT !.bank = bank] IN Keep(p) /\ ResetAndRerun(p)

SetFree(free) ==
  /\ Input
  /\ LET p == [plan EXCEPT !.free = free] IN Keep(p) /\ ResetAndRerun(p)

\* loadFromTeamId(), up to its await.
AskEntry(entry) ==
  /\ Input /\ Send([kind |-> "entry", entry |-> entry, since |-> release])
  /\ KeepsPlan /\ UNCHANGED answers

Handlers ==
  \/ Refresh \/ Scan \/ CommitPendingTransfers
  \/ \E old, new \in Players : EditSquad(old, new)
  \/ \E chip \in Chips \cup {NoChip} : SetActiveChip(chip)
  \/ \E chip \in Chips : ToggleChipStatus(chip)
  \/ \E i \in 1 .. Len(plan.pending) : RemovePendingTransfer(i)
  \/ transfers # NoAnswer /\ \E moves \in Suggestions : StageTransfers(moves)
  \/ \E bank \in Banks : SetBank(bank)
  \/ \E free \in Frees : SetFree(free)
  \/ \E entry \in Entries : AskEntry(entry)

-----------------------------------------------------------------------------
(* Answers. *)

\* The answer is shown, whatever the plan it was asked for has become.
Receive(m, r) ==
  /\ m.kind \in {"lineups", "transfers"}
  /\ Scores(m.plan, r)
  /\ m.kind = "lineups" => SetupFits(m.plan, r)
  /\ LET answer == [plan |-> m.plan, release |-> r] IN
       /\ lineups' = IF m.kind = "lineups" THEN answer ELSE lineups
       /\ transfers' = IF m.kind = "transfers" /\ CanRender(plan) THEN answer ELSE transfers
  /\ flight' = flight \ {m}
  /\ KeepsPlan /\ UNCHANGED <<release, bootstrap, inputs>>

\* The plan of the entry's squad, at estimated selling prices.
Imported(entry, r) ==
  [plan EXCEPT
     !.squad = entry.players, !.bank = entry.bank,
     !.selling = [p \in entry.players |-> Price[r][p]], !.pending = <<>>,
     !.setup = IF entry.gameweek = FirstGameweek[bootstrap]
               THEN [gameweek |-> entry.gameweek, players |-> entry.players]
               ELSE NoSetup]

ReceiveEntry(m, r) ==
  /\ m.kind = "entry" /\ Loaded
  /\ m.entry.players \subseteq Catalog(r)
  /\ Keep(Imported(m.entry, r))
  /\ flight' = (flight \ {m}) \cup
                  {[kind |-> "lineups", plan |-> Imported(m.entry, r), since |-> release]}
  /\ transfers' = NoAnswer
  /\ UNCHANGED <<release, bootstrap, lineups, inputs>>

\* Without a bootstrap, the import breaks off where it looks for the horizon.
BreakOffEntry(m, r) ==
  /\ m.kind = "entry" /\ ~Loaded
  /\ m.entry.players \subseteq Catalog(r)
  /\ plan' = [plan EXCEPT !.squad = m.entry.players,
                          !.selling = [p \in m.entry.players |-> Price[r][p]]]
  /\ torn' = TRUE
  /\ flight' = flight \ {m}
  /\ UNCHANGED <<release, bootstrap, stored, answers, inputs>>

\* A 422, 429, 503 or no answer at all: an error is shown.
Fail(m) ==
  /\ flight' = flight \ {m}
  /\ KeepsPlan /\ UNCHANGED <<release, bootstrap, answers, inputs>>

Network ==
  \E m \in flight :
     \/ \E r \in m.since .. release :
           Receive(m, r) \/ ReceiveEntry(m, r) \/ BreakOffEntry(m, r)
     \/ Fail(m)

-----------------------------------------------------------------------------
(* The page and the release. *)

Reload ==
  /\ inputs < MaxInputs /\ inputs' = inputs + 1
  /\ Keep(LoadPlan(stored))
  /\ bootstrap' = NotLoaded
  /\ lineups' = NoAnswer /\ transfers' = NoAnswer
  /\ flight' = {}
  /\ UNCHANGED release

\* A plan with players that the release does not know gives way to the default.
KnownSquad(p, r) ==
  IF p.squad \subseteq Catalog(r) THEN p ELSE
    [p EXCEPT !.squad = DefaultSquad, !.selling = NoPrices,
              !.pending = <<>>, !.setup = NoSetup]

\* The submitted XI goes when it is of another Gameweek or another squad.
CheckedSetup(p, r) ==
  IF p.setup.gameweek = FirstGameweek[r] /\ p.setup.players \subseteq p.squad
  THEN p ELSE [p EXCEPT !.setup = NoSetup]

\* loadWorkspace().  The service may have cached an earlier release's bootstrap.
LoadWorkspace ==
  /\ ~Loaded
  /\ \E r \in 1 .. release :
       LET p == CheckedSetup(KnownSquad(plan, r), r) IN
         /\ bootstrap' = r
         /\ IF p # plan THEN Keep(p) ELSE KeepsPlan
         /\ AskLineups(p)
  /\ UNCHANGED <<release, answers, inputs>>

\* The worker publishes the next release.
Publish ==
  /\ release + 1 \in Releases
  /\ release' = release + 1
  /\ UNCHANGED <<bootstrap, plan, stored, answers, flight, inputs, torn>>

Next == Handlers \/ Network \/ Reload \/ LoadWorkspace \/ Publish

Spec == Init /\ [][Next]_vars

-----------------------------------------------------------------------------
(* Properties. *)

\* Once the workspace is loaded, the plan never contradicts itself in a way that
\* only the service would notice: the submitted XI is of this very squad, and the
\* active chip has not been used.
PlanIsCoherent ==
  /\ plan.chip \notin plan.used
  /\ Loaded => plan.setup = NoSetup \/ plan.setup.players = plan.squad

\* A reload restores the plan as it was, unless an import has broken off.
ReloadKeepsPlan == [][Reload => torn \/ plan' = plan]_vars

\* A commit, however late it is, neither makes nor loses money, and leaves a squad
\* that was legal under the release that answered.
CommitBalances ==
  [][CommitPendingTransfers =>
       LET q == lineups.plan
           r == lineups.release
       IN  /\ TeamValue(Owned(plan', r)) = TeamValue(Owned(q, r))
           /\ Legal(Owned(plan', r), r)]_vars

\* Moves that enter the committed squad are paid for: each takes a free transfer as
\* long as there is one, or the Wildcard is used up and no longer active.  Moves of
\* a Free Hit do not enter it.
CommitIsPaid ==
  [][CommitPendingTransfers =>
       LET q == lineups.plan IN
         \/ plan'.free = (IF Len(q.pending) > q.free THEN 0 ELSE q.free - Len(q.pending))
         \/ /\ q.chip = "wildcard" /\ plan'.free = q.free
            /\ "wildcard" \in plan'.used /\ plan'.chip = NoChip]_vars

\* The inductive invariant: a comparable setup even where the plan is not coherent,
\* what is stored, and what is in flight.
IInv ==
  /\ IsPlan(plan) /\ SetupIsWhole(plan) /\ PlanIsCoherent
  /\ IsPlan(stored) /\ SetupIsWhole(stored) /\ stored.chip \notin stored.used
  /\ torn \in BOOLEAN /\ (torn \/ stored = plan)
  /\ lineups # NoAnswer => IsPlan(lineups.plan) /\ lineups.plan.free \in 0 .. FreeLimit
  /\ \A m \in flight :
       IF m.kind = "entry" THEN m.entry \in Entries ELSE IsPlan(m.plan)

===============================================================================

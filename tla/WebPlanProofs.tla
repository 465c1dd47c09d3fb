------------------------------ MODULE WebPlanProofs ------------------------------
(***************************************************************************)
(* The plan stays coherent and survives reloads, and commits are paid for, *)
(* for every catalog, every number of requests in flight and every order   *)
(* in which they are answered.                                             *)
(***************************************************************************)
EXTENDS WebPlan, LineupProofs

\* A plan that may be kept: its chip is available, its setup comparable.
Sound(p) == IsPlan(p) /\ SetupIsWhole(p) /\ p.chip \notin p.used

\* Its setup is of its squad, where that is known.
Fits(p) == p.setup = NoSetup \/ p.setup.players = p.squad

\* Requests hold plans, or ask for known entries.
RequestsOK(F) == \A m \in F : IF m.kind = "entry" THEN m.entry \in Entries ELSE IsPlan(m.plan)

\* The answer on display is to a plan the service scores.
AnswerOK(a) == a # NoAnswer => IsPlan(a.plan) /\ a.plan.free \in 0 .. FreeLimit

\* IInv, in these words.
LEMMA InvariantParts ==
  IInv <=> /\ Sound(plan) /\ (Loaded => Fits(plan))
           /\ Sound(stored)
           /\ torn \in BOOLEAN /\ (torn \/ stored = plan)
           /\ AnswerOK(lineups) /\ RequestsOK(flight)
BY DEF IInv, Sound, Fits, PlanIsCoherent, RequestsOK, AnswerOK

\* What makes a record a plan.
LEMMA RecordIsPlan ==
  ASSUME NEW a, NEW b, NEW f, NEW s, NEW t, NEW q \in Seq(Moves), NEW c,
         NEW u \in SUBSET Chips
  PROVE  IsPlan([squad |-> a, bank |-> b, free |-> f, selling |-> s, setup |-> t,
                 pending |-> q, chip |-> c, used |-> u])
BY DEF IsPlan

\* The plan after an edit of the squad.  The provers update one field at a time.
LEMMA EditedPlan ==
  ASSUME NEW p, IsPlan(p), NEW newSquad, NEW newPending, NEW newSetup
  PROVE  [p EXCEPT !.squad = newSquad, !.pending = newPending, !.setup = newSetup] =
           [squad |-> newSquad, bank |-> p.bank, free |-> p.free,
            selling |-> p.selling, setup |-> newSetup, pending |-> newPending,
            chip |-> p.chip, used |-> p.used]
<1> DEFINE p1 == [p EXCEPT !.squad = newSquad]
           p2 == [p1 EXCEPT !.pending = newPending]
           p3 == [p2 EXCEPT !.setup = newSetup]
<1>1. [p EXCEPT !.squad = newSquad, !.pending = newPending, !.setup = newSetup] = p3
  OBVIOUS
<1>2. p1 = [squad |-> newSquad, bank |-> p.bank, free |-> p.free,
            selling |-> p.selling, setup |-> p.setup, pending |-> p.pending,
            chip |-> p.chip, used |-> p.used]
  BY DEF IsPlan
<1> HIDE DEF p1
<1>3. p2 = [squad |-> newSquad, bank |-> p.bank, free |-> p.free,
            selling |-> p.selling, setup |-> p.setup, pending |-> newPending,
            chip |-> p.chip, used |-> p.used]
  BY <1>2
<1> HIDE DEF p2
<1>4. p3 = [squad |-> newSquad, bank |-> p.bank, free |-> p.free,
            selling |-> p.selling, setup |-> newSetup, pending |-> newPending,
            chip |-> p.chip, used |-> p.used]
  BY <1>3
<1> HIDE DEF p3
<1>5. QED
  BY <1>1, <1>4

\* The plan after an import.
LEMMA ImportedPlan ==
  ASSUME IsPlan(plan), NEW entry, NEW r
  PROVE  \E setup, prices :
           /\ Imported(entry, r) =
                [squad |-> entry.players, bank |-> entry.bank, free |-> plan.free,
                 selling |-> prices, setup |-> setup, pending |-> <<>>,
                 chip |-> plan.chip, used |-> plan.used]
           /\ setup \in {NoSetup, [gameweek |-> entry.gameweek, players |-> entry.players]}
<1> DEFINE setup == IF entry.gameweek = FirstGameweek[bootstrap]
                    THEN [gameweek |-> entry.gameweek, players |-> entry.players]
                    ELSE NoSetup
           prices == [p \in entry.players |-> Price[r][p]]
           p1 == [plan EXCEPT !.squad = entry.players]
           p2 == [p1 EXCEPT !.bank = entry.bank]
           p3 == [p2 EXCEPT !.selling = prices]
           p4 == [p3 EXCEPT !.pending = <<>>]
           p5 == [p4 EXCEPT !.setup = setup]
<1>1. Imported(entry, r) = p5
  BY DEF Imported
<1>2. setup \in {NoSetup, [gameweek |-> entry.gameweek, players |-> entry.players]}
  OBVIOUS
<1> HIDE DEF setup, prices
<1>3. p1 = [squad |-> entry.players, bank |-> plan.bank, free |-> plan.free,
            selling |-> plan.selling, setup |-> plan.setup,
            pending |-> plan.pending, chip |-> plan.chip, used |-> plan.used]
  BY DEF IsPlan
<1> HIDE DEF p1
<1>4. p2 = [squad |-> entry.players, bank |-> entry.bank, free |-> plan.free,
            selling |-> plan.selling, setup |-> plan.setup,
            pending |-> plan.pending, chip |-> plan.chip, used |-> plan.used]
  BY <1>3
<1> HIDE DEF p2
<1>5. p3 = [squad |-> entry.players, bank |-> entry.bank, free |-> plan.free,
            selling |-> prices, setup |-> plan.setup,
            pending |-> plan.pending, chip |-> plan.chip, used |-> plan.used]
  BY <1>4
<1> HIDE DEF p3
<1>6. p4 = [squad |-> entry.players, bank |-> entry.bank, free |-> plan.free,
            selling |-> prices, setup |-> plan.setup,
            pending |-> <<>>, chip |-> plan.chip, used |-> plan.used]
  BY <1>5
<1> HIDE DEF p4
<1>7. p5 = [squad |-> entry.players, bank |-> entry.bank, free |-> plan.free,
            selling |-> prices, setup |-> setup, pending |-> <<>>,
            chip |-> plan.chip, used |-> plan.used]
  BY <1>6
<1> HIDE DEF p5
<1>8. QED
  BY <1>1, <1>2, <1>7

\* The plan after half an import.
LEMMA TornPlan ==
  ASSUME NEW p, IsPlan(p), NEW squad, NEW prices
  PROVE  [p EXCEPT !.squad = squad, !.selling = prices] =
           [squad |-> squad, bank |-> p.bank, free |-> p.free, selling |-> prices,
            setup |-> p.setup, pending |-> p.pending, chip |-> p.chip, used |-> p.used]
<1> DEFINE p1 == [p EXCEPT !.squad = squad]
           p2 == [p1 EXCEPT !.selling = prices]
<1>1. [p EXCEPT !.squad = squad, !.selling = prices] = p2
  OBVIOUS
<1>2. p1 = [squad |-> squad, bank |-> p.bank, free |-> p.free, selling |-> p.selling,
            setup |-> p.setup, pending |-> p.pending, chip |-> p.chip, used |-> p.used]
  BY DEF IsPlan
<1> HIDE DEF p1
<1>3. p2 = [squad |-> squad, bank |-> p.bank, free |-> p.free, selling |-> prices,
            setup |-> p.setup, pending |-> p.pending, chip |-> p.chip, used |-> p.used]
  BY <1>2
<1> HIDE DEF p2
<1>4. QED
  BY <1>1, <1>3

\* The plan of the default squad.
LEMMA DefaultPlan ==
  ASSUME NEW p, IsPlan(p)
  PROVE  [p EXCEPT !.squad = DefaultSquad, !.selling = NoPrices,
                   !.pending = <<>>, !.setup = NoSetup] =
           [squad |-> DefaultSquad, bank |-> p.bank, free |-> p.free,
            selling |-> NoPrices, setup |-> NoSetup, pending |-> <<>>,
            chip |-> p.chip, used |-> p.used]
<1> DEFINE p1 == [p EXCEPT !.squad = DefaultSquad]
           p2 == [p1 EXCEPT !.selling = NoPrices]
           p3 == [p2 EXCEPT !.pending = <<>>]
           p4 == [p3 EXCEPT !.setup = NoSetup]
<1>1. [p EXCEPT !.squad = DefaultSquad, !.selling = NoPrices,
                !.pending = <<>>, !.setup = NoSetup] = p4
  OBVIOUS
<1>2. p1 = [squad |-> DefaultSquad, bank |-> p.bank, free |-> p.free,
            selling |-> p.selling, setup |-> p.setup, pending |-> p.pending,
            chip |-> p.chip, used |-> p.used]
  BY DEF IsPlan
<1> HIDE DEF p1
<1>3. p2 = [squad |-> DefaultSquad, bank |-> p.bank, free |-> p.free,
            selling |-> NoPrices, setup |-> p.setup, pending |-> p.pending,
            chip |-> p.chip, used |-> p.used]
  BY <1>2
<1> HIDE DEF p2
<1>4. p3 = [squad |-> DefaultSquad, bank |-> p.bank, free |-> p.free,
            selling |-> NoPrices, setup |-> p.setup, pending |-> <<>>,
            chip |-> p.chip, used |-> p.used]
  BY <1>3
<1> HIDE DEF p3
<1>5. p4 = [squad |-> DefaultSquad, bank |-> p.bank, free |-> p.free,
            selling |-> NoPrices, setup |-> NoSetup, pending |-> <<>>,
            chip |-> p.chip, used |-> p.used]
  BY <1>4
<1> HIDE DEF p4
<1>6. QED
  BY <1>1, <1>5

\* The plan after a change of chip status.
LEMMA ToggledPlan ==
  ASSUME NEW p, IsPlan(p), NEW newUsed, NEW newChip
  PROVE  [p EXCEPT !.used = newUsed, !.chip = newChip] =
           [squad |-> p.squad, bank |-> p.bank, free |-> p.free,
            selling |-> p.selling, setup |-> p.setup, pending |-> p.pending,
            chip |-> newChip, used |-> newUsed]
<1> DEFINE p1 == [p EXCEPT !.used = newUsed]
           p2 == [p1 EXCEPT !.chip = newChip]
<1>1. [p EXCEPT !.used = newUsed, !.chip = newChip] = p2
  OBVIOUS
<1>2. p1 = [squad |-> p.squad, bank |-> p.bank, free |-> p.free,
            selling |-> p.selling, setup |-> p.setup, pending |-> p.pending,
            chip |-> p.chip, used |-> newUsed]
  BY DEF IsPlan
<1> HIDE DEF p1
<1>3. p2 = [squad |-> p.squad, bank |-> p.bank, free |-> p.free,
            selling |-> p.selling, setup |-> p.setup, pending |-> p.pending,
            chip |-> newChip, used |-> newUsed]
  BY <1>2
<1> HIDE DEF p2
<1>4. QED
  BY <1>1, <1>3

\* The plan after a commit.
LEMMA CommittedPlan ==
  ASSUME IsPlan(plan), NEW summary
  PROVE  \E used, active :
           /\ Committed(summary) =
                [squad |-> summary.squad, bank |-> summary.bank,
                 free |-> summary.free, selling |-> summary.selling,
                 setup |-> NoSetup, pending |-> <<>>,
                 chip |-> active, used |-> used]
           /\ used = IF summary.chip = "wildcard" THEN plan.used \cup {"wildcard"}
                     ELSE plan.used
           /\ active = IF summary.chip = "wildcard" THEN NoChip ELSE plan.chip
<1> DEFINE used == IF summary.chip = "wildcard" THEN plan.used \cup {"wildcard"}
                   ELSE plan.used
           active == IF summary.chip = "wildcard" THEN NoChip ELSE plan.chip
           p1 == [plan EXCEPT !.squad = summary.squad]
           p2 == [p1 EXCEPT !.bank = summary.bank]
           p3 == [p2 EXCEPT !.free = summary.free]
           p4 == [p3 EXCEPT !.selling = summary.selling]
           p5 == [p4 EXCEPT !.pending = <<>>]
           p6 == [p5 EXCEPT !.setup = NoSetup]
           p7 == [p6 EXCEPT !.used = used]
           p8 == [p7 EXCEPT !.chip = active]
<1>1. Committed(summary) = p8
  BY DEF Committed
<1> HIDE DEF used, active
<1>2. p1 = [squad |-> summary.squad, bank |-> plan.bank, free |-> plan.free,
            selling |-> plan.selling, setup |-> plan.setup, pending |-> plan.pending,
            chip |-> plan.chip, used |-> plan.used]
  BY DEF IsPlan
<1> HIDE DEF p1
<1>3. p2 = [squad |-> summary.squad, bank |-> summary.bank, free |-> plan.free,
            selling |-> plan.selling, setup |-> plan.setup, pending |-> plan.pending,
            chip |-> plan.chip, used |-> plan.used]
  BY <1>2
<1> HIDE DEF p2
<1>4. p3 = [squad |-> summary.squad, bank |-> summary.bank, free |-> summary.free,
            selling |-> plan.selling, setup |-> plan.setup, pending |-> plan.pending,
            chip |-> plan.chip, used |-> plan.used]
  BY <1>3
<1> HIDE DEF p3
<1>5. p4 = [squad |-> summary.squad, bank |-> summary.bank, free |-> summary.free,
            selling |-> summary.selling, setup |-> plan.setup, pending |-> plan.pending,
            chip |-> plan.chip, used |-> plan.used]
  BY <1>4
<1> HIDE DEF p4
<1>6. p5 = [squad |-> summary.squad, bank |-> summary.bank, free |-> summary.free,
            selling |-> summary.selling, setup |-> plan.setup, pending |-> <<>>,
            chip |-> plan.chip, used |-> plan.used]
  BY <1>5
<1> HIDE DEF p5
<1>7. p6 = [squad |-> summary.squad, bank |-> summary.bank, free |-> summary.free,
            selling |-> summary.selling, setup |-> NoSetup, pending |-> <<>>,
            chip |-> plan.chip, used |-> plan.used]
  BY <1>6
<1> HIDE DEF p6
<1>8. p7 = [squad |-> summary.squad, bank |-> summary.bank, free |-> summary.free,
            selling |-> summary.selling, setup |-> NoSetup, pending |-> <<>>,
            chip |-> plan.chip, used |-> used]
  BY <1>7
<1> HIDE DEF p7
<1>9. p8 = [squad |-> summary.squad, bank |-> summary.bank, free |-> summary.free,
            selling |-> summary.selling, setup |-> NoSetup, pending |-> <<>>,
            chip |-> active, used |-> used]
  BY <1>8
<1> HIDE DEF p8
<1>10. QED
  BY <1>1, <1>9 DEF used, active

\* A handler that stores a sound plan preserves the invariant.
LEMMA KeepHolds ==
  ASSUME IInv, NEW p, Keep(p), Sound(p), bootstrap' # NotLoaded => Fits(p),
         AnswerOK(lineups'), RequestsOK(flight')
  PROVE  IInv'
<1>1. /\ plan' = p /\ stored' = p /\ torn' = FALSE
      /\ Loaded' => Fits(p)
  BY DEF Keep, Loaded
<1>2. QED
  BY <1>1 DEF IInv, Sound, Fits, PlanIsCoherent, RequestsOK, AnswerOK, Loaded

\* A step that leaves the plan and the workspace alone preserves it.
LEMMA KeepsPlanHolds ==
  ASSUME IInv, KeepsPlan, bootstrap' = bootstrap \/ Fits(plan),
         AnswerOK(lineups'), RequestsOK(flight')
  PROVE  IInv'
BY DEF IInv, KeepsPlan, Fits, PlanIsCoherent, RequestsOK, AnswerOK, Loaded

\* Sending the lineup request of a plan.
LEMMA AskHolds ==
  ASSUME NEW F, NEW p, RequestsOK(F), IsPlan(p)
  PROVE  /\ RequestsOK(F \cup {[kind |-> "lineups", plan |-> p, since |-> release]})
         /\ RequestsOK(F \cup {[kind |-> "transfers", plan |-> p, since |-> release]})
BY DEF RequestsOK

LEMMA ResetAndRerunHolds ==
  ASSUME IInv, NEW p, IsPlan(p), ResetAndRerun(p)
  PROVE  AnswerOK(lineups') /\ RequestsOK(flight')
<1>1. RequestsOK(flight) /\ AnswerOK(lineups)
  BY InvariantParts
<1>2. CASE CanRender(p)
  BY <1>1, <1>2, AskHolds DEF ResetAndRerun, AskLineups, Send
<1>3. CASE ~CanRender(p)
  BY <1>1, <1>3 DEF ResetAndRerun
<1>4. QED
  BY <1>2, <1>3

-----------------------------------------------------------------------------
(* The handlers. *)

LEMMA EditHolds ==
  ASSUME IInv, NEW old \in Players, NEW new \in Players, EditSquad(old, new)
  PROVE  IInv'
<1> DEFINE p == [plan EXCEPT !.squad = (@ \ {old}) \cup {new},
                             !.pending = <<>>, !.setup = NoSetup]
<1>1. Sound(plan) /\ AnswerOK(lineups) /\ RequestsOK(flight)
  BY InvariantParts
<1>2. Keep(p) /\ AskLineups(p) /\ lineups' = lineups
  BY DEF EditSquad, answers
<1>3. IsPlan(p) /\ p.chip = plan.chip /\ p.used = plan.used /\ p.setup = NoSetup
  <2>1. p = [squad |-> (plan.squad \ {old}) \cup {new}, bank |-> plan.bank,
             free |-> plan.free, selling |-> plan.selling, setup |-> NoSetup,
             pending |-> <<>>, chip |-> plan.chip, used |-> plan.used]
    BY <1>1, EditedPlan DEF Sound
  <2>2. <<>> \in Seq(Moves) /\ plan.used \in SUBSET Chips
    BY <1>1 DEF Sound, IsPlan
  <2> HIDE DEF p
  <2>3. QED
    BY <2>1, <2>2, RecordIsPlan
<1>4. Sound(p) /\ Fits(p)
  BY <1>1, <1>3 DEF Sound, SetupIsWhole, Fits
<1>5. RequestsOK(flight')
  BY <1>1, <1>2, <1>3, AskHolds DEF AskLineups, Send
<1> HIDE DEF p
<1>6. QED
  BY <1>1, <1>2, <1>4, <1>5, KeepHolds

\* The handlers that change neither squad nor setup.
LEMMA KeepSameSquad ==
  ASSUME IInv, NEW p, IsPlan(p), p.squad = plan.squad, p.setup = plan.setup,
         p.chip \notin p.used, Keep(p), bootstrap' = bootstrap,
         AnswerOK(lineups'), RequestsOK(flight')
  PROVE  IInv'
<1>1. Sound(plan) /\ (Loaded => Fits(plan))
  BY InvariantParts
<1>2. Sound(p) /\ (bootstrap' # NotLoaded => Fits(p))
  BY <1>1 DEF Sound, SetupIsWhole, Fits, Loaded
<1>3. QED
  BY <1>2, KeepHolds

LEMMA ChipHolds ==
  ASSUME IInv, NEW chip \in Chips \cup {NoChip},
         SetActiveChip(chip) \/ (chip \in Chips /\ ToggleChipStatus(chip))
  PROVE  IInv'
<1>1. Sound(plan) /\ AnswerOK(lineups) /\ RequestsOK(flight)
  BY InvariantParts
<1>2. CASE SetActiveChip(chip)
  <2> DEFINE p == [plan EXCEPT !.chip = chip]
  <2>1. Keep(p) /\ ResetAndRerun(p) /\ bootstrap' = bootstrap /\ chip \notin plan.used
    BY <1>2 DEF SetActiveChip, Input
  <2>2. IsPlan(p) /\ p.squad = plan.squad /\ p.setup = plan.setup /\ p.chip \notin p.used
    BY <1>1, <2>1 DEF Sound, IsPlan
  <2> HIDE DEF p
  <2>3. QED
    BY <2>1, <2>2, ResetAndRerunHolds, KeepSameSquad
<1>3. CASE chip \in Chips /\ ToggleChipStatus(chip)
  <2> DEFINE nowUsed == chip \notin plan.used
             cleared == nowUsed /\ chip = plan.chip
             p == [plan EXCEPT
                     !.used = IF nowUsed THEN @ \cup {chip} ELSE @ \ {chip},
                     !.chip = IF cleared THEN NoChip ELSE @]
  <2>1. Keep(p) /\ AskLineups(p) /\ lineups' = lineups /\ bootstrap' = bootstrap
    BY <1>3 DEF ToggleChipStatus, Input
  <2>2. NoChip \notin Chips
    BY SquadAssumption DEF NoChip
  <2>3. IsPlan(p) /\ p.squad = plan.squad /\ p.setup = plan.setup /\ p.chip \notin p.used
    <3> DEFINE used == IF nowUsed THEN plan.used \cup {chip} ELSE plan.used \ {chip}
               active == IF cleared THEN NoChip ELSE plan.chip
    <3>1. p = [squad |-> plan.squad, bank |-> plan.bank, free |-> plan.free,
               selling |-> plan.selling, setup |-> plan.setup,
               pending |-> plan.pending, chip |-> active, used |-> used]
      BY <1>1, ToggledPlan DEF Sound
    <3>2. plan.pending \in Seq(Moves) /\ used \in SUBSET Chips
      BY <1>1, <1>3 DEF Sound, IsPlan
    <3>3. active \notin used
      BY <1>1, <2>2, <3>2 DEF Sound
    <3> HIDE DEF p, used, active
    <3>4. QED
      BY <3>1, <3>2, <3>3, RecordIsPlan
  <2> HIDE DEF p
  <2>4. RequestsOK(flight')
    BY <1>1, <2>1, <2>3, AskHolds DEF AskLineups, Send
  <2>5. QED
    BY <1>1, <2>1, <2>3, <2>4, KeepSameSquad
<1>4. QED
  BY <1>2, <1>3

\* The handlers that change what is staged, the bank or the free transfers.
LEMMA FieldHolds ==
  ASSUME IInv, NEW p, Keep(p), ResetAndRerun(p), bootstrap' = bootstrap,
         \/ \E s \in Seq(Moves) : p = [plan EXCEPT !.pending = s]
         \/ \E b : p = [plan EXCEPT !.bank = b]
         \/ \E f : p = [plan EXCEPT !.free = f]
  PROVE  IInv'
<1>1. Sound(plan)
  BY InvariantParts
<1>2. IsPlan(p) /\ p.squad = plan.squad /\ p.setup = plan.setup /\ p.chip \notin p.used
  BY <1>1 DEF Sound, IsPlan
<1>3. QED
  BY <1>2, ResetAndRerunHolds, KeepSameSquad

LEMMA CommitHolds ==
  ASSUME IInv, CommitPendingTransfers
  PROVE  IInv'
<1> DEFINE summary == Summary(lineups.plan, lineups.release)
           p == Committed(summary)
<1>1. Sound(plan) /\ AnswerOK(lineups) /\ RequestsOK(flight)
  BY InvariantParts
<1>2. Keep(p) /\ ResetAndRerun(p)
  BY DEF CommitPendingTransfers
<1> HIDE DEF summary
<1>3. IsPlan(plan)
  BY <1>1 DEF Sound
<1>4. PICK used, active :
        /\ p = [squad |-> summary.squad, bank |-> summary.bank, free |-> summary.free,
                selling |-> summary.selling, setup |-> NoSetup, pending |-> <<>>,
                chip |-> active, used |-> used]
        /\ used = IF summary.chip = "wildcard" THEN plan.used \cup {"wildcard"}
                  ELSE plan.used
        /\ active = IF summary.chip = "wildcard" THEN NoChip ELSE plan.chip
  BY <1>3, CommittedPlan
<1> HIDE DEF p
<1>5. used \in SUBSET Chips /\ active \notin used /\ <<>> \in Seq(Moves)
  BY <1>1, <1>4, SquadAssumption DEF Sound, IsPlan, NoChip
<1>6. IsPlan(p) /\ p.setup = NoSetup /\ p.chip \notin p.used
  BY <1>4, <1>5, RecordIsPlan
<1>7. Sound(p) /\ Fits(p)
  BY <1>6 DEF Sound, SetupIsWhole, Fits
<1>8. AnswerOK(lineups') /\ RequestsOK(flight')
  BY <1>2, <1>6, ResetAndRerunHolds
<1>9. QED
  BY <1>2, <1>7, <1>8, KeepHolds

LEMMA HandlersHold ==
  ASSUME IInv, Handlers
  PROVE  IInv'
<1>1. /\ Sound(plan) /\ AnswerOK(lineups) /\ RequestsOK(flight)
      /\ plan.pending \in Seq(Moves)
  BY InvariantParts DEF Sound, IsPlan
<1>2. CASE Refresh \/ Scan
  BY <1>1, <1>2, AskHolds, KeepsPlanHolds
     DEF Refresh, Scan, AskLineups, Send, Sound, answers, Input
<1>3. CASE CommitPendingTransfers
  BY <1>3, CommitHolds
<1>4. CASE \E old, new \in Players : EditSquad(old, new)
  BY <1>4, EditHolds
<1>5. CASE \/ \E chip \in Chips \cup {NoChip} : SetActiveChip(chip)
           \/ \E chip \in Chips : ToggleChipStatus(chip)
  BY <1>5, ChipHolds
<1>6. CASE \E i \in 1 .. Len(plan.pending) : RemovePendingTransfer(i)
  <2>1. PICK i \in 1 .. Len(plan.pending) : RemovePendingTransfer(i)
    BY <1>6
  <2>2. RemoveAt(plan.pending, i) \in Seq(Moves)
    BY <1>1 DEF RemoveAt
  <2>3. QED
    BY <2>1, <2>2, FieldHolds DEF RemovePendingTransfer, Input
<1>7. CASE transfers # NoAnswer /\ \E moves \in Suggestions : StageTransfers(moves)
  <2>1. PICK moves \in Suggestions : StageTransfers(moves)
    BY <1>7
  <2>2. moves \in Seq(Moves)
    BY <2>1, PageAssumption DEF Suggestions, SeqOf
  <2>3. plan.pending \o moves \in Seq(Moves)
    BY <1>1, <2>2
  <2>4. QED
    BY <2>1, <2>3, FieldHolds DEF StageTransfers, Input
<1>8. CASE \/ \E bank \in Banks : SetBank(bank)
           \/ \E free \in Frees : SetFree(free)
  BY <1>8, FieldHolds DEF SetBank, SetFree, Input
<1>9. CASE \E entry \in Entries : AskEntry(entry)
  <2>1. PICK entry \in Entries : AskEntry(entry)
    BY <1>9
  <2>2. RequestsOK(flight')
    BY <1>1, <2>1 DEF AskEntry, Send, RequestsOK
  <2>3. QED
    BY <1>1, <2>1, <2>2, KeepsPlanHolds DEF AskEntry, answers, Input
<1>10. QED
  BY <1>2, <1>3, <1>4, <1>5, <1>6, <1>7, <1>8, <1>9 DEF Handlers

-----------------------------------------------------------------------------
(* Answers. *)

LEMMA ReceiveHolds ==
  ASSUME IInv, NEW m \in flight, NEW r, Receive(m, r)
  PROVE  IInv'
<1>1. AnswerOK(lineups) /\ RequestsOK(flight)
  BY InvariantParts
<1>2. IsPlan(m.plan) /\ m.plan.free \in 0 .. FreeLimit
  BY <1>1 DEF Receive, RequestsOK, Scores
<1>3. lineups' = [plan |-> m.plan, release |-> r] \/ lineups' = lineups
  BY DEF Receive
<1>4. AnswerOK(lineups')
  BY <1>1, <1>2, <1>3 DEF AnswerOK
<1>5. RequestsOK(flight')
  BY <1>1 DEF Receive, RequestsOK
<1>6. QED
  BY <1>4, <1>5, KeepsPlanHolds DEF Receive

\* An imported squad comes with a setup of its own, or without.
LEMMA ReceiveEntryHolds ==
  ASSUME IInv, NEW m \in flight, NEW r, ReceiveEntry(m, r)
  PROVE  IInv'
<1> DEFINE p == Imported(m.entry, r)
<1>1. Sound(plan) /\ AnswerOK(lineups) /\ RequestsOK(flight)
  BY InvariantParts
<1>2. /\ Keep(p) /\ lineups' = lineups
      /\ flight' = (flight \ {m}) \cup {[kind |-> "lineups", plan |-> p, since |-> release]}
      /\ m.entry \in Entries
  BY <1>1 DEF ReceiveEntry, RequestsOK
<1>3. IsPlan(plan) /\ plan.chip \notin plan.used /\ plan.used \in SUBSET Chips
  BY <1>1 DEF Sound, IsPlan
<1>4. PICK setup, prices :
        /\ p = [squad |-> m.entry.players, bank |-> m.entry.bank, free |-> plan.free,
                selling |-> prices, setup |-> setup, pending |-> <<>>,
                chip |-> plan.chip, used |-> plan.used]
        /\ setup \in {NoSetup, [gameweek |-> m.entry.gameweek,
                                players |-> m.entry.players]}
  BY <1>3, ImportedPlan
<1> HIDE DEF p
<1>5. <<>> \in Seq(Moves)
  OBVIOUS
<1>6. IsPlan(p)
  BY <1>3, <1>4, <1>5, RecordIsPlan
<1>7. m.entry.players \subseteq Players /\ Cardinality(m.entry.players) = SquadSize
  BY <1>2, PageAssumption
<1>8. Sound(p) /\ Fits(p)
  BY <1>3, <1>4, <1>6, <1>7 DEF Sound, SetupIsWhole, Fits
<1>9. RequestsOK(flight')
  <2>1. RequestsOK(flight \ {m})
    BY <1>1 DEF RequestsOK
  <2>2. QED
    BY <1>2, <1>6, <2>1, AskHolds
<1>10. QED
  BY <1>1, <1>2, <1>8, <1>9, KeepHolds

\* Half an import leaves a setup behind that may be of another squad, and nothing stored.
LEMMA BreakOffEntryHolds ==
  ASSUME IInv, NEW m \in flight, NEW r, BreakOffEntry(m, r)
  PROVE  IInv'
<1> DEFINE prices == [p \in m.entry.players |-> Price[r][p]]
<1>1. Sound(plan) /\ Sound(stored) /\ AnswerOK(lineups) /\ RequestsOK(flight)
  BY InvariantParts
<1>2. /\ plan' = [plan EXCEPT !.squad = m.entry.players, !.selling = prices]
      /\ stored' = stored /\ lineups' = lineups /\ torn' = TRUE
      /\ bootstrap = NotLoaded /\ bootstrap' = bootstrap
      /\ m.entry \in Entries /\ RequestsOK(flight')
  BY <1>1 DEF BreakOffEntry, RequestsOK, Loaded, answers
<1> HIDE DEF prices
<1>3. IsPlan(plan)
  BY <1>1 DEF Sound
<1>4. plan' = [squad |-> m.entry.players, bank |-> plan.bank, free |-> plan.free,
               selling |-> prices, setup |-> plan.setup, pending |-> plan.pending,
               chip |-> plan.chip, used |-> plan.used]
  BY <1>2, <1>3, TornPlan
<1>5. plan.pending \in Seq(Moves) /\ plan.used \in SUBSET Chips
  BY <1>3 DEF IsPlan
<1>6. IsPlan(plan')
  BY <1>4, <1>5, RecordIsPlan
<1>7. m.entry.players \subseteq Players /\ Cardinality(m.entry.players) = SquadSize
  BY <1>2, PageAssumption
<1>8. Sound(plan')
  BY <1>1, <1>4, <1>6, <1>7 DEF Sound, SetupIsWhole
<1>9. QED
  BY <1>1, <1>2, <1>8 DEF IInv, Sound, PlanIsCoherent, Loaded, RequestsOK, AnswerOK

LEMMA FailHolds ==
  ASSUME IInv, NEW m \in flight, Fail(m)
  PROVE  IInv'
<1>1. AnswerOK(lineups') /\ RequestsOK(flight')
  BY InvariantParts DEF Fail, RequestsOK, AnswerOK, answers
<1>2. QED
  BY <1>1, KeepsPlanHolds DEF Fail

-----------------------------------------------------------------------------
(* The page and the release. *)

\* loadPlan() makes a plan whose chip is available.
LEMMA LoadPlanIsSound ==
  ASSUME NEW p, IsPlan(p), SetupIsWhole(p)
  PROVE  Sound(LoadPlan(p))
<1> DEFINE q == LoadPlan(p)
<1>1. NoChip \notin p.used
  BY SquadAssumption DEF IsPlan, NoChip
<1>2. PICK chip : /\ q = [p EXCEPT !.chip = chip]
                  /\ chip = IF p.chip \in p.used THEN NoChip ELSE p.chip
  BY DEF LoadPlan
<1> HIDE DEF q
<1>3. /\ IsPlan(q) /\ q.chip = chip /\ q.used = p.used
      /\ q.squad = p.squad /\ q.setup = p.setup
  BY <1>2 DEF IsPlan
<1>4. Sound(q)
  BY <1>1, <1>2, <1>3 DEF Sound, SetupIsWhole
<1>5. QED
  BY <1>4 DEF q

LEMMA ReloadHolds ==
  ASSUME IInv, Reload
  PROVE  IInv'
<1> DEFINE p == LoadPlan(stored)
<1>1. Sound(p)
  BY InvariantParts, LoadPlanIsSound DEF Sound
<1>2. /\ Keep(p) /\ bootstrap' = NotLoaded
      /\ AnswerOK(lineups') /\ RequestsOK(flight')
  BY DEF Reload, AnswerOK, RequestsOK
<1> HIDE DEF p
<1>3. QED
  BY <1>1, <1>2, KeepHolds

\* A sound plan stays sound when its squad gives way to the default.
LEMMA KnownSquadIsSound ==
  ASSUME NEW p, Sound(p), NEW r
  PROVE  Sound(KnownSquad(p, r))
<1> DEFINE q == [p EXCEPT !.squad = DefaultSquad, !.selling = NoPrices,
                          !.pending = <<>>, !.setup = NoSetup]
<1>1. IsPlan(p) /\ p.used \in SUBSET Chips /\ <<>> \in Seq(Moves)
  BY DEF Sound, IsPlan
<1>2. q = [squad |-> DefaultSquad, bank |-> p.bank, free |-> p.free,
           selling |-> NoPrices, setup |-> NoSetup, pending |-> <<>>,
           chip |-> p.chip, used |-> p.used]
  BY <1>1, DefaultPlan
<1>3. KnownSquad(p, r) \in {p, q}
  BY DEF KnownSquad
<1> HIDE DEF q
<1>4. IsPlan(q)
  BY <1>1, <1>2, RecordIsPlan
<1>5. Sound(q)
  BY <1>2, <1>4 DEF Sound, SetupIsWhole
<1>6. QED
  BY <1>3, <1>5

\* A setup that survives the check is of this very squad: both have fifteen players.
LEMMA CheckedSetupFits ==
  ASSUME NEW p, Sound(p), NEW r
  PROVE  Sound(CheckedSetup(p, r)) /\ Fits(CheckedSetup(p, r))
<1>1. CASE p.setup.gameweek = FirstGameweek[r] /\ p.setup.players \subseteq p.squad
  <2>1. CheckedSetup(p, r) = p
    BY <1>1 DEF CheckedSetup
  <2>2. Fits(p)
    <3>1. SUFFICES ASSUME p.setup # NoSetup
                   PROVE  p.setup.players = p.squad
      BY DEF Fits
    <3>2. /\ p.squad \subseteq Players
          /\ Cardinality(p.squad) = Cardinality(p.setup.players)
      BY <3>1 DEF Sound, SetupIsWhole
    <3>3. IsFiniteSet(p.squad)
      BY <3>2, SquadAssumption, FS_Subset
    <3>4. QED
      BY <1>1, <3>2, <3>3, FS_Subset
  <2>3. QED
    BY <2>1, <2>2
<1>2. CASE ~(p.setup.gameweek = FirstGameweek[r] /\ p.setup.players \subseteq p.squad)
  <2> DEFINE q == [p EXCEPT !.setup = NoSetup]
  <2>1. CheckedSetup(p, r) = q
    BY <1>2 DEF CheckedSetup
  <2>2. IsPlan(q) /\ q.setup = NoSetup /\ q.chip = p.chip /\ q.used = p.used
    BY DEF Sound, IsPlan
  <2> HIDE DEF q
  <2>3. QED
    BY <2>1, <2>2 DEF Sound, SetupIsWhole, Fits
<1>3. QED
  BY <1>1, <1>2

LEMMA LoadWorkspaceHolds ==
  ASSUME IInv, LoadWorkspace
  PROVE  IInv'
<1>1. Sound(plan) /\ AnswerOK(lineups) /\ RequestsOK(flight)
  BY InvariantParts
<1>2. PICK r \in 1 .. release :
        LET p == CheckedSetup(KnownSquad(plan, r), r) IN
          /\ bootstrap' = r
          /\ IF p # plan THEN Keep(p) ELSE KeepsPlan
          /\ AskLineups(p)
  BY DEF LoadWorkspace
<1> DEFINE p == CheckedSetup(KnownSquad(plan, r), r)
<1>3. Sound(p) /\ Fits(p)
  BY <1>1, KnownSquadIsSound, CheckedSetupFits
<1>4. (IF p # plan THEN Keep(p) ELSE KeepsPlan) /\ AskLineups(p) /\ lineups' = lineups
  BY <1>2 DEF LoadWorkspace, answers
<1> HIDE DEF p
<1>5. RequestsOK(flight') /\ AnswerOK(lineups')
  BY <1>1, <1>3, <1>4, AskHolds DEF AskLineups, Send, Sound
<1>6. CASE p # plan
  BY <1>3, <1>4, <1>5, <1>6, KeepHolds
<1>7. CASE p = plan
  BY <1>3, <1>4, <1>5, <1>7, KeepsPlanHolds
<1>8. QED
  BY <1>6, <1>7

-----------------------------------------------------------------------------
(* The theorems. *)

\* The invariant is inductive: it holds when the page is opened, and whatever handler
\* runs and whatever answer arrives, it is preserved.
THEOREM InvariantHolds == Spec => []IInv
<1>1. Init => IInv
  <2>1. SUFFICES ASSUME Init PROVE IInv
    OBVIOUS
  <2>2. PICK p \in SavedPlans : plan = LoadPlan(p) /\ stored = LoadPlan(p)
    BY <2>1 DEF Init
  <2>3. Sound(plan)
    BY <2>2, PageAssumption, LoadPlanIsSound
  <2>4. QED
    BY <2>1, <2>2, <2>3, InvariantParts DEF Init, Loaded, AnswerOK, RequestsOK
<1>2. IInv /\ [Next]_vars => IInv'
  <2>1. SUFFICES ASSUME IInv, [Next]_vars PROVE IInv'
    OBVIOUS
  <2>2. CASE Handlers
    BY <2>1, <2>2, HandlersHold
  <2>3. CASE Network
    <3>1. PICK m \in flight :
            \/ \E r \in m.since .. release :
                  Receive(m, r) \/ ReceiveEntry(m, r) \/ BreakOffEntry(m, r)
            \/ Fail(m)
      BY <2>3 DEF Network
    <3>2. QED
      BY <2>1, <3>1, ReceiveHolds, ReceiveEntryHolds, BreakOffEntryHolds, FailHolds
  <2>4. CASE Reload
    BY <2>1, <2>4, ReloadHolds
  <2>5. CASE LoadWorkspace
    BY <2>1, <2>5, LoadWorkspaceHolds
  <2>6. CASE Publish
    BY <2>1, <2>6 DEF Publish, IInv, PlanIsCoherent, Loaded, answers
  <2>7. CASE UNCHANGED vars
    BY <2>1, <2>7 DEF vars, IInv, PlanIsCoherent, Loaded, answers
  <2>8. QED
    BY <2>1, <2>2, <2>3, <2>4, <2>5, <2>6, <2>7 DEF Next
<1>3. QED
  BY <1>1, <1>2, PTL DEF Spec

\* No order of edits, imports, commits and reloads leaves a used chip active, or the XI
\* of another squad beside the plan of a loaded page.
THEOREM PlanStaysCoherent == Spec => []PlanIsCoherent
<1>1. IInv => PlanIsCoherent
  BY DEF IInv
<1>2. QED
  BY <1>1, InvariantHolds, PTL

\* Whatever the page has stored is the plan it shows, until an import breaks off.
THEOREM ReloadsKeepPlan == Spec => ReloadKeepsPlan
<1>1. IInv /\ [Next]_vars => [Reload => torn \/ plan' = plan]_vars
  <2>1. SUFFICES ASSUME IInv, Reload, ~torn
                 PROVE  plan' = plan
    OBVIOUS
  <2>2. Sound(plan) /\ stored = plan
    BY <2>1, InvariantParts
  <2>3. plan' = [plan EXCEPT !.chip = plan.chip]
    BY <2>1, <2>2 DEF Reload, Keep, LoadPlan, Sound
  <2>4. QED
    BY <2>2, <2>3 DEF Sound, IsPlan
<1>2. QED
  BY <1>1, InvariantHolds, PTL DEF Spec, ReloadKeepsPlan

\* However old the answer is that a commit takes over, its moves are paid for.
THEOREM CommitsArePaid == Spec => CommitIsPaid
<1> DEFINE q == lineups.plan
           n == Len(q.pending)
           Paid == \/ plan'.free = (IF n > q.free THEN 0 ELSE q.free - n)
                   \/ /\ q.chip = "wildcard" /\ plan'.free = q.free
                      /\ "wildcard" \in plan'.used /\ plan'.chip = NoChip
<1>1. IInv /\ [Next]_vars => [CommitPendingTransfers => Paid]_vars
  <2> DEFINE summary == Summary(lineups.plan, lineups.release)
  <2>1. SUFFICES ASSUME IInv, CommitPendingTransfers
                 PROVE  Paid
    OBVIOUS
  <2>2. IsPlan(plan) /\ AnswerOK(lineups) /\ lineups # NoAnswer
    BY <2>1, InvariantParts DEF Sound, CommitPendingTransfers
  <2>3. n \in Nat /\ q.free \in Nat
    <3>1. q.pending \in Seq(Moves) /\ q.free \in 0 .. FreeLimit
      BY <2>2 DEF AnswerOK, IsPlan
    <3>2. QED
      BY <3>1, SquadAssumption
  <2>4. plan' = Committed(summary) /\ summary.commitAllowed
    BY <2>1 DEF CommitPendingTransfers, Keep
  <2>5. /\ summary.free = FreeAfter(q, n) /\ summary.chip = q.chip
        /\ q.chip # "free_hit"
    BY <2>4 DEF Summary
  <2> HIDE DEF summary, q, n
  <2>6. PICK used, active :
          /\ plan' = [squad |-> summary.squad, bank |-> summary.bank,
                      free |-> summary.free, selling |-> summary.selling,
                      setup |-> NoSetup, pending |-> <<>>,
                      chip |-> active, used |-> used]
          /\ used = IF summary.chip = "wildcard" THEN plan.used \cup {"wildcard"}
                    ELSE plan.used
          /\ active = IF summary.chip = "wildcard" THEN NoChip ELSE plan.chip
    BY <2>2, <2>4, CommittedPlan
  <2>7. CASE q.chip = "wildcard"
    BY <2>5, <2>6, <2>7 DEF FreeAfter, Unlimited
  <2>8. CASE q.chip # "wildcard"
    BY <2>3, <2>5, <2>6, <2>8 DEF FreeAfter, Unlimited
  <2>9. QED
    BY <2>7, <2>8
<1>2. QED
  BY <1>1, InvariantHolds, PTL DEF Spec, CommitIsPaid

-----------------------------------------------------------------------------
(* Money. *)

\* Squads the service computes with.
OwnedSquads == [held : UNION {[C -> Int] : C \in SUBSET Players}, bank : Int]

LEMMA MoveBalances ==
  ASSUME NEW r \in Releases, NEW owned \in OwnedSquads, NEW move \in Moves,
         MoveFits(owned, move, r)
  PROVE  /\ Move(owned, move, r) \in OwnedSquads
         /\ TeamValue(Move(owned, move, r)) = TeamValue(owned)
<1> DEFINE D == DOMAIN owned.held
           E == (D \ {move.out}) \cup {move.in}
           price == Price[r][move.in]
           held == [p \in E |-> IF p = move.in THEN Price[r][p] ELSE owned.held[p]]
           bank == owned.bank + owned.held[move.out] - price
<1>1. D \in SUBSET Players /\ IsFiniteSet(D) /\ owned.held \in [D -> Int] /\ owned.bank \in Int
  <2>1. PICK C \in SUBSET Players : owned.held \in [C -> Int]
    BY DEF OwnedSquads
  <2>2. QED
    BY <2>1, SquadAssumption, FS_Subset DEF OwnedSquads
<1>2. /\ move.out \in D /\ move.in \in Players /\ move.in \notin D
      /\ price \in Int
  <2>1. PICK C \in SUBSET Players : Price[r] \in [C -> Nat \ {0}]
    BY SquadAssumption
  <2>2. move.in \in OnSale[r] /\ OnSale[r] \subseteq DOMAIN Price[r]
    BY SquadAssumption DEF MoveFits
  <2>3. QED
    BY <2>1, <2>2 DEF MoveFits, Moves
<1>3. /\ owned.held[move.out] \in Int /\ bank \in Int
      /\ E \in SUBSET Players /\ IsFiniteSet(D \ {move.out})
      /\ move.in \notin D \ {move.out}
  BY <1>1, <1>2, FS_Subset
<1>4. Move(owned, move, r) = [held |-> held, bank |-> bank]
  BY DEF Move
<1>5. held \in [E -> Int]
  BY <1>1, <1>2
<1>6. Move(owned, move, r) \in OwnedSquads
  <2> HIDE DEF held, bank, E
  <2>1. QED
    BY <1>3, <1>4, <1>5 DEF OwnedSquads
<1>7. SumFunction(held) = price + Sum(held, D \ {move.out})
  <2>1. Numbers(held, E) /\ DOMAIN held = E /\ held[move.in] = price
    BY <1>5 DEF Numbers
  <2> HIDE DEF held, price
  <2>2. Sum(held, E) = held[move.in] + Sum(held, D \ {move.out})
    BY <1>3, <2>1, SumAdds
  <2> HIDE DEF E
  <2>3. QED
    BY <2>1, <2>2 DEF Sum, SumFunction
<1>8. SumFunction(owned.held) = owned.held[move.out] + Sum(owned.held, D \ {move.out})
  <2>1. Numbers(owned.held, D)
    BY <1>1 DEF Numbers
  <2>2. Sum(owned.held, D) = owned.held[move.out] + Sum(owned.held, D \ {move.out})
    BY <1>1, <1>2, <2>1, SumTakesOut
  <2>3. QED
    BY <2>2 DEF Sum, SumFunction
<1>9. Sum(held, D \ {move.out}) = Sum(owned.held, D \ {move.out})
  <2>1. \A p \in D \ {move.out} : held[p] = owned.held[p] /\ owned.held[p] \in Int
    BY <1>1, <1>2
  <2>2. Numbers(owned.held, D \ {move.out})
    BY <2>1 DEF Numbers
  <2> HIDE DEF held
  <2>3. QED
    BY <1>3, <2>1, <2>2, SumsAgree
<1>10. Sum(owned.held, D \ {move.out}) \in Int
  BY <1>1, <1>3, SumIsNumber DEF Numbers
<1> HIDE DEF held, price
<1>11. QED
  BY <1>1, <1>2, <1>3, <1>4, <1>6, <1>7, <1>8, <1>9, <1>10 DEF TeamValue

\* Staged moves, one after the other, keep the team's value or are refused.
LEMMA MovesBalance ==
  ASSUME NEW r \in Releases, NEW q, IsPlan(q), Owned(q, r) \in OwnedSquads,
         AfterMoves(q, r) # Rejected
  PROVE  /\ AfterMoves(q, r) \in OwnedSquads
         /\ TeamValue(AfterMoves(q, r)) = TeamValue(Owned(q, r))
<1> DEFINE D == DOMAIN q.pending
           first == Owned(q, r)
           c == [s \in SUBSET D |-> Max(s)]
           F == [i \in D |-> [o \in OwnedSquads |-> Move(o, q.pending[i], r)]]
           Solves(g) == g = [s \in SUBSET D |->
                               IF s = {} THEN first
                               ELSE Move(g[s \ {Max(s)}], q.pending[Max(s)], r)]
           Balanced == {o \in OwnedSquads : o = Rejected \/ TeamValue(o) = TeamValue(first)}
<1>1. AfterMoves(q, r) = (CHOOSE g : Solves(g))[D]
  BY DEF AfterMoves, FoldLeft, MapThenFoldSet
<1>2. IsFiniteSet(D) /\ Takes(c, D) /\ \A i \in D : q.pending[i] \in Moves
  <2>1. q.pending \in Seq(Moves) /\ D = 1 .. Len(q.pending) /\ Len(q.pending) \in Nat
    BY DEF IsPlan
  <2>2. IsFiniteSet(D)
    BY <2>1, FS_Interval
  <2>3. \A s \in SUBSET D : s # {} => Max(s) \in s
    BY <2>1, MaxIsLargest
  <2>4. QED
    BY <2>1, <2>2, <2>3 DEF Takes
<1>3. ASSUME NEW o \in OwnedSquads, NEW i \in D
      PROVE  /\ Move(o, q.pending[i], r) \in OwnedSquads
             /\ o \in Balanced => Move(o, q.pending[i], r) \in Balanced
  <2>1. Rejected \in OwnedSquads
    <3>1. <<>> \in [{} -> Int] /\ {} \in SUBSET Players
      OBVIOUS
    <3>2. \A C \in SUBSET Players : \A f \in [C -> Int] :
            f \in UNION {[B -> Int] : B \in SUBSET Players}
      OBVIOUS
    <3>3. <<>> \in UNION {[C -> Int] : C \in SUBSET Players}
      BY <3>1, <3>2
    <3>4. -1 \in Int
      OBVIOUS
    <3>5. QED
      BY <3>3, <3>4 DEF Rejected, OwnedSquads
  <2>2. CASE ~MoveFits(o, q.pending[i], r)
    BY <2>1, <2>2 DEF Move
  <2>3. CASE MoveFits(o, q.pending[i], r)
    <3>1. o # Rejected
      BY <2>3 DEF MoveFits
    <3>2. QED
      BY <1>2, <2>3, <3>1, MoveBalances
  <2>4. QED
    BY <2>2, <2>3
<1>4. \E g : Solves(g)
  <2>1. StepsIn(F, D, OwnedSquads)
    BY <1>3 DEF StepsIn
  <2> HIDE DEF c, F
  <2>2. PICK g \in [SUBSET D -> OwnedSquads] : Recurses(g, D, c, first, F)
    BY <1>2, <2>1, RecursionExists
  <2>3. ASSUME NEW s \in SUBSET D
        PROVE  g[s] = IF s = {} THEN first ELSE Move(g[s \ {Max(s)}], q.pending[Max(s)], r)
    <3>1. CASE s = {}
      BY <2>2, <3>1 DEF Recurses
    <3>2. CASE s # {}
      <4>1. c[s] \in D /\ g[s \ {c[s]}] \in OwnedSquads
        BY <1>2, <3>2 DEF Takes
      <4>2. g[s] = F[c[s]][g[s \ {c[s]}]]
        BY <2>2, <3>2 DEF Recurses
      <4>3. F[c[s]][g[s \ {c[s]}]] = Move(g[s \ {c[s]}], q.pending[c[s]], r)
        BY <4>1 DEF F
      <4>4. c[s] = Max(s)
        BY DEF c
      <4>5. QED
        BY <3>2, <4>2, <4>3, <4>4
    <3>3. QED
      BY <3>1, <3>2
  <2>4. QED
    BY <2>3
<1>5. PICK g : Solves(g) /\ AfterMoves(q, r) = g[D]
  BY <1>1, <1>4
<1>6. g[{}] \in Balanced
  BY <1>5
<1>7. ASSUME NEW s \in SUBSET D, s # {}, g[s \ {c[s]}] \in Balanced
      PROVE  g[s] \in Balanced
  <2>1. c[s] \in D /\ c[s] = Max(s)
    BY <1>2, <1>7 DEF Takes
  <2>2. g[s] = Move(g[s \ {c[s]}], q.pending[c[s]], r)
    BY <1>5, <1>7, <2>1
  <2> HIDE DEF c
  <2>3. QED
    BY <1>3, <1>7, <2>1, <2>2
<1> HIDE DEF c, Balanced, D
<1>8. g[D] \in Balanced
  BY <1>2, <1>6, <1>7, RecursionStays
<1>9. QED
  BY <1>5, <1>8 DEF Balanced

\* Answers are of published releases, and the lineups on display are of a plan that
\* the service accepts under the release that answered.
AnswersHold ==
  /\ release \in Releases
  /\ \A m \in flight : m.since \in Releases
  /\ lineups # NoAnswer =>
       lineups.release \in Releases /\ Scores(lineups.plan, lineups.release)

\* A handler sends requests at the release that is current, and shows no lineups.
LEMMA HandlersAsk ==
  ASSUME Handlers
  PROVE  /\ release' = release /\ lineups' = lineups
         /\ \A m \in flight' : m \in flight \/ m.since = release
<1>1. ASSUME NEW p, ResetAndRerun(p)
      PROVE  lineups' = lineups /\ \A m \in flight' : m \in flight \/ m.since = release
  BY <1>1 DEF ResetAndRerun, AskLineups, Send
<1>2. CASE Refresh \/ Scan
  BY <1>2 DEF Refresh, Scan, AskLineups, Send, Input, answers
<1>3. CASE CommitPendingTransfers
  BY <1>1, <1>3 DEF CommitPendingTransfers, Input
<1>4. CASE \E old, new \in Players : EditSquad(old, new)
  BY <1>4 DEF EditSquad, Input, AskLineups, Send, answers
<1>5. CASE \E chip \in Chips \cup {NoChip} : SetActiveChip(chip)
  BY <1>1, <1>5 DEF SetActiveChip, Input
<1>6. CASE \E chip \in Chips : ToggleChipStatus(chip)
  BY <1>6 DEF ToggleChipStatus, Input, AskLineups, Send
<1>7. CASE \E i \in 1 .. Len(plan.pending) : RemovePendingTransfer(i)
  BY <1>1, <1>7 DEF RemovePendingTransfer, Input
<1>8. CASE transfers # NoAnswer /\ \E moves \in Suggestions : StageTransfers(moves)
  BY <1>1, <1>8 DEF StageTransfers, Input
<1>9. CASE (\E bank \in Banks : SetBank(bank)) \/ (\E free \in Frees : SetFree(free))
  BY <1>1, <1>9 DEF SetBank, SetFree, Input
<1>10. CASE \E entry \in Entries : AskEntry(entry)
  BY <1>10 DEF AskEntry, Send, Input, answers
<1>11. QED
  BY <1>2, <1>3, <1>4, <1>5, <1>6, <1>7, <1>8, <1>9, <1>10 DEF Handlers

\* Only an answer that the service gives gets on display.
LEMMA NetworkAnswers ==
  ASSUME AnswersHold, Network
  PROVE  AnswersHold'
<1>1. PICK m \in flight :
        \/ \E r \in m.since .. release :
              Receive(m, r) \/ ReceiveEntry(m, r) \/ BreakOffEntry(m, r)
        \/ Fail(m)
  BY DEF Network
<1>2. \A r \in m.since .. release : r \in Releases
  BY SquadAssumption DEF AnswersHold, Releases
<1>3. CASE \E r \in m.since .. release : Receive(m, r)
  <2>1. PICK r \in m.since .. release : Receive(m, r)
    BY <1>3
  <2>2. r \in Releases /\ Scores(m.plan, r)
    BY <1>2, <2>1 DEF Receive
  <2>3. /\ lineups' = lineups \/ lineups' = [plan |-> m.plan, release |-> r]
        /\ flight' \subseteq flight /\ release' = release
    BY <2>1 DEF Receive
  <2>4. QED
    BY <2>2, <2>3 DEF AnswersHold
<1>4. CASE \E r \in m.since .. release : ReceiveEntry(m, r) \/ BreakOffEntry(m, r)
  BY <1>4 DEF ReceiveEntry, BreakOffEntry, AnswersHold, answers
<1>5. CASE Fail(m)
  BY <1>5 DEF Fail, AnswersHold, answers
<1>6. QED
  BY <1>1, <1>3, <1>4, <1>5

\* The answers hold, whatever is edited and published while they are on their way.
LEMMA AnswersAlwaysHold == Spec => []AnswersHold
<1>1. Init => AnswersHold
  BY SquadAssumption DEF Init, AnswersHold, Releases
<1>2. AnswersHold /\ [Next]_vars => AnswersHold'
  <2>1. SUFFICES ASSUME AnswersHold, [Next]_vars PROVE AnswersHold'
    OBVIOUS
  <2>2. CASE Handlers
    BY <2>1, <2>2, HandlersAsk DEF AnswersHold
  <2>3. CASE Network
    BY <2>1, <2>3, NetworkAnswers
  <2>4. CASE Reload
    BY <2>1, <2>4 DEF Reload, AnswersHold
  <2>5. CASE LoadWorkspace
    BY <2>1, <2>5 DEF LoadWorkspace, AskLineups, Send, AnswersHold, answers
  <2>6. CASE Publish
    BY <2>1, <2>6 DEF Publish, AnswersHold, answers
  <2>7. CASE UNCHANGED vars
    BY <2>1, <2>7 DEF vars, AnswersHold, answers
  <2>8. QED
    BY <2>1, <2>2, <2>3, <2>4, <2>5, <2>6, <2>7 DEF Next
<1>3. QED
  BY <1>1, <1>2, PTL DEF Spec

\* A plan that the service scores is of a squad the service computes with.
LEMMA ScoredIsOwned ==
  ASSUME NEW r \in Releases, NEW q, Scores(q, r)
  PROVE  Owned(q, r) \in OwnedSquads
<1>1. PICK C \in SUBSET Players : Price[r] \in [C -> Nat \ {0}]
  BY SquadAssumption
<1>2. q.squad \subseteq C /\ q.bank \in Int /\ Legal(Owned(q, r), r)
  BY <1>1 DEF Scores, Catalog
<1> DEFINE held == Owned(q, r).held
<1>3. DOMAIN held = q.squad /\ \A p \in q.squad : held[p] \in 1 .. Price[r][p]
  BY <1>2 DEF Legal, Owned
<1>4. \A p \in q.squad : held[p] \in Int
  BY <1>1, <1>2, <1>3
<1>5. held = [p \in q.squad |-> held[p]] /\ Owned(q, r) = [held |-> held, bank |-> q.bank]
  BY DEF Owned
<1> HIDE DEF held
<1>6. held \in [q.squad -> Int] /\ q.squad \in SUBSET Players
  BY <1>1, <1>2, <1>4, <1>5
<1>7. QED
  BY <1>2, <1>5, <1>6 DEF OwnedSquads

\* A commit takes over the squad, the money and the prices of the answer, whatever the
\* plan has become since: the team's value before and after is the same, and the squad
\* is legal under the release that answered.
THEOREM CommitsBalance == Spec => CommitBalances
<1> DEFINE q == lineups.plan
           r == lineups.release
           Balances == /\ TeamValue(Owned(plan', r)) = TeamValue(Owned(q, r))
                       /\ Legal(Owned(plan', r), r)
<1>1. IInv /\ AnswersHold /\ [Next]_vars => [CommitPendingTransfers => Balances]_vars
  <2> DEFINE summary == Summary(q, r)
             owned == AfterMoves(q, r)
  <2>1. SUFFICES ASSUME IInv, AnswersHold, CommitPendingTransfers
                 PROVE  Balances
    OBVIOUS
  <2>2. IsPlan(plan) /\ IsPlan(q) /\ lineups # NoAnswer
    BY <2>1, InvariantParts DEF Sound, AnswerOK, CommitPendingTransfers
  <2>3. r \in Releases /\ Scores(q, r)
    BY <2>1, <2>2 DEF AnswersHold
  <2>4. plan' = Committed(summary)
    BY <2>1 DEF CommitPendingTransfers, Keep
  <2> HIDE DEF q, r
  <2>5. owned # Rejected /\ Legal(owned, r)
    BY <2>3 DEF Scores
  <2>6. owned \in OwnedSquads /\ TeamValue(owned) = TeamValue(Owned(q, r))
    BY <2>2, <2>3, <2>5, ScoredIsOwned, MovesBalance
  <2>7. /\ summary.squad = DOMAIN owned.held /\ summary.bank = owned.bank
        /\ summary.selling = owned.held
    BY DEF Summary
  <2> HIDE DEF summary, owned
  <2>8. /\ plan'.squad = DOMAIN owned.held /\ plan'.bank = owned.bank
        /\ plan'.selling = owned.held
    BY <2>2, <2>4, <2>7, CommittedPlan
  <2>9. owned = [held |-> owned.held, bank |-> owned.bank]
        /\ owned.held = [p \in DOMAIN owned.held |-> owned.held[p]]
    BY <2>6 DEF OwnedSquads
  <2>10. Owned(plan', r) = owned
    BY <2>8, <2>9 DEF Owned
  <2>11. QED
    BY <2>5, <2>6, <2>10
<1>2. QED
  BY <1>1, InvariantHolds, AnswersAlwaysHold, PTL DEF Spec, CommitBalances

===============================================================================

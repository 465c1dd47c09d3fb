-------------------------- MODULE DecisionInputsProofs --------------------------
(* What is proved of ManualImports and DecisionInputs. *)
EXTENDS DecisionInputs, LineupProofs

DatabaseType ==
  [tables : SUBSET Range(Tables), versions : SUBSET (1 .. SchemaVersion),
   strict : SUBSET Range(StrengthColumns), open : SUBSET {"overrides"}]

\* The strict columns of a database that says it is of this version.
Promised == IF NewestOf(left) = 2 THEN {} ELSE left.strict

(* The upgrade.  Nothing but a database left at version 2 loses strict columns, and      *)
(* whoever stamps has relaxed them all; whoever is past the tables has every one.        *)
UpgradeInv ==
  /\ db \in DatabaseType /\ left \in DatabaseType
  /\ db.open = left.open
  /\ NewestOf(left) # 2 => db.strict = left.strict
  /\ SchemaVersion \notin db.versions => db.versions = left.versions
  /\ SchemaVersion \in db.versions => Missing = {} /\ db.strict = Promised
  /\ step # "idle" => SchemaVersion \notin db.versions
  /\ step \in {"alter", "stamp"} => Missing = {}
  /\ step = "alter" => NewestOf(left) = 2
  /\ step = "stamp" => db.strict = Promised

\* A database as any version left it.
LEMMA UpgradeStarts == Init => UpgradeInv
<1> SUFFICES ASSUME Init PROVE UpgradeInv
  OBVIOUS
<1>1. /\ db \in DatabaseType /\ left = db
      /\ SchemaVersion \in db.versions => db.tables = Range(Tables)
      /\ step = "idle"
  BY DatabasesAssumption DEF Init, DatabaseType
<1>2. db.tables = Range(Tables) => Missing = {}
  BY DEF Missing, Range
<1>3. SchemaVersion \in left.versions => NewestOf(left) # 2
  <2> SUFFICES ASSUME SchemaVersion \in left.versions PROVE NewestOf(left) # 2
    OBVIOUS
  <2>1. \A w \in left.versions : w \in Int /\ w <= SchemaVersion
    BY <1>1 DEF DatabaseType, SchemaVersion
  <2>2. PICK v \in left.versions : /\ NewestOf(left) = v
                                   /\ \A w \in left.versions : w <= v
    BY <2>1 DEF NewestOf
  <2>3. SchemaVersion <= v
    BY <2>2
  <2> QED
    BY <2>2, <2>3 DEF SchemaVersion
<1> QED
  BY <1>1, <1>2, <1>3 DEF UpgradeInv, Promised

\* CreateTable's choice is one.
LEMMA LeastOfSix ==
  ASSUME NEW M, M \subseteq 1 .. 6, M # {}
  PROVE  \E k \in M : \A j \in M : k <= j
<1>1. CASE 1 \in M
  BY <1>1
<1>2. CASE 1 \notin M /\ 2 \in M
  BY <1>2
<1>3. CASE 1 \notin M /\ 2 \notin M /\ 3 \in M
  BY <1>3
<1>4. CASE 1 \notin M /\ 2 \notin M /\ 3 \notin M /\ 4 \in M
  BY <1>4
<1>5. CASE 1 \notin M /\ 2 \notin M /\ 3 \notin M /\ 4 \notin M /\ 5 \in M
  BY <1>5
<1>6. CASE 1 \notin M /\ 2 \notin M /\ 3 \notin M /\ 4 \notin M /\ 5 \notin M
  <2>1. \A j \in M : j = 6
    BY <1>6
  <2>2. PICK j \in M : TRUE
    OBVIOUS
  <2> QED
    BY <2>1, <2>2
<1> QED
  BY <1>1, <1>2, <1>3, <1>4, <1>5, <1>6

\* Every statement of the upgrade, and a kill between any two.
LEMMA UpgradeSteps ==
  ASSUME UpgradeInv, Upgrade
  PROVE  UpgradeInv'
<1>1. CASE Initialize
  <2>1. SchemaVersion \notin db.versions
    BY <1>1 DEF Initialize, Ready, UpgradeInv
  <2> QED
    BY <1>1, <2>1 DEF UpgradeInv, Initialize, Missing, Promised
<1>2. CASE CreateTable
  <2> DEFINE first == CHOOSE k \in Missing : \A j \in Missing : k <= j
             new == Tables[first]
  <2>1. /\ step = "create" /\ UNCHANGED <<step, left>>
        /\ db' = [db EXCEPT !.tables = db.tables \cup {new}]
    BY <1>2 DEF CreateTable, imported
  <2>2. new \in Range(Tables)
    <3>1. Missing \subseteq DOMAIN Tables /\ DOMAIN Tables = 1 .. 6 /\ Missing # {}
      BY <1>2 DEF CreateTable, Missing, Tables
    <3>2. \E k \in Missing : \A j \in Missing : k <= j
      BY <3>1, LeastOfSix
    <3>3. first \in DOMAIN Tables
      BY <3>1, <3>2
    <3> QED
      BY <3>3 DEF Range
  <2> HIDE DEF new
  <2>3. /\ db' \in DatabaseType
        /\ db'.versions = db.versions /\ db'.strict = db.strict /\ db'.open = db.open
    BY <2>1, <2>2 DEF UpgradeInv, DatabaseType
  <2> QED
    BY <2>1, <2>3 DEF UpgradeInv, Promised
<1>3. CASE ReadVersion
  <2>1. Newest = NewestOf(left)
    <3>1. db.versions = left.versions
      BY <1>3 DEF ReadVersion, UpgradeInv
    <3>2. ASSUME NEW d, NEW e, d.versions = e.versions
          PROVE  NewestOf(d) = NewestOf(e)
      BY <3>2 DEF NewestOf
    <3> QED
      BY <3>1, <3>2 DEF Newest
  <2> QED
    BY <1>3, <2>1 DEF UpgradeInv, ReadVersion, Missing, Promised
<1>4. CASE RelaxColumn
  <2>1. CASE UNCHANGED db
    BY <1>4, <2>1 DEF UpgradeInv, RelaxColumn, Missing, Promised
  <2>2. CASE step' = step /\ \E k \in DOMAIN StrengthColumns :
               db' = [db EXCEPT !.strict = db.strict \ {StrengthColumns[k]}]
    <3>1. /\ db' \in DatabaseType
          /\ db'.versions = db.versions /\ db'.tables = db.tables /\ db'.open = db.open
          /\ UNCHANGED left /\ step = "alter"
      BY <1>4, <2>2 DEF UpgradeInv, DatabaseType, RelaxColumn
    <3> QED
      BY <2>2, <3>1 DEF UpgradeInv, Missing, Promised
  <2> QED
    BY <1>4, <2>1, <2>2 DEF RelaxColumn
<1>5. CASE StampVersion
  <2>1. /\ db' \in DatabaseType
        /\ db'.tables = db.tables /\ db'.strict = db.strict /\ db'.open = db.open
        /\ SchemaVersion \in db'.versions
    BY <1>5 DEF UpgradeInv, DatabaseType, StampVersion, SchemaVersion
  <2> QED
    BY <1>5, <2>1 DEF UpgradeInv, StampVersion, Missing, Promised
<1>6. CASE Kill
  BY <1>6 DEF UpgradeInv, Kill, Missing, Promised
<1> QED
  BY <1>1, <1>2, <1>3, <1>4, <1>5, <1>6 DEF Upgrade

\* What leaves the database's schema and the upgrade alone.
LEMMA UpgradeRests == UpgradeInv /\ UNCHANGED schema => UpgradeInv'
  BY DEF UpgradeInv, schema, Missing, Promised

LEMMA OthersRest ==
  ASSUME Tick \/ Import \/ \E a \in ModelAsks : RunModel(a)
  PROVE  UNCHANGED schema
<1>1. CASE Tick
  BY <1>1 DEF Tick
<1>2. CASE \E a \in ModelAsks : RunModel(a)
  BY <1>2 DEF RunModel
<1>3. CASE Import
  BY <1>3 DEF Import, ImportSquadCsv, ImportSquadFromEntry, StoreSquad, ImportIdentity,
              ImportEvidence, ImportHistory, MaterializeRates
<1> QED
  BY <1>1, <1>2, <1>3

(* Whatever an earlier version left, and however often its upgrade was killed, a         *)
(* database that says it is of this version has every table; it has lost its strict      *)
(* columns if it was left at version 2, and keeps its columns as they were otherwise     *)
(* (storage/database.py:1207-1244).                                                      *)
THEOREM UpgradesAreHonest == Spec => []UpgradeIsHonest
<1>1. UpgradeInv => UpgradeIsHonest
  BY DEF UpgradeInv, UpgradeIsHonest, Promised
<1>2. UpgradeInv /\ [Next]_vars => UpgradeInv'
  <2> SUFFICES ASSUME UpgradeInv, [Next]_vars PROVE UpgradeInv'
    OBVIOUS
  <2>1. CASE Upgrade
    BY <2>1, UpgradeSteps
  <2>2. CASE Tick \/ Import \/ \E a \in ModelAsks : RunModel(a)
    BY <2>2, OthersRest, UpgradeRests
  <2>3. CASE UNCHANGED vars
    BY <2>3, UpgradeRests DEF vars
  <2> QED
    BY <2>1, <2>2, <2>3 DEF Next
<1> QED
  BY <1>1, <1>2, UpgradeStarts, PTL DEF Spec

-----------------------------------------------------------------------------
(* What was imported stays, once. *)

\* A hash names one row of its table.
Unique(table) == \A r, t \in table : r.id = t.id => r = t

IdsAreUnique ==
  /\ Unique(squads) /\ Unique(bridges) /\ Unique(histories) /\ Unique(rates)
  /\ Unique(evidence)

LEMMA KeptUnchanged ==
  ASSUME NEW T, Unique(T)
  PROVE  Kept(T, T)
  BY DEF Kept, Unique

LEMMA KeptAppended ==
  ASSUME NEW T, NEW row, Unique(T), \A r \in T : r.id # row.id
  PROVE  Kept(T, T \cup {row}) /\ Unique(T \cup {row})
  BY DEF Kept, Unique

KeptAll ==
  /\ Kept(squads, squads') /\ Kept(bridges, bridges') /\ Kept(histories, histories')
  /\ Kept(rates, rates') /\ Kept(evidence, evidence')
  /\ \A e \in DOMAIN entries : entries'[e] = entries[e]

LEMMA RestKeeps ==
  ASSUME IdsAreUnique, UNCHANGED imported
  PROVE  KeptAll /\ IdsAreUnique'
  BY KeptUnchanged DEF KeptAll, IdsAreUnique, imported

LEMMA SquadKeeps ==
  ASSUME IdsAreUnique, NEW q, NEW s, NEW at, NEW name, StoreSquad(q, s, at, name)
  PROVE  KeptAll /\ IdsAreUnique'
<1> DEFINE row == SquadRow(q, s, at)
<1>1. /\ \A r \in squads : r.id # SquadId(q, s, at)
      /\ squads' = squads \cup {row}
      /\ \A e \in DOMAIN entries : entries'[e] = entries[e]
      /\ UNCHANGED <<bridges, histories, rates, evidence>>
  BY DEF StoreSquad, Stored
<1>2. row.id = SquadId(q, s, at)
  BY DEF SquadRow
<1> HIDE DEF row
<1>3. Kept(squads, squads') /\ Unique(squads')
  BY <1>1, <1>2, KeptAppended DEF IdsAreUnique
<1> QED
  BY <1>1, <1>3, KeptUnchanged DEF KeptAll, IdsAreUnique

LEMMA ImportKeeps ==
  ASSUME IdsAreUnique, Import
  PROVE  KeptAll /\ IdsAreUnique'
<1>1. CASE \E s \in Captured, q \in SquadFiles, at \in Times, name \in Names :
             ImportSquadCsv(q, s, at, name)
  BY <1>1, SquadKeeps DEF ImportSquadCsv
<1>2. CASE \E s \in Captured, q \in Picks, name \in Names : ImportSquadFromEntry(q, s, name)
  BY <1>2, SquadKeeps DEF ImportSquadFromEntry
<1>3. CASE \E s \in Captured, f \in VaastavFiles : ImportIdentity(s, f)
  <2>1. PICK s \in Captured, f \in VaastavFiles : ImportIdentity(s, f)
    BY <1>3
  <2> DEFINE id == [source |-> s, file |-> f]
             row == [id |-> id, status |-> BridgeStatus(s.rows, f),
                     rows |-> ProviderRows("official_fpl", s.rows, f)
                                \cup ProviderRows("vaastav", f, s.rows)]
  <2>2. /\ bridges' = bridges \cup {row} /\ \A r \in bridges : r.id # id
        /\ UNCHANGED <<entries, squads, histories, rates, evidence>>
    BY <2>1 DEF ImportIdentity, Stored
  <2>3. row.id = id
    OBVIOUS
  <2> HIDE DEF row, id
  <2> QED
    BY <2>2, <2>3, KeptAppended, KeptUnchanged DEF KeptAll, IdsAreUnique
<1>4. CASE \E s \in Captured, gw \in GWs, f \in EvidenceFiles : ImportEvidence(s, gw, f)
  <2>1. PICK s \in Captured, gw \in GWs, f \in EvidenceFiles : ImportEvidence(s, gw, f)
    BY <1>4
  <2> DEFINE id == [source |-> s, gw |-> gw, file |-> f]
             row == [id |-> id, imported |-> clock,
                     rows |-> {[row |-> r, flags |-> QualityFlags(r)] : r \in f}]
  <2>2. /\ evidence' = evidence \cup {row} /\ \A r \in evidence : r.id # id
        /\ UNCHANGED <<entries, squads, bridges, histories, rates>>
    BY <2>1 DEF ImportEvidence, Stored
  <2>3. row.id = id
    OBVIOUS
  <2> HIDE DEF row, id
  <2> QED
    BY <2>2, <2>3, KeptAppended, KeptUnchanged DEF KeptAll, IdsAreUnique
<1>5. CASE \E f \in HistoryFiles : ImportHistory(f)
  <2>1. PICK f \in HistoryFiles : ImportHistory(f)
    BY <1>5
  <2> DEFINE row ==
        [id |-> f, imported |-> clock,
         removed |-> Len(f.rows) - Cardinality(Deduplicated(f.rows)),
         rows |-> {[code |-> f.players[r.player].code, fixture |-> r.fixture, gw |-> r.gw,
                    minutes |-> r.minutes, starts |-> r.starts] : r \in Deduplicated(f.rows)}]
  <2>2. /\ histories' = histories \cup {row} /\ \A r \in histories : r.id # f
        /\ UNCHANGED <<entries, squads, bridges, rates, evidence>>
    BY <2>1 DEF ImportHistory, Stored
  <2>3. row.id = f
    OBVIOUS
  <2> HIDE DEF row
  <2> QED
    BY <2>2, <2>3, KeptAppended, KeptUnchanged DEF KeptAll, IdsAreUnique
<1>6. CASE \E h \in histories, w \in Windows : MaterializeRates(h, w)
  <2>1. PICK h \in histories, w \in Windows : MaterializeRates(h, w)
    BY <1>6
  <2> DEFINE row == [id |-> [history |-> h, windows |-> w], rows |-> RateRows(h, w)]
  <2>2. /\ rates' = rates \cup {row} /\ \A r \in rates : r.id.history # h
        /\ UNCHANGED <<entries, squads, bridges, histories, evidence>>
    BY <2>1 DEF MaterializeRates
  <2>3. row.id.history = h
    OBVIOUS
  <2> HIDE DEF row
  <2>4. \A r \in rates : r.id # row.id
    BY <2>2, <2>3
  <2> QED
    BY <2>2, <2>4, KeptAppended, KeptUnchanged DEF KeptAll, IdsAreUnique
<1> QED
  BY <1>1, <1>2, <1>3, <1>4, <1>5, <1>6 DEF Import

LEMMA StepKeeps ==
  ASSUME IdsAreUnique, [Next]_vars
  PROVE  KeptAll /\ IdsAreUnique'
<1>1. CASE Import
  BY <1>1, ImportKeeps
<1>2. CASE Upgrade
  BY <1>2, RestKeeps DEF Upgrade, Initialize, CreateTable, ReadVersion, RelaxColumn,
                         StampVersion, Kill
<1>3. CASE Tick \/ (\E a \in ModelAsks : RunModel(a)) \/ UNCHANGED vars
  BY <1>3, RestKeeps DEF Tick, RunModel, vars
<1> QED
  BY <1>1, <1>2, <1>3 DEF Next

(* Whatever is imported, again or beside it, stays as it is and is there once            *)
(* (player_history.py:225 and its like).                                                 *)
THEOREM ImportsStay == Spec => ImportsAreKept
<1>1. Init => IdsAreUnique
  BY DEF Init, IdsAreUnique, Unique
<1>2. IdsAreUnique /\ [Next]_vars => KeptAll /\ IdsAreUnique'
  BY StepKeeps
<1>3. KeptAll =>
        /\ Kept(squads, squads') /\ Kept(bridges, bridges') /\ Kept(histories, histories')
        /\ Kept(rates, rates') /\ Kept(evidence, evidence')
        /\ \A e \in DOMAIN entries : entries'[e] = entries[e]
  BY DEF KeptAll
<1> QED
  BY <1>1, <1>2, <1>3, PTL DEF Spec, ImportsAreKept

-----------------------------------------------------------------------------
(* Squads are read as they were accepted. *)

\* What holds of a squad row when it is written, and needs nothing but the row.
SquadIsWhole(q) ==
  /\ q.id.gw \in GWs
  /\ q.id.chips \in [Chips -> ChipStatuses]
  /\ q.id.source.at <= q.id.at /\ q.id.at <= q.id.source.deadline[q.id.gw]
  /\ Owned(q) \subseteq DOMAIN q.id.source.rows
  /\ LegalSquad(Joined(q.id.source, q.order), AsStored(q))

SquadsInv ==
  /\ \A e \in DOMAIN entries : entries[e] \in Names
  /\ \A q \in squads : q.id.entry \in DOMAIN entries /\ SquadIsWhole(q)

\* The row keeps whatever the validation looks at.
LEMMA RowIsLegal ==
  ASSUME NEW q, NEW s, NEW at, LegalSquad(Joined(s, q.order), q)
  PROVE  LegalSquad(Joined(s, q.order), AsStored(SquadRow(q, s, at)))
<1> DEFINE t == AsStored(SquadRow(q, s, at))
           rows == Joined(s, q.order)
<1>1. /\ t.order = q.order /\ t.bought = q.bought /\ t.sold = q.sold
      /\ t.captain = q.captain /\ t.vice = q.vice /\ t.bank = q.bank
      /\ t.free = q.free /\ t.unlimited = q.unlimited /\ t.chips = q.chips
  BY DEF AsStored, SquadRow, SquadId
<1>2. LegalSquad(rows, q)
  OBVIOUS
<1> HIDE DEF t, rows
<1>3. LegalSquad(rows, t)
  BY <1>1, <1>2 DEF LegalSquad
<1> QED
  BY <1>3 DEF t, rows

LEMMA StoredIsWhole ==
  ASSUME NEW q, NEW s, NEW at, NEW name,
         StoreSquad(q, s, at, name), q.gw \in GWs, q.chips \in [Chips -> ChipStatuses]
  PROVE  SquadIsWhole(SquadRow(q, s, at))
<1> DEFINE r == SquadRow(q, s, at)
<1>1. /\ r.id.gw = q.gw /\ r.id.chips = q.chips /\ r.id.at = at /\ r.id.source = s
      /\ r.order = q.order
  BY DEF SquadRow, SquadId
<1>2. /\ s.at <= at /\ at <= s.deadline[q.gw]
      /\ \A i \in Slots : q.order[i] \in DOMAIN s.rows
      /\ LegalSquad(Joined(s, q.order), q)
  BY DEF StoreSquad
<1>3. LegalSquad(Joined(s, q.order), AsStored(r))
  BY <1>2, RowIsLegal
<1> HIDE DEF r
<1>4. SquadIsWhole(r)
  BY <1>1, <1>2, <1>3 DEF SquadIsWhole, Owned
<1> QED
  BY <1>4 DEF r

LEMMA StoreHolds ==
  ASSUME SquadsInv, NEW q, NEW s, NEW at, NEW name \in Names,
         StoreSquad(q, s, at, name), q.gw \in GWs, q.chips \in [Chips -> ChipStatuses]
  PROVE  SquadsInv'
<1> DEFINE r == SquadRow(q, s, at)
<1>1. /\ squads' = squads \cup {r}
      /\ entries' = [e \in DOMAIN entries \cup {q.entry} |->
                       IF e \in DOMAIN entries THEN entries[e] ELSE name]
  BY DEF StoreSquad
<1>2. r.id.entry = q.entry
  BY DEF SquadRow, SquadId
<1>3. SquadIsWhole(r)
  BY StoredIsWhole
<1> HIDE DEF r
<1> QED
  BY <1>1, <1>2, <1>3 DEF SquadsInv

\* A squad of the API sells for what its snapshot says.
LEMMA EstimatedFields ==
  ASSUME NEW q \in Picks, NEW s
  PROVE  LET e == Estimated(q, s) IN e.gw \in GWs /\ e.chips \in [Chips -> ChipStatuses]
<1>1. /\ {"gw", "chips"} \subseteq DOMAIN q
      /\ q.gw \in GWs /\ q.chips \in [Chips -> ChipStatuses]
  BY SquadFilesAssumption
<1>2. Estimated(q, s).gw = q.gw /\ Estimated(q, s).chips = q.chips
  BY <1>1 DEF Estimated
<1> QED
  BY <1>1, <1>2

LEMMA SquadsStep ==
  ASSUME SquadsInv, [Next]_vars
  PROVE  SquadsInv'
<1>1. CASE \E s \in Captured, q \in SquadFiles, at \in Times, name \in Names :
             ImportSquadCsv(q, s, at, name)
  <2>1. PICK s \in Captured, q \in SquadFiles, at \in Times, name \in Names :
               StoreSquad(q, s, at, name)
    BY <1>1 DEF ImportSquadCsv
  <2> QED
    BY <2>1, StoreHolds, SquadFilesAssumption
<1>2. CASE \E s \in Captured, q \in Picks, name \in Names : ImportSquadFromEntry(q, s, name)
  <2>1. PICK s \in Captured, q \in Picks, name \in Names :
               StoreSquad(Estimated(q, s), s, clock, name)
    BY <1>2 DEF ImportSquadFromEntry
  <2> QED
    BY <2>1, StoreHolds, EstimatedFields
<1>3. CASE UNCHANGED <<squads, entries>>
  BY <1>3 DEF SquadsInv
<1> QED
  BY <1>1, <1>2, <1>3 DEF Next, Tick, RunModel, Upgrade, Import, Initialize, CreateTable,
       ReadVersion, RelaxColumn, StampVersion, Kill, ImportIdentity, ImportEvidence,
       ImportHistory, MaterializeRates, imported, vars

LEMMA SquadsAlwaysWhole == Spec => []SquadsInv
<1>1. Init => SquadsInv
  BY DEF Init, SquadsInv
<1>2. SquadsInv /\ [Next]_vars => SquadsInv'
  BY SquadsStep
<1> QED
  BY <1>1, <1>2, PTL DEF Spec

(* A squad that was imported loads again, whatever snapshots came since, and satisfies   *)
(* the CHECK constraints of its tables (lineup_store.py:100-111, storage/database.py).   *)
THEOREM StoredSquadsStayLoadable == Spec => []StoredSquadsLoad
<1>1. SquadsInv => StoredSquadsLoad
  <2> SUFFICES ASSUME SquadsInv PROVE StoredSquadsLoad
    OBVIOUS
  <2>1. ASSUME NEW q \in squads PROVE Loadable(q)
    BY <2>1 DEF SquadsInv, SquadIsWhole, Loadable, Current, Joined
  <2>2. ASSUME NEW q \in squads
        PROVE  /\ q.id.entry \in DOMAIN entries
               /\ q.id.gw \in GWs /\ q.id.bank >= 0
               /\ IF q.id.unlimited THEN q.id.free = None ELSE q.id.free \in 0 .. 5
               /\ \A i \in Slots : q.bought[i] > 0 /\ q.sold[i] > 0
               /\ q.captain # q.vice
               /\ q.id.chips \in [Chips -> ChipStatuses]
    <3> DEFINE t == AsStored(q)
    <3>1. /\ t.bought = q.bought /\ t.sold = q.sold /\ t.captain = q.captain
          /\ t.vice = q.vice /\ t.bank = q.id.bank /\ t.free = q.id.free
          /\ t.unlimited = q.id.unlimited
      BY DEF AsStored
    <3>2. LegalSquad(Joined(q.id.source, q.order), t)
      BY DEF SquadsInv, SquadIsWhole
    <3> HIDE DEF t
    <3>3. /\ t.bank >= 0
          /\ IF t.unlimited THEN t.free = None ELSE t.free \in 0 .. 5
          /\ \A i \in Slots : t.bought[i] > 0 /\ t.sold[i] > 0
          /\ t.captain # t.vice
      BY <3>2 DEF LegalSquad
    <3> QED
      BY <3>1, <3>3 DEF SquadsInv, SquadIsWhole
  <2>3. SquadTables
    BY <2>2 DEF SquadTables, SquadsInv
  <2> QED
    BY <2>1, <2>3 DEF StoredSquadsLoad
<1> QED
  BY <1>1, SquadsAlwaysWhole, PTL

-----------------------------------------------------------------------------
(* What decisions read is of their deadline or before. *)

ModelsInv ==
  \A m \in models : /\ m.ask \in ModelAsks
                     /\ m.source.at <= m.asOf /\ m.deadline = m.source.deadline[m.gw]

LEMMA ModelsAlwaysCausal == Spec => []ModelsInv
<1>1. Init => ModelsInv
  BY DEF Init, ModelsInv
<1>2. ModelsInv /\ [Next]_vars => ModelsInv'
  <2> SUFFICES ASSUME ModelsInv, [Next]_vars PROVE ModelsInv'
    OBVIOUS
  <2>1. CASE \E a \in ModelAsks : RunModel(a)
    <3>1. PICK a \in ModelAsks : RunModel(a)
      BY <2>1
    <3> DEFINE m == [ask |-> a, gw |-> a.gw, source |-> a.source, asOf |-> a.asOf,
                     deadline |-> a.source.deadline[a.gw], completed |-> clock]
    <3>2. models' = models \cup {m}
      BY <3>1 DEF RunModel
    <3>3. /\ m.ask \in ModelAsks
          /\ m.source.at <= m.asOf /\ m.deadline = m.source.deadline[m.gw]
      BY InputsAssumption
    <3> HIDE DEF m
    <3> QED
      BY <3>2, <3>3 DEF ModelsInv
  <2>2. CASE UNCHANGED models
    BY <2>2 DEF ModelsInv
  <2> QED
    BY <2>1, <2>2 DEF Next, Tick, Upgrade, Import, Initialize, CreateTable, ReadVersion,
         RelaxColumn, StampVersion, Kill, ImportSquadCsv, ImportSquadFromEntry, StoreSquad,
         ImportIdentity, ImportEvidence, ImportHistory, MaterializeRates, vars
<1> QED
  BY <1>1, <1>2, PTL DEF Spec

\* The first Gameweek of a horizon.
LEMMA FirstIsThere ==
  ASSUME NEW n \in 1 .. 3, NEW h \in Horizon(n)
  PROVE  /\ FirstGW(h) \in DOMAIN h /\ h[FirstGW(h)].gw = FirstGW(h)
         /\ \A g \in DOMAIN h : h[g] \in models
<1>1. PICK g \in 1 .. LastGW - n + 1 : h \in [g .. g + n - 1 -> models]
  BY DEF Horizon
<1>2. g \in Int /\ DOMAIN h = g .. g + n - 1 /\ g \in DOMAIN h
  BY <1>1, ImportAssumption
<1>3. \A k \in DOMAIN h : g <= k
  BY <1>2
<1>4. FirstGW(h) \in DOMAIN h
  BY <1>2, <1>3 DEF FirstGW
<1> QED
  BY <1>1, <1>2, <1>4 DEF Horizon

(* A plan rests on a squad and on runs of one snapshot, none of them later than the      *)
(* first deadline (rolling_store.py:86-176, initial_squad_store.py:36-96).               *)
THEOREM InputsStayCausal == Spec => []InputsAreCausal
<1>1. SquadsInv /\ ModelsInv => InputsAreCausal
  <2> SUFFICES ASSUME SquadsInv, ModelsInv PROVE InputsAreCausal
    OBVIOUS
  <2>1. ASSUME NEW q \in squads, NEW h \in Horizon(3), RollingAccepts(q, h)
        PROVE  LET due == h[FirstGW(h)].deadline IN
                 /\ q.id.gw = FirstGW(h)
                 /\ q.id.source.at <= q.id.at /\ q.id.at <= due
                 /\ \A g \in DOMAIN h : /\ h[g].source = q.id.source
                                        /\ h[g].source.at <= h[g].asOf
                                        /\ h[g].completed <= due
    <3> DEFINE k == FirstGW(h)
    <3>1. k \in DOMAIN h /\ h[k].gw = k /\ \A g \in DOMAIN h : h[g] \in models
      BY FirstIsThere
    <3>2. /\ h[k].gw = q.id.gw /\ h[k].source = q.id.source
          /\ \A g \in DOMAIN h : /\ h[g].source = h[k].source
                                 /\ h[g].completed <= h[k].deadline
      BY <2>1 DEF RollingAccepts, LineupAccepts, Frozen
    <3>3. /\ q.id.source.at <= q.id.at
          /\ q.id.at <= q.id.source.deadline[q.id.gw]
      BY DEF SquadsInv, SquadIsWhole
    <3>4. h[k].deadline = h[k].source.deadline[h[k].gw]
      BY <3>1 DEF ModelsInv
    <3>5. \A g \in DOMAIN h : h[g].source.at <= h[g].asOf
      BY <3>1 DEF ModelsInv
    <3> HIDE DEF k
    <3>6. /\ q.id.gw = k
          /\ q.id.source.at <= q.id.at /\ q.id.at <= h[k].deadline
          /\ \A g \in DOMAIN h : /\ h[g].source = q.id.source
                                 /\ h[g].source.at <= h[g].asOf
                                 /\ h[g].completed <= h[k].deadline
      BY <3>1, <3>2, <3>3, <3>4, <3>5
    <3> QED
      BY <3>6 DEF k
  <2>2. ASSUME NEW n \in 1 .. 3, NEW h \in Horizon(n), InitialAccepts(h)
        PROVE  \A g \in DOMAIN h : /\ h[g].source.at <= h[g].asOf
                                   /\ h[g].completed <= h[FirstGW(h)].deadline
    <3>1. \A g \in DOMAIN h : h[g] \in models
      BY FirstIsThere
    <3>2. \A g \in DOMAIN h : h[g].completed <= h[FirstGW(h)].deadline
      BY <2>2 DEF InitialAccepts
    <3> QED
      BY <3>1, <3>2 DEF ModelsInv
  <2> QED
    BY <2>1, <2>2 DEF InputsAreCausal
<1> QED
  BY <1>1, SquadsAlwaysWhole, ModelsAlwaysCausal, PTL

-----------------------------------------------------------------------------
(* Four queries, one answer. *)

\* The rows of a code, and the codes there are.
RowsOf(m, c) == {r \in m.ask.rows : r.code = c}
CodesOf(m) == {r.code : r \in m.ask.rows}

\* A player of an accepted squad has the rows of his code, and no other slot has them.
LEMMA LineupTakesCode ==
  ASSUME NEW q, NEW m, m.ask \in ModelAsks, NEW p, LineupRows(q, m, p) # {}
  PROVE  /\ Current(q)[p].code # None
         /\ Current(q)[p].code \in CodesOf(m)
         /\ LineupRows(q, m, p) = RowsOf(m, Current(q)[p].code)
<1> DEFINE code == [i \in Slots |-> Current(q)[q.order[i]].code]
<1>1. LineupRows(q, m, p) =
        {r \in m.ask.rows : \E i \in Slots : /\ q.order[i] = p /\ code[i] = r.code
                                             /\ \A j \in i + 1 .. 15 : code[j] # r.code}
  BY DEF LineupRows
<1>2. \A i \in Slots : q.order[i] = p => code[i] = Current(q)[p].code
  OBVIOUS
<1> HIDE DEF code
<1>3. PICK r \in m.ask.rows : \E i \in Slots : /\ q.order[i] = p /\ code[i] = r.code
                                               /\ \A j \in i + 1 .. 15 : code[j] # r.code
  BY <1>1
<1>4. r.code = Current(q)[p].code /\ r.code # None
  BY <1>2, <1>3, InputsAssumption
<1>5. \A t \in m.ask.rows : t \in LineupRows(q, m, p) <=> t.code = r.code
  BY <1>1, <1>2, <1>3, <1>4
<1>6. LineupRows(q, m, p) \subseteq m.ask.rows
  BY <1>1
<1> QED
  BY <1>3, <1>4, <1>5, <1>6 DEF RowsOf, CodesOf

\* The three sums over a player's fixtures are one.
LEMMA ProjectionsAgree ==
  \A m, c : c \in CodesOf(m) =>
    /\ c \in DOMAIN Aggregated(m)
    /\ Aggregated(m)[c] = LineupProjection(RowsOf(m, c))
    /\ Aggregated(m)[c] = TransferProjection(RowsOf(m, c))
<1> SUFFICES ASSUME NEW m, NEW c, c \in CodesOf(m)
             PROVE  /\ c \in DOMAIN Aggregated(m)
                    /\ Aggregated(m)[c] = LineupProjection(RowsOf(m, c))
                    /\ Aggregated(m)[c] = TransferProjection(RowsOf(m, c))
  OBVIOUS
<1> DEFINE rows == RowsOf(m, c)
<1>1. /\ c \in DOMAIN Aggregated(m)
      /\ Aggregated(m)[c] =
           [xp |-> TotalXp(rows),
            variance |-> IF \E r \in rows : r.variance = None THEN None ELSE TotalVariance(rows),
            flags |-> UNION {r.flags : r \in rows},
            appears |-> AppearanceProbability(rows)]
  BY Zenon DEF Aggregated, RowsOf, CodesOf
<1> HIDE DEF rows
<1>2. Aggregated(m)[c] = LineupProjection(rows)
  BY <1>1, Zenon DEF LineupProjection
<1>3. Aggregated(m)[c] = TransferProjection(rows)
  BY <1>1, Zenon DEF TransferProjection
<1> QED
  BY <1>1, <1>2, <1>3 DEF rows

\* What the queries make of one player.
Priced(price, projection) ==
  [now |-> price, bought |-> price, sold |-> price, projection |-> projection]

\* Whom a run has projections for.
Known(rows, m, S) ==
  {p \in S : rows[p].code # None /\ rows[p].code \in DOMAIN Aggregated(m)}

LEMMA TransferFinds ==
  ASSUME NEW q, NEW m
  PROVE  LET rows == Current(q)
             t == TransferInputs(q, m)
             on == OnSale(rows) \ Owned(q)
         IN /\ t.players = [p \in Known(rows, m, on) |->
                              Priced(rows[p].price, Aggregated(m)[rows[p].code])]
            /\ t.unavailable = (DOMAIN rows \ Owned(q)) \ OnSale(rows)
            /\ t.missing = on \ Known(rows, m, on)
<1> DEFINE rows == Current(q)
           t == TransferInputs(q, m)
           on == OnSale(rows) \ Owned(q)
           others == DOMAIN rows \ Owned(q)
           projected == {p \in others \cap OnSale(rows) :
                           rows[p].code # None /\ RowsOf(m, rows[p].code) # {}}
<1>1. /\ t.players = [p \in projected |->
                        Priced(rows[p].price, TransferProjection(RowsOf(m, rows[p].code)))]
      /\ t.unavailable = others \ OnSale(rows)
      /\ t.missing = (others \cap OnSale(rows)) \ projected
  BY DEF TransferInputs, RowsOf, Priced
<1>2. others \cap OnSale(rows) = on
  BY DEF OnSale
<1>3. \A c : RowsOf(m, c) # {} <=> c \in CodesOf(m)
  BY DEF RowsOf, CodesOf
<1>4. DOMAIN Aggregated(m) = CodesOf(m)
  BY DEF Aggregated, CodesOf
<1>5. projected = Known(rows, m, on)
  BY <1>2, <1>3, <1>4 DEF Known
<1>6. ASSUME NEW p \in projected
      PROVE  Aggregated(m)[rows[p].code] = TransferProjection(RowsOf(m, rows[p].code))
  <2>1. rows[p].code \in CodesOf(m)
    BY <1>3
  <2>2. QED
    BY ONLY <2>1, ProjectionsAgree
<1> HIDE DEF projected
<1> QED
  BY <1>1, <1>2, <1>5, <1>6

LEMMA InitialFinds ==
  ASSUME NEW h, NEW g \in DOMAIN h
  PROVE  LET rows == h[FirstGW(h)].source.rows IN
           InitialInputs(h)[g].players =
             [p \in Known(rows, h[g], OnSale(rows)) |->
                Priced(rows[p].price, Aggregated(h[g])[rows[p].code])]
  BY DEF InitialInputs, Known, Priced

LEMMA RollingFinds ==
  ASSUME NEW q, NEW h, NEW g \in DOMAIN h
  PROVE  LET rows == Current(q)
             own == LineupInputs(q, h[FirstGW(h)])
             known == Known(rows, h[g], Wanted(q))
             r == RollingInputs(q, h)[g]
         IN /\ DOMAIN r.players = known
            /\ \A p \in known \ Owned(q) :
                 r.players[p] = Priced(rows[p].price, Aggregated(h[g])[rows[p].code])
            /\ \A p \in known \cap Owned(q) :
                 r.players[p] = [now |-> own[p].now, bought |-> own[p].bought,
                                 sold |-> own[p].sold,
                                 projection |-> Aggregated(h[g])[rows[p].code]]
            /\ r.transferable = known \cap OnSale(rows)
            /\ r.unavailable = DOMAIN rows \ Wanted(q)
            /\ r.missing = Wanted(q) \ known
  BY DEF RollingInputs, Known, Priced

\* What the rolling boundary accepts the boundary without a squad accepts.
LEMMA FrozenIsEnough ==
  ASSUME NEW h \in Horizon(3), Frozen(h)
  PROVE  InitialAccepts(h)
<1> DEFINE k == FirstGW(h)
<1>1. k \in DOMAIN h
  BY FirstIsThere
<1>2. /\ \A g \in DOMAIN h : /\ h[g].source = h[k].source
                             /\ h[g].ask.version = h[k].ask.version
                             /\ h[g].asOf = h[k].asOf
      /\ h[k].asOf <= h[k].deadline
      /\ \A g \in DOMAIN h : h[g].completed <= h[k].deadline
      /\ \A g, j \in DOMAIN h : g < j => h[g].deadline < h[j].deadline
  BY DEF Frozen
<1>3. \A g \in DOMAIN h : g \in Int /\ g < g + 1
  <2>1. PICK g \in 1 .. LastGW - 3 + 1 : h \in [g .. g + 3 - 1 -> models]
    BY DEF Horizon
  <2> QED
    BY <2>1, ImportAssumption
<1> HIDE DEF k
<1>4. /\ {h[g].source : g \in DOMAIN h} = {h[k].source}
      /\ {h[g].ask.version : g \in DOMAIN h} = {h[k].ask.version}
      /\ {h[g].asOf : g \in DOMAIN h} = {h[k].asOf}
  BY <1>1, <1>2
<1>5. \A x : Cardinality({x}) = 1
  BY FS_Singleton
<1>6. \A g \in DOMAIN h : g + 1 \in DOMAIN h => h[g].deadline < h[g + 1].deadline
  BY <1>2, <1>3
<1> QED
  BY <1>2, <1>4, <1>5, <1>6 DEF InitialAccepts, k

(* Whatever squads and runs are stored: for an accepted plan the lineup and transfer     *)
(* boundaries make up its first week's pool, with one price and projection each and the  *)
(* same players left out, and the boundary without a squad accepts the same runs and     *)
(* offers exactly whom the plan may buy (lineup_store.py:165-215, transfer_store.py:     *)
(* 36-119, rolling_store.py:43-256, initial_squad_store.py:36-169).                      *)
THEOREM BoundariesAlwaysAgree == Spec => []BoundariesAgree
<1>1. SquadsInv /\ ModelsInv => BoundariesAgree
  <2> SUFFICES ASSUME SquadsInv, ModelsInv,
                      NEW q \in squads, NEW h \in Horizon(3), RollingAccepts(q, h)
               PROVE  LET first == FirstGW(h)
                          lineup == LineupInputs(q, h[first])
                          transfer == TransferInputs(q, h[first])
                          rolling == RollingInputs(q, h)
                          initial == InitialInputs(h)
                      IN /\ InitialAccepts(h)
                         /\ DOMAIN rolling[first].players = DOMAIN lineup \cup DOMAIN transfer.players
                         /\ \A p \in DOMAIN lineup : rolling[first].players[p] = lineup[p]
                         /\ \A p \in DOMAIN transfer.players :
                              rolling[first].players[p] = transfer.players[p]
                         /\ rolling[first].unavailable = transfer.unavailable
                         /\ rolling[first].missing = transfer.missing
                         /\ \A g \in DOMAIN h :
                              /\ rolling[g].transferable = DOMAIN initial[g].players
                              /\ \A p \in rolling[g].transferable :
                                   /\ rolling[g].players[p].projection
                                        = initial[g].players[p].projection
                                   /\ rolling[g].players[p].now = initial[g].players[p].now
                                   /\ p \notin Owned(q) =>
                                        rolling[g].players[p] = initial[g].players[p]
    BY DEF BoundariesAgree
  <2> DEFINE first == FirstGW(h)
             m == h[first]
             rows == Current(q)
             lineup == LineupInputs(q, m)
             transfer == TransferInputs(q, m)
             rolling == RollingInputs(q, h)
             initial == InitialInputs(h)
  <2>1. first \in DOMAIN h /\ m.ask \in ModelAsks
    BY FirstIsThere DEF ModelsInv
  <2>2. /\ \A p \in Owned(q) : LineupRows(q, m, p) # {}
        /\ Owned(q) \subseteq DOMAIN rows
    BY DEF RollingAccepts, LineupAccepts, Loadable
  <2>3. InitialAccepts(h)
    BY FrozenIsEnough DEF RollingAccepts
  <2>4. h[first].source.rows = rows
    BY DEF RollingAccepts, Current
  <2>5. ASSUME NEW p \in Owned(q)
        PROVE  /\ p \in Known(rows, m, Owned(q))
               /\ lineup[p].now = rows[p].price
               /\ lineup[p] = [now |-> lineup[p].now, bought |-> lineup[p].bought,
                               sold |-> lineup[p].sold,
                               projection |-> Aggregated(m)[rows[p].code]]
    <3>1. /\ rows[p].code # None /\ rows[p].code \in CodesOf(m)
          /\ LineupRows(q, m, p) = RowsOf(m, rows[p].code)
      BY <2>1, <2>2, LineupTakesCode
    <3>2. /\ rows[p].code \in DOMAIN Aggregated(m)
          /\ Aggregated(m)[rows[p].code] = LineupProjection(LineupRows(q, m, p))
      <4>1. /\ rows[p].code \in DOMAIN Aggregated(m)
            /\ Aggregated(m)[rows[p].code] = LineupProjection(RowsOf(m, rows[p].code))
        <5>1. rows[p].code \in CodesOf(m)
          BY <3>1
        <5> HIDE DEF m, rows, lineup, transfer, rolling, initial
        <5> QED
          BY ONLY <5>1, ProjectionsAgree
      <4> QED
        BY <3>1, <4>1
    <3> DEFINE slot == CHOOSE i \in Slots : q.order[i] = p
    <3>3. lineup[p] = [now |-> rows[p].price, bought |-> q.bought[slot], sold |-> q.sold[slot],
                       projection |-> LineupProjection(LineupRows(q, m, p))]
      BY DEF LineupInputs
    <3> HIDE DEF slot, lineup, m, rows
    <3> QED
      BY <3>1, <3>2, <3>3 DEF Known
  <2>6. DOMAIN lineup = Owned(q)
    BY DEF LineupInputs
  <2> DEFINE on == OnSale(rows) \ Owned(q)
  <2>7. /\ transfer.players = [p \in Known(rows, m, on) |->
                                 Priced(rows[p].price, Aggregated(m)[rows[p].code])]
        /\ transfer.unavailable = (DOMAIN rows \ Owned(q)) \ OnSale(rows)
        /\ transfer.missing = on \ Known(rows, m, on)
    BY TransferFinds
  <2>8. ASSUME NEW g \in DOMAIN h
        PROVE  /\ DOMAIN rolling[g].players = Known(rows, h[g], Wanted(q))
               /\ \A p \in Known(rows, h[g], Wanted(q)) \ Owned(q) :
                    rolling[g].players[p]
                      = Priced(rows[p].price, Aggregated(h[g])[rows[p].code])
               /\ \A p \in Known(rows, h[g], Wanted(q)) \cap Owned(q) :
                    rolling[g].players[p] =
                      [now |-> lineup[p].now, bought |-> lineup[p].bought,
                       sold |-> lineup[p].sold,
                       projection |-> Aggregated(h[g])[rows[p].code]]
               /\ rolling[g].transferable = Known(rows, h[g], Wanted(q)) \cap OnSale(rows)
               /\ rolling[g].unavailable = DOMAIN rows \ Wanted(q)
               /\ rolling[g].missing = Wanted(q) \ Known(rows, h[g], Wanted(q))
    BY RollingFinds
  <2>9. ASSUME NEW g \in DOMAIN h
        PROVE  initial[g].players = [p \in Known(rows, h[g], OnSale(rows)) |->
                                       Priced(rows[p].price, Aggregated(h[g])[rows[p].code])]
    <3>1. PICK table : table = h[first].source.rows
      OBVIOUS
    <3>2. InitialInputs(h)[g].players = [p \in Known(table, h[g], OnSale(table)) |->
                                           Priced(table[p].price, Aggregated(h[g])[table[p].code])]
      BY <3>1, InitialFinds
    <3>3. table = rows
      BY <2>4, <3>1
    <3> HIDE DEF rows
    <3> QED
      BY <3>2, <3>3
  <2>10. ASSUME NEW g \in DOMAIN h, NEW p
         PROVE  Priced(rows[p].price, Aggregated(h[g])[rows[p].code]).projection
                  = Aggregated(h[g])[rows[p].code]
                /\ Priced(rows[p].price, Aggregated(h[g])[rows[p].code]).now = rows[p].price
    BY DEF Priced
  <2> DEFINE known(g) == Known(rows, h[g], Wanted(q))
  <2>11. Wanted(q) = OnSale(rows) \cup Owned(q)
    BY DEF Wanted
  <2>12. ASSUME NEW g \in DOMAIN h, NEW S \in SUBSET Wanted(q)
         PROVE  Known(rows, h[g], S) = known(g) \cap S
    BY DEF Known
  <2> HIDE DEF m, rows, lineup, transfer, rolling, initial, first, known, on
  <2>14. Known(rows, m, Owned(q)) = Owned(q)
    BY <2>5 DEF Known
  <2>15. m = h[first]
    BY DEF m
  <2>16. /\ Owned(q) \subseteq known(first)
         /\ Known(rows, m, on) = known(first) \cap on
    <3>1. on \subseteq Wanted(q) /\ Owned(q) \subseteq Wanted(q)
      BY <2>11 DEF on
    <3> QED
      BY <2>1, <2>12, <2>14, <2>15, <3>1
  <2>17. /\ DOMAIN rolling[first].players = DOMAIN lineup \cup DOMAIN transfer.players
         /\ \A p \in DOMAIN lineup : rolling[first].players[p] = lineup[p]
         /\ \A p \in DOMAIN transfer.players :
              rolling[first].players[p] = transfer.players[p]
    <3>1. DOMAIN rolling[first].players = DOMAIN lineup \cup DOMAIN transfer.players
      <4>1. DOMAIN rolling[first].players = known(first) /\ known(first) \subseteq Wanted(q)
        BY <2>1, <2>8 DEF known, Known
      <4>2. DOMAIN transfer.players = known(first) \cap on
        BY <2>7, <2>16
      <4> QED
        BY <2>6, <2>11, <2>16, <4>1, <4>2 DEF on
    <3>2. ASSUME NEW p \in DOMAIN lineup
          PROVE  rolling[first].players[p] = lineup[p]
      <4>1. p \in known(first) \cap Owned(q)
        BY <2>6, <2>16
      <4> QED
        BY <2>1, <2>5, <2>8, <2>15, <4>1 DEF known
    <3>3. ASSUME NEW p \in DOMAIN transfer.players
          PROVE  rolling[first].players[p] = transfer.players[p]
      <4>1. p \in Known(rows, m, on)
        BY <2>7
      <4>2. p \in known(first) \ Owned(q)
        BY <2>16, <4>1 DEF on
      <4>3. transfer.players[p] = Priced(rows[p].price, Aggregated(m)[rows[p].code])
        BY <2>7, <4>1
      <4> QED
        BY <2>1, <2>8, <2>15, <4>2, <4>3 DEF known
    <3> QED
      BY <3>1, <3>2, <3>3
  <2>18. /\ rolling[first].unavailable = transfer.unavailable
         /\ rolling[first].missing = transfer.missing
    <3>1. /\ rolling[first].unavailable = DOMAIN rows \ Wanted(q)
          /\ rolling[first].missing = Wanted(q) \ known(first)
      BY <2>1, <2>8 DEF known
    <3> QED
      BY <2>7, <2>11, <2>16, <3>1 DEF on
  <2>19. ASSUME NEW g \in DOMAIN h
         PROVE  /\ rolling[g].transferable = DOMAIN initial[g].players
                /\ \A p \in rolling[g].transferable :
                     /\ rolling[g].players[p].projection = initial[g].players[p].projection
                     /\ rolling[g].players[p].now = initial[g].players[p].now
                     /\ p \notin Owned(q) => rolling[g].players[p] = initial[g].players[p]
    <3>1. Known(rows, h[g], OnSale(rows)) = known(g) \cap OnSale(rows)
      BY <2>11, <2>12
    <3>2. rolling[g].transferable = known(g) \cap OnSale(rows)
      BY <2>8 DEF known
    <3>3. ASSUME NEW p \in rolling[g].transferable
          PROVE  initial[g].players[p] = Priced(rows[p].price, Aggregated(h[g])[rows[p].code])
      BY <2>9, <3>1, <3>2
    <3>4. ASSUME NEW p \in rolling[g].transferable
          PROVE  /\ rolling[g].players[p].projection = initial[g].players[p].projection
                 /\ rolling[g].players[p].now = initial[g].players[p].now
                 /\ p \notin Owned(q) => rolling[g].players[p] = initial[g].players[p]
      <4>1. CASE p \notin Owned(q)
        <5>1. rolling[g].players[p] = Priced(rows[p].price, Aggregated(h[g])[rows[p].code])
          BY <2>8, <3>2, <4>1 DEF known
        <5> QED
          BY <3>3, <5>1
      <4>2. CASE p \in Owned(q)
        <5>1. rolling[g].players[p] =
                [now |-> lineup[p].now, bought |-> lineup[p].bought, sold |-> lineup[p].sold,
                 projection |-> Aggregated(h[g])[rows[p].code]]
          BY <2>8, <3>2, <4>2 DEF known
        <5>2. lineup[p].now = rows[p].price
          BY <2>5, <4>2
        <5> QED
          BY <2>10, <3>3, <4>2, <5>1, <5>2
      <4> QED
        BY <4>1, <4>2
    <3> QED
      BY <2>9, <3>1, <3>2, <3>4
  <2> QED
    BY <2>3, <2>17, <2>18, <2>19 DEF first, m, lineup, transfer, rolling, initial
<1> QED
  BY <1>1, SquadsAlwaysWhole, ModelsAlwaysCausal, PTL

-----------------------------------------------------------------------------
(* What is imported is exact. *)

BridgeOf(s, f) ==
  [id |-> [source |-> s, file |-> f], status |-> BridgeStatus(s.rows, f),
   rows |-> ProviderRows("official_fpl", s.rows, f) \cup ProviderRows("vaastav", f, s.rows)]

HistoryRow(f, r) ==
  [code |-> f.players[r.player].code, fixture |-> r.fixture, gw |-> r.gw,
   minutes |-> r.minutes, starts |-> r.starts]

HistoryRows(f) == {HistoryRow(f, r) : r \in Deduplicated(f.rows)}

\* Every row is the function of its inputs that made it, and these passed their checks.
BridgesMade ==
  \A b \in bridges : \E s \in Snapshots, f \in VaastavFiles :
    /\ Canonical(s.rows) /\ Canonical(f) /\ Codes(s.rows) \cap Codes(f) # {}
    /\ b = BridgeOf(s, f)

HistoriesMade ==
  \A h \in histories :
    /\ h.id \in HistoryFiles /\ Consistent(h.id, Deduplicated(h.id.rows))
    /\ h.removed = Len(h.id.rows) - Cardinality(Deduplicated(h.id.rows))
    /\ h.rows = HistoryRows(h.id)

RatesMade ==
  /\ \A r \in rates : /\ r.id.history \in histories /\ r.id.windows \in Windows
                      /\ r.rows = RateRows(r.id.history, r.id.windows)
  /\ \A r, t \in rates : r.id.history = t.id.history => r = t

EvidenceMade ==
  \A e \in evidence :
    /\ ValidEvidence(e.id.file) /\ e.id.gw \in GWs
    /\ e.rows = {[row |-> r, flags |-> QualityFlags(r)] : r \in e.id.file}
    /\ \A r \in e.id.file : r.observed <= e.imported /\ Matches(e.id.source, r)

RowsMade == BridgesMade /\ HistoriesMade /\ RatesMade /\ EvidenceMade

\* Imports make rows this way, and nothing else touches them.
LEMMA ImportMakes ==
  ASSUME RowsMade, Import
  PROVE  RowsMade'
<1>1. CASE \E s \in Captured, q \in SquadFiles, at \in Times, name \in Names :
             ImportSquadCsv(q, s, at, name)
  BY <1>1 DEF ImportSquadCsv, StoreSquad, RowsMade, BridgesMade, HistoriesMade, RatesMade,
              EvidenceMade
<1>2. CASE \E s \in Captured, q \in Picks, name \in Names : ImportSquadFromEntry(q, s, name)
  BY <1>2 DEF ImportSquadFromEntry, StoreSquad, RowsMade, BridgesMade, HistoriesMade,
              RatesMade, EvidenceMade
<1>3. CASE \E s \in Captured, f \in VaastavFiles : ImportIdentity(s, f)
  <2>1. PICK s \in Captured, f \in VaastavFiles : ImportIdentity(s, f)
    BY <1>3
  <2>2. /\ bridges' = bridges \cup {BridgeOf(s, f)}
        /\ Canonical(s.rows) /\ Canonical(f) /\ Codes(s.rows) \cap Codes(f) # {}
        /\ UNCHANGED <<histories, rates, evidence>>
    BY <2>1 DEF ImportIdentity, BridgeOf
  <2>3. s \in Snapshots
    BY DEF Captured
  <2>4. BridgesMade'
    BY <2>2, <2>3 DEF RowsMade, BridgesMade
  <2>5. QED
    BY <2>2, <2>4 DEF RowsMade, HistoriesMade, RatesMade, EvidenceMade
<1>4. CASE \E s \in Captured, gw \in GWs, f \in EvidenceFiles : ImportEvidence(s, gw, f)
  <2>1. PICK s \in Captured, gw \in GWs, f \in EvidenceFiles : ImportEvidence(s, gw, f)
    BY <1>4
  <2> DEFINE row == [id |-> [source |-> s, gw |-> gw, file |-> f], imported |-> clock,
                     rows |-> {[row |-> r, flags |-> QualityFlags(r)] : r \in f}]
  <2>2. /\ evidence' = evidence \cup {row} /\ ValidEvidence(f)
        /\ \A r \in f : r.observed <= clock /\ Matches(s, r)
        /\ UNCHANGED <<bridges, histories, rates>>
    BY <2>1 DEF ImportEvidence
  <2>3. /\ row.id.file = f /\ row.id.gw = gw /\ row.id.source = s /\ row.imported = clock
        /\ row.rows = {[row |-> r, flags |-> QualityFlags(r)] : r \in f}
    OBVIOUS
  <2> HIDE DEF row
  <2>4. EvidenceMade'
    BY <2>2, <2>3 DEF RowsMade, EvidenceMade
  <2>5. QED
    BY <2>2, <2>4 DEF RowsMade, BridgesMade, HistoriesMade, RatesMade
<1>5. CASE \E f \in HistoryFiles : ImportHistory(f)
  <2>1. PICK f \in HistoryFiles : ImportHistory(f)
    BY <1>5
  <2> DEFINE row == [id |-> f, imported |-> clock,
                     removed |-> Len(f.rows) - Cardinality(Deduplicated(f.rows)),
                     rows |-> HistoryRows(f)]
  <2>2. /\ histories' = histories \cup {row} /\ Consistent(f, Deduplicated(f.rows))
        /\ UNCHANGED <<bridges, rates, evidence>>
    BY <2>1 DEF ImportHistory, HistoryRows, HistoryRow
  <2>3. /\ row.id = f /\ row.rows = HistoryRows(f)
        /\ row.removed = Len(f.rows) - Cardinality(Deduplicated(f.rows))
    OBVIOUS
  <2> HIDE DEF row
  <2>4. HistoriesMade'
    BY <2>2, <2>3 DEF RowsMade, HistoriesMade
  <2>5. QED
    BY <2>2, <2>4 DEF RowsMade, BridgesMade, RatesMade, EvidenceMade
<1>6. CASE \E h \in histories, w \in Windows : MaterializeRates(h, w)
  <2>1. PICK h \in histories, w \in Windows : MaterializeRates(h, w)
    BY <1>6
  <2> DEFINE row == [id |-> [history |-> h, windows |-> w], rows |-> RateRows(h, w)]
  <2>2. /\ rates' = rates \cup {row} /\ \A r \in rates : r.id.history # h
        /\ UNCHANGED <<bridges, histories, evidence>>
    BY <2>1 DEF MaterializeRates
  <2>3. row.id.history = h /\ row.id.windows = w /\ row.rows = RateRows(h, w)
    OBVIOUS
  <2> HIDE DEF row
  <2>4. RatesMade'
    BY <2>2, <2>3 DEF RowsMade, RatesMade
  <2>5. QED
    BY <2>2, <2>4 DEF RowsMade, BridgesMade, HistoriesMade, EvidenceMade
<1>7. QED
  BY <1>1, <1>2, <1>3, <1>4, <1>5, <1>6 DEF Import

LEMMA RowsAlwaysMade == Spec => []RowsMade
<1>1. Init => RowsMade
  BY DEF Init, RowsMade, BridgesMade, HistoriesMade, RatesMade, EvidenceMade
<1>2. RowsMade /\ [Next]_vars => RowsMade'
  <2>1. SUFFICES ASSUME RowsMade, [Next]_vars PROVE RowsMade'
    OBVIOUS
  <2>2. CASE Import
    BY <2>1, <2>2, ImportMakes
  <2>3. CASE UNCHANGED imported
    BY <2>1, <2>3 DEF imported, RowsMade, BridgesMade, HistoriesMade, RatesMade, EvidenceMade
  <2>4. Upgrade \/ Tick \/ (\E a \in ModelAsks : RunModel(a)) \/ UNCHANGED vars
           => UNCHANGED imported
    BY DEF Upgrade, Initialize, CreateTable, ReadVersion, RelaxColumn, StampVersion, Kill,
           Tick, RunModel, vars
  <2>5. QED
    BY <2>1, <2>2, <2>3, <2>4 DEF Next
<1>3. QED
  BY <1>1, <1>2, PTL DEF Spec

Alone(side) == {r \in side : r.method = "provider_code_only"}

\* One provider's side of a bridge.
SideHolds(side, provider, mine, others) ==
  /\ \A r \in side : /\ r.provider = provider /\ r.code \in Codes(mine)
                     /\ r.method = "shared_player_code" <=> r.code \in Codes(others)
  /\ \A c \in Codes(mine) : \E r \in side : r.code = c
  /\ \A r, t \in side : r.code = t.code => r = t
  /\ Cardinality(Codes(mine) \cap Codes(others)) + Cardinality(Alone(side))
       = Cardinality(side)

LEMMA SideIsExact ==
  ASSUME NEW provider, NEW mine, NEW others, Canonical(mine), IsFiniteSet(DOMAIN mine)
  PROVE  SideHolds(ProviderRows(provider, mine, others), provider, mine, others)
<1> DEFINE side == ProviderRows(provider, mine, others)
           shared == {r \in side : r.method = "shared_player_code"}
           alone == Alone(side)
           row == [p \in DOMAIN mine |->
                     [provider |-> provider, player |-> p, code |-> mine[p].code,
                      method |-> IF mine[p].code \in Codes(others)
                                 THEN "shared_player_code" ELSE "provider_code_only",
                      misnamed |-> mine[p].code \in Mismatched(mine, others)]]
<1>1. side = {row[p] : p \in DOMAIN mine}
  BY DEF ProviderRows
<1>2. \A p \in DOMAIN mine :
        /\ row[p].provider = provider /\ row[p].code = mine[p].code
        /\ row[p].method = IF mine[p].code \in Codes(others)
                           THEN "shared_player_code" ELSE "provider_code_only"
  OBVIOUS
<1>3. DOMAIN row = DOMAIN mine
  OBVIOUS
<1> HIDE DEF row, side
<1>4. \A r \in side : /\ r.provider = provider /\ r.code \in Codes(mine)
                      /\ r.method = "shared_player_code" <=> r.code \in Codes(others)
                      /\ r.method \in {"shared_player_code", "provider_code_only"}
  BY <1>1, <1>2 DEF Codes
<1>5. \A c \in Codes(mine) : \E r \in side : r.code = c
  BY <1>1, <1>2 DEF Codes
<1>6. \A r, t \in side : r.code = t.code => r = t
  BY <1>1, <1>2 DEF Canonical
<1>7. IsFiniteSet(side)
  <2>1. row \in Surjection(DOMAIN mine, side)
    <3>1. row \in [DOMAIN mine -> side]
      BY <1>1, <1>3 DEF row
    <3>2. QED
      BY <1>1, <3>1 DEF Surjection
  <2>2. QED
    BY <2>1, FS_Surjection
<1>8. IsFiniteSet(shared) /\ IsFiniteSet(alone)
  BY <1>7, FS_Subset DEF Alone
<1>9. Cardinality(Codes(mine) \cap Codes(others)) = Cardinality(shared)
  <2> DEFINE b == [r \in shared |-> r.code]
  <2>1. b \in [shared -> Codes(mine) \cap Codes(others)]
    BY <1>4
  <2>2. \A x, y \in shared : b[x] = b[y] => x = y
    BY <1>6
  <2>3. \A c \in Codes(mine) \cap Codes(others) : \E r \in shared : b[r] = c
    BY <1>4, <1>5
  <2> HIDE DEF shared
  <2>4. b \in Bijection(shared, Codes(mine) \cap Codes(others))
    BY <2>1, <2>2, <2>3 DEF Bijection, Injection, Surjection, IsInjective
  <2> HIDE DEF b
  <2>5. QED
    BY <1>8, <2>4, FS_Bijection DEF ExistsBijection
<1>10. Cardinality(shared) + Cardinality(alone) = Cardinality(side)
  <2>1. side = shared \cup alone /\ shared \cap alone = {}
    BY <1>4 DEF Alone
  <2> HIDE DEF shared, alone
  <2>2. Cardinality(shared \cup alone)
          = Cardinality(shared) + Cardinality(alone) - Cardinality(shared \cap alone)
    BY <1>8, FS_Union
  <2>3. /\ Cardinality(shared) \in Nat /\ Cardinality(alone) \in Nat
        /\ Cardinality(shared \cap alone) = 0
    BY <1>8, <2>1, FS_CardinalityType, FS_EmptySet
  <2>4. QED
    BY <2>1, <2>2, <2>3
<1>11. QED
  BY <1>4, <1>5, <1>6, <1>9, <1>10 DEF side, SideHolds

\* A bridge has both sides, and links players by code alone.
LEMMA BridgeIsExact ==
  ASSUME NEW s \in Snapshots, NEW f \in VaastavFiles, Canonical(s.rows), Canonical(f),
         Codes(s.rows) \cap Codes(f) # {}
  PROVE  LET b == BridgeOf(s, f)
             of(p) == {r \in b.rows : r.provider = p}
             matched == {r.code : r \in {t \in b.rows : t.method = "shared_player_code"}}
         IN  /\ \A p \in Providers : of(p) # {}
             /\ \A p \in Providers : \A r, t \in of(p) : r.code = t.code => r = t
             /\ \A p \in Providers :
                  Cardinality(matched)
                    + Cardinality({r \in of(p) : r.method = "provider_code_only"})
                      = Cardinality(of(p))
             /\ \A r \in b.rows : r.method = "shared_player_code" <=>
                  \E t \in b.rows : t.code = r.code /\ t.provider # r.provider
             /\ b.status = "completed" =>
                  \A p \in DOMAIN s.rows : \E v \in DOMAIN f :
                    f[v].code = s.rows[p].code /\ f[v].name = s.rows[p].name
<1> DEFINE b == BridgeOf(s, f)
           of(p) == {r \in b.rows : r.provider = p}
           matched == {r.code : r \in {t \in b.rows : t.method = "shared_player_code"}}
           ours == ProviderRows("official_fpl", s.rows, f)
           theirs == ProviderRows("vaastav", f, s.rows)
           common == Codes(s.rows) \cap Codes(f)
<1>1. /\ b.rows = ours \cup theirs /\ b.status = BridgeStatus(s.rows, f)
  BY DEF BridgeOf
<1>2. IsFiniteSet(DOMAIN s.rows) /\ IsFiniteSet(DOMAIN f)
  BY TablesAssumption
<1>3. SideHolds(ours, "official_fpl", s.rows, f)
  BY <1>2, SideIsExact
<1>4. SideHolds(theirs, "vaastav", f, s.rows)
  BY <1>2, SideIsExact
<1>5. Codes(f) \cap Codes(s.rows) = common
  OBVIOUS
<1> HIDE DEF ours, theirs, b
<1>6. of("official_fpl") = ours /\ of("vaastav") = theirs
  BY <1>1, <1>3, <1>4 DEF SideHolds
<1>7. matched = common
  BY <1>1, <1>3, <1>4 DEF SideHolds
<1>8. Providers = {"official_fpl", "vaastav"}
  BY DEF Providers
<1>9. ours # {} /\ theirs # {}
  BY <1>3, <1>4 DEF SideHolds
<1>10. \A r \in b.rows : r.method = "shared_player_code" <=>
         \E t \in b.rows : t.code = r.code /\ t.provider # r.provider
  BY <1>1, <1>3, <1>4 DEF SideHolds
<1>11. ASSUME b.status = "completed", NEW p \in DOMAIN s.rows
       PROVE  \E v \in DOMAIN f : f[v].code = s.rows[p].code /\ f[v].name = s.rows[p].name
  <2>1. Codes(s.rows) \subseteq Codes(f) /\ Mismatched(s.rows, f) = {}
    BY <1>1, <1>11 DEF BridgeStatus
  <2>2. s.rows[p].code \in Codes(s.rows) \cap Codes(f)
    BY <2>1 DEF Codes
  <2>3. NameOf(s.rows, s.rows[p].code) = NameOf(f, s.rows[p].code)
    BY <2>1, <2>2 DEF Mismatched
  <2>4. NameOf(s.rows, s.rows[p].code) = s.rows[p].name
    BY DEF NameOf, Canonical
  <2>5. \E v \in DOMAIN f : f[v].code = s.rows[p].code
    BY <2>2 DEF Codes
  <2>6. \E v \in DOMAIN f : f[v].code = s.rows[p].code
                            /\ NameOf(f, s.rows[p].code) = f[v].name
    BY <2>5 DEF NameOf
  <2>7. QED
    BY <2>3, <2>4, <2>6
<1>12. ASSUME NEW p \in Providers
       PROVE  /\ of(p) # {}
              /\ \A r, t \in of(p) : r.code = t.code => r = t
              /\ Cardinality(matched) + Cardinality(Alone(of(p))) = Cardinality(of(p))
  <2> HIDE DEF matched, of, common
  <2>1. CASE p = "official_fpl"
    BY <1>3, <1>6, <1>7, <1>9, <2>1 DEF SideHolds, common
  <2>2. CASE p = "vaastav"
    BY <1>4, <1>5, <1>6, <1>7, <1>9, <2>2 DEF SideHolds
  <2>3. QED
    BY <1>8, <2>1, <2>2
<1>13. QED
  BY <1>10, <1>11, <1>12 DEF b, Alone

\* A total is a sum.
LEMMA TotalIsSum ==
  ASSUME NEW S, IsFiniteSet(S), NEW f, Numbers(f, S), \A r \in S : f[r] = r.minutes
  PROVE  TotalOf(S) = Sum(f, S)
<1> DEFINE Solves(g) == g = [s \in SUBSET S |->
                               IF s = {} THEN 0
                               ELSE Chosen(s).minutes + g[s \ {Chosen(s)}]]
<1>1. TotalOf(S) = (CHOOSE g : Solves(g))[S]
  BY DEF TotalOf, MapThenSumSet, MapThenFoldSet, Chosen
<1>2. \A s \in SUBSET S : s # {} => Chosen(s) \in S
  BY DEF Chosen
<1>3. ASSUME NEW g PROVE Solves(g) <=> Iterates(f, S, g)
  BY <1>2 DEF Iterates
<1>4. PICK g : Iterates(f, S, g)
  BY IterationExists
<1>5. Solves(g)
  BY <1>3, <1>4
<1> HIDE DEF Solves
<1>6. PICK k : Solves(k) /\ TotalOf(S) = k[S]
  BY <1>1, <1>5
<1>7. Iterates(f, S, k)
  BY <1>3, <1>6
<1>8. PICK l : Iterates(f, S, l) /\ Sum(f, S) = l[S]
  BY SumSolves
<1>9. QED
  BY <1>6, <1>7, <1>8, IterationsAgree

\* A file's rows are finite, and no more than before duplicates were dropped.
LEMMA RowsAreFinite ==
  ASSUME NEW f \in HistoryFiles
  PROVE  /\ IsFiniteSet(Deduplicated(f.rows))
         /\ Cardinality(Deduplicated(f.rows)) <= Len(f.rows)
         /\ Len(f.rows) \in Nat /\ Cardinality(Deduplicated(f.rows)) \in Nat
<1>1. f.rows \in Seq(Range(f.rows))
  BY TablesAssumption
<1> DEFINE n == Len(f.rows)
<1>2. n \in Nat /\ f.rows \in [1 .. n -> Range(f.rows)]
  BY <1>1
<1>3. f.rows \in Surjection(1 .. n, Range(f.rows))
  BY <1>2 DEF Surjection, Range
<1> HIDE DEF n
<1>4. IsFiniteSet(1 .. n) /\ Cardinality(1 .. n) = n
  <2>1. /\ IsFiniteSet(1 .. n)
        /\ Cardinality(1 .. n) = IF 1 > n THEN 0 ELSE n - 1 + 1
    BY <1>2, FS_Interval
  <2>2. (IF 1 > n THEN 0 ELSE n - 1 + 1) = n
    BY <1>2
  <2>3. QED
    BY <2>1, <2>2
<1>5. IsFiniteSet(Range(f.rows)) /\ Cardinality(Range(f.rows)) <= n
  BY <1>3, <1>4, FS_Surjection
<1>6. QED
  BY <1>2, <1>5, FS_CardinalityType DEF Deduplicated, n

\* The rows of a history, with whom and what they are of.
LEMMA HistoryIsExact ==
  ASSUME NEW f \in HistoryFiles, Consistent(f, Deduplicated(f.rows))
  PROVE  /\ HistoryRows(f) # {}
         /\ \A r \in HistoryRows(f) : /\ r.gw \in GWs /\ r.minutes \in 0 .. 90
                                      /\ r.starts \in {0, 1}
                                      /\ \E p \in DOMAIN f.players : f.players[p].code = r.code
         /\ \A r, t \in HistoryRows(f) : r.code = t.code /\ r.fixture = t.fixture => r = t
         /\ \A k \in DOMAIN f.rows : \E r \in HistoryRows(f) :
              /\ r.fixture = f.rows[k].fixture
              /\ r.minutes = f.rows[k].minutes
              /\ r.code = f.players[f.rows[k].player].code
<1> DEFINE D == Deduplicated(f.rows)
<1>1. /\ D # {}
      /\ \A p, q \in DOMAIN f.players : f.players[p].code = f.players[q].code => p = q
      /\ \A r \in D : r.gw \in GWs /\ r.minutes \in 0 .. 90 /\ r.starts \in {0, 1}
      /\ \A r, t \in D : r.player = t.player /\ r.fixture = t.fixture => r = t
      /\ \A r \in D : r.player \in DOMAIN f.players
  BY DEF Consistent
<1>2. \A k \in DOMAIN f.rows : f.rows[k] \in D
  BY DEF Deduplicated, Range
<1>3. HistoryRows(f) = {HistoryRow(f, r) : r \in D}
  BY DEF HistoryRows
<1>4. \A r \in D : /\ HistoryRow(f, r).code = f.players[r.player].code
                   /\ HistoryRow(f, r).fixture = r.fixture /\ HistoryRow(f, r).gw = r.gw
                   /\ HistoryRow(f, r).minutes = r.minutes
                   /\ HistoryRow(f, r).starts = r.starts
  BY DEF HistoryRow
<1> HIDE DEF D
<1>5. QED
  BY <1>1, <1>2, <1>3, <1>4

\* The minutes of a player add up to the provider's total: his rows are one to one those
\* of the file.
LEMMA HistoryAddsUp ==
  ASSUME NEW f \in HistoryFiles, Consistent(f, Deduplicated(f.rows)),
         NEW p \in DOMAIN f.players,
         {r \in HistoryRows(f) : r.code = f.players[p].code} # {}
  PROVE  TotalOf({r \in HistoryRows(f) : r.code = f.players[p].code}) = f.players[p].minutes
<1> DEFINE D == Deduplicated(f.rows)
           S == {r \in D : r.player = p}
           mine == {r \in HistoryRows(f) : r.code = f.players[p].code}
           e == [r \in S |-> HistoryRow(f, r)]
           minutes == [r \in S |-> r.minutes]
           stored == [r \in mine |-> r.minutes]
<1>1. /\ \A q \in DOMAIN f.players : f.players[p].code = f.players[q].code => p = q
      /\ \A r \in D : r.minutes \in 0 .. 90
      /\ \A r, t \in D : r.player = t.player /\ r.fixture = t.fixture => r = t
      /\ \A r \in D : r.player \in DOMAIN f.players
      /\ \A q \in {r.player : r \in D} : TotalOf({r \in D : r.player = q}) = f.players[q].minutes
  BY DEF Consistent
<1>2. HistoryRows(f) = {HistoryRow(f, r) : r \in D}
  BY DEF HistoryRows
<1>3. \A r \in D : /\ HistoryRow(f, r).code = f.players[r.player].code
                   /\ HistoryRow(f, r).fixture = r.fixture
                   /\ HistoryRow(f, r).minutes = r.minutes
  BY DEF HistoryRow
<1>4. IsFiniteSet(D)
  BY RowsAreFinite
<1> HIDE DEF D
<1>5. IsFiniteSet(S)
  BY <1>4, FS_Subset
<1>6. mine = Image(e, S)
  <2>1. mine = {HistoryRow(f, r) : r \in S}
    BY <1>1, <1>2, <1>3
  <2>2. QED
    BY <2>1 DEF Image
<1>7. \A r, t \in S : e[r] = e[t] => r = t
  BY <1>1, <1>3
<1>8. \A r \in S : minutes[r] = r.minutes /\ stored[e[r]] = minutes[r] /\ minutes[r] \in Int
  <2>1. \A r \in S : e[r] \in mine
    BY <1>6 DEF Image
  <2>2. QED
    BY <1>1, <1>3, <2>1
<1>9. Numbers(minutes, S)
  BY <1>8 DEF Numbers
<1>10. Numbers(stored, mine) /\ \A r \in mine : stored[r] = r.minutes
  BY <1>6, <1>8 DEF Numbers, Image
<1>11. IsFiniteSet(mine)
  <2>1. e \in Surjection(S, mine)
    BY <1>6 DEF Surjection, Image
  <2>2. QED
    BY <1>5, <2>1, FS_Surjection
<1>12. p \in {r.player : r \in D} /\ S = {r \in D : r.player = p}
  BY <1>6 DEF Image
<1>13. TotalOf(S) = f.players[p].minutes
  BY <1>1, <1>12
<1> HIDE DEF S, mine, e, minutes, stored
<1>14. Sum(stored, mine) = Sum(minutes, S)
  BY <1>5, <1>6, <1>7, <1>8, <1>9, SumOfImage
<1>15. TotalOf(S) = Sum(minutes, S) /\ TotalOf(mine) = Sum(stored, mine)
  BY <1>5, <1>8, <1>9, <1>10, <1>11, TotalIsSum
<1>16. TotalOf(mine) = f.players[p].minutes
  BY <1>13, <1>14, <1>15
<1>17. QED
  BY <1>16 DEF mine

\* A longer window holds no less.
LEMMA WindowsGrow ==
  ASSUME NEW rows, IsFiniteSet(rows), \A r \in rows : r.gw \in GWs /\ r.minutes \in 0 .. 90,
         NEW v \in Nat, NEW w \in Nat, v <= w
  PROVE  /\ Since(rows, v) <= Since(rows, w)
         /\ Since(rows, w) <= TotalOf(rows)
<1> DEFINE minutes == [r \in rows |-> r.minutes]
           Short == {r \in rows : r.gw > LastGW - v}
           Long == {r \in rows : r.gw > LastGW - w}
<1>1. LastGW \in Nat
  BY ImportAssumption
<1>2. Short \subseteq Long /\ Long \subseteq rows
  BY <1>1 DEF GWs
<1>3. \A r \in rows : minutes[r] = r.minutes /\ minutes[r] \in Int /\ minutes[r] >= 0
  OBVIOUS
<1> HIDE DEF Short, Long, minutes
<1>4. ASSUME NEW T \in SUBSET rows PROVE TotalOf(T) = Sum(minutes, T)
  <2>1. IsFiniteSet(T) /\ Numbers(minutes, T)
    BY <1>3, FS_Subset DEF Numbers
  <2>2. \A r \in T : minutes[r] = r.minutes
    BY <1>3
  <2>3. QED
    BY <2>1, <2>2, TotalIsSum
<1>5. IsFiniteSet(Long) /\ Numbers(minutes, rows) /\ Numbers(minutes, Long)
  BY <1>2, <1>3, FS_Subset DEF Numbers
<1>6. Sum(minutes, Long) <= Sum(minutes, rows)
  BY <1>2, <1>3, <1>5, SumGrows
<1>7. \A r \in Long : minutes[r] >= 0
  BY <1>2, <1>3
<1>8. Sum(minutes, Short) <= Sum(minutes, Long)
  BY <1>2, <1>5, <1>7, SumGrows
<1>9. QED
  BY <1>2, <1>4, <1>6, <1>8 DEF Since, Short, Long

\* Rates are sums over windows of the history they are of.
LEMMA RatesAreExact ==
  ASSUME NEW f \in HistoryFiles, Consistent(f, Deduplicated(f.rows)),
         NEW h, h.rows = HistoryRows(f), NEW w \in Windows,
         NEW c \in DOMAIN RateRows(h, w)
  PROVE  LET r == RateRows(h, w)[c] IN
           /\ r.short <= r.long /\ r.defcon <= r.long /\ r.long <= r.season
           /\ \E p \in DOMAIN f.players :
                f.players[p].code = c /\ f.players[p].minutes = r.season
<1> DEFINE mine == {r \in h.rows : r.code = c}
           r == RateRows(h, w)[c]
<1>1. c \in {x.code : x \in h.rows}
  BY DEF RateRows
<1>2. /\ r.season = TotalOf(mine) /\ r.long = Since(mine, w.long)
      /\ r.short = Since(mine, w.short) /\ r.defcon = Since(mine, w.defcon)
  BY <1>1 DEF RateRows, RateRow
<1>3. /\ \A x \in h.rows : /\ x.gw \in GWs /\ x.minutes \in 0 .. 90
                           /\ \E p \in DOMAIN f.players : f.players[p].code = x.code
  BY HistoryIsExact
<1>4. IsFiniteSet(mine)
  <2> DEFINE D == Deduplicated(f.rows)
             e == [x \in D |-> HistoryRow(f, x)]
  <2>1. e \in Surjection(D, HistoryRows(f))
    BY DEF Surjection, HistoryRows
  <2>2. IsFiniteSet(D)
    BY RowsAreFinite
  <2> HIDE DEF D, e
  <2>3. IsFiniteSet(HistoryRows(f))
    BY <2>1, <2>2, FS_Surjection
  <2>4. QED
    BY <2>3, FS_Subset
<1>5. PICK p \in DOMAIN f.players : f.players[p].code = c
  BY <1>1, <1>3
<1>6. TotalOf(mine) = f.players[p].minutes
  <2>1. mine = {x \in HistoryRows(f) : x.code = f.players[p].code} /\ mine # {}
    BY <1>1, <1>5
  <2>2. QED
    BY <2>1, HistoryAddsUp
<1>7. /\ w.long \in Nat /\ w.short \in Nat /\ w.defcon \in Nat
      /\ w.short <= w.long /\ w.defcon <= w.long
  BY ImportAssumption DEF GWs
<1>8. \A x \in mine : x.gw \in GWs /\ x.minutes \in 0 .. 90
  BY <1>3
<1> HIDE DEF mine, r
<1>9. /\ Since(mine, w.short) <= Since(mine, w.long)
      /\ Since(mine, w.defcon) <= Since(mine, w.long)
      /\ Since(mine, w.long) <= TotalOf(mine)
  BY <1>4, <1>7, <1>8, WindowsGrow
<1>10. QED
  BY <1>2, <1>5, <1>6, <1>9 DEF r

\* Whatever files are imported, in whatever order and however often: bridges link players
\* by code alone, histories add up to the provider's totals, rates to their histories, a
\* longer window holds no less, and no row is one that a CHECK of its table would refuse.
THEOREM ImportsStayExact == Spec => []ImportsAreExact
<1>1. RowsMade => ImportsAreExact
  <2>1. SUFFICES ASSUME RowsMade PROVE ImportsAreExact
    OBVIOUS
  <2>2. ASSUME NEW b \in bridges
        PROVE  LET of(p) == {r \in b.rows : r.provider = p}
                   matched == {r.code : r \in {t \in b.rows : t.method = "shared_player_code"}}
               IN  /\ \A p \in Providers : of(p) # {}
                   /\ \A p \in Providers : \A r, t \in of(p) : r.code = t.code => r = t
                   /\ \A p \in Providers :
                        Cardinality(matched)
                          + Cardinality({r \in of(p) : r.method = "provider_code_only"})
                            = Cardinality(of(p))
                   /\ \A r \in b.rows : r.method = "shared_player_code" <=>
                        \E t \in b.rows : t.code = r.code /\ t.provider # r.provider
                   /\ b.status = "completed" =>
                        \A p \in DOMAIN b.id.source.rows : \E v \in DOMAIN b.id.file :
                          /\ b.id.file[v].code = b.id.source.rows[p].code
                          /\ b.id.file[v].name = b.id.source.rows[p].name
    <3>1. PICK s \in Snapshots, f \in VaastavFiles :
            /\ Canonical(s.rows) /\ Canonical(f) /\ Codes(s.rows) \cap Codes(f) # {}
            /\ b = BridgeOf(s, f)
      BY <2>1 DEF RowsMade, BridgesMade
    <3>2. b.id.source = s /\ b.id.file = f
      BY <3>1 DEF BridgeOf
    <3>3. QED
      BY <3>1, <3>2, BridgeIsExact
  <2>3. BridgeTables
    BY <2>2 DEF BridgeTables
  <2>4. ASSUME NEW h \in histories
        PROVE  /\ h.id \in HistoryFiles /\ Consistent(h.id, Deduplicated(h.id.rows))
               /\ h.rows = HistoryRows(h.id)
               /\ h.removed = Len(h.id.rows) - Cardinality(Deduplicated(h.id.rows))
    BY <2>1 DEF RowsMade, HistoriesMade
  <2>5. ASSUME NEW h \in histories
        PROVE  /\ h.removed >= 0 /\ h.rows # {}
               /\ \A r, t \in h.rows : r.code = t.code /\ r.fixture = t.fixture => r = t
               /\ \A r \in h.rows : r.gw \in GWs /\ r.minutes \in 0 .. 90 /\ r.starts \in {0, 1}
               /\ \A k \in DOMAIN h.id.rows : \E r \in h.rows :
                    /\ r.fixture = h.id.rows[k].fixture
                    /\ r.minutes = h.id.rows[k].minutes
                    /\ r.code = h.id.players[h.id.rows[k].player].code
    <3>1. h.removed >= 0
      <4>1. /\ Cardinality(Deduplicated(h.id.rows)) <= Len(h.id.rows)
            /\ Len(h.id.rows) \in Nat /\ Cardinality(Deduplicated(h.id.rows)) \in Nat
        BY <2>4, RowsAreFinite
      <4>2. QED
        BY <2>4, <4>1
    <3>2. QED
      BY <2>4, <3>1, HistoryIsExact
  <2>6. /\ \A r \in rates : /\ r.id.history \in histories /\ r.id.windows \in Windows
                            /\ r.rows = RateRows(r.id.history, r.id.windows)
        /\ \A r, t \in rates : r.id.history = t.id.history => r = t
    BY <2>1 DEF RowsMade, RatesMade
  <2>7. HistoryTables
    BY <2>5, <2>6 DEF HistoryTables
  <2>8. ASSUME NEW e \in evidence
        PROVE  /\ ValidEvidence(e.id.file) /\ e.id.gw \in GWs
               /\ e.rows = {[row |-> r, flags |-> QualityFlags(r)] : r \in e.id.file}
               /\ \A r \in e.id.file : r.observed <= e.imported /\ Matches(e.id.source, r)
    BY <2>1 DEF RowsMade, EvidenceMade
  <2>9. ASSUME NEW e \in evidence
        PROVE  /\ \A r \in e.rows : r.row \in e.id.file
               /\ \A r, t \in e.rows : r.row = t.row => r = t
    BY <2>8
  <2>10. EvidenceTables
    <3>1. ASSUME NEW e \in evidence
          PROVE  /\ e.rows # {} /\ e.id.gw \in GWs
                 /\ \A r, t \in e.rows : r.row.code = t.row.code => r = t
                 /\ \A r \in e.rows : /\ r.row.class \in Classes
                                      /\ r.row.player \in DOMAIN e.id.source.rows
      <4>1. /\ e.id.file # {}
            /\ \A r, t \in e.id.file : r.player = t.player \/ r.code = t.code => r = t
            /\ \A r \in e.id.file : r.class \in Classes
        BY <2>8 DEF ValidEvidence
      <4>2. \A r \in e.id.file : r.player \in DOMAIN e.id.source.rows
        BY <2>8 DEF Matches
      <4>3. e.rows # {}
        <5>1. PICK r \in e.id.file : TRUE
          BY <4>1
        <5>2. e.rows = {[row |-> x, flags |-> QualityFlags(x)] : x \in e.id.file}
          BY <2>8
        <5>3. [row |-> r, flags |-> QualityFlags(r)] \in e.rows
          BY <5>1, <5>2
        <5>4. QED
          BY <5>3
      <4>4. QED
        BY <2>8, <2>9, <4>1, <4>2, <4>3
    <3>2. QED
      BY <3>1 DEF EvidenceTables
  <2>11. ASSUME NEW h \in histories, NEW p \in DOMAIN h.id.players
         PROVE  LET mine == {r \in h.rows : r.code = h.id.players[p].code} IN
                  mine # {} => TotalOf(mine) = h.id.players[p].minutes
    BY <2>4, HistoryAddsUp
  <2>12. ASSUME NEW r \in rates, NEW c \in DOMAIN r.rows
         PROVE  /\ r.rows[c].short <= r.rows[c].long /\ r.rows[c].defcon <= r.rows[c].long
                /\ r.rows[c].long <= r.rows[c].season
                /\ \E p \in DOMAIN r.id.history.id.players :
                     /\ r.id.history.id.players[p].code = c
                     /\ r.id.history.id.players[p].minutes = r.rows[c].season
    BY <2>4, <2>6, RatesAreExact
  <2>13. \A e \in evidence : \A r \in e.rows :
           r.row.observed <= e.imported /\ Matches(e.id.source, r.row)
    BY <2>8, <2>9
  <2>14. QED
    BY <2>2, <2>3, <2>5, <2>7, <2>10, <2>11, <2>12, <2>13 DEF ImportsAreExact
<1>2. QED
  BY <1>1, RowsAlwaysMade, PTL

===============================================================================

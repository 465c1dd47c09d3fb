----------------------------- MODULE ManualImports -----------------------------
(***************************************************************************)
(* What is imported from files beside the official snapshots, and the      *)
(* upgrade of the database every import starts with:                       *)
(*                                                                         *)
(*   squads of a manager              ingest/squad_snapshot.py             *)
(*   identities of last season        ingest/player_identity.py            *)
(*   player fixtures of last season   ingest/player_history.py             *)
(*   reviewed rate evidence           ingest/player_rate_evidence.py       *)
(*   the schema                       storage/database.py                  *)
(*                                                                         *)
(* Every import is one transaction of a script of its own; the upgrade is  *)
(* a statement at a time.  A row's identifier is a hash of its identifying *)
(* fields: here it is those fields, `id'.  One season; prices in tenths.   *)
(* An input the code answers with ValueError changes nothing.              *)
(***************************************************************************)
EXTENDS Lineups

CONSTANTS
  Snapshots,       \* the official snapshots there will be, each from its time `at' on
  SquadFiles,      \* squads as a manager exports them
  Picks,           \* squads as the public entry API answers them
  Names,           \* names of an entry
  VaastavFiles,    \* last season's players_raw files
  HistoryFiles,    \* last season's players and gameweeks files
  Windows,         \* rate windows somebody may ask for
  EvidenceFiles,   \* evidence files
  Databases,       \* what an earlier version may have left
  LastGW,          \* SEASON_GAMEWEEKS
  None,
  MaxTime, MaxImports, MaxRows   \* bounds of one behaviour: imports, and with model runs

GWs == 1 .. LastGW
Times == 0 .. MaxTime
SchemaVersion == 16
Chips == {"wildcard", "free_hit", "bench_boost", "triple_captain"}
ChipStatuses == {"available", "active", "played", "expired"}
Tables == <<"snapshots", "bridges", "histories", "evidence", "overrides", "squads">>
StrengthColumns == <<"strength", "overall", "attack", "defence">>   \* as altered

ASSUME ImportAssumption ==
  /\ LastGW \in Nat \ {0} /\ MaxTime \in Nat /\ MaxImports \in Nat /\ MaxRows \in Nat /\ None \notin Nat
  /\ \A s \in Snapshots : /\ s.at \in Nat /\ s.deadline \in [GWs -> Nat]
                           /\ \A p \in DOMAIN s.rows : s.rows[p].price \in Nat \ {0}
  /\ \A w \in Windows : w.long \in GWs /\ w.short \in 1 .. w.long /\ w.defcon \in 1 .. w.long

\* What any version may have left: `strict' are the strengths that may not be NULL, as
\* before version 3, and `open' the override tables whose expiry may be, as before version
\* 15.  This version stamps a database only after it has created every table.
ASSUME DatabasesAssumption ==
  \A d \in Databases :
    /\ d \in [tables : SUBSET Range(Tables), versions : SUBSET (1 .. SchemaVersion),
             strict : SUBSET Range(StrengthColumns), open : SUBSET {"overrides"}]
    /\ SchemaVersion \in d.versions => d.tables = Range(Tables)

\* The squads are of a Gameweek of the season, with a known status for each chip.
ASSUME SquadFilesAssumption ==
  \A q \in SquadFiles \cup Picks :
    /\ {"gw", "chips"} \subseteq DOMAIN q
    /\ q.gw \in GWs /\ q.chips \in [Chips -> ChipStatuses]

\* What is imported is finite.
ASSUME TablesAssumption ==
  /\ \A s \in Snapshots : IsFiniteSet(DOMAIN s.rows)
  /\ \A f \in VaastavFiles : IsFiniteSet(DOMAIN f)
  /\ \A f \in HistoryFiles : f.rows \in Seq(Range(f.rows))

VARIABLES
  clock,
  db,           \* schema_version, the tables there are, their columns as in Databases
  step,         \* where initialize_database is
  left,         \* auxiliary: the database as it was left before the first upgrade
  entries,      \* manager_entry: the name of each entry
  squads,       \* squad_snapshot, squad_snapshot_player, squad_chip_state
  bridges,      \* player_identity_bridge_run, player_identity_bridge
  histories,    \* player_fixture_history_import_run, player_fixture_history
  rates,        \* player_rate_history_run, player_rate_history
  evidence,     \* player_rate_evidence_import_run, player_rate_evidence
  models        \* model_run, player_fixture_projection: see DecisionInputs

schema == <<db, step, left>>
imported == <<entries, squads, bridges, histories, rates, evidence>>
vars == <<clock, schema, imported, models>>

Init ==
  /\ clock = 0
  /\ db \in Databases /\ left = db
  /\ step = "idle"
  /\ entries = <<>>
  /\ squads = {} /\ bridges = {} /\ histories = {} /\ rates = {} /\ evidence = {}
  /\ models = {}

Captured == {s \in Snapshots : s.at <= clock}

-----------------------------------------------------------------------------
(* initialize_database.  Every statement is committed by itself. *)

Missing == {k \in DOMAIN Tables : Tables[k] \notin db.tables}
NewestOf(d) ==
  IF d.versions = {} THEN 0 ELSE CHOOSE v \in d.versions : \A w \in d.versions : w <= v
Newest == NewestOf(db)
Ready == step = "idle" /\ Missing = {} /\ SchemaVersion \in db.versions

\* An import starts here; of a database that is up to date every statement is a no-op.
Initialize ==
  /\ step = "idle" /\ ~Ready
  /\ step' = "create"
  /\ UNCHANGED <<clock, models, db, left, imported>>

\* CREATE TABLE IF NOT EXISTS: a new table has the columns of this version, one that is
\* there is left as it is.
CreateTable ==
  /\ step = "create" /\ Missing # {}
  /\ db' = [db EXCEPT !.tables = @ \cup {Tables[CHOOSE k \in Missing : \A j \in Missing : k <= j]}]
  /\ UNCHANGED <<clock, models, step, left, imported>>

\* Mutant of ReadVersion: the version is written before the columns are relaxed.
ReadVersionAndStamp ==
  /\ step = "create" /\ Missing = {}
  /\ step' = IF Newest = 2 THEN "alter" ELSE "stamp"
  /\ db' = [db EXCEPT !.versions = @ \cup {SchemaVersion}]
  /\ UNCHANGED <<clock, models, left, imported>>

ReadVersion ==
  /\ step = "create" /\ Missing = {}
  /\ step' = IF Newest = 2 THEN "alter" ELSE "stamp"
  /\ UNCHANGED <<clock, models, db, left, imported>>

\* V2_TO_V3_SQL, column by column; of a column that is relaxed already it is a no-op.
RelaxColumn ==
  /\ step = "alter"
  /\ \/ \E k \in DOMAIN StrengthColumns :
          /\ StrengthColumns[k] \in db.strict
          /\ \A j \in 1 .. k - 1 : StrengthColumns[j] \notin db.strict
          /\ db' = [db EXCEPT !.strict = @ \ {StrengthColumns[k]}]
          /\ UNCHANGED step
     \/ /\ db.strict = {}
        /\ step' = "stamp"
        /\ UNCHANGED db
  /\ UNCHANGED <<clock, models, left, imported>>

StampVersion ==
  /\ step = "stamp"
  /\ db' = [db EXCEPT !.versions = @ \cup {SchemaVersion}]
  /\ step' = "idle"
  /\ UNCHANGED <<clock, models, left, imported>>

\* The process is killed; the next import starts over.
Kill ==
  /\ step # "idle"
  /\ step' = "idle"
  /\ UNCHANGED <<clock, models, db, left, imported>>

-----------------------------------------------------------------------------
(* Squads. *)

Active(chips) == {c \in Chips : chips[c] = "active"}

\* The snapshot's row of whoever fills each slot.
Joined(s, order) == [i \in Slots |-> s.rows[order[i]]]

OverLimit(rows) ==
  {c \in {rows[i].club : i \in Slots} : Cardinality({i \in Slots : rows[i].club = c}) > 3}

\* validate_squad, with the team limit grandfathered: too many of a club is flagged.
LegalSquad(rows, q) ==
  LET pos == [i \in Slots |-> rows[i].pos] IN
    /\ Cardinality(Range(q.order)) = 15
    /\ \A c \in Positions : Cardinality(At(pos, Slots, c)) = PositionCounts[c]
    /\ \A i \in Slots : q.bought[i] > 0 /\ q.sold[i] > 0 /\ q.sold[i] <= rows[i].price
    /\ q.captain # q.vice
    /\ {q.captain, q.vice} \subseteq 1 .. 11
    /\ IsLegalStartingXI(pos, 1 .. 11)
    /\ q.bank >= 0
    /\ IF q.unlimited THEN q.free = None ELSE q.free \in 0 .. 5
    /\ Cardinality(Active(q.chips)) <= 1
    /\ Active(q.chips) \cap {"wildcard", "free_hit"} # {} => q.unlimited

SquadId(q, s, at) ==
  [entry |-> q.entry, gw |-> q.gw, at |-> at, source |-> s, file |-> q.file, bank |-> q.bank,
   free |-> q.free, unlimited |-> q.unlimited, chips |-> q.chips,
   flags |-> OverLimit(Joined(s, q.order))]

SquadRow(q, s, at) ==
  [id |-> SquadId(q, s, at), order |-> q.order, bought |-> q.bought, sold |-> q.sold,
   captain |-> q.captain, vice |-> q.vice]

Imports ==
  Cardinality(squads) + Cardinality(bridges) + Cardinality(histories) + Cardinality(rates)
    + Cardinality(evidence)
RoomForRow == Imports + Cardinality(models) < MaxRows
Room == Imports < MaxImports /\ RoomForRow

\* Mutant of Stored: whether the row is there is not asked.
StoredUnasked(table, id) == FALSE

Stored(table, id) == \E r \in table : r.id = id

\* An entry keeps the name it got first, also when that was none.
NameFits(e, name) == e \in DOMAIN entries => name = None \/ entries[e] \in {None, name}

\* _store_squad_snapshot.  The time it is captured at is whatever the manager says.
StoreSquad(q, s, at, name) ==
  /\ Ready /\ Room /\ NameFits(q.entry, name)
  /\ s.at <= at /\ at <= s.deadline[q.gw]
  /\ \A i \in Slots : q.order[i] \in DOMAIN s.rows
  /\ LegalSquad(Joined(s, q.order), q)
  /\ ~Stored(squads, SquadId(q, s, at))
  /\ squads' = squads \cup {SquadRow(q, s, at)}
  /\ entries' = [e \in DOMAIN entries \cup {q.entry} |->
                   IF e \in DOMAIN entries THEN entries[e] ELSE name]
  /\ UNCHANGED <<clock, models, schema, bridges, histories, rates, evidence>>

ImportSquadCsv(q, s, at, name) == StoreSquad(q, s, at, name)

\* The public API has no prices: bought and sold for what the snapshot says it costs.
Estimated(q, s) ==
  LET prices == [i \in Slots |-> s.rows[q.order[i]].price] IN
    [f \in DOMAIN q \cup {"bought", "sold"} |-> IF f \in DOMAIN q THEN q[f] ELSE prices]

ImportSquadFromEntry(q, s, name) ==
  /\ \A i \in Slots : q.order[i] \in DOMAIN s.rows
  /\ StoreSquad(Estimated(q, s), s, clock, name)

-----------------------------------------------------------------------------
(* Identities. *)

Providers == {"official_fpl", "vaastav"}
Codes(rows) == {rows[p].code : p \in DOMAIN rows}
Canonical(rows) == /\ \A p \in DOMAIN rows : rows[p].code # None
                   /\ \A p, q \in DOMAIN rows : rows[p].code = rows[q].code => p = q
NameOf(rows, code) == rows[CHOOSE p \in DOMAIN rows : rows[p].code = code].name
Mismatched(ours, theirs) ==
  {c \in Codes(ours) \cap Codes(theirs) : NameOf(ours, c) # NameOf(theirs, c)}

ProviderRows(provider, mine, others) ==
  {[provider |-> provider, player |-> p, code |-> mine[p].code,
    method |-> IF mine[p].code \in Codes(others)
               THEN "shared_player_code" ELSE "provider_code_only",
    misnamed |-> mine[p].code \in Mismatched(mine, others)] : p \in DOMAIN mine}

BridgeStatus(ours, theirs) ==
  IF Codes(ours) \subseteq Codes(theirs) /\ Mismatched(ours, theirs) = {}
  THEN "completed" ELSE "completed_with_gaps"

ImportIdentity(s, f) ==
  /\ Ready /\ Room
  /\ Canonical(s.rows) /\ Canonical(f) /\ Codes(s.rows) \cap Codes(f) # {}
  /\ LET id == [source |-> s, file |-> f] IN
       /\ ~Stored(bridges, id)
       /\ bridges' = bridges \cup
            {[id |-> id, status |-> BridgeStatus(s.rows, f),
              rows |-> ProviderRows("official_fpl", s.rows, f)
                         \cup ProviderRows("vaastav", f, s.rows)]}
  /\ UNCHANGED <<clock, models, schema, entries, squads, histories, rates, evidence>>

-----------------------------------------------------------------------------
(* Last season's fixtures, and the rates they give. *)

TotalOf(rows) == MapThenSumSet(LAMBDA r : r.minutes, rows)

\* Mutant of Deduplicated: the first row of a player's fixture is kept.
FirstOfEach(rows) ==
  {rows[k] : k \in {i \in DOMAIN rows :
     \A j \in 1 .. i - 1 : rows[j].player # rows[i].player \/ rows[j].fixture # rows[i].fixture}}

\* Exact duplicates are dropped.
Deduplicated(rows) == Range(rows)

\* The rows of build_player_fixture_history, unless it refuses them: no code of two
\* players, no player's fixture twice, every number in its range, every player known, and
\* every total what the players file says.
Consistent(f, rows) ==
  /\ rows # {}
  /\ \A p, q \in DOMAIN f.players : f.players[p].code = f.players[q].code => p = q
  /\ \A r \in rows : r.gw \in GWs /\ r.minutes \in 0 .. 90 /\ r.starts \in {0, 1}
  /\ \A r, t \in rows : r.player = t.player /\ r.fixture = t.fixture => r = t
  /\ \A r \in rows : r.player \in DOMAIN f.players
  /\ \A p \in {r.player : r \in rows} :
       TotalOf({r \in rows : r.player = p}) = f.players[p].minutes

ImportHistory(f) ==
  /\ Ready /\ Room
  /\ Consistent(f, Deduplicated(f.rows))
  /\ ~Stored(histories, f)
  /\ histories' = histories \cup
       {[id |-> f, imported |-> clock,
         removed |-> Len(f.rows) - Cardinality(Deduplicated(f.rows)),
         rows |-> {[code |-> f.players[r.player].code, fixture |-> r.fixture, gw |-> r.gw,
                    minutes |-> r.minutes, starts |-> r.starts] : r \in Deduplicated(f.rows)}]}
  /\ UNCHANGED <<clock, models, schema, entries, squads, bridges, rates, evidence>>

Since(rows, weeks) == TotalOf({r \in rows : r.gw > LastGW - weeks})

RateRow(rows, w) ==
  LET started == {r \in rows : r.starts = 1} IN
    [season |-> TotalOf(rows), starts |-> Cardinality(started), long |-> Since(rows, w.long),
     short |-> Since(rows, w.short), defcon |-> Since(rows, w.defcon),
     flags |-> {f \in {"ZERO_LONG_FORM_MINUTES", "ZERO_PRIOR_STARTS"} :
                  IF f = "ZERO_PRIOR_STARTS" THEN started = {} ELSE Since(rows, w.long) = 0}]

RateRows(h, w) ==
  [c \in {r.code : r \in h.rows} |-> RateRow({r \in h.rows : r.code = c}, w)]

\* The windows are part of the identifier but not of the table's key: a second run of the
\* same history with other windows fails.
MaterializeRates(h, w) ==
  /\ Ready /\ Room
  /\ \A r \in rates : r.id.history # h
  /\ rates' = rates \cup {[id |-> [history |-> h, windows |-> w], rows |-> RateRows(h, w)]}
  /\ UNCHANGED <<clock, models, schema, entries, squads, bridges, histories, evidence>>

-----------------------------------------------------------------------------
(* Reviewed evidence of rates. *)

Classes == {"senior_comparable", "senior_non_comparable", "academy_youth", "role_only"}

\* validate_player_rate_evidence: `stats' says whether all, some or none are given.
ValidEvidence(f) ==
  /\ f # {}
  /\ \A r, t \in f : r.player = t.player \/ r.code = t.code => r = t
  /\ \A r \in f : /\ r.class \in Classes
                  /\ IF r.class = "role_only" THEN r.stats = "none"
                     ELSE r.sample # None /\ r.sample > 0

QualityFlags(r) ==
  {"RESEARCH_EVIDENCE_NOT_PRODUCTION_RATE", r.class}
    \cup IF r.stats = "all" THEN {} ELSE {"PARTIAL_RATE_STATISTICS"}

Matches(s, r) ==
  /\ r.player \in DOMAIN s.rows
  /\ r.code = s.rows[r.player].code
  /\ r.name = s.rows[r.player].name
  /\ r.pos = s.rows[r.player].pos

ImportEvidence(s, gw, f) ==
  /\ Ready /\ Room
  /\ ValidEvidence(f)
  /\ \A r \in f : r.observed <= clock /\ r.code # None /\ Matches(s, r)
  /\ LET id == [source |-> s, gw |-> gw, file |-> f] IN
       /\ ~Stored(evidence, id)
       /\ evidence' = evidence \cup
            {[id |-> id, imported |-> clock,
              rows |-> {[row |-> r, flags |-> QualityFlags(r)] : r \in f}]}
  /\ UNCHANGED <<clock, models, schema, entries, squads, bridges, histories, rates>>

-----------------------------------------------------------------------------
Import ==
  \/ \E s \in Captured, q \in SquadFiles, at \in Times, name \in Names :
       ImportSquadCsv(q, s, at, name)
  \/ \E s \in Captured, q \in Picks, name \in Names : ImportSquadFromEntry(q, s, name)
  \/ \E s \in Captured, f \in VaastavFiles : ImportIdentity(s, f)
  \/ \E s \in Captured, gw \in GWs, f \in EvidenceFiles : ImportEvidence(s, gw, f)
  \/ \E f \in HistoryFiles : ImportHistory(f)
  \/ \E h \in histories, w \in Windows : MaterializeRates(h, w)

Upgrade == Initialize \/ CreateTable \/ ReadVersion \/ RelaxColumn \/ StampVersion \/ Kill

-----------------------------------------------------------------------------
(* The rows of the tables, with their CHECK constraints. *)

SquadTables ==
  /\ \A e \in DOMAIN entries : entries[e] \in Names
  /\ \A q \in squads :
       /\ q.id.entry \in DOMAIN entries
       /\ q.id.gw \in GWs /\ q.id.bank >= 0
       /\ IF q.id.unlimited THEN q.id.free = None ELSE q.id.free \in 0 .. 5
       /\ \A i \in Slots : q.bought[i] > 0 /\ q.sold[i] > 0
       /\ q.captain # q.vice
       /\ q.id.chips \in [Chips -> ChipStatuses]

BridgeTables ==
  \A b \in bridges :
    LET of(p) == {r \in b.rows : r.provider = p}
        matched == {r.code : r \in {t \in b.rows : t.method = "shared_player_code"}} IN
      /\ \A p \in Providers : of(p) # {}
      /\ \A p \in Providers : \A r, t \in of(p) : r.code = t.code => r = t
      /\ \A p \in Providers :
           Cardinality(matched)
             + Cardinality({r \in of(p) : r.method = "provider_code_only"}) = Cardinality(of(p))

HistoryTables ==
  /\ \A h \in histories :
       /\ h.removed >= 0 /\ h.rows # {}
       /\ \A r, t \in h.rows : r.code = t.code /\ r.fixture = t.fixture => r = t
       /\ \A r \in h.rows : r.gw \in GWs /\ r.minutes \in 0 .. 90 /\ r.starts \in {0, 1}
  /\ \A r \in rates : /\ r.id.history \in histories
                      /\ \A t \in rates : t.id.history = r.id.history => t = r

EvidenceTables ==
  \A e \in evidence :
    /\ e.rows # {} /\ e.id.gw \in GWs
    /\ \A r, t \in e.rows : r.row.code = t.row.code => r = t
    /\ \A r \in e.rows : r.row.class \in Classes /\ r.row.player \in DOMAIN e.id.source.rows

===============================================================================

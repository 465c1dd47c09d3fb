----------------------------- MODULE DecisionInputs -----------------------------
(***************************************************************************)
(* What the decision scripts read: a stored squad and the model runs of    *)
(* one or several Gameweeks (lineup_store.py, transfer_store.py,           *)
(* rolling_store.py and initial_squad_store.py).  They are read            *)
(* boundaries: operators of the state, between whose two reads imports,    *)
(* captures and model runs go on.                                          *)
(*                                                                         *)
(* A model run is made elsewhere: here it appears, completed, with the     *)
(* projections it was asked for.                                           *)
(***************************************************************************)
EXTENDS ManualImports

CONSTANT ModelAsks     \* Gameweek, source, as_of, version and the rows of its projections

\* A row is of a code and a fixture; `plays' are tenths of a chance.
ASSUME InputsAssumption ==
  \A a \in ModelAsks :
    /\ a.source \in Snapshots /\ a.gw \in GWs
    /\ a.source.at <= a.asOf /\ a.asOf <= a.source.deadline[a.gw]
    /\ \A r \in a.rows : r.code # None /\ r.plays \in 0 .. 10

Tick ==
  /\ clock < MaxTime
  /\ clock' = clock + 1
  /\ UNCHANGED <<schema, imported, models>>

RunModel(a) ==
  /\ Ready /\ RoomForRow
  /\ a.asOf <= clock
  /\ models' = models \cup {[ask |-> a, gw |-> a.gw, source |-> a.source, asOf |-> a.asOf,
                             deadline |-> a.source.deadline[a.gw], completed |-> clock]}
  /\ UNCHANGED <<clock, schema, imported>>

Next ==
  \/ Tick
  \/ Upgrade
  \/ Import
  \/ \E a \in ModelAsks : RunModel(a)

Spec == Init /\ [][Next]_vars

-----------------------------------------------------------------------------
(* What the boundaries share: combine_appearance_probability, and Python's sum. *)

\* Tenths of a chance to play none of the fixtures, and of what they are tenths.
Blank(rows) == FoldSet(LAMBDA r, b : b * (10 - r.plays), 1, rows)
AppearanceProbability(rows) ==
  <<10 ^ Cardinality(rows) - Blank(rows), 10 ^ Cardinality(rows)>>

TotalXp(rows) == MapThenSumSet(LAMBDA r : r.xp, rows)
TotalVariance(rows) == MapThenSumSet(LAMBDA r : r.variance, rows)

-----------------------------------------------------------------------------
(* One Gameweek: load_lineup_inputs and load_transfer_inputs. *)

Owned(q) == {q.order[i] : i \in Slots}
\* Mutant of Current: with the newest snapshot.
CurrentOfNewest(q) == (CHOOSE s \in Captured : \A t \in Captured : t.at <= s.at).rows

\* The squad is joined with the snapshot it was pinned to.
Current(q) == q.id.source.rows

AsStored(q) ==
  [order |-> q.order, bought |-> q.bought, sold |-> q.sold, captain |-> q.captain,
   vice |-> q.vice, bank |-> q.id.bank, free |-> q.id.free, unlimited |-> q.id.unlimited,
   chips |-> q.id.chips]

\* The squad as stored is validated once more.
Loadable(q) ==
  /\ Owned(q) \subseteq DOMAIN Current(q)
  /\ LegalSquad([i \in Slots |-> Current(q)[q.order[i]]], AsStored(q))

\* The rows of the run go to the squad's players by code; of two slots with one code the
\* later gets them.
LineupRows(q, m, p) ==
  LET code == [i \in Slots |-> Current(q)[q.order[i]].code] IN
    {r \in m.ask.rows : \E i \in Slots : /\ q.order[i] = p /\ code[i] = r.code
                                       /\ \A j \in i + 1 .. 15 : code[j] # r.code}

LineupAccepts(q, m) ==
  /\ m.gw = q.id.gw
  /\ Loadable(q)
  /\ \A p \in Owned(q) : LineupRows(q, m, p) # {}

\* Squares of uncertainties add up; one that is missing leaves the sum missing.
LineupProjection(rows) ==
  [xp |-> TotalXp(rows),
   variance |-> IF \E r \in rows : r.variance = None THEN None ELSE TotalVariance(rows),
   flags |-> UNION {r.flags : r \in rows},
   appears |-> AppearanceProbability(rows)]

LineupInputs(q, m) ==
  [p \in Owned(q) |->
     LET slot == CHOOSE i \in Slots : q.order[i] = p IN
       [now |-> Current(q)[p].price, bought |-> q.bought[slot], sold |-> q.sold[slot],
        projection |-> LineupProjection(LineupRows(q, m, p))]]

OnSale(rows) == {p \in DOMAIN rows : rows[p].tradable}

\* Mutant of TransferProjection: a missing uncertainty is left out of the sum.
TransferProjectionOfKnown(rows) ==
  [xp |-> TotalXp(rows),
   variance |-> TotalVariance({r \in rows : r.variance # None}),
   flags |-> UNION {r.flags : r \in rows},
   appears |-> AppearanceProbability(rows)]

TransferProjection(rows) ==
  [xp |-> TotalXp(rows),
   variance |-> IF \E r \in rows : r.variance = None THEN None ELSE TotalVariance(rows),
   flags |-> UNION {r.flags : r \in rows},
   appears |-> AppearanceProbability(rows)]

\* Whom one may buy for the squad, at the price of its snapshot, and who is left out.
TransferInputs(q, m) ==
  LET rows == Current(q)
      byCode(c) == {r \in m.ask.rows : r.code = c}
      others == DOMAIN rows \ Owned(q)
      projected == {p \in others \cap OnSale(rows) :
                      rows[p].code # None /\ byCode(rows[p].code) # {}}
  IN [players |-> [p \in projected |->
                     [now |-> rows[p].price, bought |-> rows[p].price, sold |-> rows[p].price,
                      projection |-> TransferProjection(byCode(rows[p].code))]],
      unavailable |-> others \ OnSale(rows),
      missing |-> (others \cap OnSale(rows)) \ projected]

-----------------------------------------------------------------------------
(* A horizon: load_rolling_inputs and load_initial_squad_inputs. *)

Horizon(n) ==
  {h \in UNION {[g .. g + n - 1 -> models] : g \in 1 .. LastGW - n + 1} :
     \A g \in DOMAIN h : h[g].gw = g}
FirstGW(h) == CHOOSE g \in DOMAIN h : \A k \in DOMAIN h : g <= k

\* Mutant of Frozen: that the runs were finished in time is not asked.
FrozenWhenever(h) ==
  LET first == h[FirstGW(h)] IN
    /\ \A g \in DOMAIN h : /\ h[g].source = first.source
                           /\ h[g].ask.version = first.ask.version
                           /\ h[g].asOf = first.asOf
    /\ first.asOf <= first.deadline
    /\ \A g, k \in DOMAIN h : g < k => h[g].deadline < h[k].deadline

\* Runs of one snapshot, version and time, all finished before the first deadline.
Frozen(h) ==
  LET first == h[FirstGW(h)] IN
    /\ \A g \in DOMAIN h : /\ h[g].source = first.source
                           /\ h[g].ask.version = first.ask.version
                           /\ h[g].asOf = first.asOf
    /\ first.asOf <= first.deadline
    /\ \A g \in DOMAIN h : h[g].completed <= first.deadline
    /\ \A g, k \in DOMAIN h : g < k => h[g].deadline < h[k].deadline

RollingAccepts(q, h) ==
  /\ LineupAccepts(q, h[FirstGW(h)])
  /\ Frozen(h)
  /\ h[FirstGW(h)].source = q.id.source

\* aggregate_projections: the run's projections by code.
Aggregated(m) ==
  [c \in {r.code : r \in m.ask.rows} |->
     LET rows == {r \in m.ask.rows : r.code = c} IN
       [xp |-> TotalXp(rows),
        variance |-> IF \E r \in rows : r.variance = None THEN None ELSE TotalVariance(rows),
        flags |-> UNION {r.flags : r \in rows},
        appears |-> AppearanceProbability(rows)]]

\* The squad stays in the pool though it may not be for sale.
Wanted(q) == OnSale(Current(q)) \cup Owned(q)

\* Players owned are those of the lineup, with their prices.
RollingInputs(q, h) ==
  LET rows == Current(q)
      own == LineupInputs(q, h[FirstGW(h)])
      player(p) == IF p \in Owned(q) THEN own[p]
                   ELSE [now |-> rows[p].price, bought |-> rows[p].price,
                         sold |-> rows[p].price]
  IN [g \in DOMAIN h |->
        LET projections == Aggregated(h[g])
            projected == {p \in Wanted(q) : rows[p].code # None
                                               /\ rows[p].code \in DOMAIN projections}
        IN [players |-> [p \in projected |->
                           [now |-> player(p).now, bought |-> player(p).bought,
                            sold |-> player(p).sold,
                            projection |-> projections[rows[p].code]]],
            transferable |-> projected \cap OnSale(rows),
            unavailable |-> DOMAIN rows \ Wanted(q),
            missing |-> Wanted(q) \ projected]]

\* Without a squad: one to five Gameweeks, with checks of their own.
InitialAccepts(h) ==
  LET weeks == DOMAIN h
      asOf == h[FirstGW(h)].asOf
      due == h[FirstGW(h)].deadline
  IN /\ Cardinality({h[g].source : g \in weeks}) = 1
     /\ Cardinality({h[g].ask.version : g \in weeks}) = 1
     /\ Cardinality({h[g].asOf : g \in weeks}) = 1
     /\ asOf <= due
     /\ \A g \in weeks : h[g].completed <= due
     /\ \A g \in weeks : g + 1 \in weeks => h[g].deadline < h[g + 1].deadline

\* Only players on sale, with the projections of aggregate_projections.
InitialInputs(h) ==
  LET rows == h[FirstGW(h)].source.rows IN
    [g \in DOMAIN h |->
       LET projections == Aggregated(h[g])
           projected == {p \in OnSale(rows) : rows[p].code # None
                                                /\ rows[p].code \in DOMAIN projections}
       IN [players |-> [p \in projected |->
                          [now |-> rows[p].price, bought |-> rows[p].price,
                           sold |-> rows[p].price, projection |-> projections[rows[p].code]]],
           transferable |-> projected,
           unavailable |-> DOMAIN rows \ OnSale(rows),
           missing |-> OnSale(rows) \ projected]]

-----------------------------------------------------------------------------
(* Properties. *)

\* Nothing a plan rests on was known only after the deadline it is made for: its runs and
\* its squad share a snapshot, are finished and captured after that and before the first
\* deadline, though squads and runs come from scripts of their own
\* (rolling_store.py:91, "frozen to one source, version, and as-of time").
InputsAreCausal ==
  /\ \A q \in squads : \A h \in Horizon(3) : RollingAccepts(q, h) =>
       LET due == h[FirstGW(h)].deadline IN
         /\ q.id.gw = FirstGW(h)
         /\ q.id.source.at <= q.id.at /\ q.id.at <= due
         /\ \A g \in DOMAIN h : /\ h[g].source = q.id.source
                                /\ h[g].source.at <= h[g].asOf
                                /\ h[g].completed <= due
  /\ \A n \in 1 .. 3 : \A h \in Horizon(n) : InitialAccepts(h) =>
       \A g \in DOMAIN h : h[g].source.at <= h[g].asOf /\ h[g].completed <= h[FirstGW(h)].deadline

\* Four boundaries read the same rows, each with joins, sums and checks of its own
\* (lineup_store.py:165-215, transfer_store.py:36-119, rolling_store.py:43-83 and 173-256,
\* initial_squad_store.py:36-169).  In a plan's first week the pool is the lineup's players
\* and the transfers' targets and nobody else, each with the same prices and projection,
\* and the same players are left out.  In each of its weeks the boundary without a squad
\* accepts the same runs and offers exactly whom the plan may buy, with the same
\* projection and the market price, whatever a player owned was bought for.
BoundariesAgree ==
  \A q \in squads : \A h \in Horizon(3) : RollingAccepts(q, h) =>
    LET first == FirstGW(h)
        lineup == LineupInputs(q, h[first])
        transfer == TransferInputs(q, h[first])
        rolling == RollingInputs(q, h)
        initial == InitialInputs(h)
    IN /\ InitialAccepts(h)
       /\ DOMAIN rolling[first].players = DOMAIN lineup \cup DOMAIN transfer.players
       /\ \A p \in DOMAIN lineup : rolling[first].players[p] = lineup[p]
       /\ \A p \in DOMAIN transfer.players :
            rolling[first].players[p] = transfer.players[p]
       /\ rolling[first].unavailable = transfer.unavailable
       /\ rolling[first].missing = transfer.missing
       /\ \A g \in DOMAIN h :
            /\ rolling[g].transferable = DOMAIN initial[g].players
            /\ \A p \in rolling[g].transferable :
                 /\ rolling[g].players[p].projection = initial[g].players[p].projection
                 /\ rolling[g].players[p].now = initial[g].players[p].now
                 /\ p \notin Owned(q) => rolling[g].players[p] = initial[g].players[p]

\* A squad that was imported can be read again, at any later time, whatever has happened
\* to prices and clubs since: it is validated with the snapshot it was pinned to
\* (lineup_store.py:100-111).  And what Python accepted no CHECK of its tables refuses.
StoredSquadsLoad == SquadTables /\ \A q \in squads : Loadable(q)

\* A bridge links players by their code alone, and one without gaps names every official
\* player; a history adds up to the provider's totals; rates add up to their history, and
\* a longer window holds no less; evidence is of the players of its snapshot and was
\* observed before it was imported; and no row is one that its table would refuse.
ImportsAreExact ==
  /\ BridgeTables /\ HistoryTables /\ EvidenceTables
  /\ \A b \in bridges :
       /\ \A r \in b.rows : r.method = "shared_player_code" <=>
            \E t \in b.rows : t.code = r.code /\ t.provider # r.provider
       /\ b.status = "completed" =>
            \A p \in DOMAIN b.id.source.rows : \E v \in DOMAIN b.id.file :
              /\ b.id.file[v].code = b.id.source.rows[p].code
              /\ b.id.file[v].name = b.id.source.rows[p].name
  /\ \A h \in histories :
       /\ \A k \in DOMAIN h.id.rows : \E r \in h.rows :
            /\ r.fixture = h.id.rows[k].fixture
            /\ r.minutes = h.id.rows[k].minutes
            /\ r.code = h.id.players[h.id.rows[k].player].code
       /\ \A p \in DOMAIN h.id.players :
            LET mine == {r \in h.rows : r.code = h.id.players[p].code} IN
              mine # {} => TotalOf(mine) = h.id.players[p].minutes
  /\ \A r \in rates : \A c \in DOMAIN r.rows :
       /\ r.rows[c].short <= r.rows[c].long /\ r.rows[c].defcon <= r.rows[c].long
       /\ r.rows[c].long <= r.rows[c].season
       /\ \E p \in DOMAIN r.id.history.id.players :
            /\ r.id.history.id.players[p].code = c
            /\ r.id.history.id.players[p].minutes = r.rows[c].season
  /\ \A e \in evidence : \A r \in e.rows :
       r.row.observed <= e.imported /\ Matches(e.id.source, r.row)

Kept(table, after) ==
  /\ table \subseteq after
  /\ \A r, t \in after : r.id = t.id => r = t

\* No row is changed or removed, and importing the same again, whenever that is, adds no
\* second row ("transactionally and idempotently", player_history.py:225).
ImportsAreKept ==
  [][/\ Kept(squads, squads') /\ Kept(bridges, bridges') /\ Kept(histories, histories')
     /\ Kept(rates, rates') /\ Kept(evidence, evidence')
     /\ \A e \in DOMAIN entries : entries'[e] = entries[e]]_vars

\* What the version row of a database promises, however often its upgrade was killed and
\* started again: every table is there, and one that was left at version 2 takes teams
\* without published strengths.  It promises no more: any other database keeps the
\* columns it was left with (database.py:1217 asks for version 2 alone), so one of version
\* 1 stays as strict as it was, and the expiry of overrides optional where it was before
\* version 15 (DATA_MODEL.md:115-124, "rather than assume the SQL constraint is active").
UpgradeIsHonest ==
  SchemaVersion \in db.versions =>
    /\ Missing = {}
    /\ db.strict = IF NewestOf(left) = 2 THEN {} ELSE left.strict
    /\ db.open = left.open

===============================================================================

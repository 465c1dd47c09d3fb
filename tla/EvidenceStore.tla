----------------------------- MODULE EvidenceStore -----------------------------
(***************************************************************************)
(* The evidence a projection rests on, and when it was known:              *)
(*                                                                         *)
(*   official FPL snapshots           ingest/fpl_snapshot.py               *)
(*   event-live captures of a GW      ingest/fpl_event_live.py             *)
(*   penalty reviews of a capture     ingest/penalty_review.py             *)
(*   availability overrides and runs  context/availability.py              *)
(*   appearance scenarios             context/minutes.py                   *)
(*   appearance runs                  model/appearance_pipeline.py         *)
(*   context annotations and runs     context/pipeline.py                  *)
(*                                                                         *)
(* Every operation is a script of its own and one transaction of one       *)
(* DuckDB file, which one process at a time may open for writing: scripts  *)
(* interleave, their transactions do not.  Rows are content-addressed: a   *)
(* record here is a row with its identifier, and writing it again changes  *)
(* nothing.  Captures cost time, so the clock moves between any two steps. *)
(***************************************************************************)
EXTENDS Integers, FiniteSets

CONSTANTS
  Players,
  TeamOf,          \* the team of each player
  LastGW,          \* bound: Gameweeks of the season
  Workbook,        \* last season's appearances of each player: "none", "empty" or "regular"
  Payloads,        \* what the official API may answer to a snapshot request
  LivePayloads,    \* what it may answer to an event-live request
  OverrideAsks,    \* availability overrides a reviewer may ask for
  ScenarioAsks,    \* appearance scenarios a reviewer may ask for
  Notes,           \* context annotations a reviewer may write
  None,
  MaxTime, MaxOfficial, MaxReviewed, MaxModelRuns   \* bounds of one behaviour

GWs == 1 .. LastGW
Times == 0 .. MaxTime
Roster == {"absent", "fit", "doubtful", "injured", "blocked", "odd"}
Events == {"open", "finished", "final"}
Asked == Times \cup {None}

ASSUME EvidenceAssumption ==
  /\ LastGW \in Nat \ {0}
  /\ MaxTime \in Nat
  /\ MaxOfficial \in Nat
  /\ MaxReviewed \in Nat
  /\ MaxModelRuns \in Nat
  /\ None \notin Nat
  /\ Payloads \subseteq
       [deadline: [GWs -> Nat], current: Nat, roster: [Players -> Roster],
        joined: [Players -> -1 .. LastGW], event: [GWs -> Events]]
  /\ LivePayloads \subseteq [Players -> {"absent", "unused", "cameo", "start", "double"}]
  /\ Workbook \in [Players -> {"none", "empty", "regular"}]
  \* ReviewedAvailabilityOverride.__post_init__
  /\ OverrideAsks \subseteq
       [player: Players, gw: GWs, observed: Nat, until: Nat \cup {None},
        eligible: {"yes", "no", "unset"}, chance: {"none", "zero", "some"}]
  /\ \A o \in OverrideAsks :
       /\ o.until # None => o.until >= o.observed
       /\ o.chance = "none" => o.eligible # "unset"
       /\ o.eligible = "no" => o.chance \in {"none", "zero"}
  /\ ScenarioAsks \subseteq
       [player: Players, gw: GWs, observed: Nat, until: Nat \cup {None}]
  /\ \A o \in ScenarioAsks : o.until # None => o.until >= o.observed
  /\ None \notin [ask: OverrideAsks \cup ScenarioAsks, until: Nat]
  /\ Notes \subseteq
       [kind: {"manager", "readiness", "role"}, subject: Players \cup {TeamOf[p] : p \in Players},
        observed: Nat, from: Nat, until: Nat \cup {None}, date: Nat]

VARIABLES
  time,
  snapshots,    \* ingestion_run and the snapshot tables
  lives,        \* fpl_event_live_run, player_gameweek_stat
  reviews,      \* event_penalty_review
  overrides,    \* availability_override: the row stored for an ask
  promised,     \* history: asks answered with requires_fpl_refresh = False
  resolutions,  \* availability_resolution_run, player_availability_resolution
  workbooks,    \* appearance_history_import_run: how many, the newest is used
  scenarios,    \* appearance_scenario_override
  owed,         \* history: asks answered with requires_pipeline_refresh = False
  appearances,  \* appearance_projection_run, inseason_appearance_run
  annotations,  \* reviewed_context_annotation
  contexts      \* context_feature_run, player_context_feature

evidenceVars ==
  <<time, snapshots, lives, reviews, overrides, promised, resolutions,
    workbooks, scenarios, owed, appearances, annotations, contexts>>

official == <<snapshots, lives, reviews>>
availability == <<overrides, promised, resolutions>>
appearance == <<workbooks, scenarios, owed, appearances>>
context == <<annotations, contexts>>

EvidenceInit ==
  /\ time = 0
  /\ snapshots = {}
  /\ lives = {}
  /\ reviews = {}
  /\ overrides = {}
  /\ promised = {}
  /\ resolutions = {}
  /\ workbooks = 0
  /\ scenarios = {}
  /\ owed = {}
  /\ appearances = {}
  /\ annotations = {}
  /\ contexts = {}

TimePasses ==
  /\ time < MaxTime
  /\ time' = time + 1
  /\ UNCHANGED <<official, availability, appearance, context>>

\* Bounds of what is captured, of what reviewers write and of what is run.
RoomForOfficial == Cardinality(snapshots) + Cardinality(lives) < MaxOfficial
RoomForReviewed ==
  Cardinality(reviews) + Cardinality(overrides) + Cardinality(scenarios)
    + Cardinality(annotations) < MaxReviewed
RoomForRun ==
  Cardinality(resolutions) + Cardinality(appearances) + Cardinality(contexts) < MaxModelRuns

-----------------------------------------------------------------------------
(* Official snapshots and event-live captures. *)

\* A run identifier is the capture time and a hash of the payload.
SnapshotOf(p) == [payload |-> p, at |-> time]

Final(s, g) == s.payload.event[g] = "final"
AllFinished(s, g) == s.payload.event[g] \in {"finished", "final"}

\* One transaction, after the payload is archived under data/raw.
PersistFplSnapshot(p) ==
  LET s == SnapshotOf(p) IN
    /\ s \in snapshots \/ RoomForOfficial
    /\ snapshots' = snapshots \cup {s}
    /\ UNCHANGED <<time, lives, reviews, availability, appearance, context>>

LiveStatus(s, g) == IF Final(s, g) THEN "completed" ELSE "provisional"

\* The identifier has no source snapshot, the table's key no time.
SameLiveId(l, m) == l.gw = m.gw /\ l.at = m.at /\ l.stats = m.stats
SameLiveKey(l, m) == l.source = m.source /\ l.gw = m.gw /\ l.stats = m.stats

\* need is what the caller insists on: "final", "finished" or, provisionally, "open".
PersistFplEventLive(s, g, stats, need) ==
  LET l == [source |-> s, gw |-> g, at |-> time, stats |-> stats,
            status |-> LiveStatus(s, g)] IN
    /\ need = "final" => Final(s, g)
    /\ need = "finished" => AllFinished(s, g)
    /\ \A q \in Players : stats[q] # "absent" => s.payload.roster[q] # "absent"
    /\ RoomForOfficial
    /\ ~ \E m \in lives : SameLiveId(l, m)
    /\ ~ \E m \in lives : SameLiveKey(l, m)
    /\ lives' = lives \cup {l}
    /\ UNCHANGED <<time, snapshots, reviews, availability, appearance, context>>

\* At most one review for a completed capture, no earlier than it.
StoreEventPenaltyReview(l) ==
  /\ l.status = "completed"
  /\ l.at <= time
  /\ \A r \in reviews : r.live # l
  /\ RoomForReviewed
  /\ reviews' = reviews \cup {[live |-> l, observed |-> time]}
  /\ UNCHANGED <<time, snapshots, lives, availability, appearance, context>>

-----------------------------------------------------------------------------
(* Availability. *)

Causal(s, g) == s.at <= s.payload.deadline[g]

Newest(S) == {s \in S : \A t \in S : t.at <= s.at}

\* The snapshot materialize_latest_fpl_availability resolves.
Selectable(g) == Newest({s \in snapshots : Causal(s, g)})

Present(s, q) == s.payload.roster[q] # "absent"

\* The snapshot store_reviewed_override reports on.
Known(q, g) == Newest({s \in snapshots : Causal(s, g) /\ Present(s, q)})

Until(o, deadline) == IF o.until = None THEN deadline ELSE o.until

\* Mutant of NeedsRefresh: whether the Gameweek is resolved already is not asked.
NeedsOnlyNewer(o, s) == o.observed > s.at

NeedsRefresh(o, s) ==
  \/ o.observed > s.at
  \/ \E r \in resolutions : r.gw = o.gw /\ r.source.at >= o.observed

\* The end of an open-ended override is the deadline; the first row of an ask stays.
StoreReviewedOverride(o, s) ==
  LET deadline == s.payload.deadline[o.gw] IN
    /\ o.observed <= deadline
    /\ Until(o, deadline) <= deadline
    /\ RoomForReviewed \/ \E r \in overrides : r.ask = o
    /\ overrides' = IF \E r \in overrides : r.ask = o
                      THEN overrides
                      ELSE overrides \cup {[ask |-> o, until |-> Until(o, deadline)]}
    /\ promised' = IF NeedsRefresh(o, s) THEN promised ELSE promised \cup {o}
    /\ UNCHANGED <<time, official, resolutions, appearance, context>>

InForce(table, q, g, asOf) ==
  {r \in table : /\ r.ask.player = q
                 /\ r.ask.gw = g
                 /\ r.ask.observed <= asOf
                 /\ asOf <= r.until}

\* The newest of them by observed_at, for every player.
Selects(table, g, asOf, use) ==
  \A q \in Players :
    LET S == InForce(table, q, g, asOf) IN
      IF S = {}
        THEN use[q] = None
        ELSE /\ use[q] \in S
             /\ \A r \in S : r.ask.observed <= use[q].ask.observed

Eligible(status, use) ==
  IF use # None /\ use.ask.eligible # "unset" THEN use.ask.eligible
  ELSE IF status = "blocked" THEN "no"
  ELSE IF status = "odd" THEN "unset"
  ELSE "yes"

\* The chance fields of the API speak of the current and of the next Gameweek.
NearTerm(s, g) == g \in {s.payload.current, s.payload.current + 1}

\* resolve_availability: where the probability of a player comes from.
ProbabilitySource(s, g, q, use) ==
  LET status == s.payload.roster[q] IN
    IF Eligible(status, use) = "no" THEN "blocked"
    ELSE IF use # None /\ use.ask.chance # "none" THEN "reviewed"
    ELSE IF status \in {"fit", "doubtful"} /\ NearTerm(s, g) THEN "official"
    ELSE "unresolved"

Resolved(r, q) == Present(r.source, q) /\ r.from[q] # "unresolved"

Uses(table) == [Players -> table \cup {None}]

\* The run identifier is the snapshot, the Gameweek and the policy.
MaterializeAvailability(s, g) ==
  /\ s \in Selectable(g)
  /\ RoomForRun
  /\ \A r \in resolutions : ~(r.source = s /\ r.gw = g)
  /\ \E use \in Uses(overrides) :
       /\ Selects(overrides, g, s.at, use)
       /\ LET from == [q \in Players |-> ProbabilitySource(s, g, q, use[q])] IN
            resolutions' = resolutions \cup
              {[source |-> s, gw |-> g, use |-> use, from |-> from,
                gaps |-> \E q \in Players : Present(s, q) /\ from[q] = "unresolved"]}
  /\ UNCHANGED <<time, official, overrides, promised, appearance, context>>

AsOf(r) == r.source.at
Deadline(r) == r.source.payload.deadline[r.gw]

-----------------------------------------------------------------------------
(* Appearance scenarios and appearance runs. *)

ImportAppearanceHistory ==
  /\ workbooks = 0
  /\ workbooks' = 1
  /\ UNCHANGED <<time, official, availability, scenarios, owed, appearances, context>>

ResolvedFor(q, g) == {r \in resolutions : r.gw = g /\ Present(r.source, q)}

NewestRun(R) == {r \in R : \A t \in R : AsOf(t) <= AsOf(r)}

NeedsPipeline(o, r) ==
  \/ o.observed > AsOf(r)
  \/ \E a \in appearances : a.resolution.gw = o.gw

\* r is the newest resolution of the player.
StoreAppearanceScenario(o, r) ==
  /\ r \in NewestRun(ResolvedFor(o.player, o.gw))
  /\ o.observed <= Deadline(r)
  /\ Until(o, Deadline(r)) <= Deadline(r)
  /\ RoomForReviewed \/ \E t \in scenarios : t.ask = o
  /\ scenarios' = IF \E t \in scenarios : t.ask = o
                    THEN scenarios
                    ELSE scenarios \cup {[ask |-> o, until |-> Until(o, Deadline(r))]}
  /\ owed' = IF NeedsPipeline(o, r) THEN owed ELSE owed \cup {o}
  /\ UNCHANGED <<time, official, availability, workbooks, appearances, context>>

\* Finality as materialize_inseason_appearance accepts it.
Complete(l) == l.status = "completed" \/ AllFinished(l.source, l.gw)

Admissible(g, deadline) ==
  {l \in lives : l.gw = g /\ l.at <= deadline /\ Complete(l)}

\* The captures of matches a player was at his club for.
Heard(history, q) ==
  {g \in DOMAIN history :
     /\ history[g].stats[q] # "absent"
     /\ history[g].source.payload.joined[q] < g}

\* None of them is used if one adds up more than one match.
Samples(history, q) ==
  IF \E g \in Heard(history, q) : history[g].stats[q] = "double"
    THEN {} ELSE Heard(history, q)

Starts(history, q) ==
  Cardinality({g \in Heard(history, q) : history[g].stats[q] \in {"start", "double"}})

\* A workbook row of another club counts again after three starts.
HasPrior(r, history, q) ==
  /\ Workbook[q] = "regular"
  /\ r.source.payload.joined[q] >= 0 => Starts(history, q) > 2

\* What the projection of a player is made of; a scenario comes before any history.
Basis(r, history, use, q) ==
  IF ~Resolved(r, q) THEN "missing"
  ELSE IF use[q] # None THEN "scenario"
  ELSE IF HasPrior(r, history, q)
    THEN IF Samples(history, q) # {} THEN "shrunk" ELSE "prior"
  ELSE IF Samples(history, q) # {} THEN "neutral"
  ELSE "missing"

PreseasonBasis(r, use, q) ==
  IF ~Resolved(r, q) THEN "missing"
  ELSE IF use[q] # None THEN "scenario"
  ELSE IF Workbook[q] # "none" THEN "prior"
  ELSE "missing"

\* One run of a resolution, a workbook and a policy; captures are no part of the key.
Unprojected(r) == \A a \in appearances : a.resolution # r

MaterializePreseasonAppearance(r) ==
  /\ r.gw = 1
  /\ r \in NewestRun({t \in resolutions : t.gw = 1})
  /\ workbooks > 0
  /\ RoomForRun
  /\ Unprojected(r)
  /\ \E use \in Uses(scenarios) :
       /\ Selects(scenarios, 1, AsOf(r), use)
       /\ LET basis == [q \in Players |-> PreseasonBasis(r, use, q)] IN
            appearances' = appearances \cup
              {[resolution |-> r, history |-> <<>>, asOf |-> AsOf(r), use |-> use,
                basis |-> basis,
                gaps |-> \E q \in Players : Present(r.source, q) /\ basis[q] = "missing"]}
  /\ UNCHANGED <<time, official, availability, workbooks, scenarios, owed, context>>

\* The latest of the evidence: a set of one time.
EvidenceTime(r, history) ==
  {t \in {AsOf(r)} \cup {history[g].at : g \in DOMAIN history} :
     /\ t >= AsOf(r)
     /\ \A g \in DOMAIN history : t >= history[g].at}

\* r is the caller's, or the newest; one capture of every earlier Gameweek.
MaterializeInseasonAppearance(r) ==
  /\ r.gw >= 2
  /\ workbooks > 0
  /\ RoomForRun
  /\ Unprojected(r)
  /\ \E history \in [1 .. r.gw - 1 -> lives], use \in Uses(scenarios) :
     \E asOf \in EvidenceTime(r, history) :
       /\ \A g \in 1 .. r.gw - 1 : history[g] \in Newest(Admissible(g, Deadline(r)))
       /\ asOf <= Deadline(r)
       /\ Selects(scenarios, r.gw, asOf, use)
       /\ LET basis == [q \in Players |-> Basis(r, history, use, q)] IN
            appearances' = appearances \cup
              {[resolution |-> r, history |-> history, asOf |-> asOf, use |-> use,
                basis |-> basis,
                gaps |-> \E q \in Players : Present(r.source, q) /\ basis[q] = "missing"]}
  /\ UNCHANGED <<time, official, availability, workbooks, scenarios, owed, context>>

-----------------------------------------------------------------------------
(* Context. *)

StoreContextAnnotation(n) ==
  /\ RoomForReviewed
  /\ annotations' = annotations \cup {n}
  /\ UNCHANGED <<time, official, availability, appearance, contexts>>

\* Mutant of Noted: what was observed too late is used.
NotedEver(kind, who, deadline) ==
  {n \in annotations : n.kind = kind /\ n.subject = who /\ n.from <= deadline}

Noted(kind, who, deadline) ==
  {n \in annotations : /\ n.kind = kind
                       /\ n.subject = who
                       /\ n.observed <= deadline
                       /\ n.from <= deadline}

Later(n, m) == n.from > m.from \/ (n.from = m.from /\ n.observed >= m.observed)
Latest(S) == {n \in S : \A m \in S : Later(n, m)}

\* _latest_current: the latest that has not run out.
Current(kind, who, deadline) ==
  Latest({n \in Noted(kind, who, deadline) : n.until = None \/ n.until >= deadline})

\* The role before the current one, run out or not.
Before(n, deadline) ==
  Latest({m \in Noted("role", n.subject, deadline) : m.from < n.from})

Subject(kind, q) == IF kind = "manager" THEN TeamOf[q] ELSE q

\* What is selected for the players of the snapshot: one annotation of every kind that
\* has a current one, and the role before the current role.
Selection(s, deadline, chosen) ==
  LET Kinds == {"manager", "readiness", "role"}
      here == {q \in Players : Present(s, q)}
      who == {<<k, Subject(k, q)>> : k \in Kinds, q \in here}
      now(w) == chosen \cap Current(w[1], w[2], deadline) IN
    /\ \A w \in who : Current(w[1], w[2], deadline) # {} => Cardinality(now(w)) = 1
    /\ \A n \in chosen :
         \/ \E w \in who : n \in now(w)
         \/ n.kind = "role" /\ \E m \in chosen \ {n} : n \in Before(m, deadline)
    /\ \A w \in who : \A n \in now(w) :
         /\ w[1] = "role" /\ Before(n, deadline) # {} =>
              Cardinality(chosen \cap Before(n, deadline)) = 1
         /\ w[1] # "role" => n.date <= deadline

\* A player is observed fully if all three kinds are known and no capture of his adds
\* up two matches of a Gameweek.
FullyObserved(a, chosen, q) ==
  /\ \A k \in {"manager", "readiness", "role"} :
       chosen \cap Current(k, Subject(k, q), Deadline(a.resolution)) # {}
  /\ \A g \in DOMAIN a.history : a.history[g].stats[q] # "double"

MaterializeContext(a) ==
  LET deadline == Deadline(a.resolution)
      s == a.resolution.source IN
    /\ RoomForRun
    /\ a.resolution.gw >= 2
    /\ \E chosen \in SUBSET annotations :
         /\ Selection(s, deadline, chosen)
         /\ \A c \in contexts : ~(c.appearance = a /\ c.notes = chosen)
         /\ contexts' = contexts \cup
              {[appearance |-> a, notes |-> chosen,
                gaps |-> \E q \in Players : Present(s, q) /\ ~FullyObserved(a, chosen, q)]}
    /\ UNCHANGED <<time, official, availability, appearance, annotations>>

ContextTime(c) == {c.appearance.asOf} \cup {n.observed : n \in c.notes}

-----------------------------------------------------------------------------

EvidenceNext ==
  \/ TimePasses
  \/ \E p \in Payloads : PersistFplSnapshot(p)
  \/ \E s \in snapshots, g \in GWs, stats \in LivePayloads, need \in Events :
       PersistFplEventLive(s, g, stats, need)
  \/ \E l \in lives : StoreEventPenaltyReview(l)
  \/ \E o \in OverrideAsks : \E s \in Known(o.player, o.gw) : StoreReviewedOverride(o, s)
  \/ \E g \in GWs : \E s \in Selectable(g) : MaterializeAvailability(s, g)
  \/ ImportAppearanceHistory
  \/ \E o \in ScenarioAsks, r \in resolutions :
       r.gw = o.gw /\ StoreAppearanceScenario(o, r)
  \/ \E r \in resolutions : MaterializePreseasonAppearance(r)
  \/ \E r \in resolutions : MaterializeInseasonAppearance(r)
  \/ \E n \in Notes : StoreContextAnnotation(n)
  \/ \E a \in appearances : MaterializeContext(a)

EvidenceSpec == EvidenceInit /\ [][EvidenceNext]_evidenceVars

-----------------------------------------------------------------------------
(* Properties. *)

\* Nothing a projection is made of was known only after it claims to be as of, and that
\* is never after the deadline of its Gameweek: the snapshot, the captures and all that
\* reviewers wrote (release_freshness.py:1-12, "no captured evidence may come from after
\* that deadline").
EvidenceIsCausal ==
  /\ \A r \in resolutions :
       /\ AsOf(r) <= Deadline(r)
       /\ \A q \in Players : r.use[q] # None => r.use[q].ask.observed <= AsOf(r)
  /\ \A a \in appearances :
       /\ AsOf(a.resolution) <= a.asOf
       /\ a.asOf <= Deadline(a.resolution)
       /\ \A g \in DOMAIN a.history :
            /\ a.history[g].gw = g
            /\ g < a.resolution.gw
            /\ a.history[g].source.at <= a.history[g].at
            /\ a.history[g].at <= a.asOf
       /\ \A q \in Players : a.use[q] # None => a.use[q].ask.observed <= a.asOf
  /\ \A c \in contexts : \A t \in ContextTime(c) : t <= Deadline(c.appearance.resolution)

\* The run honours the ask: it rests on it or on a newer one of that player.
Honours(use, o) ==
  use[o.player] # None /\ use[o.player].ask.observed >= o.observed

\* What a reviewer is told not to refresh for is in force: the resolution any call
\* would return for the newest snapshot rests on his override or on a newer one, as
\* long as it has not run out; and every appearance run on his scenario.
RefreshFlagsHonest ==
  /\ \A o \in promised : \A s \in Selectable(o.gw) : \A r \in resolutions :
       /\ r.gw = o.gw
       /\ r.source = s
       /\ \E t \in overrides : t.ask = o /\ AsOf(r) <= t.until
       => Honours(r.use, o)
  /\ \A o \in owed : \A a \in appearances :
       /\ a.resolution.gw = o.gw
       /\ o.observed <= a.asOf
       /\ \E t \in scenarios : t.ask = o /\ a.asOf <= t.until
       => Honours(a.use, o)

===============================================================================

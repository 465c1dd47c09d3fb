---------------------------- MODULE ReleasePipeline ----------------------------
(***************************************************************************)
(* How a release is made: validation/release_materialization.py runs one   *)
(* script through                                                          *)
(*                                                                         *)
(*   snapshot, identity bridge, availability, event-live captures,         *)
(*   appearance, team strength, context, anchor, horizon, shadow           *)
(*   calibration, uncertainty, validation                                  *)
(*                                                                         *)
(* and each of them commits on its own.  The same functions are also       *)
(* scripts of their own, which operators run whenever they like: between   *)
(* any two commits of a release a newer snapshot, another strength book,   *)
(* another history of player rates or an annotation may arrive, and the    *)
(* process may stop.  A function holds the database while it runs, so its  *)
(* reads and its commit are one step here.  Rows are content-addressed:    *)
(* a record is a row with its identifier, and `made' its created_at.       *)
(***************************************************************************)
EXTENDS Integers, Sequences, FiniteSets

CONSTANTS
  Target,        \* the Gameweek the release starts at
  HorizonLength, \* how many Gameweeks it covers
  Due,           \* the deadline of every Gameweek
  Books,         \* workbooks of team strength
  None,
  MaxReleases, MaxScripts, MaxNotes   \* bounds of one behaviour

LastGW == Target + HorizonLength - 1
GWs == 1 .. LastGW
Statuses == {"shadow", "approved", "rejected"}

\* The rows that a run names by their identifier.
SnapshotRows == [at: Nat, final: BOOLEAN]
LiveRows == [source: SnapshotRows, gw: 1 .. Target - 1, at: Nat]
AppearanceRows ==
  [source: SnapshotRows, lives: [1 .. Target - 1 -> LiveRows], made: Nat, asOf: Nat]
ContextRows == [appearance: AppearanceRows, notes: SUBSET Nat, asOf: Nat, made: Nat]
RateRows ==
  [source: SnapshotRows, asOf: Nat, rate: Nat, lives: SUBSET LiveRows, whole: BOOLEAN]

ASSUME PipelineAssumption ==
  /\ Target \in Nat /\ Target >= 2
  /\ HorizonLength \in 1 .. 5
  /\ Due \in [GWs -> Nat]
  /\ \A g \in 1 .. LastGW - 1 : Due[g] <= Due[g + 1]
  /\ None \notin Books /\ None \notin ContextRows /\ None \notin RateRows
  /\ MaxReleases \in Nat /\ MaxScripts \in Nat /\ MaxNotes \in Nat

VARIABLES
  clock,
  snapshots,    \* ingestion_run
  bridges,      \* player_identity_bridge_run: snapshots that have one
  resolutions,  \* availability_resolution_run
  lives,        \* fpl_event_live_run
  appearances,  \* appearance_projection_run
  books,        \* team_strength_import_run
  strengths,    \* team_strength_run
  rates,        \* player_rate_history_run
  notes,        \* reviewed_context_annotation
  contexts,     \* context_feature_run
  currents,     \* current_season_player_rate_run; whole: its rows were written too
  models,       \* model_run, baseline_projection_run and their lineage
  calibration,  \* shadow_calibration_artifact: the status of the one in use
  bands,        \* uncertainty_artifact: their identifiers tell their status
  calibrated,   \* model_shadow_calibration_lineage: the runs that have one
  uncertain,    \* model_uncertainty_lineage
  release,      \* the script: its stage and what it holds in its variables
  begun,        \* bound: releases begun
  scripts,      \* bound: scripts operators have run
  released      \* history: the releases that were validated

official == <<snapshots, bridges, resolutions, lives>>
evidence == <<appearances, books, strengths, rates, notes, contexts>>
projections == <<currents, models>>
enrichment == <<calibration, bands, calibrated, uncertain>>
script == <<release, begun, released>>

vars == <<clock, official, evidence, projections, enrichment, script, scripts>>

now == clock + 1

Stages ==
  {"identity", "availability", "live", "appearance", "book", "strength", "context",
   "anchor", "horizon", "enrich", "validate"}

Idle ==
  [stage |-> "idle", source |-> None, provisional |-> FALSE, appearance |-> None,
   book |-> None, strength |-> None, context |-> None, anchor |-> None, runs |-> <<>>,
   bands |-> None, enriched |-> 0]

Init ==
  /\ clock = Due[1]
  /\ snapshots = {}
  /\ bridges = {}
  /\ resolutions = {}
  /\ lives = {}
  /\ appearances = {}
  /\ books = {}
  /\ strengths = {}
  /\ rates = {0}
  /\ notes = {}
  /\ contexts = {}
  /\ currents = {}
  /\ models = {}
  /\ calibration \in {"shadow", "approved"}
  /\ bands = {"shadow", "approved"}
  /\ calibrated = {}
  /\ uncertain = {}
  /\ release = Idle
  /\ begun = 0
  /\ scripts = 0
  /\ released = {}

-----------------------------------------------------------------------------
(* What the functions read. *)

NewestBy(S, Time(_)) == {x \in S : \A y \in S : Time(y) <= Time(x)}
Made(x) == x.made
At(x) == x.at

\* The row a call returns: the one stored under its identifier, or the new one.
Stored(table, row) ==
  IF \E x \in table : [x EXCEPT !.made = 0] = [row EXCEPT !.made = 0]
    THEN CHOOSE x \in table : [x EXCEPT !.made = 0] = [row EXCEPT !.made = 0]
    ELSE row

\* A Gameweek before the target is played; FPL may not have checked its data yet.
SnapshotOf(final) == [at |-> now, final |-> final]
MayBeFinal(final) == (\E s \in snapshots : s.final) => final

\* The snapshot materialize_latest_fpl_availability takes.
Selected == NewestBy({s \in snapshots : s.at <= Due[Target]}, At)

LiveOf(s, g) == [source |-> s, gw |-> g, at |-> now]

\* The captures an appearance run takes, one of each earlier Gameweek.
Histories ==
  {h \in [1 .. Target - 1 -> lives] :
     \A g \in 1 .. Target - 1 :
       h[g] \in NewestBy({l \in lives : l.gw = g /\ l.at <= Due[Target]}, At)}

Latest(times) == CHOOSE t \in times : \A u \in times : u <= t

AppearanceOf(s, history) ==
  [source |-> s, lives |-> history, made |-> now,
   asOf |-> Latest({s.at} \cup {history[g].at : g \in 1 .. Target - 1})]

\* The final captures of one snapshot known at a time, the newest of each Gameweek.
FinalLives(s, time) ==
  {l \in lives : /\ l.source = s
                 /\ s.final
                 /\ l.at <= time
                 /\ \A k \in lives :
                      k.source = s /\ k.gw = l.gw /\ k.at <= time => k.at <= l.at}

\* In season the workbook is blended with the final captures; before it, it is not.
StrengthOf(s, book) ==
  [source |-> s, book |-> book, policy |-> "inseason",
   lives |-> FinalLives(s, Due[Target]), made |-> now]

BookStrength(s, book) ==
  [source |-> s, book |-> book, policy |-> "preseason", lives |-> {}, made |-> now]

ContextOf(a) ==
  LET known == {n \in notes : n <= Due[Target]} IN
    [appearance |-> a, notes |-> known, asOf |-> Latest({a.asOf} \cup known), made |-> now]

-----------------------------------------------------------------------------
(* The baseline of one Gameweek from one set of inputs. *)

\* _choose_input_runs: what is not given is the newest that fits.
StrengthChoices == NewestBy(strengths, Made)
AppearanceChoices(s) == NewestBy({a \in appearances : a.source = s}, Made)

\* Mutant of RateChoices: the history need not have been imported by then.
RatesEver(asOf) == {r \in rates : \A q \in rates : q <= r}

RateChoices(asOf) ==
  LET known == {r \in rates : r <= asOf} IN {r \in known : \A q \in known : q <= r}

ContextChoices(a) ==
  LET fit == {c \in contexts : c.appearance = a}
      newest == {c \in fit : \A d \in fit : d.asOf < c.asOf \/ (d.asOf = c.asOf /\ d.made <= c.made)}
  IN IF fit = {} THEN {None} ELSE newest

ModelTime(a, c) == IF c = None THEN a.asOf ELSE Latest({a.asOf, c.asOf})

\* The shrunk rates of the season so far, if any capture of the snapshot says which
\* season it is.
CurrentOf(a, rate, c) ==
  LET asOf == ModelTime(a, c) IN
    [source |-> a.source, asOf |-> asOf, rate |-> rate,
     lives |-> FinalLives(a.source, asOf), whole |-> TRUE]

Seasonal(a) == \E l \in lives : l.source = a.source

SameRates(u, v) == [u EXCEPT !.whole = TRUE] = [v EXCEPT !.whole = TRUE]

\* A row that is there is taken as it is.
StoredRates(u) ==
  IF \E v \in currents : SameRates(u, v)
    THEN CHOOSE v \in currents : SameRates(u, v)
    ELSE u

RatesOf(a, rate, c) == IF Seasonal(a) THEN StoredRates(CurrentOf(a, rate, c)) ELSE None

ModelOf(g, a, rate, t, c) ==
  [gw |-> g, source |-> a.source, asOf |-> ModelTime(a, c), appearance |-> a,
   rate |-> rate, strength |-> t, context |-> c, current |-> RatesOf(a, rate, c),
   made |-> now]

Compatible(a, t) == a.source = t.source

\* Both schema and code refuse what is later than the deadline.
InTime(m) == m.asOf <= Due[m.gw]

\* The run rows of the current rates are committed first, then the model runs.
Baseline(ms) ==
  /\ \A m \in ms : InTime(m)
  /\ currents' = currents \cup {m.current : m \in {x \in ms : x.current # None}}
  /\ models' = models \cup ms

-----------------------------------------------------------------------------
(* Enrichment and the gates. *)

\* Mutant of StoreCalibration: the status is replaced.
RestateCalibration(status) ==
  /\ calibration' = status
  /\ UNCHANGED <<bands, calibrated, uncertain>>

\* An artifact is stored once; the identifier of a calibration does not tell its
\* status, and another status is refused.
StoreCalibration(status) ==
  /\ calibration \in {None, status}
  /\ calibration' = status
  /\ UNCHANGED <<bands, calibrated, uncertain>>

StoreUncertainty(status) ==
  /\ bands' = bands \cup {status}
  /\ UNCHANGED <<calibration, calibrated, uncertain>>

Calibrate(m) ==
  /\ calibration \notin {None, "rejected"}
  /\ calibrated' = calibrated \cup {m}
  /\ UNCHANGED <<calibration, bands, uncertain>>

\* Only the bands of an approved artifact become those of the projection.
Mode(status) == IF status = "approved" THEN "active" ELSE "shadow"

\* A run keeps the lineage it has: another artifact is refused.
ApplyUncertainty(m, status) ==
  LET u == [run |-> m, artifact |-> status, mode |-> Mode(status)] IN
    /\ status \in bands \ {"rejected"}
    /\ \A v \in uncertain : v.run = m => v = u
    /\ uncertain' = uncertain \cup {u}
    /\ UNCHANGED <<calibration, bands, calibrated>>

\* build_release_manifest
PassesManifest(runs) ==
  /\ \A i, j \in DOMAIN runs :
       /\ i < j => runs[i].gw < runs[j].gw
       /\ runs[i].source = runs[j].source
       /\ runs[i].asOf = runs[j].asOf
       /\ runs[i].current # None /\ runs[j].current # None =>
            runs[i].current = runs[j].current
  /\ \A i \in DOMAIN runs :
       /\ runs[i].source \in bridges
       /\ runs[i].current # None =>
            /\ runs[i].current.asOf = runs[i].asOf
            /\ runs[i].current.source = runs[i].source
            /\ runs[i].current.rate = runs[i].rate

\* check_release_freshness
PassesFreshness(runs) == \A i \in DOMAIN runs : runs[i].source.at <= Due[runs[i].gw]

\* check_release_approval
Approved(runs) ==
  \A i \in DOMAIN runs :
    /\ runs[i] \in calibrated
    /\ calibration = "approved"
    /\ \E u \in uncertain : u.run = runs[i] /\ u.artifact = "approved" /\ u.mode = "active"

\* determine_release_health
Health(runs) ==
  IF ~(PassesManifest(runs) /\ PassesFreshness(runs)) THEN "research"
  ELSE IF Approved(runs) THEN "production"
  ELSE "shadow"

-----------------------------------------------------------------------------
(* The script. *)

Goto(stage) == release' = [release EXCEPT !.stage = stage]
Tick == clock' = now

Begin(final, provisional) ==
  /\ release = Idle
  /\ begun < MaxReleases
  /\ MayBeFinal(final)
  /\ snapshots' = snapshots \cup {SnapshotOf(final)}
  /\ release' = [Idle EXCEPT !.stage = "identity", !.source = SnapshotOf(final),
                           !.provisional = provisional]
  /\ begun' = begun + 1
  /\ Tick
  /\ UNCHANGED <<bridges, resolutions, lives, evidence, projections, enrichment,
                 scripts, released>>

ImportIdentity ==
  /\ release.stage = "identity"
  /\ bridges' = bridges \cup {release.source}
  /\ Goto("availability")
  /\ Tick
  /\ UNCHANGED <<snapshots, resolutions, lives, evidence, projections, enrichment,
                 scripts, begun, released>>

\* The newest snapshot before the deadline must be the release's own.
ResolveAvailability ==
  /\ release.stage = "availability"
  /\ \E s \in Selected :
       /\ resolutions' = resolutions \cup {s}
       /\ release' = IF s = release.source
                       THEN [release EXCEPT !.stage = "live"]
                       ELSE Idle
  /\ Tick
  /\ UNCHANGED <<snapshots, bridges, lives, evidence, projections, enrichment,
                 scripts, begun, released>>

\* One capture of every Gameweek before the target, in order.
CaptureLive(g) ==
  /\ release.stage = "live"
  /\ release.source.final \/ release.provisional
  /\ lives' = lives \cup {LiveOf(release.source, g)}
  /\ Goto(IF g = Target - 1 THEN "appearance" ELSE "live")
  /\ \A k \in 1 .. g - 1 : \E l \in lives : l.source = release.source /\ l.gw = k
  /\ Tick
  /\ UNCHANGED <<snapshots, bridges, resolutions, evidence, projections, enrichment,
                 scripts, begun, released>>

\* A resolution has one appearance run: other captures make another one impossible.
ProjectAppearance(s, history) ==
  LET a == Stored(appearances, AppearanceOf(s, history)) IN
    /\ s \in resolutions
    /\ \A b \in appearances : b.source = s => b = a
    /\ a.asOf <= Due[Target]
    /\ appearances' = appearances \cup {a}
    /\ UNCHANGED <<books, strengths, rates, notes, contexts>>

ReleaseAppearance ==
  /\ release.stage = "appearance"
  /\ \E history \in Histories :
       /\ ProjectAppearance(release.source, history)
       /\ release' = [release EXCEPT !.stage = "book", !.appearance =
                        Stored(appearances, AppearanceOf(release.source, history))]
  /\ Tick
  /\ UNCHANGED <<official, projections, enrichment, scripts, begun, released>>

ReleaseBook(b) ==
  /\ release.stage = "book"
  /\ books' = books \cup {b}
  /\ release' = [release EXCEPT !.stage = "strength", !.book = b]
  /\ Tick
  /\ UNCHANGED <<official, appearances, strengths, rates, notes, contexts, projections,
                 enrichment, scripts, begun, released>>

RateTeams(t) ==
  /\ strengths' = strengths \cup {Stored(strengths, t)}
  /\ UNCHANGED <<appearances, rates, notes, contexts>>

ReleaseStrength ==
  /\ release.stage = "strength"
  /\ RateTeams(StrengthOf(release.source, release.book))
  /\ UNCHANGED books
  /\ release' = [release EXCEPT !.stage = "context", !.strength =
                   Stored(strengths, StrengthOf(release.source, release.book))]
  /\ Tick
  /\ UNCHANGED <<official, projections, enrichment, scripts, begun, released>>

AppendContext(a) ==
  /\ ContextOf(a).asOf <= Due[Target]
  /\ contexts' = contexts \cup {Stored(contexts, ContextOf(a))}
  /\ UNCHANGED <<appearances, books, strengths, rates, notes>>

ReleaseContext ==
  /\ release.stage = "context"
  /\ AppendContext(release.appearance)
  /\ release' = [release EXCEPT !.stage = "anchor", !.context =
                   Stored(contexts, ContextOf(release.appearance))]
  /\ Tick
  /\ UNCHANGED <<official, projections, enrichment, scripts, begun, released>>

\* The anchor is given everything but the history of player rates.
ReleaseAnchor ==
  /\ release.stage = "anchor"
  /\ Compatible(release.appearance, release.strength)
  /\ \E r \in RateChoices(release.appearance.asOf) :
       LET m == Stored(models, ModelOf(Target, release.appearance, r, release.strength,
                                       release.context)) IN
         /\ Baseline({m})
         /\ release' = [release EXCEPT !.stage = "horizon", !.anchor = m]
  /\ Tick
  /\ UNCHANGED <<official, evidence, enrichment, scripts, begun, released>>

\* Mutant of Pinned: every Gameweek takes the newest inputs that fit.
Unpinned(anchor) ==
  {in \in appearances \X rates \X strengths \X (contexts \cup {None}) :
     /\ in[3] \in StrengthChoices
     /\ in[1] \in AppearanceChoices(in[3].source)
     /\ in[2] \in RateChoices(in[1].asOf)
     /\ in[4] \in ContextChoices(in[1])}

\* The inputs every Gameweek of the horizon is projected from; without a context the
\* newest is taken.
Pinned(anchor) ==
  {<<anchor.appearance, anchor.rate, anchor.strength, c>> :
     c \in IF anchor.context = None THEN ContextChoices(anchor.appearance)
                                    ELSE {anchor.context}}

\* One Gameweek of the horizon after the other, the anchor's own first.
ReleaseHorizon ==
  /\ release.stage = "horizon"
  /\ \E in \in Pinned(release.anchor) :
       LET g == Target + Len(release.runs)
           m == Stored(models, ModelOf(g, in[1], in[2], in[3], in[4]))
           runs == Append(release.runs, m) IN
         /\ Baseline({m})
         /\ release' =
              IF Len(runs) < HorizonLength THEN [release EXCEPT !.runs = runs]
              ELSE IF runs[1] = release.anchor
                THEN [release EXCEPT !.runs = runs, !.stage = "enrich"]
                ELSE Idle
  /\ Tick
  /\ UNCHANGED <<official, evidence, enrichment, scripts, begun, released>>

\* Of every run first the calibration, then the uncertainty of one artifact.
ReleaseEnrich(status) ==
  LET k == release.enriched
      m == release.runs[(k \div 2) + 1] IN
    /\ release.stage = "enrich"
    /\ release.bands \in {None, status}
    /\ IF k % 2 = 0 THEN Calibrate(m) ELSE ApplyUncertainty(m, status)
    /\ release' = [release EXCEPT !.bands = status, !.enriched = k + 1,
                     !.stage = IF k + 1 = 2 * HorizonLength THEN "validate" ELSE "enrich"]
    /\ Tick
    /\ UNCHANGED <<official, evidence, projections, scripts, begun, released>>

\* orchestrate_release_validation and determine_release_health only read.
Validate ==
  /\ release.stage = "validate"
  /\ released' = released \cup {release.runs}
  /\ release' = Idle
  /\ UNCHANGED <<clock, official, evidence, projections, enrichment, begun, scripts>>

\* A guard raised, or the process was killed.
Stop ==
  /\ release # Idle
  /\ release' = Idle
  /\ UNCHANGED <<clock, official, evidence, projections, enrichment, begun, scripts, released>>

\* Killed between the run row of the current rates and the rates themselves.
StopInRates ==
  /\ release.stage = "anchor"
  /\ Seasonal(release.appearance)
  /\ \E r \in RateChoices(release.appearance.asOf) :
       LET u == CurrentOf(release.appearance, r, release.context) IN
         /\ u.lives # {}
         /\ ~ \E v \in currents : SameRates(u, v)
         /\ currents' = currents \cup {[u EXCEPT !.whole = FALSE]}
  /\ release' = Idle
  /\ Tick
  /\ UNCHANGED <<official, evidence, models, enrichment, begun, scripts, released>>

-----------------------------------------------------------------------------
(* Scripts that operators run on their own. *)

Script ==
  /\ scripts < MaxScripts
  /\ scripts' = scripts + 1
  /\ Tick
  /\ UNCHANGED script

RefreshSnapshot(final) ==
  /\ Script
  /\ MayBeFinal(final)
  /\ snapshots' = snapshots \cup {SnapshotOf(final)}
  /\ UNCHANGED <<bridges, resolutions, lives, evidence, projections, enrichment>>

RefreshLive(s, g) ==
  /\ Script
  /\ lives' = lives \cup {LiveOf(s, g)}
  /\ UNCHANGED <<snapshots, bridges, resolutions, evidence, projections, enrichment>>

RefreshAvailability ==
  /\ Script
  /\ \E s \in Selected : resolutions' = resolutions \cup {s}
  /\ UNCHANGED <<snapshots, bridges, lives, evidence, projections, enrichment>>

RefreshAppearance ==
  /\ Script
  /\ \E s \in NewestBy(resolutions, At), history \in Histories : ProjectAppearance(s, history)
  /\ UNCHANGED <<official, projections, enrichment>>

\* import_team_strength.py imports a workbook and rates the teams without the captures,
\* for a snapshot that was taken in time.
RefreshStrength(s, b) ==
  /\ Script
  /\ s.at <= Due[Target]
  /\ books' = books \cup {b}
  /\ RateTeams(BookStrength(s, b))
  /\ UNCHANGED <<official, projections, enrichment>>

\* A newer history of player rates, and what annotators write.
ImportRates ==
  /\ Script
  /\ rates' = rates \cup {now}
  /\ UNCHANGED <<official, appearances, books, strengths, notes, contexts, projections, enrichment>>

Annotate ==
  /\ Script
  /\ Cardinality(notes) < MaxNotes
  /\ notes' = notes \cup {now}
  /\ UNCHANGED <<official, appearances, books, strengths, rates, contexts, projections, enrichment>>

RefreshContext(a) ==
  /\ Script
  /\ AppendContext(a)
  /\ UNCHANGED <<official, projections, enrichment>>

\* materialize_inseason_baseline with nothing given.
RefreshBaseline ==
  /\ Script
  /\ \E t \in StrengthChoices : \E a \in AppearanceChoices(t.source) :
     \E r \in RateChoices(a.asOf), c \in ContextChoices(a) :
       Baseline({Stored(models, ModelOf(Target, a, r, t, c))})
  /\ UNCHANGED <<official, evidence, enrichment>>

\* materialize_frozen_projection_horizon of any anchor, up to where it gets.
RefreshHorizon(anchor, last) ==
  /\ Script
  /\ anchor.gw = Target
  /\ \E in \in Pinned(anchor) :
       Baseline({Stored(models, ModelOf(g, in[1], in[2], in[3], in[4])) : g \in Target .. last})
  /\ UNCHANGED <<official, evidence, enrichment>>

RefreshEnrichment ==
  /\ Script
  /\ \/ \E status \in Statuses : StoreCalibration(status) \/ StoreUncertainty(status)
     \/ \E m \in models :
          \/ Calibrate(m)
          \/ \E status \in bands : ApplyUncertainty(m, status)
  /\ UNCHANGED <<official, evidence, projections>>

Next ==
  \/ \E final, provisional \in BOOLEAN : Begin(final, provisional)
  \/ ImportIdentity
  \/ ResolveAvailability
  \/ \E g \in 1 .. Target - 1 : CaptureLive(g)
  \/ ReleaseAppearance
  \/ \E b \in Books : ReleaseBook(b)
  \/ ReleaseStrength
  \/ ReleaseContext
  \/ ReleaseAnchor
  \/ ReleaseHorizon
  \/ \E status \in Statuses : ReleaseEnrich(status)
  \/ Validate
  \/ Stop
  \/ StopInRates
  \/ \E final \in BOOLEAN : RefreshSnapshot(final)
  \/ \E s \in snapshots, g \in 1 .. Target - 1 : RefreshLive(s, g)
  \/ RefreshAvailability
  \/ RefreshAppearance
  \/ \E s \in snapshots, b \in Books : RefreshStrength(s, b)
  \/ ImportRates
  \/ Annotate
  \/ \E a \in appearances : RefreshContext(a)
  \/ RefreshBaseline
  \/ \E m \in models, g \in Target .. LastGW : RefreshHorizon(m, g)
  \/ RefreshEnrichment

Spec == Init /\ [][Next]_vars

-----------------------------------------------------------------------------
(* Properties. *)

\* No run rests on what was known only after it claims to be as of, and it is never as
\* of a time after the deadline of its Gameweek; the captures behind its team strength
\* may be newer, though not newer than the deadline of the Gameweek it starts from
\* (docs/PIPELINE_ARCHITECTURE.md: evidence is frozen before the deadline).
ModelsAreCausal ==
  \A m \in models :
    /\ m.asOf <= Due[m.gw]
    /\ m.source.at <= m.asOf
    /\ m.rate <= m.asOf
    /\ \A g \in 1 .. Target - 1 : m.appearance.lives[g].at <= m.asOf
    /\ m.context # None => \A n \in m.context.notes : n <= m.asOf
    /\ m.current # None =>
         /\ m.current.rate <= m.current.asOf
         /\ m.current.asOf <= m.asOf
         /\ \A l \in m.current.lives : l.at <= m.asOf
    /\ \A l \in m.strength.lives : l.at <= Due[Target]

SameInputs(m, n) ==
  /\ m.source = n.source
  /\ m.appearance = n.appearance
  /\ m.rate = n.rate
  /\ m.strength = n.strength
  /\ m.context = n.context
  /\ m.current = n.current

\* A release that got to its validation passes it, and its Gameweeks are projected from
\* the very same inputs, which are those of its own snapshot, whatever other scripts have
\* committed since it began.
ReleaseIsOneLineage ==
  \A runs \in released :
    /\ PassesManifest(runs)
    /\ PassesFreshness(runs)
    /\ \A i, j \in DOMAIN runs : SameInputs(runs[i], runs[j])
    /\ \A i \in DOMAIN runs : runs[i].gw = Target + i - 1

\* A label once given to a release stays true: what was shadow or production is not
\* relabelled by later commits.
HealthIsStable ==
  [][\A runs \in released : Health(runs)' = Health(runs)]_vars

\* What resolve_research_horizon shows: the Gameweeks of one snapshot, policy and as_of,
\* the newest run of each from the first on; of several groups the one completed last.
HorizonKeys == {<<m.source, m.asOf>> : m \in models}
InGroup(k) == {m \in models : <<m.source, m.asOf>> = k}
First(k) == CHOOSE g \in GWs : /\ \E m \in InGroup(k) : m.gw = g
                               /\ \A m \in InGroup(k) : g <= m.gw
HorizonOf(k) == UNION {NewestBy({m \in InGroup(k) : m.gw = g}, Made) : g \in GWs}
Unbroken(k) ==
  \A m \in InGroup(k) : \A g \in First(k) .. m.gw : \E n \in InGroup(k) : n.gw = g
Shown ==
  {H \in {HorizonOf(k) : k \in {j \in HorizonKeys : Unbroken(j)}} :
     \A k \in {j \in HorizonKeys : Unbroken(j)} :
       \A m \in HorizonOf(k) : \E n \in H : m.made <= n.made}

\* service.py:192: "The app never silently combines unrelated runs."
HorizonUnmixed == \A H \in Shown : \A m, n \in H : SameInputs(m, n)

\* current_season_rates.py:152: "This run_id is already immutable and complete".
RateRunIsComplete == \A m \in models : m.current # None => m.current.whole

===============================================================================

# Verification of fpl_model

TLA+ models of the parts of this repository whose correctness depends on order, interleaving,
failure or search, TLC configurations that check them on small instances, and TLAPS proofs for every
value of the constants. Paths are relative to `src/fpl_model` unless they start with another
directory of the repository.

## 1. The system

fpl_model turns data of the Fantasy Premier League (FPL) into projections, packs them into one
compact file (`web/release.json`) and serves decisions about a manager's squad from that file.

```
 FPL API, workbooks, reviewers, managers' files
      │ ingest            │ annotations, overrides │ imports
      ▼                   ▼                        ▼
    DuckDB ──► availability, appearance, context, rates ──► model runs ──► gates ──► export
      └────────── deadline refresh worker (scheduled process) ───────────────────────┘ │ os.replace
                                                                                       ▼
 browser (web/app.js) ◄──► FastAPI process: rate limiter, bootstrap cache, decisions ◄─ release.json
```

The worker and the API share nothing but the release file. The worker and the operators' scripts
share the DuckDB file, which one process at a time opens for writing; every function commits on its
own, so scripts interleave between commits and never inside one. Requests of one API process run in
a thread pool and share the bootstrap cache, the benchmark cache and the rate limiter.

### Inventory

| Component | State | Operations | What is hard | What makes it correct |
|---|---|---|---|---|
| Deadline refresh worker, `operations/deadline_refresh.py` | lock, backups, reports, release, status; per process: stage, report, paths | `run_deadline_refresh`, `_exclusive_lock`, `_backup_database`, `_atomic_write`, `_deliver_alert` | crashes between any two writes, stale locks, two schedulers, failures around `os.replace` | the published file passed the gates; one writer; a restore point; truthful outcomes; runs end |
| Release materialization, `validation/release_materialization.py` | rows in DuckDB, committed stage by stage | `materialize_inseason_release` | partial failure; other scripts between the stages | causal evidence; one lineage |
| Release gates, `validation/release_{manifest,freshness,approval,orchestration,health,drift}.py` | lineage rows (read only) | one report per gate | later rows change what an earlier verdict rested on | a label once given stays true |
| Export, `webapp/release_export.py` | none | `build_web_release` | the gates are evaluated again on what is exported | nothing that failed is exported |
| Ingest, `ingest/*` | raw files, immutable rows | snapshots, event-live captures, identities, histories, strengths, squads, evidence | repeats, corrections, moving deadlines, conflicts with what is stored | rows never change; the same input makes one row |
| Context, `context/*` | availability, scenarios, annotations | `materialize_latest_fpl_availability`, `store_reviewed_override`, … | selection by time; telling a reviewer what must run again | nothing newer than the deadline; honest refresh flags |
| Projection model, `model/*` | appearance, rate and model runs | appearance, rates, anchor, frozen horizon, calibration, uncertainty | what is not pinned is re-selected | a run rests on nothing newer than it claims |
| Validation studies, `validation/*` (rest), their scripts | reports, a reference artifact | walk-forward backtest, calibration, policy study | postponed matches, double Gameweeks, an archive that grows | no look-ahead; reruns agree; every row accounted for |
| Decision engine, `decision/*` | squad, bank, free transfers along a horizon | lineup, substitutions, transfers, rolling plan, initial squad, wildcard, rating | pruned searches, banked transfers, money | legal and affordable results, promises kept |
| Decision stores, `decision/*_store.py` | none (read boundaries) | `load_*_inputs` | squads and runs of different scripts and snapshots | one snapshot, causal; a stored squad loads |
| Database schema, `storage/database.py` | `schema_version`, tables | `initialize_database` | kills between statements | version and columns agree |
| Decision API, `api/index.py`, `webapp/service.py` | `lru_cache` of the bootstrap, benchmark cache | ready, bootstrap, squad import, lineups, transfers, wildcard | the file is replaced between the reads of a request and under the cache | fresh decisions; comparable ratings |
| Rate limiter, `webapp/alpha_access.py` | one deque per tester and bucket | `check` | window boundaries, rounding, two buckets per scan | a window never holds more than the limit; honest Retry-After |
| Receipts and operations, `webapp/{decision_receipt,alpha_operations}.py` | none | hashing, configuration | – | a receipt names the release of the decision |
| Browser client, `web/app.js` | plan in memory and in local storage, bootstrap, last answers | squad editor, staged moves, chips, commit, import, reload | answers out of order or never, handlers between request and answer | a coherent plan that survives reloads; commits balance and are paid for |

`PROJECT.json` lists every component with its status, and every hazard at its line.

## 2. Plan

In order of importance; everything listed is done.

1. `PublishedRelease`, the promise to readers of the release file, and `DeadlineRefresh`, which
   implements it.
2. `DecisionApi` over `PublishedRelease`; `RateLimiter`.
3. `SquadTransfers` and `WebPlan`, the planning page.
4. `EvidenceStore` and `ReleasePipeline`: what projections rest on, and how a release is made.
5. `Lineups`, `TransferPlans`, `SquadSearch`, `SquadRating`, composed by `DecisionStack`.
6. `ManualImports` and, over it, `DecisionInputs`: what the decisions read.
7. `SeasonArchive` and, over it, `Studies`: backtests and calibration.
8. Proofs for all of them.

Worth doing next: the export's JSON as a refinement between `ReleasePipeline` and `DeadlineRefresh`
(today the worker's verdict is nondeterministic, which allows everything the pipeline does); the
wildcard comparison and reviewed scenarios of the page; an operator for archive corrections in
`SeasonArchive`; the proofs of §5 that are still left to runs.

## 3. Modules and code

Runs are the 12 of section 4. A definition whose comment says `Mutant of` is the form a plausible bug
would give its neighbour; no specification uses it.

### PublishedRelease, DeadlineRefresh

`PublishedRelease`: attempts are opened and closed, one at a time; a release is *accepted*, then
*switched* in, in one step and at most once per attempt. The worker implements it
(`ImplementsPromise`) and the API composes with it by `EXTENDS`.

In `DeadlineRefresh` each worker process has a stage `pc`, and one action per stage and outcome of
`run_deadline_refresh`; what the code does between two visible effects (file writes, reads of shared
files, commits) is one step. A run is a number; the release, reports and lock file it makes carry it.

| Model | Code |
|---|---|
| `Start`, `ReadPrevious` | `started_at`, then `_existing_release_id` before the lock |
| `AcquireLock`, `RefuseLock`, `ClaimLock`, `Unlock` | `_exclusive_lock`: `O_CREAT\|O_EXCL`, `FileExistsError`, the PID written, `finally: unlink` of whatever is there |
| `OpenBackup`, `CopyBackup`, `SkipBackup`, `BackupRaises` | `_backup_database`: `copy2` truncates, then fills |
| `CommitRows`, `Materialize`, `MaterializeRaises` | `materialize_inseason_release` as the worker sees it |
| `ReportMaterialization(Raises)` | report written, then `if not materialized.passes: raise` |
| `Export` | `build_web_release` and its refusals |
| `Publish`, `PublishRaises` | `_atomic_write` of the release; may raise before or after `os.replace` |
| `Fail` | the `except Exception` block, the stage in the report |
| `Alert`, `WriteStatus(Raises)`, `Exit` | the common tail; a status write that raises leaves no result; the exit code |
| `Interrupt`, `Kill` | `finally` runs, or does not |
| `InspectLock`, `RemoveLock` | the operator's procedure in `docs/DEADLINE_REFRESH_WORKER.md` |

The contents of files are the run they came from. The materialization verdict and the export's
findings are nondeterministic. A backup file is the set of runs whose rows it would restore; `{}`
restores nothing (missing or truncated). The release that is there at the start (`NoRun`) is taken to
have passed its gates. Failures of `mkdir` or `os.open` other than `FileExistsError` happen before
anything is written, and are `Kill` in stage `lock`.

### DecisionApi, RateLimiter

`history` is the sequence of contents the release file has had. A request walks through its thread's
stages: receive (with or without the cached bootstrap), first read, second read, and its purpose.
`Publish` (a `Switch` of `PublishedRelease` with an exportable release) and `Restart` can come between
any two steps. `Decide` may always answer `withheld`, which stands for ratings withheld for reasons of
data and for answers that carry none. The API modelled is one whose `FPL_WEB_RELEASE_PATH` is the
worker's output; a file that is there is valid, since the exporter wrote it.

In `RateLimiter` the deque of a bucket is a suffix of all it ever admitted, so the history that the
limit speaks of is the state itself. `Scan` performs both checks: the middleware awaits nothing
between them, but the clock can move (`later`). Testers share no state; one is modelled.

### SquadTransfers, WebPlan

`SquadTransfers` has no variables: it says which plans the service scores, what staged moves make of
an owned squad (a function from players to selling prices, beside the bank), and what the plan summary
holds. `WebPlan` is one page: the plan in memory (`plan`) and in local storage (`stored`), the last
answers (`lineups`, `transfers`), the workspace (`bootstrap`) and the requests in flight.

| Model | Code |
|---|---|
| `LegalPlayers`, `Legal` | `validate_squad` |
| `Owned`, `MoveFits`, `Move`, `AfterMoves`, `FreeAfter` | `_validated_web_squad`, `_apply_pending_transfers` |
| `Summary` | `_plan_summary`, the part a commit reads |
| `LoadPlan`, `Reload` | `loadPlan()` when the page is opened |
| `EditSquad`, `SetActiveChip`, `ToggleChipStatus`, `RemovePendingTransfer`, `StageTransfers`, `SetBank`, `SetFree` | the handlers of those names and inputs; each keeps the plan and asks again |
| `CommitPendingTransfers`, `Committed` | the fold of `plan_summary` into the plan, and the spent Wildcard |
| `AskEntry`, `ReceiveEntry`, `BreakOffEntry` | `loadFromTeamId` before and after its `await`; without a bootstrap it throws half way |
| `Receive`, `Fail` | `runLineups`, `runTransfers` after their `await` |
| `LoadWorkspace`, `KnownSquad`, `CheckedSetup` | `loadWorkspace` |

A handler up to its `await`, and the rest of it after the answer, are one action each: JavaScript runs
them without interruption. An answer is kept as the plan and the release it was computed from; the
release is any that was published since the request was sent. Which moves a scan suggests depends on
projected points, so every sequence of moves the service would accept can be staged from it. Where
rendering needs `state.bootstrap` and there is none, JavaScript throws, and what the handler would do
afterwards does not happen (`CanRender`, `BreakOffEntry`). Buttons that the page disables while a
request is in flight are not modelled as disabled: each has a second way to the same handler.

### EvidenceStore

The evidence a projection rests on, and when it was known. Every action is one script and one
transaction; the clock moves between any two.

| Model | Code |
|---|---|
| `PersistFplSnapshot` | `ingest/fpl_snapshot.py`: a snapshot with the deadlines, rosters and fixture states the API gave |
| `PersistFplEventLive`, `StoreEventPenaltyReview` | `ingest/fpl_event_live.py`, `ingest/penalty_review.py`: final, analytically complete, refused or a repeat |
| `StoreReviewedOverride`, `NeedsRefresh` | `context/availability.py`: an override, and whether the answer says that runs must be made again |
| `MaterializeAvailability`, `Selects`, `Resolved` | the newest causal snapshot, the overrides in force at its time |
| `StoreAppearanceScenario`, `NeedsPipeline` | `context/minutes.py` |
| `MaterializePreseasonAppearance`, `MaterializeInseasonAppearance`, `Basis`, `EvidenceTime` | `model/appearance_pipeline.py`: one admissible capture of every earlier Gameweek; the run's time is its latest input's |
| `StoreContextAnnotation`, `MaterializeContext` | `context/pipeline.py` |

A payload is its deadlines, fixture states and, per player, a status; a player's basis (current,
prior, missing) is kept and the probabilities are not. `promised` and `owed` record what reviewers
were told, so that `RefreshFlagsHonest` can hold them against what was stored since.

### ReleasePipeline

One script, `release`, goes through the stages of `materialize_inseason_release` – snapshot, identity,
availability, live captures, appearance, book, strength, context, anchor, horizon, enrichment,
validation – and commits after each. Between any two commits an operator's script may run: the
`Refresh…`, `ImportRates` and `Annotate` actions. `Stop` is an exception or a kill at any stage;
`StopInRates` is the kill after the rate run's row and before its rates.

| Model | Code |
|---|---|
| `AppearanceOf`, `Histories` | `materialize_inseason_appearance`, the newest captures before the deadline |
| `StrengthChoices`, `AppearanceChoices`, `RateChoices`, `ContextChoices`, `Compatible` | `_choose_input_runs` of `model/baseline_pipeline.py` |
| `ModelOf`, `ModelTime`, `Pinned`, `InTime`, `Baseline` | `_materialize_frozen_fixture_projection`, `materialize_frozen_projection_horizon` |
| `CurrentOf`, `RatesOf`, `StoredRates` | `model/current_season_rates.py` |
| `Calibrate`, `ApplyUncertainty` | the shadow calibration and the uncertainty artifact |
| `PassesManifest`, `PassesFreshness`, `Approved`, `Health`, `Validate` | the gates |
| `HorizonOf`, `Shown` | `resolve_research_horizon` of `webapp/service.py` (its database mode) |
| `SnapshotRows`, `LiveRows`, `AppearanceRows`, `ContextRows`, `RateRows` | the columns of the rows, in `storage/database.py` |

A record is a row with its content-addressed identifier: storing it again changes nothing. `made` is
`created_at`, by which the code breaks ties; equal times are a choice. `ReleasePipeline` keeps of the
evidence only its times and lineage; `EvidenceStore` has the rest.

### Lineups, TransferPlans, SquadSearch, SquadRating, DecisionStack

`Lineups` is `decision/lineup.py`, `autosub.py` and `role_scenario_sensitivity.py` on slots 1 .. 15:
formations are tried, substitutions are made greedily in bench order. `TransferPlans` is `transfer.py`,
`transfer_bundle.py`, `transfer_dominance.py` and the beam of `rolling.py` (`SameState` is
`_state_key`). `SquadSearch` is the slot-by-slot beam of `initial_squad.py` with its candidate lenses
and cheapest-completion bound, `initial_squad_dominance.py` and `wildcard.py`. `SquadRating` is
`squad_rating.py` with the seeded draws as free choices. `DecisionStack` composes them: a manager
without a squad searches for one slot by slot (`StartSearch`, `SearchSlot`, `TakeSquad`), plans week by
week (`StartPlan`, `PlanGameweek`, `MakeTransfers`, `AdviseTransfer`), plays (`PlayGameweek`),
wildcards, is rated, and a new release changes prices and projections (`NewRelease`: what a player sells
for follows from what was paid for him and the new price). What the code takes first of a sorted list is
the set of those that nothing precedes (`Returned`, `Best`, `HighestOf`); that there is one is part of
what is checked. `Layout` and `OpenSlots` are the slots by position, without those that locked players
fill. How wide candidates, shortlists and beams are belongs to a request (`lens`, `shortlist`, `beam`),
since the code's callers differ in them. A search that plans ahead values no free transfer left at the
end (`LookAhead` is `TransferPlans` with a `TerminalValue` of 0): `search_initial_squad` passes none. A
market has prices, clubs and points for every player (`MarketsAssumption`), players are numbered and
have positions (`PlayersAssumption`), and a request is a record of what its function takes
(`RequestsAssumption`; a beam holds at least one plan, `rolling.py:264` refuses another); what the code
refuses of it is refused by `Accepts`. Budgets and the spend band are not negative, the sizes of a
benchmark are positive (`RatingAssumption`; the code refuses others). Points are whole numbers; the
code's floats differ only in ties below its tolerance. An input the code answers with `ValueError`
starts no task.

A rating has two sources, as in `service.py`. Without a release's benchmark, `StartBenchmark` samples
for the squad's own budget, `DrawSquad` draws one by one, `RateSquad` keeps a population and rates. A
release samples for one budget anchor after another (`StartMaster`, `DrawSquad`, `CloseAnchor`), merges
what each kept (`Master`), is ready when every anchor has enough (`Ready`), and each later rating takes
its budget's share of the merged squads (`RateReleased`, `Share`). `Drawn` is what the draws may lead to:
nothing at all where `combinatorial_upper_bound` (`UpperBound`) is below the minimum population.
`BenchmarkIsFair` compares a rating with everything any anchor sampled: `Floor` is what a squad has to
cost to be preferred among the squads sampled for that anchor, whatever the rated squad's budget.

### ManualImports, DecisionInputs

`ManualImports` has the upgrade of the database a statement at a time (`Initialize`, `ReadVersion`,
`CreateTable`, `RelaxColumn`, `StampVersion`, `Kill`) and the imports, each one transaction: squads from
a CSV or the public entry API (`StoreSquad`), identity bridges, fixture histories, rate windows,
reviewed rate evidence. `Databases` are what any version may have left: of version 1 or 2 with strengths
that must be given, of a version before 15 with overrides that need not expire; `left` is an auxiliary
variable that remembers which it was, and `UpgradeIsHonest` says what the version row is worth for each:
all tables, relaxed columns for version 2 alone, and otherwise the columns that were left. `Stored` is
the lookup by content hash that makes repeats harmless; `SquadTables`, `BridgeTables`, `HistoryTables`,
`EvidenceTables` are the CHECK and key constraints.

`DecisionInputs` adds completed model runs and the four read boundaries, operators of the state:
`LineupInputs`, `TransferInputs`, `RollingInputs`, `InitialInputs` with their `Accepts`, after
`lineup_store.py`, `transfer_store.py`, `rolling_store.py` and `initial_squad_store.py`. A model's rows
are of a code and a fixture, and each boundary joins and adds them up itself, as the code does in three
places: `LineupRows` and `LineupProjection` fill the squad's slots by code, `TransferProjection` selects
a code's rows, `Aggregated` groups all rows by code for the other two. They share only what the code
shares, `combine_appearance_probability` and `sum`. `BoundariesAgree` holds what they offer, leave out
and find missing against each other. `Loadable`
validates a squad again as it was stored (`AsStored`), with its own snapshot.

### SeasonArchive, Studies

`SeasonArchive` is a season as its public archive records it – matches are played, postponed with their
Gameweek label, players transferred – and the as-of reads of `validation/`: deadlines inferred from
kick-offs, rate windows, appearances, team strengths, the vote that tells the clubs apart. `Studies` is
the five scripts over it, with the walk-forward folds (`Training`), the naive means (`ExpandingMean`,
`MatchedNaive`), the backtest's gates (`Gap`, `GapsOf`, `Scored`), the calibration (`WalkForward`) and
the policy study. That one's loop is written out a second time, as in `appearance_policy_backtest.py`:
its weeks, doubles, inputs, flags, bonus gate, gaps and the rows it appends for fitting are definitions
of their own (`PolicyWeeks` to `PolicyFit`), and what the two share is what the code shares, the as-of
reads; `Parity` is the code's own check. A prediction is the record of its inputs and a fit the set of
its rows: two are equal when the code could only compute equal numbers.

## 4. Runs

| Run | Instance | Shows |
|---|---|---|
| `refresh_safety` | 2 workers, 2 runs, 2 second values, production required, webhook and backups configured | what the published file, the backup, the status file and the exit codes say is true; the worker implements `PublishedRelease`; every run ends and no lock file stays |
| `api_safety` | 2 requests, 1 publication, 2 horizons | decisions fresh, ratings compare like with like |
| `limiter_safety` | limits 3 and 1, window 5 ticks, 2 ticks per second, 11 ticks | window limit and honest Retry-After |
| `webplan_safety` | 5 players of 2 positions, club limit 1, 2 releases, 2 chips, 1 entry, 3 inputs, 2 requests in flight, 2 staged moves, 2 saved plans | the plan is coherent, reloads keep it, commits balance and are paid for |
| `evidence_safety` | 1 player, 2 Gameweeks, 3 payloads, 3 times, 3 official rows, 2 reviewer's rows, 3 runs | nothing newer than its deadline gets into a run; what a reviewer is told about refreshing is true |
| `pipeline_safety` | Gameweeks 2 and 3, 2 workbooks, 1 release, 2 scripts, 1 annotation | runs rest on nothing newer than they claim, a validated release is one lineage, labels stay true |
| `pipeline_horizon` | same | **violated**: the database mode shows Gameweeks of different inputs |
| `pipeline_rates` | same | **violated**: a killed rate run is taken for complete |
| `decisions_safety` | 19 players, 3 markets of 2 weeks, 3 searches, 2 plans, 1 wildcard, 2 blanks; 3 budgets, 2 anchors, 3 draws | lineups, substitutions, plans, searches, the wildcard and ratings keep their promises |
| `imports_safety` | 17 players, 2 snapshots, 3 times, 2 imports besides model runs, 4 old databases | decision inputs are causal and consistent; what was imported stays |
| `studies_safety` | 3 Gameweeks, 3 clubs, 5 players, 4 fixtures, 4 reports on 2 days | no look-ahead, reruns agree, every row is scored or a gap |
| `studies_calibration` | same | **violated**: the calibration fits by label, not by time |

Why the bounds are enough to be interesting. *Worker*: two runs on two workers give a publication, a
competitor that waits or dies, and a successor that finds what both left; two second values let backups
share a name or not. *API*: every placement of a publication among the reads of one request and the
cache of another. *Limiter*: eleven ticks are more than two windows, and the odd window in half seconds
makes rounding and the boundary happen. *Page*: one player gets cheaper, one dearer and one disappears
with the second release, two players are of one club; three inputs are enough for staging, editing or
importing between a request and the commit of its answer, with a reload after it. *Evidence*: the
payloads are before the season, after a provisional Gameweek, and final with the next deadline put off;
overrides and scenarios may run out or meet a newer one. *Pipeline*: Gameweek 3's deadline is late,
Gameweek 2's can be missed by a slow release; two scripts are enough to change two inputs between two
stages. *Decisions*: 19 players leave one to four more of each position than a squad needs, five share
clubs, and in the second release one changes club, one leaves the market; beams are 1, 20, 40 and 500, so
that pruned and complete searches both occur. Anchors are 78 and 79 tenths and budgets one less, one equal
and one more, so that a share must leave squads out, or finds none; the third market has fifteen common
players, hence a single squad, and its benchmark is not drawn. *Imports*: the databases are a new
one, one of version 1, one of version 2 without the later tables and one of version 14. In
the second snapshot a player is cheaper, one has moved to a club that then has four, one may not be
sold, a deadline moves; files are correct, conflicting or incomplete. *Studies*: fixture 2 may be put
off past the deadline of Gameweek 3 (`Later`), fixture 4 makes Gameweek 2 a double one and is played
last; one player changes club in between. Studies are run on two days (`StudyDays`), the clock stops
after the last (`MaxTime`), and transfers happen on one day (`TransferDays`): each keeps the state space
small and none removes a case.

Every bound (`MaxRuns`, `MaxSeconds`, `Attempts`, `Requests`, `MaxTime`, `MaxInputs`, `MaxInFlight`,
`MaxPending`, `MaxOfficial`, `MaxReviewed`, `MaxReleases`, `MaxScripts`, `MaxNotes`, `MaxDraws`, `MaxBlanks`,
`MaxImports`, `MaxRows`, `MaxStudies`) limits how much happens, not what can happen; since nothing happens
when it is used up, deadlock checking is off. Symmetry is used for requests and attempts of the API only.

Properties are chosen against the hazards in `PROJECT.json`. For each property of a passing run there is
a mutant: a definition of the model changed the way a plausible bug would change the code (an `os.open`
without `O_EXCL`, a newest capture looked for without its deadline, a state key that forgets the bank, a
training set by Gameweek label), under which TLC finds the property violated.

### Fairness

`FairSpec` assumes weak fairness of each worker's own stages (`Work(w)`) and of the operator. The code
justifies the first: HTTP requests and the webhook have timeouts, and the rest is local work of a
scheduled process. The documentation's procedure for stale locks is the second; without an operator a
killed worker's lock stays, and that is what the code does. No fairness is assumed for starting
runs, for the clock, or for interrupts and kills: `RunsEnd` holds however often other processes die. No
other module has liveness properties: requests do not wait for one another, an answer may never come to
the page, and nothing obliges operators to run a script.

### Disagreements with the documentation

The three violated runs. Each is listed in `PROJECT.json` under `findings` with the line of the code and
the sentence it disagrees with.

* `pipeline_horizon`: `resolve_research_horizon` groups by snapshot and version and takes the newest run
  of each Gameweek; the docstring says unrelated runs are never combined.
* `pipeline_rates`: the row of a rate run is committed before its rates, and its existence is taken for
  completeness.
* `studies_calibration`: the calibration's prior rows are those of earlier labels; a postponed match is
  fitted for a deadline before it was played.

Met while modelling, smaller, and without a run of their own (`index.py` is `api/index.py`, `service.py`
is `webapp/service.py`):

* `previous_release_id` of the report is read before the lock (`operations/deadline_refresh.py:200`), so
  it may name a release that another run has replaced in between. A backup is named by its second
  (`:151`): a run of the same second overwrites it, with a newer restore point.
* A decision reads the release file twice (`service.py:541`): a publication in between makes the receipt
  and the decision those of two releases. `FreshDecisions` says what holds nevertheless.
* `/ready` judges the cached bootstrap (`index.py:389-404`), and squad import takes the Gameweek from it
  (`:500-503`), though the file may have been replaced since.
* `Retry-After` speaks for the bucket that refused (`index.py:302-317`); the other may refuse the retry.
* A commit on the page folds the answer that arrived last, not the moves staged since (`web/app.js:552`).
* Re-running an appearance projection for the same availability, history and policy raises, by its
  UNIQUE constraint, although identifiers are meant to make repeats harmless; `player_rate_history_run`
  is unique by source and policy while its identifier includes the windows.
* A model run's `as_of` does not cover its team strength: `ModelsAreCausal` bounds strength by the
  deadline instead.
* A stored squad without an entry name disables the check for a different name.
* `selling_price_is_estimated` is not stored with the squad; an owned player without a projection in a
  later week is dropped silently; players without rows in the Gameweek file escape the check of totals.
* The lineup and transfer boundaries do not check that a model is of the squad's snapshot; the rolling
  one does, and `InputsAreCausal` is about that one.
* `decision/transfer_dominance.py:87` sells the dearer goalkeeper; its docstring (`:61-62`) says the one
  who is not the starter with the higher expected points.
* The audit of material conflicts cannot accept a run made before its deadline
  (`docs/PIPELINE_ARCHITECTURE.md:919-924`).

## 5. Proofs

All theorems hold for every value of the constants, from the named assumptions in the modules only. Each
module's assumption is as weak as its code: bounds are natural numbers, switches are booleans, limits and
windows are positive, deadlines and observed times are natural numbers, `None`, `Nothing` and the like
are none of the rows; that files hold what their parsers accept (`SquadFilesAssumption`), that a run that
is asked for claims a time between its snapshot and its deadline (`InputsAssumption`, which is what
`ModelsStayCausal` proves of the runs themselves), and that a database that says it is of this version
has all its tables (`DatabasesAssumption`: the code stamps only after creating them; of its columns
nothing is assumed, for any version). TLC evaluates them in every run.

* **DeadlineRefresh.** No safety property is inductive by itself. `IInv` adds: runs are handed out
  once (`RunsAreFresh`); live processes execute different runs (`ProcessesAreApart`); the lock file
  names exactly the process inside the `with` block, and an operator about to remove it has seen that
  its process is gone (`LockNamesItsHolder`); what a run has and has not done at each stage
  (`StagesInOrder`); reports are about their run (`ReportsAreTrue`). The heart is
  `LockNamesItsHolder`: since run numbers are not reused, an operator who has seen that the process is
  gone cannot be wrong later, and that is why the `unlink` without a check of the owner is harmless
  as long as the operator follows the procedure. `ImplementsPublishedRelease` maps `lock` to `open`,
  `web` to `served`, and shows that every step is a step of `PublishedRelease` or a stutter.
* **DecisionApi.** `ReadsInOrder`: each read finds what is there, and versions only grow.
* **RateLimiter** (in `DecisionApiProofs`). `PrunedExpired` (what left a deque is a window old) gives the window limit: the
  request admitted `Limit` places earlier is either pruned, hence expired, or the deque would be full.
  `PromiseCoversOldest` gives Retry-After: the oldest event of the full bucket expires by then.
* **WebPlan.** `PlanIsCoherent` speaks of loaded pages; `IInv` adds what holds before: a submitted XI
  has as many players as the squad (so the subset test of `loadWorkspace` is an equality, by
  cardinality), what is stored equals the plan unless an import broke off (`torn`), and requests and
  answers hold well-formed plans. Each handler is reduced to "a sound plan was kept" (`KeepHolds`) or
  "the plan was left alone" (`KeepsPlanHolds`). `CommitsBalance` needs to know where the answer on display
  comes from (`AnswersHold`: its plan is one that the release it names scores), and that a fold of moves
  keeps the team's value (`MovesBalance`), move by move (`MoveBalances`).
* **LineupProofs.** The folds and sums of the community modules are recursive functions chosen by
  `CHOOSE`. That the recursion has a solution, and that all solutions agree, is proved here once, by
  induction over the subsets of a finite set: a minimal counterexample among the cardinalities is
  impossible. `RecursionStays` is the form in which a fold's invariant is used, `SumTakesOut` the one
  for sums; the proofs of the browser's plan, of imports and of decisions all rest on them. The rest is
  what `Lineups` computes, for any fifteen players: elevens, and substitutions (below).
* **EvidenceStore** (in `DeadlineRefreshProofs`, with which it shares nothing). `EvidenceStaysCausal` needs `CapturedInOrder` (nothing is captured later than now,
  a capture not before the snapshot that names its players). `RefreshFlagsStayHonest` needs two more:
  a promise not to refresh was made with the override stored and a new enough snapshot there
  (`PromisesKept`), so that every later resolution selects the override or a newer one as long as it is
  in force; the same for scenarios and appearance runs (`DebtsKept`).
* **ReleasePipeline.** `ModelsAreCausal` is about models only; `IInv` says it of every row
  (`StoredByNow`, `EvidenceCausal`, `ProjectionsCausal`) and that what the script holds in its variables
  is stored (`ScriptHolds`). That a run's time exists, the latest of its inputs', is well-founded
  induction on the upper bounds of a set of times.
* **ReleasePipeline, lineage.** The run must be shown to repeat: `Anchored` says that from a stored model run
  every later Gameweek gets the same inputs again – its snapshot has its identity bridge, its context is given, its
  current rates are stored, and stored once (`RatesStoredOnce`) – and that no other script can take this
  away, since rows are only added. `Follows` is the loop's invariant: the runs so far are consecutive
  Gameweeks with the anchor's inputs and time. Manifest and freshness follow. For the label,
  `EnrichedInOrder` counts the steps of the enrichment: once validated, every run has its calibration
  and exactly one artifact, and the calibration in use can no longer be replaced by one of another status.
* **DecisionInputs.** `UpgradeInv` follows the upgrade statement by statement and relates the database to
  what was left: until it is stamped its versions are those, and nothing but one left at version 2 loses
  a strict column. `IdsAreUnique` makes imports idempotent; `SquadsInv` says that a stored squad is one
  that the import validated, against the snapshot it stays pinned to; `ModelsInv` gives causality. For
  `BoundariesAlwaysAgree` each join is reduced to the rows of one code: a lineup that is accepted has rows for
  every slot, so no later slot took a player's (`LineupTakesCode`), the three aggregations give the same
  for the same rows (`ProjectionsAgree`), and `TransferFinds`, `RollingFinds` and `InitialFinds` say whom
  each offers and whom it misses; that the rolling boundary's checks imply those without a squad is
  `FrozenIsEnough`. `RowsMade` says that every imported
  row is the function of the checked inputs that made it; `ImportsStayExact` then speaks of those
  functions only: a bridge's sides are counted by a bijection between its shared rows and the common
  codes, a history's totals are carried over by renaming a sum one to one (`SumOfImage`), and windows
  are subsets of what they sum (`SumGrows`).
* **Studies.** A report is a function of the archive its script read, so `IInv` is short: the archive
  has one row of a player and fixture, known by now (`SeasonHolds`), and every report is the one of an
  archive `A` from which the present one `Grows`: what was added is of other fixtures and was known
  later (`ReportsHold`). That rows are added in the order in which they become known is what makes
  `RerunsAgree` true: nothing that a deadline of `A` admits can have been missing in `A`
  (`LaterIsUnknown`), so means, fits and predictions repeat. The rest is about one archive: what is
  known at the earlier of two deadlines (`DeadlineIsEarlier`), the two loops gate by gate (`WeeksAgree` to
  `NegativesAgree`, then `LoopsAgree`), the fit the policy loop takes on its way and the one the
  appearance study takes looking back: the rows appended before a Gameweek are those of earlier labels
  (`PolicyRowsAreFittable`, `FittablesAppear`), and a label that one study fits has enough rows for the
  other (`LabelsAreAsMany`, `FitsAreAssessed`). Then the three baselines (`ObservationsAgree`), and a
  count of candidate rows (`BacktestIsAccounted`).
* **DecisionStack.** `StackInv` says what every task rests on: a squad has fifteen slots, filled by
  different players, two, five, five and three of each position, held at whole prices, with a bank that
  is not negative (`SquadOK`); a partial squad of a search has one pick for each slot so far, from the
  slot's position, all on sale in every week, under the club limit and within the budget (`Picked`); a
  plan of the beam has one set of moves for each week so far, from players on sale, and its hits and
  free transfers are what `Granted` counts (`PlanOK`). None of `LineupIsBest`, `PlansAreSound` or
  `MoneyIsKept` is inductive without it. Three arguments carry the proof. *Lineups*: among sets of one
  size the one of the foremost has the largest sum (`SumDominates`, by induction over sets), and an
  eleven is the sum of its positions, so the best of each formation's elevens is the best of all
  (`StartersBeatAll`); what blanks on the bench does not enter any of these sums (`BenchIsNotMissed`).
  *Searches*: the open slots are the layout's, less the locked players' (`OpenSlots` is a count turned
  into a sequence), so a full set of picks and the locked players fill a squad. *Moves*: players leave
  and come one to one within their position, so slots stay filled (`MovesField`), and the bank pays
  exactly the difference of the two selling values (`SumOfDifference`, `MovesKeepMoney`).
  *Ratings* need an invariant of their own, `RatingInv`: what a benchmark may draw fills a squad, keeps
  to the clubs' limit and costs no more than the budget (`Fair`), and what was kept of every anchor so far
  is what its choice promises (`BuiltOK`): as many squads as were asked for or all of them, and nobody
  passed over for one who spends less outside the band. The fifteen slots keep the first one by one
  (`SampleGrows`), every swap that spends more keeps it (`SwapsAreFair`); the second is a count of the
  dearest of a set (`ForemostCount`, `PopulationCount`, `PopulationPasses`). A budget's share of the
  merged squads is, near the budget or not, its dearest (`ShareIsDearest`). So a squad that one anchor
  kept and the share leaves out is no dearer than any in it (`DearestAreDear`), and the share is as large
  as what the anchor kept (`DearestCount`);
  a squad that the anchor itself passed over is reached through those it kept, of which there are as
  many as the share may hold (`DearestAreReached`). That is how a promise made for an anchor outlives the
  merge and the second choice (`ShareKeepsPromises`). The percentile grows strictly with what a squad
  earns (`PercentileIsStrict`).
  *Planning* needs one more, `PromisesAreKept`. A plan promises its net so far, what its squad would
  earn if it held from there to the horizon's end, and the value of the free transfers it would then
  have. Rolling a week does not change the promise, and every plan may roll; the order of plans is
  strict, so a finite beam has a first plan, one that merging by `_state_key` and cutting to any beam of
  one or more both keep. Some plan therefore promises at least what holding did at the start, and at the
  end of the horizon the promise is the objective (`PlanningIsNeverWorse`). *A wildcard* is compared
  with such a hold: the squad that is owned is one of the candidates whenever it was not
  ruled out, a lineup's total depends on who is owned and not on the slots, and the horizon that starts
  a week later is the same sum without its first week, so what is left of the difference is one free
  transfer's `TerminalValue` (`WildcardsAlwaysPay`).
  *A beam with room for every path* gives nothing up: what a plan may do in the weeks to come depends
  on the state that `_state_key` compares, so plans of one state can go the same ways (`StepCovers`),
  and the one that merging keeps has earned at least as much (`DistinctCovers`). Week after week
  (`KeepsPaths`) every path is therefore matched by a plan of the beam. *Advice* of a single week is a
  maximum over the same transfers as the planner's week (`SingleGainIsBest`); a goalkeeper swap and the
  transfer after it move the same players for the same money when they are made at once
  (`AtOnceIsInTurn`), so what the audit promises is won by those moves (`AuditIsPossible`).
  *Substitutions* are a fold over the starters whose team stays legal, fielded and accounted for
  (`TeamOK`). Why a starter who does not play was not replaced is one of three reasons: the goalkeeper's
  place is his own, the outfield bench is used up, or his position is at its minimum and the bench has
  none of it. A reason outlasts later substitutions (`ReasonsLast`), so nobody is passed over, and
  position by position it bounds how many another choice can take off or bring on (`NoMoreGoOff`,
  `NoMoreComeOn`).
  *A search with room for every partial squad* finds whatever can be bought. A partial squad leads to S
  when its picks are, of every position, the first of S by number (`LeadsTo`); the next of the position
  always fits, because what the search reckons for the rest, the cheapest of each position, costs no
  more than the rest of S (`RemainingIsLeast`, `NextFits`). So no pruning but the beam's loses S
  (`UncutAlways`), and since picks of a position rise, no squad is reached twice (`SamePicks`). What the
  audit's reruns find is bought with the same budget; if it is in the lenses the search had it too, and
  whatever heads a shortlist is beaten by nobody of the list it was cut from (`BestIsUnbeaten`), hence
  not dominated (`NothingDominates`).
Only model-checked: liveness (`RunsEnd`, `LockIsReleased`), since `ENABLED` and fairness are beyond the
prover. Every other property of a passing run is a theorem.
Violated properties are refuted by a counterexample and need no proof.

| Module | Theorems |
|---|---|
| `DeadlineRefreshProofs` | `InvariantHolds`, `TypesHold`, `PublishedPasses`, `ArtifactsHold`, `BackupsRestore`, `OutcomesHold`, `StatusHolds`, `ImplementsPublishedRelease`; `EvidenceStaysCausal`, `RefreshFlagsStayHonest` |
| `DecisionApiProofs` | `InvariantHolds`, `TypesHold`, `DecisionsAreFresh`, `RatingsHold`, `BootstrapIsKept`; `LimiterInvariantHolds`, `LimiterTypesHold`, `LimitHolds`, `RetryAfterHolds` |
| `LineupProofs` | lemmas only: folds, sums, counts, orders, lineups and substitutions |
| `WebPlanProofs` | `InvariantHolds`, `PlanStaysCoherent`, `ReloadsKeepPlan`, `CommitsArePaid`, `CommitsBalance` |
| `ReleasePipelineProofs` | `ModelsStayCausal`, `ReleasesAreOneLineage`, `HealthStaysStable` |
| `DecisionInputsProofs` | `UpgradesAreHonest`, `ImportsStay`, `StoredSquadsStayLoadable`, `InputsStayCausal`, `BoundariesAlwaysAgree`, `ImportsStayExact` |
| `StudiesProofs` | `InvariantHolds`, `StudiesStayCausal`, `PoliciesStayComparable`, `BaselinesStayAgreed`, `RerunsStayAgreed`, `RowsStayAccounted` |
| `DecisionStackProofs` | `StackIsInvariant`, `LineupIsAlwaysBest`, `PlansAreAlwaysSound`, `MoneyIsAlwaysKept`, `RatingsAreAlwaysFair`, `PlanningIsNeverWorse`, `PlanningAlwaysPays`, `WildcardsAlwaysPay`, `SubstitutionsAreAlwaysFair`, `SearchIsAlwaysSound` |

## 6. Not modelled

* The arithmetic of the projection model (Poisson rates, shrinkage, logits, congestion), of the fits'
  coefficients, metrics, bootstraps and paired uncertainty: real-valued, and nothing is decided on it
  except where a model has a choice instead.
* HTTP, parsing of payloads and workbooks, the JSON of the export, rendering, argument parsing,
  presentation and tactics: no state whose order matters.
* The segment diagnoses (`scripts/diagnose_*`), which print finished rows; the high-band calibration;
  corrections of an archive after the fact.
* Chips other than the wildcard in the planner, which refuses them.
* In the page: reviewed scenarios, the wildcard comparison, the alpha gate, the connect view and the
  horizon and risk settings.
* `ingest/vaastav.py` and `ingest/sofascore_experimental.py`, which only read.

## 7. Running

```
tlc -workers 2 -config DeadlineRefresh_safety.cfg DeadlineRefresh.tla
tlc -workers 2 -config EvidenceStore_safety.cfg MCEvidenceStore.tla
tlapm DeadlineRefreshProofs.tla
```

Every run takes under two minutes on two cores; the largest are `evidence_safety` (about a million
distinct states) and `refresh_safety` (290,000, with liveness).

---------------------------- MODULE DeadlineRefresh ----------------------------
(***************************************************************************)
(* The deadline-refresh worker: operations/deadline_refresh.py.            *)
(*                                                                         *)
(* A scheduler (or a person) starts worker processes.  Each one takes the  *)
(* lock file, backs the database up, materialises a release, exports it,   *)
(* moves it over the published file, alerts, writes the status file and    *)
(* removes the lock file.  Any stage can raise, the process can be         *)
(* interrupted (the lock's `finally` still runs) or killed (it does not),  *)
(* and an operator may remove a lock file whose process is gone.           *)
(*                                                                         *)
(* A run is named by a number, and the release it exports, the report it   *)
(* writes and the lock file it creates are named by that same number.      *)
(***************************************************************************)
EXTENDS Naturals

CONSTANTS
  Workers,            \* processes that may run at the same time
  MaxRuns,            \* bound: runs started in one behaviour
  MaxSeconds,         \* bound: seconds that the clock may advance
  BackupConfigured,   \* config.backup_directory is set
  RequireProduction,  \* config.require_production
  WebhookConfigured   \* config.alert_webhook_url is set

ASSUME ConstantsAssumption ==
  /\ MaxRuns \in Nat
  /\ MaxSeconds \in Nat
  /\ BackupConfigured \in BOOLEAN
  /\ RequireProduction \in BOOLEAN
  /\ WebhookConfigured \in BOOLEAN

Runs == 1 .. MaxRuns
NoRun == 0                   \* no run; as a release: what was there at the start
RunOrNone == Runs \cup {NoRun}
Seconds == 0 .. MaxSeconds

VARIABLES
  (* the process of each worker *)
  pc,         \* the stage it is in
  run,        \* the run it executes
  started,    \* started_at, in whole seconds
  previous,   \* previous_release_id
  candidate,  \* `exported`: the release it holds, not yet published
  backup,     \* backup_path: the second that names it, or NoBackup
  report,     \* `report`, once built
  (* files and database, shared by every process *)
  lock,       \* the run whose lock file exists
  web,        \* the run whose release the published file holds
  status,     \* the report in the status file
  materialization,  \* the run whose report the materialization file holds
  rows,       \* runs that have left rows in the database (NoRun: earlier ones)
  backups,    \* for each second, the rows its backup file restores ({}: none)
  (* the environment *)
  clock,
  nextRun,
  inspected,  \* the dead run whose lock the operator is about to remove
  (* history, read by properties only *)
  passes,     \* runs whose materialized.passes is true
  health,     \* the health of the release that export returned for a run
  replaced,   \* the release that a run's release replaced
  ended       \* how the run's process ended: an exit code or a death

processVars == <<pc, run, started, previous, candidate, backup, report>>
fileVars == <<lock, web, status, materialization, rows, backups>>
environmentVars == <<clock, nextRun, inspected>>
historyVars == <<passes, health, replaced, ended>>
vars == <<processVars, fileVars, environmentVars, historyVars>>

Stages == {"idle", "previous", "lock", "claim", "backup", "copy", "materialize",
           "validate", "export", "publish", "alert", "status", "unlock"}

\* The body of `with _exclusive_lock(...)`, entry and exit included.
LockedStages == Stages \ {"idle", "previous", "lock"}

Healths == {"none", "research", "shadow", "production"}
NoBackup == MaxSeconds + 1
NoReport == [status |-> "none"]

AlertOutcomes ==
  IF WebhookConfigured THEN {"delivered", "failed"} ELSE {"not_configured"}

FailableStages == {"backup", "materialize", "export", "publish"}

Reports ==
  {NoReport} \cup
  [status: {"succeeded"}, stage: {"complete"}, run: Runs, previous: RunOrNone,
   release: Runs, backup: Seconds \cup {NoBackup},
   alert: {"pending"} \cup AlertOutcomes] \cup
  [status: {"failed"}, stage: FailableStages, run: Runs, previous: RunOrNone,
   release: {NoRun}, backup: Seconds \cup {NoBackup},
   alert: {"pending"} \cup AlertOutcomes]

Endings == {"none", "0", "1", "2", "3", "interrupted", "killed"}

-----------------------------------------------------------------------------

Init ==
  /\ pc = [w \in Workers |-> "idle"]
  /\ run = [w \in Workers |-> NoRun]
  /\ started = [w \in Workers |-> 0]
  /\ previous = [w \in Workers |-> NoRun]
  /\ candidate = [w \in Workers |-> NoRun]
  /\ backup = [w \in Workers |-> NoBackup]
  /\ report = [w \in Workers |-> NoReport]
  /\ lock = NoRun
  /\ web = NoRun
  /\ status = NoReport
  /\ materialization = NoRun
  /\ rows \in {{}, {NoRun}}
  /\ backups = [s \in Seconds |-> {}]
  /\ clock = 0
  /\ nextRun = 1
  /\ inspected = NoRun
  /\ passes = [r \in Runs |-> FALSE]
  /\ health = [r \in Runs |-> "none"]
  /\ replaced = [r \in Runs |-> r]
  /\ ended = [r \in Runs |-> "none"]

Goto(w, stage) == pc' = [pc EXCEPT ![w] = stage]

\* A run has a process as long as some worker executes it.
Alive(r) == \E w \in Workers : pc[w] # "idle" /\ run[w] = r

-----------------------------------------------------------------------------
(* One run, stage by stage. *)

\* started_at and run_id.
Start(w) ==
  /\ pc[w] = "idle"
  /\ nextRun \in Runs
  /\ Goto(w, "previous")
  /\ run' = [run EXCEPT ![w] = nextRun]
  /\ started' = [started EXCEPT ![w] = clock]
  /\ nextRun' = nextRun + 1
  /\ UNCHANGED <<previous, candidate, backup, report, fileVars, clock,
                 inspected, historyVars>>

\* previous_release_id is read from the published file before the lock is taken.
ReadPrevious(w) ==
  /\ pc[w] = "previous"
  /\ Goto(w, "lock")
  /\ previous' = [previous EXCEPT ![w] = web]
  /\ UNCHANGED <<run, started, candidate, backup, report, fileVars,
                 environmentVars, historyVars>>

\* The process of worker w is over; nothing it held in memory survives.
Exit(w, how) ==
  /\ Goto(w, "idle")
  /\ ended' = [ended EXCEPT ![run[w]] = how]
  /\ run' = [run EXCEPT ![w] = NoRun]
  /\ started' = [started EXCEPT ![w] = 0]
  /\ previous' = [previous EXCEPT ![w] = NoRun]
  /\ candidate' = [candidate EXCEPT ![w] = NoRun]
  /\ backup' = [backup EXCEPT ![w] = NoBackup]
  /\ report' = [report EXCEPT ![w] = NoReport]
  /\ UNCHANGED <<passes, health, replaced>>

\* Mutant of AcquireLock: os.open without O_EXCL.
OpenNotExclusive(w) ==
  /\ pc[w] = "lock"
  /\ lock' = run[w]
  /\ Goto(w, "claim")
  /\ UNCHANGED <<run, started, previous, candidate, backup, report, web, status,
                 materialization, rows, backups, environmentVars, historyVars>>

\* O_CREAT | O_EXCL succeeds.
AcquireLock(w) ==
  /\ pc[w] = "lock"
  /\ lock = NoRun
  /\ lock' = run[w]
  /\ Goto(w, "claim")
  /\ UNCHANGED <<run, started, previous, candidate, backup, report, web, status,
                 materialization, rows, backups, environmentVars, historyVars>>

\* FileExistsError: no report, no alert, no status file.
RefuseLock(w) ==
  /\ pc[w] = "lock"
  /\ lock # NoRun
  /\ Exit(w, "1")
  /\ UNCHANGED <<fileVars, environmentVars>>

\* The PID is written into the lock file, or the write raises and the process
\* leaves through the lock's `finally`.
ClaimLock(w) ==
  /\ pc[w] = "claim"
  /\ \/ Goto(w, "backup")
     \/ Goto(w, "unlock")
  /\ UNCHANGED <<run, started, previous, candidate, backup, report, fileVars,
                 environmentVars, historyVars>>

\* `except Exception`: the failed report names the stage that raised.
Fail(w, stage) ==
  /\ Goto(w, "alert")
  /\ report' = [report EXCEPT ![w] =
       [status |-> "failed", stage |-> stage, run |-> run[w],
        previous |-> previous[w], release |-> NoRun, backup |-> backup[w],
        alert |-> "pending"]]

\* Mutant of OpenBackup: a backup of that name is taken for this run's.
OpenUnlessThere(w) ==
  /\ pc[w] = "backup"
  /\ BackupConfigured /\ rows # {}
  /\ IF backups[started[w]] # {}
       THEN /\ Goto(w, "materialize")
            /\ backup' = [backup EXCEPT ![w] = started[w]]
       ELSE Goto(w, "copy") /\ UNCHANGED backup
  /\ UNCHANGED <<run, started, previous, candidate, report, fileVars,
                 environmentVars, historyVars>>

\* _backup_database.  shutil.copy2 truncates the file named by the second in which
\* the run started, and until the copy is complete that file restores nothing.
OpenBackup(w) ==
  /\ pc[w] = "backup"
  /\ BackupConfigured /\ rows # {}
  /\ backups' = [backups EXCEPT ![started[w]] = {}]
  /\ Goto(w, "copy")
  /\ UNCHANGED <<run, started, previous, candidate, backup, report, lock, web,
                 status, materialization, rows, environmentVars, historyVars>>

\* Without a directory or a database file there is nothing to copy.
SkipBackup(w) ==
  /\ pc[w] = "backup"
  /\ ~(BackupConfigured /\ rows # {})
  /\ Goto(w, "materialize")
  /\ UNCHANGED <<run, started, previous, candidate, backup, report, fileVars,
                 environmentVars, historyVars>>

CopyBackup(w) ==
  /\ pc[w] = "copy"
  /\ backups' = [backups EXCEPT ![started[w]] = rows]
  /\ backup' = [backup EXCEPT ![w] = started[w]]
  /\ Goto(w, "materialize")
  /\ UNCHANGED <<run, started, previous, candidate, report, lock, web, status,
                 materialization, rows, environmentVars, historyVars>>

BackupRaises(w) ==
  /\ \/ pc[w] = "backup" /\ BackupConfigured /\ rows # {}
     \/ pc[w] = "copy"
  /\ Fail(w, "backup")
  /\ UNCHANGED <<run, started, previous, candidate, backup, fileVars,
                 environmentVars, historyVars>>

\* materialize() commits its stages one by one: rows appear before it returns.
CommitRows(w) ==
  /\ pc[w] = "materialize"
  /\ run[w] \notin rows
  /\ rows' = rows \cup {run[w]}
  /\ UNCHANGED <<processVars, lock, web, status, materialization, backups,
                 environmentVars, historyVars>>

Materialize(w) ==
  /\ pc[w] = "materialize"
  /\ run[w] \in rows
  /\ Goto(w, "validate")
  /\ \E verdict \in BOOLEAN : passes' = [passes EXCEPT ![run[w]] = verdict]
  /\ UNCHANGED <<run, started, previous, candidate, backup, report, fileVars,
                 environmentVars, health, replaced, ended>>

\* Mutant of MaterializeRaises: start over from the backup, for as long as it takes.
MaterializeRetries(w) ==
  /\ pc[w] = "materialize"
  /\ Goto(w, "backup")
  /\ UNCHANGED <<run, started, previous, candidate, backup, report, fileVars,
                 environmentVars, historyVars>>

MaterializeRaises(w) ==
  /\ pc[w] = "materialize"
  /\ Fail(w, "materialize")
  /\ UNCHANGED <<run, started, previous, candidate, backup, fileVars,
                 environmentVars, historyVars>>

\* Mutant of ReportMaterialization: the verdict is not looked at.
ReportUnchecked(w) ==
  /\ pc[w] = "validate"
  /\ materialization' = run[w]
  /\ Goto(w, "export")
  /\ UNCHANGED <<run, started, previous, candidate, backup, report, lock, web,
                 status, rows, backups, environmentVars, historyVars>>

\* The materialization report is written whatever the verdict is; a release that
\* does not pass goes no further.
ReportMaterialization(w) ==
  /\ pc[w] = "validate"
  /\ materialization' = run[w]
  /\ IF passes[run[w]]
       THEN Goto(w, "export") /\ UNCHANGED report
       ELSE Fail(w, "materialize")
  /\ UNCHANGED <<run, started, previous, candidate, backup, lock, web, status,
                 rows, backups, environmentVars, historyVars>>

\* _atomic_write raises before its os.replace or after it.
ReportMaterializationRaises(w) ==
  /\ pc[w] = "validate"
  /\ materialization' \in {materialization, run[w]}
  /\ Fail(w, "materialize")
  /\ UNCHANGED <<run, started, previous, candidate, backup, lock, web, status,
                 rows, backups, environmentVars, historyVars>>

\* What build_web_release accepts: manifest and freshness pass (health is not
\* "research"); --require-production asks for production health and a ready
\* rating benchmark.
Exportable(found, benchmarkReady) ==
  /\ found # "research"
  /\ RequireProduction => found = "production" /\ benchmarkReady

Export(w) ==
  /\ pc[w] = "export"
  /\ \E found \in Healths \ {"none"}, benchmarkReady \in BOOLEAN :
       IF Exportable(found, benchmarkReady)
         THEN /\ candidate' = [candidate EXCEPT ![w] = run[w]]
              /\ health' = [health EXCEPT ![run[w]] = found]
              /\ Goto(w, "publish")
              /\ UNCHANGED report
         ELSE Fail(w, "export") /\ UNCHANGED <<candidate, health>>
  /\ UNCHANGED <<run, started, previous, backup, fileVars, environmentVars,
                 passes, replaced, ended>>

\* os.replace: readers see the old file or the new one.
ReplaceRelease(w) ==
  /\ web' = candidate[w]
  /\ replaced' = [replaced EXCEPT ![candidate[w]] = web]

Publish(w) ==
  /\ pc[w] = "publish"
  /\ ReplaceRelease(w)
  /\ Goto(w, "alert")
  /\ report' = [report EXCEPT ![w] =
       [status |-> "succeeded", stage |-> "complete", run |-> run[w],
        previous |-> previous[w], release |-> candidate[w],
        backup |-> backup[w], alert |-> "pending"]]
  /\ UNCHANGED <<run, started, previous, candidate, backup, lock, status,
                 materialization, rows, backups, environmentVars, passes, health,
                 ended>>

\* _atomic_write raises before os.replace (the temporary file is removed) or
\* after it; the report says "publish" either way.
PublishRaises(w) ==
  /\ pc[w] = "publish"
  /\ \/ UNCHANGED <<web, replaced>>
     \/ ReplaceRelease(w)
  /\ Fail(w, "publish")
  /\ UNCHANGED <<run, started, previous, candidate, backup, lock, status,
                 materialization, rows, backups, environmentVars, passes, health,
                 ended>>

\* _deliver_alert never raises; its outcome goes into the report.
Alert(w) ==
  /\ pc[w] = "alert"
  /\ Goto(w, "status")
  /\ \E outcome \in AlertOutcomes :
       report' = [report EXCEPT ![w] = [@ EXCEPT !.alert = outcome]]
  /\ UNCHANGED <<run, started, previous, candidate, backup, fileVars,
                 environmentVars, historyVars>>

\* Mutant of ExitCode: a failed alert decides before a failed run does.
ExitCodeAlertFirst(rep) ==
  CASE rep.status = "none" -> "1"
    [] rep.status # "none" /\ rep.alert = "failed" -> "3"
    [] rep.status = "failed" /\ rep.alert # "failed" -> "2"
    [] OTHER -> "0"

\* DeadlineRefreshResult.exit_code.
ExitCode(rep) ==
  CASE rep.status = "none" -> "1"
    [] rep.status = "failed" -> "2"
    [] rep.status = "succeeded" /\ rep.alert = "failed" -> "3"
    [] OTHER -> "0"

WriteStatus(w) ==
  /\ pc[w] = "status"
  /\ status' = report[w]
  /\ Goto(w, "unlock")
  /\ UNCHANGED <<run, started, previous, candidate, backup, report, lock, web,
                 materialization, rows, backups, environmentVars, historyVars>>

\* Mutants of WriteStatusRaises: the error is swallowed; it is alerted like the rest.
WriteStatusSwallows(w) ==
  /\ pc[w] = "status"
  /\ Goto(w, "unlock")
  /\ status' \in {status, report[w]}
  /\ UNCHANGED <<run, started, previous, candidate, backup, report, lock, web,
                 materialization, rows, backups, environmentVars, historyVars>>

WriteStatusAlerts(w) ==
  /\ pc[w] = "status"
  /\ Goto(w, "alert")
  /\ UNCHANGED <<run, started, previous, candidate, backup, report, fileVars,
                 environmentVars, historyVars>>

\* The exception leaves the function: no result, so no report to exit with.
WriteStatusRaises(w) ==
  /\ pc[w] = "status"
  /\ Goto(w, "unlock")
  /\ status' \in {status, report[w]}
  /\ report' = [report EXCEPT ![w] = NoReport]
  /\ UNCHANGED <<run, started, previous, candidate, backup, lock, web,
                 materialization, rows, backups, environmentVars, historyVars>>

\* `finally: path.unlink(missing_ok=True)` removes whatever lock file is there.
Unlock(w) ==
  /\ pc[w] = "unlock"
  /\ lock' = NoRun
  /\ Exit(w, ExitCode(report[w]))
  /\ UNCHANGED <<web, status, materialization, rows, backups, environmentVars>>

-----------------------------------------------------------------------------
(* The environment. *)

\* KeyboardInterrupt is no Exception: no report, but the lock's `finally` runs.
Interrupt(w) ==
  /\ pc[w] \in LockedStages
  /\ lock' = NoRun
  /\ Exit(w, "interrupted")
  /\ UNCHANGED <<web, status, materialization, rows, backups, environmentVars>>

\* The process is killed, or its host dies: the lock file stays.
Kill(w) ==
  /\ pc[w] # "idle"
  /\ Exit(w, "killed")
  /\ UNCHANGED <<fileVars, environmentVars>>

\* Mutant of InspectLock: the lock file is taken for a dead process's unseen.
InspectUnseen ==
  /\ inspected = NoRun
  /\ lock # NoRun
  /\ inspected' = lock
  /\ UNCHANGED <<processVars, fileVars, clock, nextRun, historyVars>>

\* The operator follows docs/DEADLINE_REFRESH_WORKER.md: the PID in the lock
\* file is looked up first, and the file is removed if no such process runs.
InspectLock ==
  /\ inspected = NoRun
  /\ lock # NoRun
  /\ ~Alive(lock)
  /\ inspected' = lock
  /\ UNCHANGED <<processVars, fileVars, clock, nextRun, historyVars>>

RemoveLock ==
  /\ inspected # NoRun
  /\ lock' = NoRun
  /\ inspected' = NoRun
  /\ UNCHANGED <<processVars, web, status, materialization, rows, backups, clock,
                 nextRun, historyVars>>

Tick ==
  /\ clock < MaxSeconds
  /\ clock' = clock + 1
  /\ UNCHANGED <<processVars, fileVars, nextRun, inspected, historyVars>>

-----------------------------------------------------------------------------

Work(w) ==
  \/ ReadPrevious(w) \/ AcquireLock(w) \/ RefuseLock(w) \/ ClaimLock(w)
  \/ OpenBackup(w) \/ SkipBackup(w) \/ CopyBackup(w) \/ BackupRaises(w)
  \/ CommitRows(w) \/ Materialize(w) \/ MaterializeRaises(w)
  \/ ReportMaterialization(w) \/ ReportMaterializationRaises(w)
  \/ Export(w)
  \/ Publish(w) \/ PublishRaises(w)
  \/ Alert(w)
  \/ WriteStatus(w) \/ WriteStatusRaises(w)
  \/ Unlock(w)

Operator == InspectLock \/ RemoveLock

Next ==
  \/ \E w \in Workers : Start(w) \/ Work(w) \/ Interrupt(w) \/ Kill(w)
  \/ Operator
  \/ Tick

Spec == Init /\ [][Next]_vars

\* Every stage ends: requests carry timeouts, the rest is local work.  Nothing
\* obliges anyone to start a run, and no death is fair; an operator does look at
\* a lock left behind.
FairSpec == Spec /\ (\A w \in Workers : WF_vars(Work(w))) /\ WF_vars(Operator)

-----------------------------------------------------------------------------
(* Properties. *)

Published(r) == replaced[r] # r

FinalReports == {rep \in Reports : rep.status = "none" \/ rep.alert # "pending"}

\* Every variable has its type; a report in the status file says what became of
\* its alert.
TypeOK ==
  /\ pc \in [Workers -> Stages]
  /\ run \in [Workers -> RunOrNone]
  /\ started \in [Workers -> Seconds]
  /\ previous \in [Workers -> RunOrNone]
  /\ candidate \in [Workers -> RunOrNone]
  /\ backup \in [Workers -> Seconds \cup {NoBackup}]
  /\ report \in [Workers -> Reports]
  /\ lock \in RunOrNone
  /\ web \in RunOrNone
  /\ status \in FinalReports
  /\ materialization \in RunOrNone
  /\ rows \subseteq RunOrNone
  /\ backups \in [Seconds -> SUBSET RunOrNone]
  /\ clock \in Seconds
  /\ nextRun \in 1 .. MaxRuns + 1
  /\ inspected \in RunOrNone
  /\ passes \in [Runs -> BOOLEAN]
  /\ health \in [Runs -> Healths]
  /\ replaced \in [Runs -> RunOrNone]
  /\ ended \in [Runs -> Endings]

\* "The published compact release changes only after every materialization and
\* validation gate has passed": whatever dies or raises, the published file holds
\* a release that passed, was exportable, and is approved where that is required.
PublishedPassedGates ==
  web # NoRun =>
    /\ passes[web]
    /\ health[web] \in {"shadow", "production"}
    /\ RequireProduction => health[web] = "production"

\* "An exclusive lock prevents two refreshes from writing the same local artifacts
\* concurrently": at each stage of a run, what the run has written so far is still
\* what the files hold.
ArtifactsStayOwn ==
  \A w \in Workers :
    /\ pc[w] \in LockedStages => lock = run[w]
    /\ pc[w] \in {"export", "publish"} => materialization = run[w]
    /\ pc[w] \in {"alert", "status"} /\ report[w].status = "succeeded" =>
         /\ materialization = run[w]
         /\ web = run[w]
    /\ pc[w] = "unlock" /\ report[w].status # "none" => status = report[w]

\* While a run may still fail, the backup it made is a restore point: it holds all
\* the rows of the database but the run's own.
BackupIsRestorePoint ==
  \A w \in Workers :
    backup[w] # NoBackup => backups[backup[w]] = rows \ {run[w]}

\* The exit codes and the status file tell the truth (the table of
\* docs/DEADLINE_REFRESH_WORKER.md): codes 0 and 3 and a succeeded report mean a
\* new release; a failed report leaves the published release alone, unless it is
\* the publish stage that failed.
OutcomesTruthful ==
  /\ \A r \in Runs : ended[r] \in {"0", "3"} => Published(r)
  /\ status.status = "succeeded" => Published(status.run)
  /\ status.status = "failed" /\ status.stage # "publish" => ~Published(status.run)

\* The published file and the status file are two files, and a run can end between
\* the two writes; but when the run that published exited with 0 or 3, a succeeded
\* status is about the published release.
StatusMatchesRelease ==
  /\ web # NoRun
  /\ ended[web] \in {"0", "3"}
  /\ status.status = "succeeded"
  => status.release = web

\* The worker implements the promise made to readers: attempts are serialised by
\* the lock file, each replaces the release at most once, in one step, after the
\* gates accepted it.
Promise == INSTANCE PublishedRelease
  WITH Attempts <- Runs, Nothing <- NoRun, served <- web, open <- lock,
       accepted <- lock \in Runs /\ health[lock] # "none",
       spent <- {r \in Runs : Published(r)}

ImplementsPromise == Promise!PSpec

\* A started run ends, however many times others die or are refused.
RunsEnd == \A w \in Workers : pc[w] # "idle" ~> pc[w] = "idle"

\* A lock file does not stay for ever: its run removes it, or the operator does.
LockIsReleased == lock # NoRun ~> lock = NoRun

-----------------------------------------------------------------------------
(* The inductive invariant behind the safety properties. *)

\* Stages of a run that has not replaced the published file.
UnpublishedStages == {"previous", "lock", "claim", "backup", "copy", "materialize",
                      "validate", "export", "publish"}
UnmaterializedStages == {"previous", "lock", "claim", "backup", "copy"}

\* Runs are handed out once, in order; what no process has handled yet is fresh.
RunsAreFresh ==
  /\ lock < nextRun
  /\ web < nextRun
  /\ status.status # "none" => status.run < nextRun
  /\ \A r \in rows : r < nextRun
  /\ \A r \in Runs : r >= nextRun =>
       health[r] = "none" /\ replaced[r] = r /\ ended[r] = "none"

\* Live processes execute different runs; a dead one remembers nothing.
ProcessesAreApart ==
  /\ \A w \in Workers :
       IF pc[w] = "idle"
         THEN run[w] = NoRun /\ backup[w] = NoBackup /\ report[w] = NoReport
         ELSE run[w] \in Runs /\ run[w] < nextRun /\ ended[run[w]] = "none"
  /\ \A v, w \in Workers : pc[v] # "idle" /\ run[v] = run[w] => v = w

\* The lock file names the process inside the `with` block, and an operator who is
\* about to remove it has seen that there is none.
LockNamesItsHolder ==
  /\ \A w \in Workers : pc[w] # "idle" =>
       (lock = run[w] <=> pc[w] \in LockedStages)
  /\ inspected # NoRun =>
       /\ lock = inspected
       /\ \A w \in Workers : pc[w] # "idle" => run[w] # inspected

\* What a run has and has not done at each stage.
StagesInOrder ==
  \A w \in Workers :
    /\ pc[w] \in UnmaterializedStages => run[w] \notin rows
    /\ pc[w] \in UnpublishedStages =>
         /\ ~Published(run[w])
         /\ web # run[w]
         /\ status.status # "none" => status.run # run[w]
         /\ report[w] = NoReport
    /\ pc[w] \in UnpublishedStages \ {"publish"} => health[run[w]] = "none"
    /\ pc[w] \in {"export", "publish"} => passes[run[w]]
    /\ pc[w] = "publish" =>
         /\ candidate[w] = run[w]
         /\ health[run[w]] \in {"shadow", "production"}
         /\ RequireProduction => health[run[w]] = "production"
    /\ pc[w] \in UnmaterializedStages => backup[w] = NoBackup

\* A report, held or written, is about its run and says what became of it.
ReportsAreTrue ==
  /\ \A w \in Workers :
       /\ report[w].status # "none" => report[w].run = run[w]
       /\ report[w].status = "succeeded" =>
            Published(run[w]) /\ report[w].release = run[w]
       /\ report[w].status = "failed" /\ report[w].stage # "publish" =>
            ~Published(run[w])
       /\ pc[w] \in {"alert", "status"} => report[w].status # "none"
       /\ pc[w] = "unlock" => report[w].status = "none" \/ report[w].alert # "pending"
       /\ pc[w] = "status" => report[w].alert # "pending"
  /\ status.status = "succeeded" => status.release = status.run

IInv ==
  /\ TypeOK
  /\ RunsAreFresh
  /\ ProcessesAreApart
  /\ LockNamesItsHolder
  /\ StagesInOrder
  /\ ReportsAreTrue
  /\ PublishedPassedGates
  /\ ArtifactsStayOwn
  /\ BackupIsRestorePoint
  /\ OutcomesTruthful
  /\ StatusMatchesRelease

===============================================================================

------------------------- MODULE DeadlineRefreshProofs -------------------------
(***************************************************************************)
(* DeadlineRefresh is safe for every number of workers, runs and seconds,  *)
(* and EvidenceStore, the store its chain reads, for every set of players, *)
(* payloads, asks and annotations.  The two share no variable: the parts   *)
(* below rest on nothing of each other.                                    *)
(***************************************************************************)
EXTENDS DeadlineRefresh, EvidenceStore, TLAPS

USE ConstantsAssumption
  DEF Goto, Published, Runs, RunOrNone, NoRun, NoReport, NoBackup, Stages,
      LockedStages, UnpublishedStages, UnmaterializedStages, fileVars,
      processVars, environmentVars, historyVars

-----------------------------------------------------------------------------
(* What the shared parts of the actions build. *)

\* A failed report is a report.
LEMMA FailIsTyped ==
  ASSUME TypeOK, NEW w \in Workers, run[w] \in Runs,
         NEW stage \in FailableStages, Fail(w, stage)
  PROVE  /\ pc' \in [Workers -> Stages]
         /\ report' \in [Workers -> Reports]
  BY DEF TypeOK, Fail, Reports, FailableStages

\* The end of a process leaves every variable of its worker typed.
LEMMA ExitIsTyped ==
  ASSUME TypeOK, NEW w \in Workers, run[w] \in Runs,
         NEW how \in Endings, Exit(w, how)
  PROVE  /\ pc' \in [Workers -> Stages]
         /\ run' \in [Workers -> RunOrNone]
         /\ started' \in [Workers -> Seconds]
         /\ previous' \in [Workers -> RunOrNone]
         /\ candidate' \in [Workers -> RunOrNone]
         /\ backup' \in [Workers -> Seconds \cup {NoBackup}]
         /\ report' \in [Workers -> Reports]
         /\ ended' \in [Runs -> Endings]
         /\ UNCHANGED <<passes, health, replaced>>
  BY DEF TypeOK, Exit, Reports, Seconds

\* Alerting completes a report and changes nothing else in it.
LEMMA AlertCompletes ==
  ASSUME NEW rep \in Reports, rep.status # "none", NEW outcome \in AlertOutcomes,
         NEW new, new = [rep EXCEPT !.alert = outcome]
  PROVE  /\ new \in Reports
         /\ new.alert = outcome
         /\ new.status = rep.status
         /\ new.run = rep.run
         /\ new.release = rep.release
         /\ new.stage = rep.stage
  BY DEF Reports

\* No outcome of an alert is the absence of one.
LEMMA OutcomesAreFinal == ASSUME NEW outcome \in AlertOutcomes
                          PROVE  outcome # "pending"
  BY DEF AlertOutcomes

\* The exit code is 0 or 3 exactly when the report says "succeeded".
LEMMA ExitCodeMeaning ==
  ASSUME NEW rep \in Reports
  PROVE  /\ ExitCode(rep) \in Endings
         /\ ExitCode(rep) \in {"0", "3"} <=> rep.status = "succeeded"
  BY DEF ExitCode, Reports, Endings

\* While one process is inside the `with` block, no other one is, and none but it
\* has made a backup it may still need.
LEMMA OneHolder ==
  ASSUME IInv, NEW w \in Workers, pc[w] \in LockedStages,
         NEW v \in Workers, v # w
  PROVE  pc[v] \notin LockedStages /\ backup[v] = NoBackup
  BY DEF IInv, TypeOK, ProcessesAreApart, LockNamesItsHolder, StagesInOrder

-----------------------------------------------------------------------------
(* Every step keeps the invariant: one lemma per action. *)

LEMMA StartKeeps ==
  ASSUME IInv, NEW w \in Workers, Start(w)
  PROVE  IInv'
<1>1. TypeOK'
  BY DEF IInv, TypeOK, Start
<1>2. RunsAreFresh'
  <2>1. nextRun' = nextRun + 1 /\ nextRun \in Nat
    BY DEF IInv, TypeOK, Start
  <2>2. UNCHANGED <<lock, web, status, rows, health, replaced, ended>>
    BY DEF Start
  <2>3. lock \in Nat /\ web \in Nat /\ rows \subseteq Nat
    BY DEF IInv, TypeOK
  <2>4. status.status # "none" => status.run \in Nat
    BY DEF IInv, TypeOK, FinalReports, Reports
  <2>5. QED
    BY <2>1, <2>2, <2>3, <2>4 DEF IInv, RunsAreFresh
<1>3. ProcessesAreApart'
  <2>1. /\ pc[w] = "idle" /\ nextRun \in Runs /\ nextRun' = nextRun + 1
        /\ pc'[w] = "previous" /\ run'[w] = nextRun
        /\ \A v \in Workers \ {w} : pc'[v] = pc[v] /\ run'[v] = run[v]
        /\ UNCHANGED <<backup, report, ended>>
    BY DEF IInv, TypeOK, Start
  <2>2. ended[nextRun] = "none"
    BY <2>1 DEF IInv, RunsAreFresh
  <2>3. \A v \in Workers : pc[v] # "idle" => run[v] < nextRun
    BY DEF IInv, ProcessesAreApart
  <2>4. \A v \in Workers : run[v] \in Nat
    BY DEF IInv, TypeOK
  <2>5. ASSUME NEW v \in Workers
        PROVE  IF pc'[v] = "idle"
                 THEN run'[v] = NoRun /\ backup'[v] = NoBackup /\ report'[v] = NoReport
                 ELSE run'[v] \in Runs /\ run'[v] < nextRun' /\ ended'[run'[v]] = "none"
    BY <2>1, <2>2, <2>4 DEF IInv, ProcessesAreApart
  <2>6. ASSUME NEW u \in Workers, NEW v \in Workers, pc'[u] # "idle", run'[u] = run'[v]
        PROVE  u = v
    <3>1. CASE u = w
      BY <2>1, <2>3, <2>4, <2>6, <3>1 DEF IInv, ProcessesAreApart
    <3>2. CASE u # w
      BY <2>1, <2>3, <2>4, <2>6, <3>2 DEF IInv, ProcessesAreApart
    <3>3. QED
      BY <3>1, <3>2
  <2>7. QED
    BY <2>5, <2>6 DEF ProcessesAreApart
<1>4. LockNamesItsHolder'
  BY <1>1 DEF IInv, TypeOK, RunsAreFresh, ProcessesAreApart, LockNamesItsHolder,
         StagesInOrder, Start
<1>5. StagesInOrder'
  BY <1>1 DEF IInv, TypeOK, RunsAreFresh, ProcessesAreApart, StagesInOrder, Start
<1>6. ReportsAreTrue'
  BY <1>1 DEF IInv, TypeOK, ProcessesAreApart, ReportsAreTrue, Start
<1>7. BackupIsRestorePoint'
  BY <1>1 DEF IInv, TypeOK, ProcessesAreApart, BackupIsRestorePoint, Start
<1>8. (PublishedPassedGates /\ ArtifactsStayOwn /\ OutcomesTruthful
        /\ StatusMatchesRelease)'
  BY <1>1 DEF IInv, TypeOK, PublishedPassedGates, ArtifactsStayOwn, OutcomesTruthful,
         StatusMatchesRelease, Start
<1>9. QED
  BY <1>1, <1>2, <1>3, <1>4, <1>5, <1>6, <1>7, <1>8 DEF IInv

LEMMA ReadPreviousKeeps ==
  ASSUME IInv, NEW w \in Workers, ReadPrevious(w)
  PROVE  IInv'
<1>1. TypeOK'
  BY DEF IInv, TypeOK, ReadPrevious
<1>2. (RunsAreFresh /\ ProcessesAreApart /\ LockNamesItsHolder
        /\ StagesInOrder /\ ReportsAreTrue /\ PublishedPassedGates
        /\ ArtifactsStayOwn /\ BackupIsRestorePoint /\ OutcomesTruthful
        /\ StatusMatchesRelease)'
  BY <1>1 DEF IInv, TypeOK, RunsAreFresh, ProcessesAreApart, LockNamesItsHolder,
         StagesInOrder, ReportsAreTrue, PublishedPassedGates, ArtifactsStayOwn,
         BackupIsRestorePoint, OutcomesTruthful, StatusMatchesRelease,
         ReadPrevious
<1>3. QED
  BY <1>1, <1>2 DEF IInv

LEMMA AcquireLockKeeps ==
  ASSUME IInv, NEW w \in Workers, AcquireLock(w)
  PROVE  IInv'
<1>1. TypeOK'
  BY DEF IInv, TypeOK, AcquireLock
<1>2. RunsAreFresh'
  BY <1>1 DEF IInv, TypeOK, RunsAreFresh, ProcessesAreApart, AcquireLock
<1>3. LockNamesItsHolder'
  BY <1>1 DEF IInv, TypeOK, ProcessesAreApart, LockNamesItsHolder, AcquireLock
<1>4. ArtifactsStayOwn'
  BY <1>1 DEF IInv, TypeOK, ProcessesAreApart, ArtifactsStayOwn, AcquireLock
<1>5. (ProcessesAreApart /\ StagesInOrder /\ ReportsAreTrue
        /\ PublishedPassedGates /\ BackupIsRestorePoint /\ OutcomesTruthful
        /\ StatusMatchesRelease)'
  BY <1>1 DEF IInv, TypeOK, ProcessesAreApart, StagesInOrder, ReportsAreTrue,
         PublishedPassedGates, BackupIsRestorePoint, OutcomesTruthful,
         StatusMatchesRelease, AcquireLock
<1>6. QED
  BY <1>1, <1>2, <1>3, <1>4, <1>5 DEF IInv

LEMMA RefuseLockKeeps ==
  ASSUME IInv, NEW w \in Workers, RefuseLock(w)
  PROVE  IInv'
<1>1. TypeOK'
  <2>1. run[w] \in Runs
    BY DEF IInv, ProcessesAreApart, RefuseLock
  <2>2. "1" \in Endings
    BY DEF Endings
  <2>3. QED
    BY <2>1, <2>2, ExitIsTyped DEF IInv, TypeOK, RefuseLock
<1>2. RunsAreFresh'
  BY <1>1 DEF IInv, TypeOK, RunsAreFresh, ProcessesAreApart, RefuseLock, Exit
<1>3. (ProcessesAreApart /\ LockNamesItsHolder /\ StagesInOrder
        /\ ReportsAreTrue /\ PublishedPassedGates /\ ArtifactsStayOwn
        /\ BackupIsRestorePoint /\ OutcomesTruthful /\ StatusMatchesRelease)'
  BY <1>1 DEF IInv, TypeOK, ProcessesAreApart, LockNamesItsHolder, StagesInOrder,
         ReportsAreTrue, PublishedPassedGates, ArtifactsStayOwn,
         BackupIsRestorePoint, OutcomesTruthful, StatusMatchesRelease,
         RefuseLock, Exit
<1>4. QED
  BY <1>1, <1>2, <1>3 DEF IInv

LEMMA ClaimLockKeeps ==
  ASSUME IInv, NEW w \in Workers, ClaimLock(w)
  PROVE  IInv'
<1>1. TypeOK'
  BY DEF IInv, TypeOK, ClaimLock
<1>2. RunsAreFresh'
  BY <1>1 DEF IInv, TypeOK, RunsAreFresh, ProcessesAreApart, ClaimLock
<1>3. LockNamesItsHolder'
  <2>1. \A v \in Workers :
          /\ pc'[v] = "idle" <=> pc[v] = "idle"
          /\ pc'[v] \in LockedStages <=> pc[v] \in LockedStages
    BY DEF IInv, TypeOK, ClaimLock
  <2>2. UNCHANGED <<lock, inspected, run>>
    BY DEF ClaimLock
  <2>3. QED
    BY <2>1, <2>2 DEF IInv, LockNamesItsHolder
<1>4. ReportsAreTrue'
  BY <1>1 DEF IInv, TypeOK, ProcessesAreApart, StagesInOrder, ReportsAreTrue, ClaimLock
<1>5. ArtifactsStayOwn'
  BY <1>1 DEF IInv, TypeOK, ProcessesAreApart, StagesInOrder, ArtifactsStayOwn, ClaimLock
<1>6. (ProcessesAreApart /\ StagesInOrder /\ PublishedPassedGates
        /\ BackupIsRestorePoint /\ OutcomesTruthful /\ StatusMatchesRelease)'
  BY <1>1 DEF IInv, TypeOK, ProcessesAreApart, StagesInOrder, PublishedPassedGates,
         BackupIsRestorePoint, OutcomesTruthful, StatusMatchesRelease, ClaimLock
<1>7. QED
  BY <1>1, <1>2, <1>3, <1>4, <1>5, <1>6 DEF IInv

LEMMA OpenBackupKeeps ==
  ASSUME IInv, NEW w \in Workers, OpenBackup(w)
  PROVE  IInv'
<1>1. TypeOK'
  BY DEF IInv, TypeOK, OpenBackup
<1>2. BackupIsRestorePoint'
  <2>1. \A v \in Workers \ {w} : backup[v] = NoBackup
    BY OneHolder DEF OpenBackup
  <2>2. backup[w] = NoBackup
    BY DEF IInv, StagesInOrder, OpenBackup
  <2>3. UNCHANGED backup
    BY DEF OpenBackup
  <2>4. QED
    BY <2>1, <2>2, <2>3 DEF BackupIsRestorePoint
<1>3. StagesInOrder'
  BY <1>1 DEF IInv, TypeOK, StagesInOrder, OpenBackup
<1>4. (RunsAreFresh /\ ProcessesAreApart /\ LockNamesItsHolder)'
  BY <1>1 DEF IInv, TypeOK, RunsAreFresh, ProcessesAreApart, LockNamesItsHolder, OpenBackup
<1>5. (ReportsAreTrue /\ ArtifactsStayOwn)'
  BY <1>1 DEF IInv, TypeOK, ReportsAreTrue, ArtifactsStayOwn, OpenBackup
<1>6. (PublishedPassedGates /\ OutcomesTruthful /\ StatusMatchesRelease)'
  BY DEF IInv, PublishedPassedGates, OutcomesTruthful, StatusMatchesRelease, OpenBackup
<1>7. QED
  BY <1>1, <1>2, <1>3, <1>4, <1>5, <1>6 DEF IInv

LEMMA SkipBackupKeeps ==
  ASSUME IInv, NEW w \in Workers, SkipBackup(w)
  PROVE  IInv'
<1>1. TypeOK'
  BY DEF IInv, TypeOK, SkipBackup
<1>2. BackupIsRestorePoint'
  BY DEF IInv, BackupIsRestorePoint, SkipBackup
<1>3. StagesInOrder'
  BY <1>1 DEF IInv, TypeOK, StagesInOrder, SkipBackup
<1>4. (RunsAreFresh /\ ProcessesAreApart /\ LockNamesItsHolder)'
  BY <1>1 DEF IInv, TypeOK, RunsAreFresh, ProcessesAreApart, LockNamesItsHolder, SkipBackup
<1>5. (ReportsAreTrue /\ ArtifactsStayOwn)'
  BY <1>1 DEF IInv, TypeOK, ReportsAreTrue, ArtifactsStayOwn, SkipBackup
<1>6. (PublishedPassedGates /\ OutcomesTruthful /\ StatusMatchesRelease)'
  BY DEF IInv, PublishedPassedGates, OutcomesTruthful, StatusMatchesRelease, SkipBackup
<1>7. QED
  BY <1>1, <1>2, <1>3, <1>4, <1>5, <1>6 DEF IInv

LEMMA CopyBackupKeeps ==
  ASSUME IInv, NEW w \in Workers, CopyBackup(w)
  PROVE  IInv'
<1>1. TypeOK'
  BY DEF IInv, TypeOK, CopyBackup
<1>2. BackupIsRestorePoint'
  <2>1. run[w] \notin rows
    BY DEF IInv, StagesInOrder, CopyBackup
  <2>2. \A v \in Workers \ {w} : backup[v] = NoBackup
    BY OneHolder DEF CopyBackup
  <2>3. UNCHANGED <<run, rows>>
    BY DEF CopyBackup
  <2>4. started[w] \in Seconds
    BY DEF IInv, TypeOK
  <2>5. backup'[w] = started[w] /\ backups'[started[w]] = rows
    BY <2>4 DEF IInv, TypeOK, CopyBackup
  <2>6. \A v \in Workers \ {w} : backup'[v] = NoBackup
    BY <2>2 DEF IInv, TypeOK, CopyBackup
  <2>7. QED
    BY <2>1, <2>3, <2>5, <2>6 DEF BackupIsRestorePoint
<1>3. StagesInOrder'
  BY <1>1 DEF IInv, TypeOK, StagesInOrder, CopyBackup
<1>4. (RunsAreFresh /\ ProcessesAreApart /\ LockNamesItsHolder)'
  BY <1>1 DEF IInv, TypeOK, RunsAreFresh, ProcessesAreApart, LockNamesItsHolder, CopyBackup
<1>5. (ReportsAreTrue /\ ArtifactsStayOwn)'
  BY <1>1 DEF IInv, TypeOK, ReportsAreTrue, ArtifactsStayOwn, CopyBackup
<1>6. (PublishedPassedGates /\ OutcomesTruthful /\ StatusMatchesRelease)'
  BY DEF IInv, PublishedPassedGates, OutcomesTruthful, StatusMatchesRelease, CopyBackup
<1>7. QED
  BY <1>1, <1>2, <1>3, <1>4, <1>5, <1>6 DEF IInv

LEMMA BackupRaisesKeeps ==
  ASSUME IInv, NEW w \in Workers, BackupRaises(w)
  PROVE  IInv'
<1>1. TypeOK'
  <2>1. run[w] \in Runs
    BY DEF IInv, ProcessesAreApart, BackupRaises
  <2>2. pc' \in [Workers -> Stages] /\ report' \in [Workers -> Reports]
    BY <2>1, FailIsTyped DEF IInv, BackupRaises, FailableStages
  <2>3. QED
    BY <2>1, <2>2 DEF IInv, TypeOK, BackupRaises
<1>2. ReportsAreTrue'
  BY <1>1 DEF IInv, TypeOK, ProcessesAreApart, StagesInOrder, ReportsAreTrue,
         BackupRaises, Fail
<1>3. (RunsAreFresh /\ ProcessesAreApart /\ LockNamesItsHolder
        /\ StagesInOrder /\ PublishedPassedGates /\ ArtifactsStayOwn
        /\ BackupIsRestorePoint /\ OutcomesTruthful /\ StatusMatchesRelease)'
  BY <1>1 DEF IInv, TypeOK, RunsAreFresh, ProcessesAreApart, LockNamesItsHolder,
         StagesInOrder, PublishedPassedGates, ArtifactsStayOwn,
         BackupIsRestorePoint, OutcomesTruthful, StatusMatchesRelease,
         BackupRaises, Fail
<1>4. QED
  BY <1>1, <1>2, <1>3 DEF IInv

LEMMA CommitRowsKeeps ==
  ASSUME IInv, NEW w \in Workers, CommitRows(w)
  PROVE  IInv'
<1>1. TypeOK'
  BY DEF IInv, TypeOK, CommitRows
<1>2. RunsAreFresh'
  BY <1>1 DEF IInv, TypeOK, RunsAreFresh, ProcessesAreApart, CommitRows
<1>3. StagesInOrder'
  BY <1>1 DEF IInv, TypeOK, ProcessesAreApart, StagesInOrder, CommitRows
<1>4. BackupIsRestorePoint'
  <2>1. \A v \in Workers \ {w} : backup[v] = NoBackup
    BY OneHolder DEF CommitRows
  <2>2. rows' \ {run[w]} = rows \ {run[w]}
    BY DEF CommitRows
  <2>3. UNCHANGED <<run, backup, backups>>
    BY DEF CommitRows
  <2>4. QED
    BY <2>1, <2>2, <2>3 DEF IInv, BackupIsRestorePoint
<1>5. (ProcessesAreApart /\ LockNamesItsHolder /\ ReportsAreTrue
        /\ PublishedPassedGates /\ ArtifactsStayOwn /\ OutcomesTruthful
        /\ StatusMatchesRelease)'
  BY <1>1 DEF IInv, TypeOK, ProcessesAreApart, LockNamesItsHolder, ReportsAreTrue,
         PublishedPassedGates, ArtifactsStayOwn, OutcomesTruthful,
         StatusMatchesRelease, CommitRows
<1>6. QED
  BY <1>1, <1>2, <1>3, <1>4, <1>5 DEF IInv

LEMMA MaterializeKeeps ==
  ASSUME IInv, NEW w \in Workers, Materialize(w)
  PROVE  IInv'
<1>1. TypeOK'
  BY DEF IInv, TypeOK, Materialize
<1>2. StagesInOrder'
  BY <1>1 DEF IInv, TypeOK, ProcessesAreApart, StagesInOrder, Materialize
<1>3. PublishedPassedGates'
  BY <1>1 DEF IInv, TypeOK, ProcessesAreApart, StagesInOrder, PublishedPassedGates,
         Materialize
<1>4. (RunsAreFresh /\ ProcessesAreApart /\ LockNamesItsHolder
        /\ ReportsAreTrue /\ ArtifactsStayOwn /\ BackupIsRestorePoint
        /\ OutcomesTruthful /\ StatusMatchesRelease)'
  BY <1>1 DEF IInv, TypeOK, RunsAreFresh, ProcessesAreApart, LockNamesItsHolder,
         ReportsAreTrue, ArtifactsStayOwn, BackupIsRestorePoint,
         OutcomesTruthful, StatusMatchesRelease, Materialize
<1>5. QED
  BY <1>1, <1>2, <1>3, <1>4 DEF IInv

LEMMA MaterializeRaisesKeeps ==
  ASSUME IInv, NEW w \in Workers, MaterializeRaises(w)
  PROVE  IInv'
<1>1. TypeOK'
  <2>1. run[w] \in Runs
    BY DEF IInv, ProcessesAreApart, MaterializeRaises
  <2>2. pc' \in [Workers -> Stages] /\ report' \in [Workers -> Reports]
    BY <2>1, FailIsTyped DEF IInv, MaterializeRaises, FailableStages
  <2>3. QED
    BY <2>1, <2>2 DEF IInv, TypeOK, MaterializeRaises
<1>2. ReportsAreTrue'
  BY <1>1 DEF IInv, TypeOK, ProcessesAreApart, StagesInOrder, ReportsAreTrue,
         MaterializeRaises, Fail
<1>3. (RunsAreFresh /\ ProcessesAreApart /\ LockNamesItsHolder
        /\ StagesInOrder /\ PublishedPassedGates /\ ArtifactsStayOwn
        /\ BackupIsRestorePoint /\ OutcomesTruthful /\ StatusMatchesRelease)'
  BY <1>1 DEF IInv, TypeOK, RunsAreFresh, ProcessesAreApart, LockNamesItsHolder,
         StagesInOrder, PublishedPassedGates, ArtifactsStayOwn,
         BackupIsRestorePoint, OutcomesTruthful, StatusMatchesRelease,
         MaterializeRaises, Fail
<1>4. QED
  BY <1>1, <1>2, <1>3 DEF IInv

LEMMA ReportMaterializationKeeps ==
  ASSUME IInv, NEW w \in Workers, ReportMaterialization(w)
  PROVE  IInv'
<1>1. TypeOK'
  <2>1. run[w] \in Runs
    BY DEF IInv, ProcessesAreApart, ReportMaterialization
  <2>2. pc' \in [Workers -> Stages] /\ report' \in [Workers -> Reports]
    <3>1. CASE passes[run[w]]
      BY <3>1 DEF IInv, TypeOK, ReportMaterialization
    <3>2. CASE ~passes[run[w]]
      BY <2>1, <3>2, FailIsTyped DEF IInv, ReportMaterialization, FailableStages
    <3>3. QED
      BY <3>1, <3>2
  <2>3. QED
    BY <2>1, <2>2 DEF IInv, TypeOK, ReportMaterialization
<1>2. RunsAreFresh'
  BY <1>1 DEF IInv, TypeOK, RunsAreFresh, ReportMaterialization, Fail
<1>3. ProcessesAreApart'
  BY <1>1 DEF IInv, TypeOK, ProcessesAreApart, ReportMaterialization, Fail
<1>4. LockNamesItsHolder'
  BY <1>1 DEF IInv, TypeOK, RunsAreFresh, ProcessesAreApart, LockNamesItsHolder,
         StagesInOrder, ReportMaterialization, Fail
<1>5. StagesInOrder'
  <2>1. CASE passes[run[w]]
    BY <1>1, <2>1 DEF IInv, TypeOK, StagesInOrder, ReportMaterialization, Goto,
           UnpublishedStages, UnmaterializedStages, Published
  <2>2. CASE ~passes[run[w]]
    BY <1>1, <2>2 DEF IInv, TypeOK, StagesInOrder, ReportMaterialization, Fail,
           Goto, UnpublishedStages, UnmaterializedStages, Published
  <2>3. QED
    BY <2>1, <2>2
<1>6. ReportsAreTrue'
  BY <1>1 DEF IInv, TypeOK, RunsAreFresh, ProcessesAreApart, LockNamesItsHolder,
         StagesInOrder, ReportsAreTrue, ReportMaterialization, Fail
<1>7. ArtifactsStayOwn'
  <2>1. \A v \in Workers \ {w} : pc[v] \notin LockedStages
    BY OneHolder DEF ReportMaterialization
  <2>2. \A v \in Workers \ {w} : pc'[v] = pc[v] /\ report'[v] = report[v]
    BY DEF IInv, TypeOK, ReportMaterialization, Fail
  <2>3. /\ pc[w] = "validate"
        /\ pc'[w] \in {"export", "alert"}
        /\ pc'[w] = "alert" => report'[w].status = "failed"
        /\ materialization' = run[w]
        /\ UNCHANGED <<lock, run>>
    BY DEF IInv, TypeOK, ReportMaterialization, Fail
  <2>4. lock = run[w]
    BY <2>3 DEF IInv, ArtifactsStayOwn
  <2>5. QED
    BY <2>1, <2>2, <2>3, <2>4 DEF ArtifactsStayOwn
<1>8. (PublishedPassedGates /\ BackupIsRestorePoint /\ OutcomesTruthful
        /\ StatusMatchesRelease)'
  BY <1>1 DEF IInv, TypeOK, PublishedPassedGates, BackupIsRestorePoint, OutcomesTruthful,
         StatusMatchesRelease, ReportMaterialization, Fail
<1>9. QED
  BY <1>1, <1>2, <1>3, <1>4, <1>5, <1>6, <1>7, <1>8 DEF IInv

LEMMA ReportMaterializationRaisesKeeps ==
  ASSUME IInv, NEW w \in Workers, ReportMaterializationRaises(w)
  PROVE  IInv'
<1>1. TypeOK'
  <2>1. run[w] \in Runs
    BY DEF IInv, ProcessesAreApart, ReportMaterializationRaises
  <2>2. pc' \in [Workers -> Stages] /\ report' \in [Workers -> Reports]
    BY <2>1, FailIsTyped DEF IInv, ReportMaterializationRaises, FailableStages
  <2>3. QED
    BY <2>1, <2>2 DEF IInv, TypeOK, ReportMaterializationRaises
<1>2. ReportsAreTrue'
  BY <1>1 DEF IInv, TypeOK, ProcessesAreApart, StagesInOrder, ReportsAreTrue,
         ReportMaterializationRaises, Fail
<1>3. (RunsAreFresh /\ ProcessesAreApart /\ LockNamesItsHolder
        /\ StagesInOrder /\ PublishedPassedGates /\ ArtifactsStayOwn
        /\ BackupIsRestorePoint /\ OutcomesTruthful /\ StatusMatchesRelease)'
  BY <1>1 DEF IInv, TypeOK, RunsAreFresh, ProcessesAreApart, LockNamesItsHolder,
         StagesInOrder, PublishedPassedGates, ArtifactsStayOwn,
         BackupIsRestorePoint, OutcomesTruthful, StatusMatchesRelease,
         ReportMaterializationRaises, Fail
<1>4. QED
  BY <1>1, <1>2, <1>3 DEF IInv

LEMMA ExportKeeps ==
  ASSUME IInv, NEW w \in Workers, Export(w)
  PROVE  IInv'
<1>1. TypeOK'
  <2>1. run[w] \in Runs
    BY DEF IInv, ProcessesAreApart, Export
  <2>2. CASE Goto(w, "publish") /\ UNCHANGED report
    BY <2>1, <2>2 DEF IInv, TypeOK, Export, Healths
  <2>3. CASE Fail(w, "export") /\ UNCHANGED <<candidate, health>>
    <3>1. pc' \in [Workers -> Stages] /\ report' \in [Workers -> Reports]
      BY <2>1, <2>3, FailIsTyped DEF IInv, FailableStages
    <3>2. QED
      BY <2>1, <2>3, <3>1 DEF IInv, TypeOK, Export
  <2>4. QED
    BY <2>2, <2>3 DEF Export
<1>2. RunsAreFresh'
  BY <1>1 DEF IInv, TypeOK, RunsAreFresh, ProcessesAreApart, Export, Fail, Exportable
<1>3. ProcessesAreApart'
  BY <1>1 DEF IInv, TypeOK, ProcessesAreApart, Export, Fail, Exportable
<1>4. LockNamesItsHolder'
  <2>1. \A v \in Workers :
          /\ pc'[v] = "idle" <=> pc[v] = "idle"
          /\ pc'[v] \in LockedStages <=> pc[v] \in LockedStages
    BY DEF IInv, TypeOK, Export, Fail
  <2>2. UNCHANGED <<lock, inspected, run>>
    BY DEF Export
  <2>3. QED
    BY <2>1, <2>2 DEF IInv, LockNamesItsHolder
<1>5. StagesInOrder'
  <2>1. PICK found \in Healths \ {"none"}, ready \in BOOLEAN :
          IF Exportable(found, ready)
            THEN /\ candidate' = [candidate EXCEPT ![w] = run[w]]
                 /\ health' = [health EXCEPT ![run[w]] = found]
                 /\ Goto(w, "publish")
                 /\ UNCHANGED report
            ELSE Fail(w, "export") /\ UNCHANGED <<candidate, health>>
    BY DEF Export
  <2>2. \A v \in Workers \ {w} : pc[v] # "idle" => run[v] # run[w]
    BY DEF IInv, ProcessesAreApart, Export
  <2>3. CASE Exportable(found, ready)
    <3>1. found \in {"shadow", "production"}
            /\ (RequireProduction => found = "production")
      BY <2>3 DEF Exportable, Healths
    <3>2. QED
      BY <2>1, <2>2, <2>3, <3>1
      DEF IInv, TypeOK, ProcessesAreApart, StagesInOrder, Export
  <2>4. CASE ~Exportable(found, ready)
    BY <2>1, <2>4 DEF IInv, TypeOK, StagesInOrder, Export, Fail
  <2>5. QED
    BY <2>3, <2>4
<1>6. ReportsAreTrue'
  BY <1>1 DEF IInv, TypeOK, ProcessesAreApart, StagesInOrder, ReportsAreTrue, Export,
         Fail, Exportable
<1>7. PublishedPassedGates'
  BY <1>1 DEF IInv, TypeOK, ProcessesAreApart, StagesInOrder, PublishedPassedGates,
         Export, Fail, Exportable
<1>8. ArtifactsStayOwn'
  BY <1>1 DEF IInv, TypeOK, ProcessesAreApart, ArtifactsStayOwn, Export, Fail, Exportable
<1>9. BackupIsRestorePoint'
  BY <1>1 DEF IInv, TypeOK, BackupIsRestorePoint, Export, Fail, Exportable
<1>10. OutcomesTruthful'
  BY <1>1 DEF IInv, TypeOK, OutcomesTruthful, Export, Fail, Exportable
<1>11. StatusMatchesRelease'
  BY <1>1 DEF IInv, TypeOK, StatusMatchesRelease, Export, Fail, Exportable
<1>12. QED
  BY <1>1, <1>2, <1>3, <1>4, <1>5, <1>6, <1>7, <1>8, <1>9, <1>10, <1>11 DEF IInv

LEMMA PublishKeeps ==
  ASSUME IInv, NEW w \in Workers, Publish(w)
  PROVE  IInv'
<1>1. TypeOK'
  <2>1. run[w] \in Runs /\ candidate[w] = run[w]
    BY DEF IInv, ProcessesAreApart, StagesInOrder, Publish
  <2>2. report' \in [Workers -> Reports]
    BY <2>1 DEF IInv, TypeOK, Publish, Reports
  <2>3. QED
    BY <2>1, <2>2 DEF IInv, TypeOK, Publish, ReplaceRelease
<1>2. RunsAreFresh'
  BY <1>1 DEF IInv, TypeOK, RunsAreFresh, ProcessesAreApart, StagesInOrder, Publish,
         ReplaceRelease
<1>3. StagesInOrder'
  BY <1>1 DEF IInv, TypeOK, ProcessesAreApart, StagesInOrder, Publish, ReplaceRelease
<1>4. ReportsAreTrue'
  BY <1>1 DEF IInv, TypeOK, ProcessesAreApart, StagesInOrder, ReportsAreTrue, Publish,
         ReplaceRelease
<1>5. PublishedPassedGates'
  BY <1>1 DEF IInv, TypeOK, ProcessesAreApart, StagesInOrder, PublishedPassedGates,
         Publish, ReplaceRelease
<1>6. ArtifactsStayOwn'
  BY <1>1 DEF IInv, TypeOK, ProcessesAreApart, StagesInOrder, ArtifactsStayOwn, Publish,
         ReplaceRelease
<1>7. OutcomesTruthful'
  BY <1>1 DEF IInv, TypeOK, ProcessesAreApart, StagesInOrder, OutcomesTruthful, Publish,
         ReplaceRelease
<1>8. StatusMatchesRelease'
  BY <1>1 DEF IInv, TypeOK, ProcessesAreApart, StagesInOrder, StatusMatchesRelease,
         Publish, ReplaceRelease
<1>9. (ProcessesAreApart /\ LockNamesItsHolder /\ BackupIsRestorePoint)'
  BY <1>1 DEF IInv, TypeOK, ProcessesAreApart, LockNamesItsHolder, BackupIsRestorePoint,
         Publish, ReplaceRelease
<1>10. QED
  BY <1>1, <1>2, <1>3, <1>4, <1>5, <1>6, <1>7, <1>8, <1>9 DEF IInv

LEMMA PublishRaisesKeeps ==
  ASSUME IInv, NEW w \in Workers, PublishRaises(w)
  PROVE  IInv'
<1>1. TypeOK'
  <2>1. run[w] \in Runs /\ candidate[w] = run[w]
    BY DEF IInv, ProcessesAreApart, StagesInOrder, PublishRaises
  <2>2. pc' \in [Workers -> Stages] /\ report' \in [Workers -> Reports]
    BY <2>1, FailIsTyped DEF IInv, PublishRaises, FailableStages
  <2>3. QED
    BY <2>1, <2>2 DEF IInv, TypeOK, PublishRaises, ReplaceRelease
<1>2. RunsAreFresh'
  BY <1>1 DEF IInv, TypeOK, RunsAreFresh, ProcessesAreApart, StagesInOrder,
         PublishRaises, ReplaceRelease, Fail
<1>3. StagesInOrder'
  BY <1>1 DEF IInv, TypeOK, ProcessesAreApart, StagesInOrder, PublishRaises,
         ReplaceRelease, Fail
<1>4. ReportsAreTrue'
  BY <1>1 DEF IInv, TypeOK, ProcessesAreApart, StagesInOrder, ReportsAreTrue,
         PublishRaises, ReplaceRelease, Fail
<1>5. PublishedPassedGates'
  BY <1>1 DEF IInv, TypeOK, ProcessesAreApart, StagesInOrder, PublishedPassedGates,
         PublishRaises, ReplaceRelease, Fail
<1>6. ArtifactsStayOwn'
  BY <1>1 DEF IInv, TypeOK, ProcessesAreApart, ArtifactsStayOwn, PublishRaises,
         ReplaceRelease, Fail
<1>7. OutcomesTruthful'
  <2>1. UNCHANGED <<status, ended>>
    BY DEF PublishRaises
  <2>2. CASE UNCHANGED replaced
    BY <2>1, <2>2 DEF IInv, OutcomesTruthful
  <2>3. CASE ReplaceRelease(w)
    <3>1. /\ run[w] \in Runs
          /\ web # run[w]
          /\ status.status # "none" => status.run # run[w]
          /\ replaced' = [replaced EXCEPT ![run[w]] = web]
      BY <2>3 DEF IInv, ProcessesAreApart, StagesInOrder, PublishRaises,
                  ReplaceRelease
    <3>2. \A r \in Runs : Published(r) => Published(r)'
      BY <3>1 DEF IInv, TypeOK
    <3>3. status.status # "none" => replaced'[status.run] = replaced[status.run]
      BY <3>1 DEF IInv, TypeOK, FinalReports, Reports
    <3>4. QED
      BY <2>1, <3>2, <3>3 DEF IInv, OutcomesTruthful
  <2>4. QED
    BY <2>2, <2>3 DEF PublishRaises
<1>8. StatusMatchesRelease'
  BY <1>1 DEF IInv, TypeOK, ProcessesAreApart, StagesInOrder, StatusMatchesRelease,
         PublishRaises, ReplaceRelease, Fail
<1>9. (ProcessesAreApart /\ LockNamesItsHolder /\ BackupIsRestorePoint)'
  BY <1>1 DEF IInv, TypeOK, ProcessesAreApart, LockNamesItsHolder, BackupIsRestorePoint,
         PublishRaises, ReplaceRelease, Fail
<1>10. QED
  BY <1>1, <1>2, <1>3, <1>4, <1>5, <1>6, <1>7, <1>8, <1>9 DEF IInv

LEMMA AlertKeeps ==
  ASSUME IInv, NEW w \in Workers, Alert(w)
  PROVE  IInv'
<1>1. TypeOK'
  <2>1. PICK outcome \in AlertOutcomes :
          report' = [report EXCEPT ![w] = [@ EXCEPT !.alert = outcome]]
    BY DEF Alert
  <2>2. report[w] \in Reports /\ report[w].status # "none"
    BY DEF IInv, TypeOK, ReportsAreTrue, Alert
  <2>3. [report[w] EXCEPT !.alert = outcome] \in Reports
    BY <2>2, AlertCompletes
  <2>4. QED
    BY <2>1, <2>3 DEF IInv, TypeOK, Alert
<1>2. ReportsAreTrue'
  <2>1. PICK outcome \in AlertOutcomes :
          report' = [report EXCEPT ![w] = [@ EXCEPT !.alert = outcome]]
    BY DEF Alert
  <2>2. report[w] \in Reports /\ report[w].status # "none"
    BY DEF IInv, TypeOK, ReportsAreTrue, Alert
  <2>3. /\ report'[w].status = report[w].status
        /\ report'[w].run = report[w].run
        /\ report'[w].release = report[w].release
        /\ report'[w].stage = report[w].stage
        /\ report'[w].alert # "pending"
    BY <2>1, <2>2, AlertCompletes, OutcomesAreFinal DEF IInv, TypeOK
  <2>4. \A v \in Workers : v # w => report'[v] = report[v] /\ pc'[v] = pc[v]
    BY <2>1 DEF IInv, TypeOK, Alert
  <2>5. pc'[w] = "status"
    BY DEF IInv, TypeOK, Alert
  <2>6. UNCHANGED <<run, replaced, status>>
    BY DEF Alert
  <2>7. QED
    BY <2>2, <2>3, <2>4, <2>5, <2>6 DEF IInv, ReportsAreTrue
<1>3. (RunsAreFresh /\ ProcessesAreApart /\ LockNamesItsHolder
        /\ StagesInOrder /\ PublishedPassedGates /\ ArtifactsStayOwn
        /\ BackupIsRestorePoint /\ OutcomesTruthful /\ StatusMatchesRelease)'
  BY <1>1 DEF IInv, TypeOK, RunsAreFresh, ProcessesAreApart, LockNamesItsHolder,
         StagesInOrder, PublishedPassedGates, ArtifactsStayOwn,
         BackupIsRestorePoint, OutcomesTruthful, StatusMatchesRelease, Alert
<1>4. QED
  BY <1>1, <1>2, <1>3 DEF IInv

LEMMA WriteStatusKeeps ==
  ASSUME IInv, NEW w \in Workers, WriteStatus(w)
  PROVE  IInv'
<1>1. TypeOK'
  <2>1. report[w] \in FinalReports
    BY DEF IInv, TypeOK, ReportsAreTrue, WriteStatus, FinalReports
  <2>2. QED
    BY <2>1 DEF IInv, TypeOK, WriteStatus
<1>2. RunsAreFresh'
  BY <1>1 DEF IInv, TypeOK, RunsAreFresh, ProcessesAreApart, ReportsAreTrue, WriteStatus
<1>3. StagesInOrder'
  BY <1>1 DEF IInv, TypeOK, ProcessesAreApart, StagesInOrder, ReportsAreTrue, WriteStatus
<1>4. ArtifactsStayOwn'
  BY <1>1 DEF IInv, TypeOK, ProcessesAreApart, LockNamesItsHolder, ArtifactsStayOwn,
         WriteStatus
<1>5. OutcomesTruthful'
  BY <1>1 DEF IInv, TypeOK, ProcessesAreApart, ReportsAreTrue, OutcomesTruthful,
         WriteStatus
<1>6. StatusMatchesRelease'
  BY <1>1 DEF IInv, TypeOK, RunsAreFresh, ProcessesAreApart, LockNamesItsHolder,
         StagesInOrder, ReportsAreTrue, PublishedPassedGates, ArtifactsStayOwn,
         BackupIsRestorePoint, OutcomesTruthful, StatusMatchesRelease,
         WriteStatus
<1>7. (ProcessesAreApart /\ LockNamesItsHolder /\ ReportsAreTrue
        /\ PublishedPassedGates /\ BackupIsRestorePoint)'
  BY <1>1 DEF IInv, TypeOK, ProcessesAreApart, LockNamesItsHolder, ReportsAreTrue,
         PublishedPassedGates, BackupIsRestorePoint, WriteStatus
<1>8. QED
  BY <1>1, <1>2, <1>3, <1>4, <1>5, <1>6, <1>7 DEF IInv

LEMMA WriteStatusRaisesKeeps ==
  ASSUME IInv, NEW w \in Workers, WriteStatusRaises(w)
  PROVE  IInv'
<1>1. TypeOK'
  <2>1. report[w] \in FinalReports
    BY DEF IInv, TypeOK, ReportsAreTrue, WriteStatusRaises, FinalReports
  <2>2. QED
    BY <2>1 DEF IInv, TypeOK, WriteStatusRaises, Reports
<1>2. RunsAreFresh'
  BY <1>1 DEF IInv, TypeOK, RunsAreFresh, ProcessesAreApart, ReportsAreTrue,
         WriteStatusRaises
<1>3. StagesInOrder'
  BY <1>1 DEF IInv, TypeOK, ProcessesAreApart, StagesInOrder, ReportsAreTrue,
         WriteStatusRaises
<1>4. ArtifactsStayOwn'
  BY <1>1 DEF IInv, TypeOK, ProcessesAreApart, ArtifactsStayOwn, WriteStatusRaises
<1>5. OutcomesTruthful'
  BY <1>1 DEF IInv, TypeOK, ProcessesAreApart, LockNamesItsHolder, StagesInOrder,
         ReportsAreTrue, OutcomesTruthful, WriteStatusRaises
<1>6. StatusMatchesRelease'
  BY <1>1 DEF IInv, TypeOK, RunsAreFresh, ProcessesAreApart, LockNamesItsHolder,
         StagesInOrder, ReportsAreTrue, PublishedPassedGates, ArtifactsStayOwn,
         BackupIsRestorePoint, OutcomesTruthful, StatusMatchesRelease,
         WriteStatusRaises
<1>7. ReportsAreTrue'
  BY <1>1 DEF IInv, TypeOK, ReportsAreTrue, WriteStatusRaises
<1>8. (ProcessesAreApart /\ LockNamesItsHolder /\ PublishedPassedGates
        /\ BackupIsRestorePoint)'
  BY <1>1 DEF IInv, TypeOK, ProcessesAreApart, LockNamesItsHolder,
         PublishedPassedGates, BackupIsRestorePoint, WriteStatusRaises
<1>9. QED
  BY <1>1, <1>2, <1>3, <1>4, <1>5, <1>6, <1>7, <1>8 DEF IInv

LEMMA UnlockKeeps ==
  ASSUME IInv, NEW w \in Workers, Unlock(w)
  PROVE  IInv'
<1>1. TypeOK'
  <2>1. run[w] \in Runs
    BY DEF IInv, ProcessesAreApart, Unlock
  <2>2. ExitCode(report[w]) \in Endings
    BY ExitCodeMeaning DEF IInv, TypeOK
  <2>3. QED
    BY <2>1, <2>2, ExitIsTyped DEF IInv, TypeOK, Unlock
<1>2. RunsAreFresh'
  BY <1>1 DEF IInv, TypeOK, RunsAreFresh, ProcessesAreApart, Unlock, Exit
<1>3. LockNamesItsHolder'
  <2>1. \A v \in Workers \ {w} : pc'[v] = pc[v] /\ run'[v] = run[v]
    BY DEF IInv, TypeOK, Unlock, Exit
  <2>2. pc'[w] = "idle" /\ lock' = NoRun /\ UNCHANGED inspected
    BY DEF IInv, TypeOK, Unlock, Exit
  <2>3. \A v \in Workers \ {w} : pc[v] \notin LockedStages
    BY OneHolder DEF Unlock
  <2>4. \A v \in Workers : pc[v] # "idle" => run[v] \in Runs
    BY DEF IInv, ProcessesAreApart
  <2>5. inspected = NoRun
    BY DEF IInv, LockNamesItsHolder, Unlock
  <2>6. QED
    BY <2>1, <2>2, <2>3, <2>4, <2>5 DEF LockNamesItsHolder
<1>4. ArtifactsStayOwn'
  <2>1. \A v \in Workers \ {w} : pc'[v] = pc[v] /\ pc[v] \notin LockedStages
    BY OneHolder DEF IInv, TypeOK, Unlock, Exit
  <2>2. pc'[w] = "idle"
    BY DEF IInv, TypeOK, Unlock, Exit
  <2>3. QED
    BY <2>1, <2>2 DEF ArtifactsStayOwn
<1>5. OutcomesTruthful'
  <2>1. run[w] \in Runs /\ report[w] \in Reports
    BY DEF IInv, TypeOK, ProcessesAreApart, Unlock
  <2>2. ended' = [ended EXCEPT ![run[w]] = ExitCode(report[w])]
    BY DEF Unlock, Exit
  <2>3. ExitCode(report[w]) \in {"0", "3"} => Published(run[w])
    BY <2>1, ExitCodeMeaning DEF IInv, ReportsAreTrue
  <2>4. UNCHANGED <<status, replaced>>
    BY DEF Unlock, Exit
  <2>5. QED
    BY <2>1, <2>2, <2>3, <2>4 DEF IInv, TypeOK, OutcomesTruthful
<1>6. StatusMatchesRelease'
  <2>1. run[w] \in Runs /\ report[w] \in Reports
    BY DEF IInv, TypeOK, ProcessesAreApart, Unlock
  <2>2. ended' = [ended EXCEPT ![run[w]] = ExitCode(report[w])]
    BY DEF Unlock, Exit
  <2>3. ExitCode(report[w]) \in {"0", "3"} =>
          status = report[w] /\ report[w].release = run[w]
    BY <2>1, ExitCodeMeaning DEF IInv, ReportsAreTrue, ArtifactsStayOwn, Unlock
  <2>4. UNCHANGED <<status, web>>
    BY DEF Unlock
  <2>5. web \in Runs \cup {NoRun}
    BY DEF IInv, TypeOK
  <2>6. CASE web = run[w]
    BY <2>1, <2>2, <2>3, <2>4, <2>6 DEF IInv, TypeOK, StatusMatchesRelease
  <2>7. CASE web # run[w]
    BY <2>1, <2>2, <2>4, <2>5, <2>7 DEF IInv, TypeOK, StatusMatchesRelease
  <2>8. QED
    BY <2>6, <2>7
<1>7. (ProcessesAreApart /\ StagesInOrder /\ ReportsAreTrue
        /\ PublishedPassedGates /\ BackupIsRestorePoint)'
  BY <1>1 DEF IInv, TypeOK, ProcessesAreApart, StagesInOrder, ReportsAreTrue,
         PublishedPassedGates, BackupIsRestorePoint, Unlock, Exit
<1>8. QED
  BY <1>1, <1>2, <1>3, <1>4, <1>5, <1>6, <1>7 DEF IInv

LEMMA InterruptKeeps ==
  ASSUME IInv, NEW w \in Workers, Interrupt(w)
  PROVE  IInv'
<1>1. TypeOK'
  <2>1. run[w] \in Runs
    BY DEF IInv, ProcessesAreApart, Interrupt
  <2>2. "interrupted" \in Endings
    BY DEF Endings
  <2>3. QED
    BY <2>1, <2>2, ExitIsTyped DEF IInv, TypeOK, Interrupt
<1>2. RunsAreFresh'
  BY <1>1 DEF IInv, TypeOK, RunsAreFresh, ProcessesAreApart, Interrupt, Exit
<1>3. LockNamesItsHolder'
  BY <1>1 DEF IInv, TypeOK, ProcessesAreApart, LockNamesItsHolder, Interrupt, Exit
<1>4. ArtifactsStayOwn'
  BY <1>1 DEF IInv, TypeOK, ProcessesAreApart, ArtifactsStayOwn, Interrupt, Exit
<1>5. (ProcessesAreApart /\ StagesInOrder /\ ReportsAreTrue
        /\ PublishedPassedGates /\ BackupIsRestorePoint /\ OutcomesTruthful
        /\ StatusMatchesRelease)'
  BY <1>1 DEF IInv, TypeOK, ProcessesAreApart, StagesInOrder, ReportsAreTrue,
         PublishedPassedGates, BackupIsRestorePoint, OutcomesTruthful,
         StatusMatchesRelease, Interrupt, Exit
<1>6. QED
  BY <1>1, <1>2, <1>3, <1>4, <1>5 DEF IInv

LEMMA KillKeeps ==
  ASSUME IInv, NEW w \in Workers, Kill(w)
  PROVE  IInv'
<1>1. TypeOK'
  <2>1. run[w] \in Runs
    BY DEF IInv, ProcessesAreApart, Kill
  <2>2. "killed" \in Endings
    BY DEF Endings
  <2>3. QED
    BY <2>1, <2>2, ExitIsTyped DEF IInv, TypeOK, Kill
<1>2. RunsAreFresh'
  BY <1>1 DEF IInv, TypeOK, RunsAreFresh, ProcessesAreApart, Kill, Exit
<1>3. (ProcessesAreApart /\ LockNamesItsHolder /\ StagesInOrder
        /\ ReportsAreTrue /\ PublishedPassedGates /\ ArtifactsStayOwn
        /\ BackupIsRestorePoint /\ OutcomesTruthful /\ StatusMatchesRelease)'
  BY <1>1 DEF IInv, TypeOK, ProcessesAreApart, LockNamesItsHolder, StagesInOrder,
         ReportsAreTrue, PublishedPassedGates, ArtifactsStayOwn,
         BackupIsRestorePoint, OutcomesTruthful, StatusMatchesRelease, Kill,
         Exit
<1>4. QED
  BY <1>1, <1>2, <1>3 DEF IInv

LEMMA InspectLockKeeps ==
  ASSUME IInv, InspectLock
  PROVE  IInv'
<1>1. TypeOK'
  BY DEF IInv, TypeOK, InspectLock, Alive
<1>2. RunsAreFresh'
  BY <1>1 DEF IInv, TypeOK, RunsAreFresh, ProcessesAreApart, InspectLock, Alive
<1>3. (ProcessesAreApart /\ LockNamesItsHolder /\ StagesInOrder
        /\ ReportsAreTrue /\ PublishedPassedGates /\ ArtifactsStayOwn
        /\ BackupIsRestorePoint /\ OutcomesTruthful /\ StatusMatchesRelease)'
  BY <1>1 DEF IInv, TypeOK, ProcessesAreApart, LockNamesItsHolder, StagesInOrder,
         ReportsAreTrue, PublishedPassedGates, ArtifactsStayOwn,
         BackupIsRestorePoint, OutcomesTruthful, StatusMatchesRelease,
         InspectLock, Alive
<1>4. QED
  BY <1>1, <1>2, <1>3 DEF IInv

LEMMA RemoveLockKeeps ==
  ASSUME IInv, RemoveLock
  PROVE  IInv'
<1>1. TypeOK'
  BY DEF IInv, TypeOK, RemoveLock
<1>2. LockNamesItsHolder'
  BY <1>1 DEF IInv, TypeOK, ProcessesAreApart, LockNamesItsHolder, RemoveLock
<1>3. ArtifactsStayOwn'
  BY <1>1 DEF IInv, TypeOK, ProcessesAreApart, LockNamesItsHolder, ArtifactsStayOwn,
         RemoveLock
<1>4. (RunsAreFresh /\ ProcessesAreApart /\ StagesInOrder /\ ReportsAreTrue
        /\ PublishedPassedGates /\ BackupIsRestorePoint /\ OutcomesTruthful
        /\ StatusMatchesRelease)'
  BY <1>1 DEF IInv, TypeOK, RunsAreFresh, ProcessesAreApart, StagesInOrder,
         ReportsAreTrue, PublishedPassedGates, BackupIsRestorePoint,
         OutcomesTruthful, StatusMatchesRelease, RemoveLock
<1>5. QED
  BY <1>1, <1>2, <1>3, <1>4 DEF IInv

LEMMA TickKeeps ==
  ASSUME IInv, Tick
  PROVE  IInv'
<1>1. TypeOK'
  BY DEF IInv, TypeOK, Tick, Seconds
<1>2. (RunsAreFresh /\ ProcessesAreApart /\ LockNamesItsHolder
        /\ StagesInOrder /\ ReportsAreTrue /\ PublishedPassedGates
        /\ ArtifactsStayOwn /\ BackupIsRestorePoint /\ OutcomesTruthful
        /\ StatusMatchesRelease)'
  BY <1>1 DEF IInv, TypeOK, RunsAreFresh, ProcessesAreApart, LockNamesItsHolder,
         StagesInOrder, ReportsAreTrue, PublishedPassedGates, ArtifactsStayOwn,
         BackupIsRestorePoint, OutcomesTruthful, StatusMatchesRelease, Tick
<1>3. QED
  BY <1>1, <1>2 DEF IInv

-----------------------------------------------------------------------------
(* The invariant and what follows from it. *)

\* The invariant holds before the first run.
LEMMA InitEstablishes == Init => IInv
<1> SUFFICES ASSUME Init PROVE IInv
  OBVIOUS
<1>1. TypeOK
  BY DEF Init, TypeOK, Seconds, Reports, FinalReports, Healths, Endings
<1>2. QED
  <2>1. \A w \in Workers : pc[w] = "idle" /\ run[w] = NoRun
                           /\ backup[w] = NoBackup /\ report[w] = NoReport
    BY DEF Init
  <2>2. RunsAreFresh /\ ProcessesAreApart /\ LockNamesItsHolder
    BY <2>1 DEF Init, RunsAreFresh, ProcessesAreApart, LockNamesItsHolder
  <2>3. StagesInOrder /\ ReportsAreTrue
    BY <2>1 DEF Init, StagesInOrder, ReportsAreTrue
  <2>4. PublishedPassedGates /\ ArtifactsStayOwn /\ BackupIsRestorePoint
    BY <2>1 DEF Init, PublishedPassedGates, ArtifactsStayOwn, BackupIsRestorePoint
  <2>5. OutcomesTruthful /\ StatusMatchesRelease
    BY DEF Init, OutcomesTruthful, StatusMatchesRelease
  <2>6. QED
    BY <1>1, <2>2, <2>3, <2>4, <2>5 DEF IInv

\* A step that changes nothing keeps the invariant.
LEMMA StutterKeeps == ASSUME IInv, UNCHANGED vars PROVE IInv'
<1>1. TypeOK'
  BY DEF IInv, TypeOK, vars
<1>2. QED
  BY <1>1 DEF IInv, RunsAreFresh, ProcessesAreApart, LockNamesItsHolder,
         StagesInOrder, ReportsAreTrue, PublishedPassedGates, ArtifactsStayOwn,
         BackupIsRestorePoint, OutcomesTruthful, StatusMatchesRelease, vars

\* Every step of the system keeps the invariant.
LEMMA NextKeeps == ASSUME IInv, [Next]_vars PROVE IInv'
<1>1. ASSUME NEW w \in Workers, Work(w) PROVE IInv'
  BY <1>1, ReadPreviousKeeps, AcquireLockKeeps, RefuseLockKeeps, ClaimLockKeeps,
     OpenBackupKeeps, SkipBackupKeeps, CopyBackupKeeps, BackupRaisesKeeps,
     CommitRowsKeeps, MaterializeKeeps,
     MaterializeRaisesKeeps, ReportMaterializationKeeps,
     ReportMaterializationRaisesKeeps, ExportKeeps, PublishKeeps,
     PublishRaisesKeeps, AlertKeeps, WriteStatusKeeps, WriteStatusRaisesKeeps,
     UnlockKeeps
  DEF Work
<1>2. ASSUME NEW w \in Workers, Start(w) \/ Interrupt(w) \/ Kill(w) PROVE IInv'
  BY <1>2, StartKeeps, InterruptKeeps, KillKeeps
<1>3. CASE Operator \/ Tick
  BY <1>3, InspectLockKeeps, RemoveLockKeeps, TickKeeps DEF Operator
<1>4. CASE UNCHANGED vars
  BY <1>4, StutterKeeps
<1>5. QED
  BY <1>1, <1>2, <1>3, <1>4 DEF Next

\* The inductive invariant holds of every behaviour: runs are fresh, processes
\* are apart, the lock file names the process inside the `with` block, and what
\* each stage has written is in place (deadline_refresh.py, run_deadline_refresh).
THEOREM InvariantHolds == Spec => []IInv
<1>1. Init => IInv
  BY InitEstablishes
<1>2. IInv /\ [Next]_vars => IInv'
  BY NextKeeps
<1>3. QED
  BY <1>1, <1>2, PTL DEF Spec

\* Every variable keeps its type, and no status file says that an alert is pending.
THEOREM TypesHold == Spec => []TypeOK
<1>1. IInv => TypeOK
  BY DEF IInv
<1>2. QED
  BY <1>1, InvariantHolds, PTL

\* The published file changes only to a release that passed materialization,
\* manifest, freshness and, where it is required, approval.
THEOREM PublishedPasses == Spec => []PublishedPassedGates
<1>1. IInv => PublishedPassedGates
  BY DEF IInv
<1>2. QED
  BY <1>1, InvariantHolds, PTL

\* Mutual exclusion: what a run has written is its own until its process ends,
\* as long as lock files are removed by their run or, after it died, by an operator
\* who looked the process up first.
THEOREM ArtifactsHold == Spec => []ArtifactsStayOwn
<1>1. IInv => ArtifactsStayOwn
  BY DEF IInv
<1>2. QED
  BY <1>1, InvariantHolds, PTL

\* The backup of a run in progress holds every row that the run did not write.
THEOREM BackupsRestore == Spec => []BackupIsRestorePoint
<1>1. IInv => BackupIsRestorePoint
  BY DEF IInv
<1>2. QED
  BY <1>1, InvariantHolds, PTL

\* Exit codes and the status file agree with what happened to the published file.
THEOREM OutcomesHold == Spec => []OutcomesTruthful
<1>1. IInv => OutcomesTruthful
  BY DEF IInv
<1>2. QED
  BY <1>1, InvariantHolds, PTL

\* A succeeded status is about the published release once the run that published
\* it has exited with 0 or 3.
THEOREM StatusHolds == Spec => []StatusMatchesRelease
<1>1. IInv => StatusMatchesRelease
  BY DEF IInv
<1>2. QED
  BY <1>1, InvariantHolds, PTL

-----------------------------------------------------------------------------
(* The worker implements PublishedRelease. *)

\* The lock file is free exactly when no run is in its `with` block.
LEMMA HolderIsLocked ==
  ASSUME IInv, NEW w \in Workers, pc[w] # "idle"
  PROVE  /\ run[w] \in Runs
         /\ pc[w] \in LockedStages <=> lock = run[w]
  BY DEF IInv, ProcessesAreApart, LockNamesItsHolder

\* A stage that touches neither the lock, nor the published file, nor the verdict
\* of the gates is invisible to readers.
LEMMA StutterIsInvisible ==
  ASSUME UNCHANGED <<lock, web, health, replaced>>
  PROVE  UNCHANGED Promise!pVars
  BY DEF Promise!pVars

\* A lock file that goes away closes its attempt, and one that was not there
\* changes nothing.
LEMMA ReleaseCloses ==
  ASSUME IInv, lock' = NoRun, UNCHANGED <<web, replaced>>
  PROVE  [Promise!PNext]_Promise!pVars
<1>1. CASE lock = NoRun
  BY <1>1 DEF Promise!pVars
<1>2. CASE lock # NoRun
  BY <1>2 DEF Promise!PNext, Promise!Close
<1>3. QED
  BY <1>1, <1>2

\* Publishing switches what readers are served to the release of the open attempt.
LEMMA ReplaceSwitches ==
  ASSUME IInv, NEW w \in Workers, pc[w] = "publish", ReplaceRelease(w),
         UNCHANGED <<lock, health>>
  PROVE  Promise!Switch
<1>1. lock = run[w] /\ run[w] \in Runs
  BY HolderIsLocked
<1>2. /\ candidate[w] = run[w]
      /\ web # run[w]
      /\ ~Published(run[w])
      /\ health[run[w]] # "none"
  BY DEF IInv, StagesInOrder
<1>3. \A r \in Runs : replaced'[r] # r <=> replaced[r] # r \/ r = run[w]
  BY <1>1, <1>2 DEF IInv, TypeOK, ReplaceRelease
<1>4. {r \in Runs : Published(r)}' = {r \in Runs : Published(r)} \cup {run[w]}
  BY <1>1, <1>3
<1>5. QED
  BY <1>1, <1>2, <1>4 DEF Promise!Switch, ReplaceRelease

\* Each step of one run is a step of the promise, or a stutter.
LEMMA WorkImplements ==
  ASSUME IInv, NEW w \in Workers, Work(w)
  PROVE  [Promise!PNext]_Promise!pVars
<1>1. CASE \/ ReadPrevious(w) \/ RefuseLock(w) \/ ClaimLock(w)
           \/ OpenBackup(w) \/ SkipBackup(w) \/ CopyBackup(w) \/ BackupRaises(w)
           \/ CommitRows(w)
           \/ Materialize(w) \/ MaterializeRaises(w)
           \/ ReportMaterialization(w) \/ ReportMaterializationRaises(w)
           \/ Alert(w) \/ WriteStatus(w) \/ WriteStatusRaises(w)
  <2>1. UNCHANGED <<lock, web, health, replaced>>
    BY <1>1 DEF ReadPrevious, RefuseLock, ClaimLock, OpenBackup, SkipBackup, CopyBackup, BackupRaises,
           CommitRows, Materialize, MaterializeRaises, ReportMaterialization,
           ReportMaterializationRaises, Alert, WriteStatus, WriteStatusRaises, Exit
  <2>2. QED
    BY <2>1, StutterIsInvisible
<1>2. CASE AcquireLock(w)
  <2>1. run[w] \in Runs /\ ~Published(run[w]) /\ health[run[w]] = "none"
    BY <1>2, HolderIsLocked DEF AcquireLock, IInv, StagesInOrder
  <2>2. Promise!Open(run[w])
    BY <1>2, <2>1 DEF AcquireLock, Promise!Open
  <2>3. QED
    BY <2>1, <2>2 DEF Promise!PNext
<1>3. CASE Export(w)
  <2>1. lock = run[w] /\ run[w] \in Runs /\ ~Published(run[w])
    BY <1>3, HolderIsLocked DEF Export, IInv, StagesInOrder
  <2>2. UNCHANGED <<lock, web, replaced>>
    BY <1>3 DEF Export
  <2>3. CASE UNCHANGED health
    BY <2>2, <2>3, StutterIsInvisible
  <2>4. ASSUME NEW found \in Healths \ {"none"},
               health' = [health EXCEPT ![run[w]] = found]
        PROVE  Promise!Accept
    <3>1. health'[lock] # "none"
      BY <2>1, <2>4 DEF IInv, TypeOK
    <3>2. QED
      BY <2>1, <2>2, <3>1 DEF Promise!Accept
  <2>5. QED
    BY <1>3, <2>3, <2>4 DEF Export, Promise!PNext
<1>4. CASE Publish(w)
  BY <1>4, ReplaceSwitches DEF Publish, Promise!PNext
<1>5. CASE PublishRaises(w)
  <2>1. CASE UNCHANGED <<web, replaced>>
    BY <1>5, <2>1, StutterIsInvisible DEF PublishRaises
  <2>2. CASE ReplaceRelease(w)
    BY <1>5, <2>2, ReplaceSwitches DEF PublishRaises, Promise!PNext
  <2>3. QED
    BY <1>5, <2>1, <2>2 DEF PublishRaises
<1>6. CASE Unlock(w)
  BY <1>6, ReleaseCloses DEF Unlock, Exit
<1>7. QED
  BY <1>1, <1>2, <1>3, <1>4, <1>5, <1>6 DEF Work

\* Each step of the system is a step of the promise, or a stutter.
LEMMA NextImplements ==
  ASSUME IInv, [Next]_vars
  PROVE  [Promise!PNext]_Promise!pVars
<1>1. ASSUME NEW w \in Workers, Start(w) \/ Kill(w)
      PROVE  [Promise!PNext]_Promise!pVars
  <2>1. UNCHANGED <<lock, web, health, replaced>>
    BY <1>1 DEF Start, Kill, Exit
  <2>2. QED
    BY <2>1, StutterIsInvisible
<1>2. ASSUME NEW w \in Workers, Interrupt(w)
      PROVE  [Promise!PNext]_Promise!pVars
  BY <1>2, ReleaseCloses DEF Interrupt, Exit
<1>3. CASE RemoveLock
  BY <1>3, ReleaseCloses DEF RemoveLock
<1>4. CASE InspectLock \/ Tick \/ UNCHANGED vars
  <2>1. UNCHANGED <<lock, web, health, replaced>>
    BY <1>4 DEF InspectLock, Tick, vars
  <2>2. QED
    BY <2>1, StutterIsInvisible
<1>5. QED
  BY <1>1, <1>2, <1>3, <1>4, WorkImplements DEF Next, Operator

\* Readers get what PublishedRelease promises: one attempt at a time, and each
\* replaces the release at most once, in one step, after the gates accepted it.
THEOREM ImplementsPublishedRelease == Spec => ImplementsPromise
<1>1. Init => Promise!PInit
  BY DEF Init, Promise!PInit
<1>2. IInv /\ [Next]_vars => [Promise!PNext]_Promise!pVars
  BY NextImplements
<1>3. QED
  BY <1>1, <1>2, InvariantHolds, PTL DEF Spec, ImplementsPromise, Promise!PSpec

-----------------------------------------------------------------------------
(* The evidence the refreshed chain projects from.  What a projection rests *)
(* on was known in time, and what a reviewer is told about refreshing is    *)
(* true, for every set of players, payloads, asks and annotations and every *)
(* number of captures, reviews and runs.                                    *)

\* When things were captured: nothing after now, a live capture not before the snapshot
\* it names its players by, and a resolution is of a stored snapshot.
CapturedInOrder ==
  /\ time \in Nat
  /\ \A s \in snapshots : s.payload \in Payloads /\ s.at \in Nat /\ s.at <= time
  /\ \A l \in lives : l.source.at <= l.at
  /\ \A r \in resolutions : r.source \in snapshots /\ r.gw \in GWs

\* The inductive invariant behind EvidenceIsCausal.
CausalInv == CapturedInOrder /\ EvidenceIsCausal

\* A promise not to refresh was made with the override stored and a snapshot captured
\* that is new enough; every later resolution keeps it.
PromisesKept ==
  \A o \in promised :
    /\ \E t \in overrides : t.ask = o
    /\ \E s \in snapshots : Causal(s, o.gw) /\ o.observed <= s.at
    /\ \A r \in resolutions, t \in overrides :
         r.gw = o.gw /\ o.observed <= AsOf(r) /\ t.ask = o /\ AsOf(r) <= t.until
           => Honours(r.use, o)

DebtsKept ==
  \A o \in owed :
    /\ \E t \in scenarios : t.ask = o
    /\ \A a \in appearances, t \in scenarios :
         a.resolution.gw = o.gw /\ o.observed <= a.asOf /\ t.ask = o /\ a.asOf <= t.until
           => Honours(a.use, o)

\* The rows of the two override tables.
RowsStored ==
  /\ overrides \subseteq [ask: OverrideAsks, until: Nat]
  /\ scenarios \subseteq [ask: ScenarioAsks, until: Nat]
  /\ promised \subseteq OverrideAsks
  /\ owed \subseteq ScenarioAsks

\* The inductive invariant behind RefreshFlagsHonest.
FlagsInv == CapturedInOrder /\ RowsStored /\ PromisesKept /\ DebtsKept

-----------------------------------------------------------------------------
(* Captures happen in order. *)

LEMMA OrderStarts == EvidenceInit => CapturedInOrder
  BY DEF EvidenceInit, CapturedInOrder

LEMMA OrderStays == CapturedInOrder /\ [EvidenceNext]_evidenceVars => CapturedInOrder'
<1> SUFFICES ASSUME CapturedInOrder, [EvidenceNext]_evidenceVars
             PROVE  CapturedInOrder'
  OBVIOUS
<1>1. CASE TimePasses
  BY <1>1 DEF TimePasses, CapturedInOrder, official, availability, appearance, context
<1>2. ASSUME NEW p \in Payloads, PersistFplSnapshot(p)
      PROVE  CapturedInOrder'
  BY <1>2 DEF PersistFplSnapshot, SnapshotOf, CapturedInOrder, availability, appearance, context
<1>3. ASSUME NEW s \in snapshots, NEW g \in GWs, NEW stats \in LivePayloads, NEW need \in Events,
             PersistFplEventLive(s, g, stats, need)
      PROVE  CapturedInOrder'
  BY <1>3 DEF PersistFplEventLive, CapturedInOrder, availability, appearance, context
<1>4. ASSUME NEW g \in GWs, NEW s \in Selectable(g), MaterializeAvailability(s, g)
      PROVE  CapturedInOrder'
  <2>1. s \in snapshots
    BY <1>4 DEF Selectable, Newest
  <2>2. QED
    BY <1>4, <2>1 DEF MaterializeAvailability, CapturedInOrder, official, appearance, context
<1>5. ASSUME UNCHANGED <<time, snapshots, lives, resolutions>>
      PROVE  CapturedInOrder'
  BY <1>5 DEF CapturedInOrder
<1>6. QED
  BY <1>1, <1>2, <1>3, <1>4, <1>5
  DEF EvidenceNext, evidenceVars, official, availability, appearance, context, StoreEventPenaltyReview,
      StoreReviewedOverride, ImportAppearanceHistory, StoreAppearanceScenario,
      MaterializePreseasonAppearance, MaterializeInseasonAppearance, StoreContextAnnotation,
      MaterializeContext

-----------------------------------------------------------------------------
(* Nothing newer than its deadline. *)

\* What is selected was observed by the time it is selected for.
LEMMA SelectedInTime ==
  ASSUME NEW table, NEW g, NEW asOf, NEW use, Selects(table, g, asOf, use),
         NEW q \in Players, use[q] # None
  PROVE  use[q] \in table /\ use[q].ask.observed <= asOf
  BY DEF Selects, InForce

LEMMA AvailabilityStaysCausal ==
  ASSUME CausalInv, CapturedInOrder', NEW g \in GWs, NEW s \in Selectable(g),
         MaterializeAvailability(s, g)
  PROVE  EvidenceIsCausal'
<1>1. s \in snapshots /\ s.at <= s.payload.deadline[g]
  BY DEF Selectable, Newest, Causal
<1>2. PICK use \in Uses(overrides) :
        /\ Selects(overrides, g, s.at, use)
        /\ LET from == [q \in Players |-> ProbabilitySource(s, g, q, use[q])] IN
             resolutions' = resolutions \cup
               {[source |-> s, gw |-> g, use |-> use, from |-> from,
                 gaps |-> \E q \in Players : Present(s, q) /\ from[q] = "unresolved"]}
  BY DEF MaterializeAvailability
<1>3. \A q \in Players : use[q] # None => use[q].ask.observed <= s.at
  BY <1>2, SelectedInTime
<1> DEFINE from == [q \in Players |-> ProbabilitySource(s, g, q, use[q])]
           gaps == \E q \in Players : Present(s, q) /\ from[q] = "unresolved"
           new == [source |-> s, gw |-> g, use |-> use, from |-> from, gaps |-> gaps]
<1>4. resolutions' = resolutions \cup {new}
  BY <1>2
<1>5. new.source = s /\ new.gw = g /\ new.use = use
  OBVIOUS
<1> HIDE DEF new
<1>6. /\ AsOf(new) <= Deadline(new)
      /\ \A q \in Players : new.use[q] # None => new.use[q].ask.observed <= AsOf(new)
  BY <1>1, <1>3, <1>5 DEF AsOf, Deadline
<1>7. UNCHANGED <<appearances, contexts>>
  BY DEF MaterializeAvailability, appearance, context
<1>8. QED
  BY <1>4, <1>6, <1>7 DEF CausalInv, EvidenceIsCausal, AsOf, Deadline, ContextTime

\* What EvidenceIsCausal says of one appearance run.
CausalRun(a) ==
  /\ AsOf(a.resolution) <= a.asOf
  /\ a.asOf <= Deadline(a.resolution)
  /\ \A g \in DOMAIN a.history :
       /\ a.history[g].gw = g
       /\ g < a.resolution.gw
       /\ a.history[g].source.at <= a.history[g].at
       /\ a.history[g].at <= a.asOf
  /\ \A q \in Players : a.use[q] # None => a.use[q].ask.observed <= a.asOf

LEMMA RunAdded ==
  ASSUME CausalInv, NEW new, CausalRun(new), appearances' = appearances \cup {new},
         UNCHANGED <<resolutions, contexts>>
  PROVE  EvidenceIsCausal'
  BY DEF CausalInv, EvidenceIsCausal, CausalRun, AsOf, Deadline, ContextTime

LEMMA PreseasonStaysCausal ==
  ASSUME CausalInv, NEW r \in resolutions, MaterializePreseasonAppearance(r)
  PROVE  EvidenceIsCausal'
<1>1. PICK use \in Uses(scenarios) :
        /\ Selects(scenarios, 1, AsOf(r), use)
        /\ LET basis == [q \in Players |-> PreseasonBasis(r, use, q)] IN
             appearances' = appearances \cup
               {[resolution |-> r, history |-> <<>>, asOf |-> AsOf(r), use |-> use,
                 basis |-> basis,
                 gaps |-> \E q \in Players : Present(r.source, q) /\ basis[q] = "missing"]}
  BY DEF MaterializePreseasonAppearance
<1>2. \A q \in Players : use[q] # None => use[q].ask.observed <= AsOf(r)
  BY <1>1, SelectedInTime
<1>3. AsOf(r) \in Nat /\ AsOf(r) <= Deadline(r)
  BY DEF CausalInv, CapturedInOrder, EvidenceIsCausal, AsOf
<1> DEFINE basis == [q \in Players |-> PreseasonBasis(r, use, q)]
           gaps == \E q \in Players : Present(r.source, q) /\ basis[q] = "missing"
           new == [resolution |-> r, history |-> <<>>, asOf |-> AsOf(r), use |-> use,
                   basis |-> basis, gaps |-> gaps]
<1>4. appearances' = appearances \cup {new}
  BY <1>1
<1>5. new.resolution = r /\ new.history = <<>> /\ new.asOf = AsOf(r) /\ new.use = use
  OBVIOUS
<1> HIDE DEF new
<1>6. DOMAIN new.history = {}
  BY <1>5
<1>7. AsOf(r) <= AsOf(r)
  BY <1>3
<1>8. CausalRun(new)
  BY <1>2, <1>3, <1>5, <1>6, <1>7 DEF CausalRun
<1>9. QED
  BY <1>4, <1>8, RunAdded DEF MaterializePreseasonAppearance, availability, context

LEMMA InseasonStaysCausal ==
  ASSUME CausalInv, NEW r \in resolutions, r.gw \in GWs, MaterializeInseasonAppearance(r)
  PROVE  EvidenceIsCausal'
<1>0. PICK history \in [1 .. r.gw - 1 -> lives], use \in Uses(scenarios) :
      \E asOf \in EvidenceTime(r, history) :
        /\ \A g \in 1 .. r.gw - 1 : history[g] \in Newest(Admissible(g, Deadline(r)))
        /\ asOf <= Deadline(r)
        /\ Selects(scenarios, r.gw, asOf, use)
        /\ LET basis == [q \in Players |-> Basis(r, history, use, q)] IN
             appearances' = appearances \cup
               {[resolution |-> r, history |-> history, asOf |-> asOf, use |-> use,
                 basis |-> basis,
                 gaps |-> \E q \in Players : Present(r.source, q) /\ basis[q] = "missing"]}
  BY DEF MaterializeInseasonAppearance
<1>1. PICK asOf \in EvidenceTime(r, history) :
        /\ \A g \in 1 .. r.gw - 1 : history[g] \in Newest(Admissible(g, Deadline(r)))
        /\ asOf <= Deadline(r)
        /\ Selects(scenarios, r.gw, asOf, use)
        /\ LET basis == [q \in Players |-> Basis(r, history, use, q)] IN
             appearances' = appearances \cup
               {[resolution |-> r, history |-> history, asOf |-> asOf, use |-> use,
                 basis |-> basis,
                 gaps |-> \E q \in Players : Present(r.source, q) /\ basis[q] = "missing"]}
  BY <1>0
<1>2. \A q \in Players : use[q] # None => use[q].ask.observed <= asOf
  BY <1>1, SelectedInTime
<1>3. AsOf(r) <= asOf /\ \A g \in DOMAIN history : history[g].at <= asOf
  BY <1>1 DEF EvidenceTime
<1>4. ASSUME NEW g \in DOMAIN history
      PROVE  history[g].gw = g /\ g < r.gw /\ history[g].source.at <= history[g].at
  <2>1. g \in 1 .. r.gw - 1 /\ history[g] \in lives
    BY <1>1, <1>4
  <2>2. history[g].gw = g
    BY <1>1, <2>1 DEF Newest, Admissible
  <2>3. g < r.gw
    BY <2>1, EvidenceAssumption DEF GWs
  <2>4. QED
    BY <2>1, <2>2, <2>3 DEF CausalInv, CapturedInOrder
<1> DEFINE basis == [q \in Players |-> Basis(r, history, use, q)]
           gaps == \E q \in Players : Present(r.source, q) /\ basis[q] = "missing"
           new == [resolution |-> r, history |-> history, asOf |-> asOf, use |-> use,
                   basis |-> basis, gaps |-> gaps]
<1>5. appearances' = appearances \cup {new}
  BY <1>1
<1>6. new.resolution = r /\ new.history = history /\ new.asOf = asOf /\ new.use = use
  OBVIOUS
<1> HIDE DEF new
<1>7. CausalRun(new)
  BY <1>1, <1>2, <1>3, <1>4, <1>6 DEF CausalRun
<1>8. QED
  BY <1>5, <1>7, RunAdded DEF MaterializeInseasonAppearance, availability, context

\* What is selected as context was observed and valid by the deadline.
LEMMA ContextStaysCausal ==
  ASSUME CausalInv, NEW a \in appearances, MaterializeContext(a)
  PROVE  EvidenceIsCausal'
<1> DEFINE deadline == Deadline(a.resolution)
           s == a.resolution.source
<1>1. PICK chosen \in SUBSET annotations :
        /\ Selection(s, deadline, chosen)
        /\ contexts' = contexts \cup
             {[appearance |-> a, notes |-> chosen,
               gaps |-> \E q \in Players : Present(s, q) /\ ~FullyObserved(a, chosen, q)]}
  BY DEF MaterializeContext
<1>2. ASSUME NEW n \in chosen PROVE n.observed <= deadline
  <2> HIDE DEF deadline
  <2>1. CASE \E kind, who : n \in Current(kind, who, deadline)
    BY <2>1 DEF Current, Latest, Noted
  <2>2. CASE \E m : n \in Before(m, deadline)
    BY <2>2 DEF Before, Latest, Noted
  <2>3. QED
    BY <1>1, <2>1, <2>2 DEF Selection
<1>3. a.asOf <= deadline
  BY DEF CausalInv, EvidenceIsCausal
<1> DEFINE gaps == \E q \in Players : Present(s, q) /\ ~FullyObserved(a, chosen, q)
           new == [appearance |-> a, notes |-> chosen, gaps |-> gaps]
<1>4. contexts' = contexts \cup {new}
  BY <1>1
<1>5. new.appearance = a /\ new.notes = chosen
  OBVIOUS
<1> HIDE DEF new
<1>6. \A t \in ContextTime(new) : t <= Deadline(new.appearance.resolution)
  BY <1>2, <1>3, <1>5 DEF ContextTime
<1>7. UNCHANGED <<resolutions, appearances>>
  BY DEF MaterializeContext, availability, appearance
<1>8. QED
  BY <1>4, <1>6, <1>7 DEF CausalInv, EvidenceIsCausal, AsOf, Deadline, ContextTime

LEMMA CausalStarts == EvidenceInit => CausalInv
  BY OrderStarts DEF EvidenceInit, CausalInv, EvidenceIsCausal

LEMMA CausalStays == CausalInv /\ [EvidenceNext]_evidenceVars => CausalInv'
<1> SUFFICES ASSUME CausalInv, [EvidenceNext]_evidenceVars
             PROVE  CausalInv'
  OBVIOUS
<1>1. CapturedInOrder'
  BY OrderStays DEF CausalInv
<1>2. ASSUME UNCHANGED <<resolutions, appearances, contexts>>
      PROVE  EvidenceIsCausal'
  BY <1>2 DEF CausalInv, EvidenceIsCausal, AsOf, Deadline, ContextTime
<1>3. ASSUME NEW g \in GWs, NEW s \in Selectable(g), MaterializeAvailability(s, g)
      PROVE  EvidenceIsCausal'
  BY <1>1, <1>3, AvailabilityStaysCausal
<1>4. ASSUME NEW r \in resolutions, MaterializePreseasonAppearance(r)
      PROVE  EvidenceIsCausal'
  BY <1>4, PreseasonStaysCausal
<1>5. ASSUME NEW r \in resolutions, MaterializeInseasonAppearance(r)
      PROVE  EvidenceIsCausal'
  BY <1>5, InseasonStaysCausal DEF CausalInv, CapturedInOrder
<1>6. ASSUME NEW a \in appearances, MaterializeContext(a)
      PROVE  EvidenceIsCausal'
  BY <1>6, ContextStaysCausal
<1>7. EvidenceIsCausal'
  BY <1>2, <1>3, <1>4, <1>5, <1>6
  DEF EvidenceNext, evidenceVars, official, availability, appearance, context, TimePasses, PersistFplSnapshot,
      PersistFplEventLive, StoreEventPenaltyReview, StoreReviewedOverride,
      ImportAppearanceHistory, StoreAppearanceScenario, StoreContextAnnotation
<1>8. QED
  BY <1>1, <1>7 DEF CausalInv

\* Nothing a resolution, an appearance run or a context run is made of was known only after
\* the time it claims, and that is never after its deadline: what
\* materialize_latest_fpl_availability, materialize_inseason_appearance and
\* materialize_inseason_context select by time.
THEOREM EvidenceStaysCausal == EvidenceSpec => []EvidenceIsCausal
<1>1. CausalInv => EvidenceIsCausal
  BY DEF CausalInv
<1>2. QED
  BY <1>1, CausalStarts, CausalStays, PTL DEF EvidenceSpec

-----------------------------------------------------------------------------
(* What reviewers are told. *)

\* A selection rests on the override asked for, or on a newer one, while it is in force.
LEMMA SelectionHonours ==
  ASSUME NEW table, NEW g, NEW asOf, NEW use, Selects(table, g, asOf, use), None \notin table,
         NEW o, o.player \in Players, o.gw = g, o.observed \in Nat, o.observed <= asOf,
         NEW t \in table, t.ask = o, asOf <= t.until
  PROVE  Honours(use, o)
<1>1. t \in InForce(table, o.player, g, asOf)
  BY DEF InForce
<1>2. /\ use[o.player] \in table
      /\ o.observed <= use[o.player].ask.observed
  BY <1>1 DEF Selects, InForce
<1>3. QED
  BY <1>2 DEF Honours

\* None stands for no row.
LEMMA NoneIsNoRow == RowsStored => None \notin overrides /\ None \notin scenarios
  BY EvidenceAssumption DEF RowsStored

\* The deadline a snapshot gives a Gameweek, and the end of what is in force until then.
LEMMA DeadlinesAreTimes ==
  ASSUME CapturedInOrder, NEW s \in snapshots, NEW g \in GWs
  PROVE  s.payload.deadline[g] \in Nat
  BY EvidenceAssumption DEF CapturedInOrder

LEMMA UntilIsTime ==
  ASSUME NEW o \in OverrideAsks \cup ScenarioAsks, NEW deadline \in Nat
  PROVE  Until(o, deadline) \in Nat
<1>1. o.until \in Nat \cup {None}
  BY EvidenceAssumption
<1>2. QED
  BY <1>1 DEF Until

LEMMA FlagsStart == EvidenceInit => FlagsInv
  BY OrderStarts DEF EvidenceInit, FlagsInv, RowsStored, PromisesKept, DebtsKept

\* A reviewer's override: a promise is only made while no resolution can break it.
LEMMA OverrideKeepsFlags ==
  ASSUME FlagsInv, CapturedInOrder', NEW o \in OverrideAsks, NEW s \in Known(o.player, o.gw),
         StoreReviewedOverride(o, s)
  PROVE  FlagsInv'
<1> DEFINE deadline == s.payload.deadline[o.gw]
           row == [ask |-> o, until |-> Until(o, deadline)]
<1>1. s \in snapshots /\ Causal(s, o.gw)
  BY DEF Known, Newest
<1>2. o.gw \in GWs /\ o.observed \in Nat
  BY EvidenceAssumption
<1>3. row \in [ask: OverrideAsks, until: Nat] /\ row.ask = o
  BY <1>1, <1>2, DeadlinesAreTimes, UntilIsTime DEF FlagsInv
<1>4. /\ overrides' = IF \E r \in overrides : r.ask = o THEN overrides ELSE overrides \cup {row}
      /\ promised' = IF NeedsRefresh(o, s) THEN promised ELSE promised \cup {o}
      /\ UNCHANGED <<snapshots, resolutions, scenarios, owed, appearances>>
  BY DEF StoreReviewedOverride, official, appearance
<1> HIDE DEF row
<1>5. RowsStored'
  BY <1>3, <1>4 DEF FlagsInv, RowsStored
<1>6. ASSUME NEW q \in promised, NEW t \in overrides', t.ask = q
      PROVE  t \in overrides
  BY <1>3, <1>4, <1>6 DEF FlagsInv, PromisesKept
<1>7. ASSUME NEW q \in promised
      PROVE  /\ \E t \in overrides' : t.ask = q
             /\ \E u \in snapshots' : Causal(u, q.gw) /\ q.observed <= u.at
             /\ \A r \in resolutions', t \in overrides' :
                  r.gw = q.gw /\ q.observed <= AsOf(r) /\ t.ask = q /\ AsOf(r) <= t.until
                    => Honours(r.use, q)
  BY <1>4, <1>6 DEF FlagsInv, PromisesKept
<1>8. ASSUME ~NeedsRefresh(o, s)
      PROVE  /\ \E t \in overrides' : t.ask = o
             /\ \E u \in snapshots' : Causal(u, o.gw) /\ o.observed <= u.at
             /\ \A r \in resolutions', t \in overrides' :
                  r.gw = o.gw /\ o.observed <= AsOf(r) /\ t.ask = o /\ AsOf(r) <= t.until
                    => Honours(r.use, o)
  <2>1. \E t \in overrides' : t.ask = o
    BY <1>3, <1>4
  <2>2. s.at \in Nat /\ o.observed <= s.at
    BY <1>1, <1>2, <1>8 DEF NeedsRefresh, FlagsInv, CapturedInOrder
  <2>3. \A r \in resolutions : ~(r.gw = o.gw /\ o.observed <= AsOf(r))
    BY <1>2, <1>8 DEF NeedsRefresh, FlagsInv, CapturedInOrder, AsOf
  <2>4. QED
    BY <1>1, <1>4, <2>1, <2>2, <2>3
<1>9. PromisesKept'
  BY <1>4, <1>7, <1>8 DEF PromisesKept, Causal, AsOf, Honours
<1>10. DebtsKept'
  BY <1>4 DEF FlagsInv, DebtsKept, Honours
<1>11. QED
  BY <1>5, <1>9, <1>10 DEF FlagsInv

\* A new resolution honours every promise, since the override is stored.
LEMMA AvailabilityKeepsFlags ==
  ASSUME FlagsInv, CapturedInOrder', NEW g \in GWs, NEW s \in Selectable(g),
         MaterializeAvailability(s, g)
  PROVE  FlagsInv'
<1>1. PICK use \in Uses(overrides) :
        /\ Selects(overrides, g, s.at, use)
        /\ LET from == [q \in Players |-> ProbabilitySource(s, g, q, use[q])] IN
             resolutions' = resolutions \cup
               {[source |-> s, gw |-> g, use |-> use, from |-> from,
                 gaps |-> \E q \in Players : Present(s, q) /\ from[q] = "unresolved"]}
  BY DEF MaterializeAvailability
<1> DEFINE from == [q \in Players |-> ProbabilitySource(s, g, q, use[q])]
           gaps == \E q \in Players : Present(s, q) /\ from[q] = "unresolved"
           new == [source |-> s, gw |-> g, use |-> use, from |-> from, gaps |-> gaps]
<1>2. resolutions' = resolutions \cup {new}
  BY <1>1
<1>3. new.source = s /\ new.gw = g /\ new.use = use
  OBVIOUS
<1> HIDE DEF new
<1>4. UNCHANGED <<snapshots, overrides, promised, scenarios, owed, appearances>>
  BY DEF MaterializeAvailability, official, appearance
<1>5. None \notin overrides
  BY NoneIsNoRow DEF FlagsInv
<1>6. ASSUME NEW o \in promised, NEW t \in overrides,
             new.gw = o.gw, o.observed <= AsOf(new), t.ask = o, AsOf(new) <= t.until
      PROVE  Honours(new.use, o)
  <2>1. o.player \in Players /\ o.observed \in Nat
    BY EvidenceAssumption DEF FlagsInv, RowsStored
  <2>2. QED
    BY <1>1, <1>3, <1>5, <1>6, <2>1, SelectionHonours DEF AsOf
<1>7. PromisesKept'
  BY <1>2, <1>4, <1>6 DEF FlagsInv, PromisesKept, Causal, AsOf, Honours
<1>8. RowsStored' /\ DebtsKept'
  BY <1>4 DEF FlagsInv, RowsStored, DebtsKept, Honours
<1>9. QED
  BY <1>7, <1>8 DEF FlagsInv

\* A reviewer's scenario: nothing is owed once a run of the Gameweek is there.
LEMMA ScenarioKeepsFlags ==
  ASSUME FlagsInv, CapturedInOrder', NEW o \in ScenarioAsks, NEW r \in resolutions, r.gw = o.gw,
         StoreAppearanceScenario(o, r)
  PROVE  FlagsInv'
<1> DEFINE row == [ask |-> o, until |-> Until(o, Deadline(r))]
<1>1. Deadline(r) \in Nat
  BY DeadlinesAreTimes DEF FlagsInv, CapturedInOrder, Deadline
<1>2. row \in [ask: ScenarioAsks, until: Nat] /\ row.ask = o
  BY <1>1, UntilIsTime
<1>3. /\ scenarios' = IF \E t \in scenarios : t.ask = o THEN scenarios ELSE scenarios \cup {row}
      /\ owed' = IF NeedsPipeline(o, r) THEN owed ELSE owed \cup {o}
      /\ UNCHANGED <<snapshots, resolutions, overrides, promised, appearances>>
  BY DEF StoreAppearanceScenario, official, availability
<1> HIDE DEF row
<1>4. RowsStored'
  BY <1>2, <1>3 DEF FlagsInv, RowsStored
<1>5. ASSUME NEW q \in owed, NEW t \in scenarios', t.ask = q
      PROVE  t \in scenarios
  BY <1>2, <1>3, <1>5 DEF FlagsInv, DebtsKept
<1>6. ASSUME NEW q \in owed
      PROVE  /\ \E t \in scenarios' : t.ask = q
             /\ \A a \in appearances', t \in scenarios' :
                  a.resolution.gw = q.gw /\ q.observed <= a.asOf /\ t.ask = q /\ a.asOf <= t.until
                    => Honours(a.use, q)
  BY <1>3, <1>5 DEF FlagsInv, DebtsKept
<1>7. ASSUME ~NeedsPipeline(o, r)
      PROVE  /\ \E t \in scenarios' : t.ask = o
             /\ \A a \in appearances' : a.resolution.gw # o.gw
  BY <1>2, <1>3, <1>7 DEF NeedsPipeline
<1>8. DebtsKept'
  BY <1>3, <1>6, <1>7 DEF DebtsKept, Honours
<1>9. PromisesKept'
  BY <1>3 DEF FlagsInv, PromisesKept, Causal, AsOf, Honours
<1>10. QED
  BY <1>4, <1>8, <1>9 DEF FlagsInv

\* A new appearance run honours every scenario it was told of.
LEMMA RunKeepsFlags ==
  ASSUME FlagsInv, CapturedInOrder', NEW new, NEW g, NEW use,
         new.resolution.gw = g, new.use = use, Selects(scenarios, g, new.asOf, use),
         appearances' = appearances \cup {new},
         UNCHANGED <<snapshots, resolutions, overrides, promised, scenarios, owed>>
  PROVE  FlagsInv'
<1>1. None \notin scenarios
  BY NoneIsNoRow DEF FlagsInv
<1>2. ASSUME NEW o \in owed, NEW t \in scenarios,
             g = o.gw, o.observed <= new.asOf, t.ask = o, new.asOf <= t.until
      PROVE  Honours(use, o)
  <2>1. o.player \in Players /\ o.observed \in Nat
    BY EvidenceAssumption DEF FlagsInv, RowsStored
  <2>2. QED
    BY <1>1, <1>2, <2>1, SelectionHonours
<1>3. DebtsKept'
  BY <1>2 DEF FlagsInv, DebtsKept, Honours
<1>4. RowsStored' /\ PromisesKept'
  BY DEF FlagsInv, RowsStored, PromisesKept, Causal, AsOf, Honours
<1>5. QED
  BY <1>3, <1>4 DEF FlagsInv

LEMMA PreseasonKeepsFlags ==
  ASSUME FlagsInv, CapturedInOrder', NEW r \in resolutions, MaterializePreseasonAppearance(r)
  PROVE  FlagsInv'
<1>1. PICK use \in Uses(scenarios) :
        /\ Selects(scenarios, 1, AsOf(r), use)
        /\ LET basis == [q \in Players |-> PreseasonBasis(r, use, q)] IN
             appearances' = appearances \cup
               {[resolution |-> r, history |-> <<>>, asOf |-> AsOf(r), use |-> use,
                 basis |-> basis,
                 gaps |-> \E q \in Players : Present(r.source, q) /\ basis[q] = "missing"]}
  BY DEF MaterializePreseasonAppearance
<1> DEFINE basis == [q \in Players |-> PreseasonBasis(r, use, q)]
           gaps == \E q \in Players : Present(r.source, q) /\ basis[q] = "missing"
           new == [resolution |-> r, history |-> <<>>, asOf |-> AsOf(r), use |-> use,
                   basis |-> basis, gaps |-> gaps]
<1>2. appearances' = appearances \cup {new}
  BY <1>1
<1>3. new.resolution = r /\ new.asOf = AsOf(r) /\ new.use = use
  OBVIOUS
<1> HIDE DEF new
<1>4. /\ r.gw = 1
      /\ UNCHANGED <<snapshots, resolutions, overrides, promised, scenarios, owed>>
  BY DEF MaterializePreseasonAppearance, official, availability
<1>5. new.resolution.gw = 1 /\ Selects(scenarios, 1, new.asOf, use)
  BY <1>1, <1>3, <1>4
<1>6. QED
  BY <1>2, <1>3, <1>4, <1>5, RunKeepsFlags

LEMMA InseasonKeepsFlags ==
  ASSUME FlagsInv, CapturedInOrder', NEW r \in resolutions, MaterializeInseasonAppearance(r)
  PROVE  FlagsInv'
<1>0. PICK history \in [1 .. r.gw - 1 -> lives], use \in Uses(scenarios) :
      \E asOf \in EvidenceTime(r, history) :
        /\ \A g \in 1 .. r.gw - 1 : history[g] \in Newest(Admissible(g, Deadline(r)))
        /\ asOf <= Deadline(r)
        /\ Selects(scenarios, r.gw, asOf, use)
        /\ LET basis == [q \in Players |-> Basis(r, history, use, q)] IN
             appearances' = appearances \cup
               {[resolution |-> r, history |-> history, asOf |-> asOf, use |-> use,
                 basis |-> basis,
                 gaps |-> \E q \in Players : Present(r.source, q) /\ basis[q] = "missing"]}
  BY DEF MaterializeInseasonAppearance
<1>1. PICK asOf \in EvidenceTime(r, history) :
        /\ Selects(scenarios, r.gw, asOf, use)
        /\ LET basis == [q \in Players |-> Basis(r, history, use, q)] IN
             appearances' = appearances \cup
               {[resolution |-> r, history |-> history, asOf |-> asOf, use |-> use,
                 basis |-> basis,
                 gaps |-> \E q \in Players : Present(r.source, q) /\ basis[q] = "missing"]}
  BY <1>0
<1> DEFINE basis == [q \in Players |-> Basis(r, history, use, q)]
           gaps == \E q \in Players : Present(r.source, q) /\ basis[q] = "missing"
           new == [resolution |-> r, history |-> history, asOf |-> asOf, use |-> use,
                   basis |-> basis, gaps |-> gaps]
<1>2. appearances' = appearances \cup {new}
  BY <1>1
<1>3. new.resolution = r /\ new.asOf = asOf /\ new.use = use
  OBVIOUS
<1> HIDE DEF new
<1>4. UNCHANGED <<snapshots, resolutions, overrides, promised, scenarios, owed>>
  BY DEF MaterializeInseasonAppearance, official, availability
<1>5. new.resolution.gw = r.gw /\ Selects(scenarios, r.gw, new.asOf, use)
  BY <1>1, <1>3
<1>6. QED
  BY <1>2, <1>3, <1>4, <1>5, RunKeepsFlags

LEMMA FlagsStay == FlagsInv /\ [EvidenceNext]_evidenceVars => FlagsInv'
<1> SUFFICES ASSUME FlagsInv, [EvidenceNext]_evidenceVars
             PROVE  FlagsInv'
  OBVIOUS
<1>1. CapturedInOrder'
  BY OrderStays DEF FlagsInv
<1>2. ASSUME snapshots \subseteq snapshots',
             UNCHANGED <<overrides, promised, resolutions, scenarios, owed, appearances>>
      PROVE  FlagsInv'
  BY <1>1, <1>2 DEF FlagsInv, RowsStored, PromisesKept, DebtsKept, Causal, AsOf, Honours
<1>3. ASSUME NEW o \in OverrideAsks, NEW s \in Known(o.player, o.gw), StoreReviewedOverride(o, s)
      PROVE  FlagsInv'
  BY <1>1, <1>3, OverrideKeepsFlags
<1>4. ASSUME NEW g \in GWs, NEW s \in Selectable(g), MaterializeAvailability(s, g)
      PROVE  FlagsInv'
  BY <1>1, <1>4, AvailabilityKeepsFlags
<1>5. ASSUME NEW o \in ScenarioAsks, NEW r \in resolutions, r.gw = o.gw,
             StoreAppearanceScenario(o, r)
      PROVE  FlagsInv'
  BY <1>1, <1>5, ScenarioKeepsFlags
<1>6. ASSUME NEW r \in resolutions,
             MaterializePreseasonAppearance(r) \/ MaterializeInseasonAppearance(r)
      PROVE  FlagsInv'
  BY <1>1, <1>6, PreseasonKeepsFlags, InseasonKeepsFlags
<1>7. QED
  BY <1>2, <1>3, <1>4, <1>5, <1>6
  DEF EvidenceNext, evidenceVars, official, availability, appearance, context, TimePasses, PersistFplSnapshot,
      PersistFplEventLive, StoreEventPenaltyReview, ImportAppearanceHistory,
      StoreContextAnnotation, MaterializeContext

\* A resolution of the newest snapshot is not older than the one the promise was made on.
LEMMA FlagsHold == FlagsInv => RefreshFlagsHonest
<1> SUFFICES ASSUME FlagsInv
             PROVE  RefreshFlagsHonest
  OBVIOUS
<1>1. ASSUME NEW o \in promised, NEW s \in Selectable(o.gw), NEW r \in resolutions,
             r.gw = o.gw, r.source = s, NEW t \in overrides, t.ask = o, AsOf(r) <= t.until
      PROVE  Honours(r.use, o)
  <2>1. PICK u \in snapshots : Causal(u, o.gw) /\ o.observed <= u.at
    BY DEF FlagsInv, PromisesKept
  <2>2. s \in snapshots /\ u.at <= s.at
    BY <2>1 DEF Selectable, Newest
  <2>3. o.observed \in Nat /\ u.at \in Nat /\ s.at \in Nat
    BY <2>2, EvidenceAssumption DEF FlagsInv, RowsStored, CapturedInOrder
  <2>4. o.observed <= AsOf(r)
    BY <1>1, <2>1, <2>2, <2>3 DEF AsOf
  <2>5. QED
    BY <1>1, <2>4 DEF FlagsInv, PromisesKept
<1>2. QED
  BY <1>1 DEF FlagsInv, DebtsKept, RefreshFlagsHonest

\* When store_reviewed_override or store_appearance_scenario_override answers that nothing
\* needs refreshing, nothing does: every run that is there, or comes, rests on what the
\* reviewer wrote or on something newer, until it runs out.
THEOREM RefreshFlagsStayHonest == EvidenceSpec => []RefreshFlagsHonest
<1>1. QED
  BY FlagsStart, FlagsStay, FlagsHold, PTL DEF EvidenceSpec

=============================================================================

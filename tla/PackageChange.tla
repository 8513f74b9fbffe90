--------------------------- MODULE PackageChange ---------------------------
(***************************************************************************)
(* Installing, replacing and removing one plugin package                   *)
(* (plugins/lifecycle/install.go, install_transaction.go, install_tasks.go *)
(* and uninstall.go), with the process of the plugin, the rows of the      *)
(* database, the catalog and the task record that reports the outcome.     *)
(* Every call that touches the disk, the database, the catalog or the      *)
(* process is a step of its own, that may fail, and between any two of     *)
(* them the server may crash.  A task may be cancelled at any time.        *)
(*                                                                         *)
(* A package is the number of the operation that brought it, 0 the one     *)
(* installed at first; Torn is a directory whose removal stopped half way. *)
(* The operation gate lets one operation on the plugin run at a time; the  *)
(* number of operations is bounded by MaxOperations.  Template and webhook *)
(* registrations are left out; they follow the catalog.                    *)
(***************************************************************************)
EXTENDS Naturals, FiniteSets

CONSTANTS
  MaxOperations,  \* bound: operations in a behaviour
  None, Torn

\* None and Torn are no package, and None is no state of a failure.
PackageAssumption ==
  /\ MaxOperations \in Nat
  /\ None \notin Nat /\ Torn \notin Nat /\ None # Torn
  /\ None \notin {"unchanged", "rolled_back", "rollback_failed", "committed", "partial"}

VARIABLES
  pc,         \* where the operation is
  op,         \* the operation under way, [kind, replace, development]
  number,     \* how many operations were accepted
  target,     \* what is at finalTarget
  previous,   \* what is at previousTarget, in the working root
  retained,   \* packages in working roots that earlier operations left
  row,        \* the row of package metadata
  desired,    \* the row of the desired state
  catalog,    \* the package the catalog shows
  process,    \* the package a process of the plugin runs
  known,      \* what the transaction remembers: exists, replacing, row
  cancelled,  \* the context of the job is cancelled
  failure,    \* operationError: state, number of failures, kinds of causes
  status,     \* the status of the task
  canceller,  \* the status a caller of Cancel has read, or None
  before      \* history: disk, rows and process when the operation began, until
              \* the change is final

task == <<cancelled, failure, status, canceller>>
stored == <<target, previous, retained, row, desired, catalog>>
vars == <<pc, op, number, stored, process, known, task, before>>

Versions == 0..MaxOperations
Kinds == [kind : {"install"}, replace : BOOLEAN, development : BOOLEAN]
           \cup [kind : {"uninstall"}, replace : {FALSE}, development : {FALSE}]
NoFailure == [state |-> None, count |-> 0, causes |-> {}]
Nothing == [target |-> None, row |-> None, desired |-> None, catalog |-> None,
            process |-> None]

\* A plugin that is installed, with or without a metadata row, or none at all.
Init ==
  /\ pc = "idle"
  /\ op \in {k \in Kinds : k.kind = "uninstall"}
  /\ number = 0
  /\ target \in {None, 0}
  /\ row \in {None, target}
  /\ desired \in IF target = None THEN {None} ELSE {"enabled", "disabled"}
  /\ catalog = target
  /\ process = IF desired = "enabled" THEN target ELSE None
  /\ previous = None /\ retained = {}
  /\ known = [exists |-> FALSE, replacing |-> FALSE, row |-> None]
  /\ cancelled = FALSE
  /\ failure = NoFailure
  /\ status = "none"
  /\ canceller = None
  /\ before = Nothing

---------------------------------------------------------------------------
(* The parts of a step. *)

At(from, to) == pc = from /\ pc' = to

\* operationError.add, and the state the failure leaves it in.
Failed(state, cause) ==
  failure' = [state |-> state, count |-> failure.count + 1,
              causes |-> failure.causes \cup {cause}]

\* What a call that takes the context of the job fails with.
Causes == IF cancelled THEN {"cancel"} ELSE {"error"}

\* StopAndResetPluginWithContext returns an error when the process would not
\* stop, and also when only the queue of the plugin was not drained in time or
\* the context ended meanwhile; the process is stopped then.
Stopped == process' = None
StopFails == process' \in {process, None}

\* reconcileInstalled starts a plugin that the catalog has and that is wanted
\* (the catalog's desired state is taken to be the row's),
\* from the package at its place; a failed start is stopped again, which may
\* fail too.
Wanted == desired = "enabled" /\ catalog # None
Reconciled ==
  /\ Wanted => target \in Versions
  /\ process' = IF Wanted THEN target ELSE process
ReconcileFails ==
  process' \in {process} \cup (IF Wanted THEN {target} \cap Versions ELSE {})

---------------------------------------------------------------------------
(* The task. *)

\* Accept queues the operation; the working root holds the candidate.
Accept ==
  /\ At("idle", "queued") /\ number < MaxOperations
  /\ op' \in Kinds
  /\ number' = number + 1
  /\ retained' = retained \cup ({previous} \cap Versions)
  /\ previous' = None
  /\ cancelled' = FALSE /\ failure' = NoFailure /\ status' = "pending"
  /\ canceller = None
  /\ UNCHANGED <<target, row, desired, catalog, process, known, canceller, before>>

\* Cancel of an installation reads the status first ...
CancelReads ==
  /\ pc # "down" /\ op.kind = "install" /\ canceller = None
  /\ status \in {"pending", "running"} /\ ~cancelled
  /\ canceller' = status
  /\ UNCHANGED <<pc, op, number, stored, process, known, cancelled, failure, status,
                 before>>

\* ... then finds the cancel function, which a job that ended has dropped ...
CancelSignals ==
  /\ canceller \in {"pending", "running"}
  /\ \/ /\ pc \in {"idle", "down"}
        /\ canceller' = None /\ UNCHANGED cancelled
     \/ /\ pc \notin {"idle", "down"}
        /\ cancelled' = TRUE
        /\ canceller' = IF canceller = "pending" THEN "signalled" ELSE None
  /\ UNCHANGED <<pc, op, number, stored, process, known, failure, status, before>>

\* ... and marks a task that was pending as cancelled.
CancelMarks ==
  /\ canceller = "signalled"
  /\ status' = "cancelled"
  /\ canceller' = None
  /\ UNCHANGED <<pc, op, number, stored, process, known, cancelled, failure, before>>

\* The service closes: the context of every job ends.
ServiceCloses ==
  /\ pc \notin {"idle", "down"} /\ ~cancelled
  /\ cancelled' = TRUE
  /\ UNCHANGED <<pc, op, number, stored, process, known, failure, status, canceller,
                 before>>

\* The worker looks at the status and then sets it: a cancellation that comes
\* in between is overwritten, and one that came before ends the task.
Begin ==
  /\ \/ op.kind = "install" /\ status = "cancelled" /\ At("queued", "idle")
     \/ op.kind = "install" /\ status # "cancelled" /\ At("queued", "begun")
     \/ op.kind = "uninstall" /\ At("queued", "begun")
  /\ UNCHANGED <<op, number, stored, process, known, task, before>>

MarkRunning ==
  /\ \/ op.kind = "install" /\ At("begun", "validate")
     \/ op.kind = "uninstall" /\ At("begun", "stop to remove")
  /\ status' = "running"
  /\ before' = [target |-> target, row |-> row, desired |-> desired,
                catalog |-> catalog, process |-> process]
  /\ UNCHANGED <<op, number, stored, process, known, cancelled, failure, canceller>>

---------------------------------------------------------------------------
(* An installation. *)

\* Errors before the first change carry no operation state.
Rejected ==
  /\ pc' = "clean up"
  /\ failure' = [NoFailure EXCEPT !.causes = Causes]
  /\ UNCHANGED known

Validate ==
  /\ pc = "validate"
  /\ \/ ~cancelled /\ (target # None \/ catalog # None => op.replace)
        /\ pc' = "stop"
        /\ known' = [exists |-> catalog # None, replacing |-> target # None,
                     row |-> IF target # None THEN row ELSE None]
        /\ UNCHANGED failure
     \/ Rejected
  /\ UNCHANGED <<op, number, stored, process, cancelled, status, canceller, before>>

SkipStop ==
  /\ ~known.replacing /\ At("stop", "install")
  /\ UNCHANGED <<op, number, stored, process, known, task, before>>

StopPrevious ==
  /\ known.replacing
  /\ \/ At("stop", "back up") /\ Stopped /\ UNCHANGED failure
     \/ \E cause \in Causes : At("stop", "clean up") /\ StopFails /\ Failed("unchanged", cause)
  /\ UNCHANGED <<op, number, stored, known, cancelled, status, canceller, before>>

BackUp ==
  /\ \/ /\ ~cancelled /\ At("back up", "install")
        /\ previous' = target /\ target' = None
        /\ UNCHANGED failure
     \/ /\ \E cause \in Causes : At("back up", "resume") /\ Failed("rolled_back", cause)
        /\ UNCHANGED <<target, previous>>
  /\ UNCHANGED <<op, number, retained, row, desired, catalog, process, known,
                 cancelled, status, canceller, before>>

InstallFiles ==
  /\ \/ /\ ~cancelled /\ At("install", "metadata")
        /\ target' = number
        /\ UNCHANGED failure
     \/ \E cause \in Causes :
          /\ IF known.replacing
             THEN At("install", "move back") /\ Failed("rolled_back", cause)
             ELSE At("install", "clean up") /\ Failed("unchanged", cause)
          /\ UNCHANGED target
  /\ UNCHANGED <<op, number, previous, retained, row, desired, catalog, process, known,
                 cancelled, status, canceller, before>>

\* activationFailure: the old package goes back to its place and is resumed.
MoveBack ==
  /\ \/ /\ At("move back", "resume")
        /\ target' = previous /\ previous' = None
        /\ UNCHANGED failure
     \/ /\ At("move back", "clean up") /\ Failed("rollback_failed", "error")
        /\ UNCHANGED <<target, previous>>
  /\ UNCHANGED <<op, number, retained, row, desired, catalog, process, known,
                 cancelled, status, canceller, before>>

\* rollback ends like activationFailure does: a second failure makes the state
\* rollback_failed.
Resume ==
  /\ \/ At("resume", "clean up") /\ Reconciled
        /\ failure' = [failure EXCEPT
             !.state = IF failure.count > 1 THEN "rollback_failed" ELSE @]
     \/ At("resume", "clean up") /\ ReconcileFails /\ Failed("rollback_failed", "error")
  /\ UNCHANGED <<op, number, stored, known, cancelled, status, canceller, before>>

\* A failure from here on leads to rollback.
Finalizes(from, to) ==
  \/ ~cancelled /\ At(from, to) /\ UNCHANGED failure
  \/ \E cause \in Causes : At(from, "roll back") /\ Failed("rolled_back", cause)

SaveMetadata ==
  /\ Finalizes("metadata", "desired state")
  /\ row' = IF pc' = "roll back" THEN row ELSE number
  /\ UNCHANGED <<op, number, target, previous, retained, desired, catalog, process, known,
                 cancelled, status, canceller, before>>

SaveDesired ==
  /\ IF ~known.exists /\ op.development
     THEN /\ Finalizes("desired state", "catalog")
          /\ desired' = IF pc' = "roll back" THEN desired ELSE "enabled"
     ELSE At("desired state", "catalog") /\ UNCHANGED <<failure, desired>>
  /\ UNCHANGED <<op, number, target, previous, retained, row, catalog, process, known,
                 cancelled, status, canceller, before>>

RefreshCatalog ==
  /\ Finalizes("catalog", "finalize")
  /\ catalog' = IF pc' = "roll back" THEN catalog ELSE target
  /\ UNCHANGED <<op, number, target, previous, retained, row, desired, process, known,
                 cancelled, status, canceller, before>>

Finalize ==
  /\ \/ At("finalize", "clean up") /\ (Wanted => ~cancelled)
        /\ Reconciled /\ before' = Nothing /\ UNCHANGED failure
     \/ \E cause \in Causes :
          /\ At("finalize", "roll back") /\ ReconcileFails /\ Failed("rolled_back", cause)
          /\ UNCHANGED before
  /\ UNCHANGED <<op, number, stored, known, cancelled, status, canceller>>

---------------------------------------------------------------------------
(* rollback: with a context of its own, that ends only by its timeout. *)

RollbackStop ==
  /\ \/ At("roll back", "undo desired state") /\ Stopped /\ UNCHANGED failure
     \/ At("roll back", "clean up") /\ StopFails /\ Failed("rollback_failed", "error")
  /\ UNCHANGED <<op, number, stored, known, cancelled, status, canceller, before>>

\* The steps of the rollback are all taken, whichever of them fail.
Undone(from, to) ==
  At(from, to) /\ (UNCHANGED failure \/ Failed("rolled_back", "error"))

UndoDesired ==
  /\ IF ~known.exists /\ op.development
     THEN /\ Undone("undo desired state", "remove candidate")
          /\ desired' = IF failure' = failure THEN None ELSE desired
     ELSE At("undo desired state", "remove candidate") /\ UNCHANGED <<failure, desired>>
  /\ UNCHANGED <<op, number, target, previous, retained, row, catalog, process, known,
                 cancelled, status, canceller, before>>

RemoveCandidate ==
  /\ \/ /\ At("remove candidate",
              IF known.replacing THEN "restore files" ELSE "undo metadata")
        /\ target' = None /\ UNCHANGED failure
     \/ /\ At("remove candidate", "undo metadata") /\ Failed("rolled_back", "error")
        /\ target' \in {target, Torn}
  /\ UNCHANGED <<op, number, previous, retained, row, desired, catalog, process, known,
                 cancelled, status, canceller, before>>

RestoreFiles ==
  /\ Undone("restore files", "undo metadata")
  /\ IF failure' = failure THEN target' = previous /\ previous' = None
     ELSE UNCHANGED <<target, previous>>
  /\ UNCHANGED <<op, number, retained, row, desired, catalog, process, known,
                 cancelled, status, canceller, before>>

\* Mutant: the row from before is dropped instead of restored.
UndoMetadataMutant ==
  /\ Undone("undo metadata", "undo catalog")
  /\ row' = IF failure' = failure THEN None ELSE row
  /\ UNCHANGED <<op, number, target, previous, retained, desired, catalog, process, known,
                 cancelled, status, canceller, before>>

UndoMetadata ==
  /\ Undone("undo metadata", "undo catalog")
  /\ row' = IF failure' = failure THEN known.row ELSE row
  /\ UNCHANGED <<op, number, target, previous, retained, desired, catalog, process, known,
                 cancelled, status, canceller, before>>

\* What restoreFiles answered shows in the places of the packages.
FilesRestored ==
  IF known.replacing THEN previous = None ELSE target = None

\* The previous package is resumed only from restored files and a fresh
\* catalog.
UndoCatalog ==
  /\ \/ /\ UNCHANGED failure /\ catalog' = target
        /\ IF FilesRestored THEN At("undo catalog", "resume")
           ELSE At("undo catalog", "give up")
     \/ /\ Failed("rolled_back", "error") /\ UNCHANGED catalog
        /\ At("undo catalog", "give up")
  /\ UNCHANGED <<op, number, target, previous, retained, row, desired, process, known,
                 cancelled, status, canceller, before>>

GiveUp ==
  /\ At("give up", "clean up")
  /\ failure' = [failure EXCEPT !.state = "rollback_failed"]
  /\ UNCHANGED <<op, number, stored, process, known, cancelled, status, canceller, before>>

---------------------------------------------------------------------------
(* The end of an installation. *)

\* After a failed rollback the working root may hold the only good package.
RemoveWorkingRoot ==
  /\ At("clean up", "report")
  /\ \/ /\ failure.state = "rollback_failed"
        /\ UNCHANGED <<previous, failure>>
     \/ /\ failure.state # "rollback_failed"
        /\ previous' = None /\ UNCHANGED failure
     \/ /\ failure.state # "rollback_failed"
        /\ previous' \in {previous, None}
        /\ failure' =
             [state  |-> IF failure.state # None THEN failure.state
                         ELSE IF failure.causes = {} THEN "committed" ELSE "unchanged",
              count  |-> 1 + IF failure.state # None THEN failure.count
                             ELSE Cardinality(failure.causes),
              causes |-> failure.causes \cup {"error"}]
  /\ UNCHANGED <<op, number, target, retained, row, desired, catalog, process, known,
                 cancelled, status, canceller, before>>

TaskMustFail ==
  \/ failure.state \in {"rollback_failed", "committed"}
  \/ failure.count > 1
  \/ "cancel" \notin failure.causes

InstallStatus ==
  IF failure.causes = {} THEN "succeeded"
  ELSE IF "cancel" \in failure.causes /\ ~(failure.state # None /\ TaskMustFail)
       THEN "cancelled" ELSE "failed"

CancellationOnly ==
  failure.causes = {"cancel"} /\ failure.state \in {"unchanged", "rolled_back"}

UninstallStatus ==
  CASE failure.causes = {} -> "succeeded"
    [] CancellationOnly -> "cancelled"
    [] OTHER -> "failed"

Report ==
  /\ At("report", "idle")
  /\ status' = IF op.kind = "install" THEN InstallStatus ELSE UninstallStatus
  /\ UNCHANGED <<op, number, stored, process, known, cancelled, failure, canceller, before>>

---------------------------------------------------------------------------
(* A removal. *)

StopRemoved ==
  /\ \/ At("stop to remove", "remove") /\ ~cancelled /\ Stopped /\ UNCHANGED failure
     \/ \E cause \in Causes :
          At("stop to remove", "report") /\ StopFails /\ Failed("unchanged", cause)
  /\ UNCHANGED <<op, number, stored, known, cancelled, status, canceller, before>>

RemoveFiles ==
  /\ \/ /\ At("remove", "drop desired state")
        /\ target' = None /\ before' = Nothing
        /\ failure' = [failure EXCEPT !.state = "committed"]
     \/ /\ target # None /\ At("remove", "report")
        /\ target' = Torn /\ before' = Nothing
        /\ Failed("partial", "error")
     \/ /\ At("remove", "report")
        /\ Failed("unchanged", "error")
        /\ UNCHANGED <<target, before>>
  /\ UNCHANGED <<op, number, previous, retained, row, desired, catalog, process, known,
                 cancelled, status, canceller>>

\* The rest of the removal is done whichever part of it fails.
Dropped(from, to) ==
  At(from, to) /\ (UNCHANGED failure \/ Failed("committed", "error"))

DropDesired ==
  /\ Dropped("drop desired state", "drop metadata")
  /\ desired' = IF failure' = failure THEN None ELSE desired
  /\ UNCHANGED <<op, number, target, previous, retained, row, catalog, process, known,
                 cancelled, status, canceller, before>>

DropMetadata ==
  /\ Dropped("drop metadata", "drop catalog")
  /\ row' = IF failure' = failure THEN None ELSE row
  /\ UNCHANGED <<op, number, target, previous, retained, desired, catalog, process, known,
                 cancelled, status, canceller, before>>

DropCatalog ==
  /\ Dropped("drop catalog", "drop rest")
  /\ catalog' = IF failure' = failure THEN target ELSE catalog
  /\ UNCHANGED <<op, number, target, previous, retained, row, desired, process, known,
                 cancelled, status, canceller, before>>

DropRest ==
  /\ Dropped("drop rest", "report")
  /\ UNCHANGED <<op, number, stored, process, known, cancelled, status, canceller, before>>

---------------------------------------------------------------------------
(* The server crashes and comes back. *)

Crash ==
  /\ pc \notin {"idle", "down"}
  /\ pc' = "down"
  /\ process' = None
  /\ cancelled' = FALSE /\ canceller' = None /\ failure' = NoFailure
  /\ UNCHANGED <<op, number, stored, known, status, before>>

\* Discovery shows what is on the disk; wanted plugins are started, which may
\* fail; an unfinished task becomes interrupted.
Restart ==
  /\ At("down", "idle")
  /\ catalog' = target
  /\ process' \in {None} \cup (IF desired = "enabled" THEN {target} \cap Versions ELSE {})
  /\ status' = IF status \in {"pending", "running"} THEN "interrupted" ELSE status
  /\ UNCHANGED <<op, number, target, previous, retained, row, desired, known, cancelled,
                 failure, canceller, before>>

---------------------------------------------------------------------------
Operation ==
  \/ Begin \/ MarkRunning
  \/ Validate \/ SkipStop \/ StopPrevious \/ BackUp \/ InstallFiles \/ MoveBack
  \/ SaveMetadata \/ SaveDesired \/ RefreshCatalog \/ Finalize
  \/ RollbackStop \/ UndoDesired \/ RemoveCandidate \/ RestoreFiles
  \/ UndoMetadata \/ UndoCatalog \/ GiveUp \/ Resume
  \/ RemoveWorkingRoot \/ Report
  \/ StopRemoved \/ RemoveFiles \/ DropDesired \/ DropMetadata \/ DropCatalog
  \/ DropRest

Next ==
  \/ Accept \/ CancelReads \/ CancelSignals \/ CancelMarks \/ ServiceCloses
  \/ Operation
  \/ Crash \/ Restart

Spec == Init /\ [][Next]_vars

---------------------------------------------------------------------------
(* Properties. *)

\* Until a replacement is final, the package it replaces is on the disk: in its
\* place, or in a working root; whichever step fails, in the rollback too, and
\* wherever the server crashes (install_transaction.go, install_tasks.go:84-87).
LastGoodKept ==
  before.target \in Versions => before.target \in {target, previous} \cup retained

\* A process runs only from the package at its place: no directory is moved or
\* removed under a running plugin, and no candidate outlives its files
\* (activateFiles, rollback, runUninstall).
ProcessHasFiles == process # None => process = target

Same == /\ target = before.target /\ catalog = before.catalog
        /\ row = before.row /\ desired = before.desired

\* The state a task reports is the state of the system: unchanged and
\* rolled_back mean that files, rows and catalog are those from before, and
\* rolled_back that a wanted plugin runs again; an installation that ends
\* without a failure of its own shows the new package everywhere
\* (contracts/error-codes.yaml:442-449).  An operation that begins where an
\* earlier one left catalog and disk apart brings them together.
OutcomeTrue ==
  pc = "report" =>
    /\ /\ failure.state \in {None, "unchanged", "rolled_back"} /\ failure.causes # {}
       /\ before.catalog = before.target
       => \/ Same
          \/ before.target = None /\ target = None /\ catalog = None
    /\ failure.state = "rolled_back" /\ before.catalog \in Versions /\ Wanted
         => process = target
    /\ op.kind = "install" /\ (failure.causes = {} \/ failure.state = "committed")
         => /\ target = number /\ row = number /\ catalog = number
            /\ desired = "enabled" => process = number
    /\ op.kind = "uninstall" /\ failure.causes = {}
         => target = None /\ row = None /\ desired = None /\ catalog = None

\* The three together.
PackageSound == LastGoodKept /\ ProcessHasFiles /\ OutcomeTrue

=============================================================================

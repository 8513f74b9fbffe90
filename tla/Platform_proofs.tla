---------- MODULE Platform_proofs ----------
(* Proofs about four components of the platform: packages, browsers, the renderer and the end of
   the server.  Each is proved about on its own, by the names its state has in Platform. *)
EXTENDS Platform, Sequences, FiniteSetTheorems, TLAPS

------------------------------------------------------------------------------
\* Installation and removal: the last good package survives every operation.

FailureStates == {None, "unchanged", "rolled_back", "rollback_failed", "committed", "partial"}
FailureTypes ==
  failure \in [state : FailureStates, count : Nat, causes : SUBSET {"cancel", "error"}]
PackageTypes ==
  /\ number \in Package!Versions
  /\ target \in Package!Versions \cup {None, Torn}
  /\ previous \in Package!Versions \cup {None, Torn}
  /\ op.kind \in {"install", "uninstall"}
  /\ FailureTypes

\* Where an installation is, where it goes back, and where a removal is.
Ahead == {"metadata", "desired state", "catalog", "finalize"}
BackAt == {"move back", "resume", "roll back", "undo desired state", "remove candidate",
           "restore files", "undo metadata", "undo catalog", "give up"}
InstallAt == {"validate", "stop", "back up", "install", "clean up"} \cup Ahead \cup BackAt
DropAt == {"drop desired state", "drop metadata", "drop catalog", "drop rest"}
RemoveAt == {"stop to remove", "remove"} \cup DropAt

\* Nothing has failed yet.
Flawless == failure.state = None /\ failure.count = 0 /\ failure.causes = {}

\* What every place of an operation goes with: its kind, what the transaction remembers, a
\* process that is stopped, and no failure yet.
Places ==
  /\ step \in InstallAt => op.kind = "install"
  /\ step \in RemoveAt => op.kind = "uninstall"
  /\ step \in InstallAt \ {"validate", "clean up"} =>
       /\ known.exists <=> before.catalog # None
       /\ known.replacing <=> before.target # None
       /\ known.row = IF before.target # None THEN before.row ELSE None
  /\ step \in ({"back up", "install", "remove"} \cup Ahead \cup BackAt \cup DropAt) \ {"roll back"} =>
       process = None
  /\ step \in {"queued", "begun", "validate", "stop", "back up", "install", "stop to remove",
             "remove"} \cup Ahead => Flawless
  /\ step \in {"queued", "begun", "validate", "stop", "back up"} => previous = None

\* Where the package from before is, and the candidate.
Disk ==
  /\ step \in {"validate", "stop", "back up", "stop to remove", "remove"} => Package!Same
  /\ step = "back up" => before.target # None
  /\ step \in {"install", "move back"} =>
       /\ target = None /\ previous = before.target
       /\ row = before.row /\ desired = before.desired /\ catalog = before.catalog
  /\ step = "move back" => before.target # None
  /\ step \in Ahead \cup {"roll back", "undo desired state", "remove candidate"} =>
       target = number /\ previous = before.target
  /\ step = "restore files" => target = None /\ previous = before.target /\ before.target # None
  /\ step \in {"undo metadata", "undo catalog"} =>
       \/ previous = before.target /\ (before.target # None \/ target # None)
       \/ previous = None /\ target = before.target
  /\ step \in {"desired state", "catalog", "finalize"} => row = number
  /\ step = "finalize" => catalog = number

\* A state from before, or nothing where nothing was.
Back ==
  before.catalog = before.target =>
    \/ Package!Same
    \/ before.target = None /\ target = None /\ catalog = None

\* The way back: as long as only one failure is counted, all that was tried was undone.
Undoing ==
  /\ step \in BackAt => failure.state = "rolled_back" /\ failure.count > 0 /\ failure.causes # {}
  /\ step = "move back" => failure.count = 1
  /\ step \in Ahead \cup {"roll back", "undo desired state"} /\ (known.exists \/ ~op.development) =>
       desired = before.desired
  /\ step \in {"remove candidate", "restore files", "undo metadata", "undo catalog"}
     /\ failure.count = 1 /\ known.exists => desired = before.desired
  /\ step = "undo catalog" /\ failure.count = 1 => row = known.row
  /\ step = "resume" => target = before.target /\ (failure.count = 1 => Back)

\* What the state of the failure says of an installation that ended.
Ended ==
  step \in {"clean up", "report"} /\ op.kind = "install" =>
    /\ failure.state = "rolled_back" =>
         /\ target = before.target /\ Back /\ failure.causes # {}
         /\ (Package!Wanted => process = target)
    /\ failure.state \in {None, "unchanged"} /\ failure.causes # {} => Package!Same
    /\ failure.causes = {} \/ failure.state = "committed" =>
         /\ target = number /\ row = number /\ catalog = number
         /\ (desired = "enabled" => process = number)
         /\ before = Package!Nothing
    /\ failure.causes = {} => failure.state = None
    /\ step = "clean up" => failure.state \notin {"committed", "partial"}

\* What has gone when a removal has come so far without a failure.
Removal ==
  /\ step \in DropAt => target = None /\ before = Package!Nothing /\ failure.state = "committed"
  /\ step \in DropAt \ {"drop desired state"} /\ failure.causes = {} => desired = None
  /\ step \in {"drop catalog", "drop rest"} /\ failure.causes = {} => row = None
  /\ step = "drop rest" /\ failure.causes = {} => catalog = None
  /\ step = "report" /\ op.kind = "uninstall" =>
       /\ failure.state \in {None, "unchanged"} => failure.causes # {} /\ Package!Same
       /\ failure.state # "rolled_back"
       /\ failure.causes = {} => target = None /\ row = None /\ desired = None /\ catalog = None

PackageInv ==
  /\ PackageTypes /\ Places /\ Disk /\ Undoing /\ Ended /\ Removal
  /\ Package!LastGoodKept /\ Package!ProcessHasFiles

\* The instance counts as FiniteSets does.
LEMMA PackageCardinality ==
  \A S : Package!Cardinality(S) = Cardinality(S)
  BY Zenon DEF Package!Cardinality, Cardinality

\* The invariant holds at the start.
LEMMA PackageInit ==
  ASSUME Package!PackageAssumption, Package!Init PROVE PackageInv
<1> USE DEF Package!PackageAssumption, Package!Init
<1>1. FailureTypes
  BY DEF FailureTypes, FailureStates, Package!NoFailure
<1>2. PackageTypes /\ Places
  BY <1>1
     DEF PackageTypes, Places, Flawless, Package!NoFailure, Ahead, BackAt, InstallAt, DropAt,
         RemoveAt, Package!Versions, Package!Kinds
<1>3. Disk /\ Undoing /\ Ended /\ Removal
  BY DEF Disk, Undoing, Ended, Removal, Ahead, BackAt, DropAt
<1>4. Package!LastGoodKept /\ Package!ProcessHasFiles
  BY DEF Package!LastGoodKept, Package!ProcessHasFiles, Package!Nothing, Package!Versions
<1> QED
  BY <1>2, <1>3, <1>4 DEF PackageInv

\* A failure is added.
Fails(state) ==
  /\ FailureTypes'
  /\ failure'.state = state /\ failure'.causes # {} /\ failure' # failure
  /\ failure'.count > 0 /\ (failure.count = 0 => failure'.count = 1)
  /\ failure.count > 0 => failure'.count # 1

\* A failure is written.
LEMMA FailureWritten ==
  ASSUME FailureTypes
  PROVE  /\ failure' = failure => FailureTypes'
         /\ failure.count \in Nat /\ failure.causes \in SUBSET {"cancel", "error"}
         /\ failure.state \in FailureStates
         /\ \A s \in FailureStates : failure' = [failure EXCEPT !.state = s] =>
              FailureTypes' /\ failure'.state = s /\ failure'.causes = failure.causes
         /\ \A s \in FailureStates, n \in Nat, C \in SUBSET {"cancel", "error"} :
              failure' = [state |-> s, count |-> n, causes |-> C] =>
                FailureTypes' /\ failure'.state = s /\ failure'.causes = C
         /\ \A C \in SUBSET {"cancel", "error"} :
              failure' = [Package!NoFailure EXCEPT !.causes = C] =>
                FailureTypes' /\ failure'.state = None /\ failure'.causes = C
         /\ failure' = Package!NoFailure =>
              FailureTypes' /\ failure'.state = None /\ failure'.count = 0 /\ failure'.causes = {}
<1>1. /\ failure' = failure => FailureTypes'
      /\ failure.count \in Nat /\ failure.causes \in SUBSET {"cancel", "error"}
      /\ failure.state \in FailureStates
  BY DEF FailureTypes
<1>2. \A s \in FailureStates : failure' = [failure EXCEPT !.state = s] =>
        FailureTypes' /\ failure'.state = s /\ failure'.causes = failure.causes
  BY DEF FailureTypes
<1>3. \A s \in FailureStates, n \in Nat, C \in SUBSET {"cancel", "error"} :
        failure' = [state |-> s, count |-> n, causes |-> C] =>
          FailureTypes' /\ failure'.state = s /\ failure'.causes = C
  BY DEF FailureTypes
<1>4. None \in FailureStates
  BY DEF FailureStates
<1>5. \A C \in SUBSET {"cancel", "error"} :
        failure' = [Package!NoFailure EXCEPT !.causes = C] =>
          failure' = [state |-> None, count |-> 0, causes |-> C]
  BY DEF Package!NoFailure
<1>6. failure' = Package!NoFailure =>
        FailureTypes' /\ failure'.state = None /\ failure'.count = 0 /\ failure'.causes = {}
  BY <1>4 DEF FailureTypes, Package!NoFailure
<1> QED
  BY <1>1, <1>2, <1>3, <1>4, <1>5, <1>6

\* What a step that fails leaves of the failure.
LEMMA FailedEffect ==
  ASSUME FailureTypes, NEW s \in FailureStates, NEW c \in {"cancel", "error"},
         Package!Failed(s, c)
  PROVE  Fails(s)
<1>1. /\ failure.count + 1 \in Nat
      /\ failure.causes \cup {c} \in SUBSET {"cancel", "error"} /\ failure.causes \cup {c} # {}
  BY DEF FailureTypes
<1>2. failure' = [state |-> s, count |-> failure.count + 1, causes |-> failure.causes \cup {c}]
  BY DEF Package!Failed
<1>3. FailureTypes'
  BY <1>1, <1>2, Zenon DEF FailureTypes
<1>4. /\ failure'.state = s /\ failure'.count = failure.count + 1
      /\ failure'.causes = failure.causes \cup {c}
  BY <1>2
<1>5. failure.count \in Nat
  BY DEF FailureTypes
<1>6. /\ failure' # failure
      /\ failure'.count > 0 /\ (failure.count = 0 => failure'.count = 1)
      /\ failure.count > 0 => failure'.count # 1
  BY <1>4, <1>5
<1> QED
  BY <1>1, <1>3, <1>4, <1>6 DEF Fails

\* Every step keeps the invariant.
LEMMA PackageStep ==
  ASSUME Package!PackageAssumption, PackageInv, [Package!Next]_Package!vars
  PROVE  PackageInv'
<1>a. /\ PackageTypes /\ FailureTypes /\ Places /\ Disk /\ Undoing /\ Ended /\ Removal
      /\ Package!LastGoodKept /\ Package!ProcessHasFiles
  BY DEF PackageInv, PackageTypes
<1>b. \A s \in FailureStates, c \in {"cancel", "error"} : Package!Failed(s, c) => Fails(s)
  BY <1>a, FailedEffect
<1>c. Package!Causes \in SUBSET {"cancel", "error"} /\ Package!Causes # {}
  BY DEF Package!Causes
<1>d. \A s \in FailureStates, c \in Package!Causes : Package!Failed(s, c) => Fails(s)
  BY <1>b, <1>c
<1>e. /\ None \notin Package!Versions /\ Torn \notin Package!Versions /\ None # Torn
      /\ None \notin {"unchanged", "rolled_back", "rollback_failed", "committed", "partial"}
      /\ number \in Package!Versions /\ failure.count \in Nat
  BY <1>a DEF Package!PackageAssumption, Package!Versions, PackageTypes, FailureTypes
<1>f. /\ failure' = failure => FailureTypes'
      /\ failure.count \in Nat /\ failure.causes \in SUBSET {"cancel", "error"}
      /\ failure.state \in FailureStates
  BY <1>a, FailureWritten
<1>g. \A s \in FailureStates : failure' = [failure EXCEPT !.state = s] =>
        FailureTypes' /\ failure'.state = s /\ failure'.causes = failure.causes
  BY <1>a, FailureWritten
<1>h. \A s \in FailureStates, n \in Nat, C \in SUBSET {"cancel", "error"} :
        failure' = [state |-> s, count |-> n, causes |-> C] =>
          FailureTypes' /\ failure'.state = s /\ failure'.causes = C
  BY <1>a, FailureWritten
<1>i. \A C \in SUBSET {"cancel", "error"} :
        failure' = [Package!NoFailure EXCEPT !.causes = C] =>
          FailureTypes' /\ failure'.state = None /\ failure'.causes = C
  BY <1>a, FailureWritten
<1>j. failure' = Package!NoFailure =>
        FailureTypes' /\ failure'.state = None /\ failure'.count = 0 /\ failure'.causes = {}
  BY <1>a, FailureWritten
<1>k. /\ before = Package!Nothing => before.target = None
      /\ before' = Package!Nothing => before'.target = None
  BY DEF Package!Nothing
<1> USE <1>a, <1>e, <1>f, <1>k
       DEF Fails, FailureStates, Places, Disk, Undoing, Ended, Removal, Flawless, Ahead, BackAt,
           InstallAt, DropAt, RemoveAt, Back, Package!Same, Package!Wanted, Package!Nothing
<1> USE DEF Package!At, Package!stored, Package!task
<1>1. CASE Package!Accept
  <2>1. /\ step = "idle" /\ step' = "queued"
        /\ op'.kind \in {"install", "uninstall"} /\ number' \in Package!Versions
        /\ retained' = retained \cup ({previous} \cap Package!Versions) /\ previous' = None
        /\ FailureTypes' /\ Flawless'
        /\ UNCHANGED <<target, row, desired, catalog, process, known, before>>
    <3>1. op'.kind \in {"install", "uninstall"}
      BY <1>1 DEF Package!Accept, Package!Kinds
    <3>2. number' \in Package!Versions
      BY <1>1, <1>e DEF Package!Accept, Package!PackageAssumption, Package!Versions
    <3>3. FailureTypes' /\ Flawless'
      BY <1>1, <1>j DEF Package!Accept, Flawless
    <3> QED
      BY <1>1, <3>1, <3>2, <3>3 DEF Package!Accept
  <2>2. PackageTypes'
    BY <2>1 DEF PackageTypes
  <2>3. Places'
    BY <2>1 DEF Package!ProcessHasFiles
  <2>4. Disk'
    BY <2>1 DEF Package!LastGoodKept
  <2>5. Undoing'
    BY <2>1
  <2>6. Ended'
    BY <2>1
  <2>7. Removal'
    BY <2>1
  <2>8. Package!LastGoodKept'
    BY <2>1 DEF Package!LastGoodKept
  <2>9. Package!ProcessHasFiles'
    BY <2>1 DEF Package!ProcessHasFiles
  <2> QED
    BY <2>2, <2>3, <2>4, <2>5, <2>6, <2>7, <2>8, <2>9 DEF PackageInv
<1>2. CASE Package!CancelReads
  <2>1. step' = step /\ UNCHANGED <<op, number, target, previous, retained, row, desired, catalog,
                                    process, known, failure, before>>
    BY <1>2, <1>a, <1>b, <1>c, <1>d, <1>e, <1>f, <1>g, <1>i, <1>j DEF Package!CancelReads
  <2>2. PackageTypes'
    BY <2>1 DEF PackageTypes
  <2>3. Places'
    BY <2>1 DEF Package!ProcessHasFiles
  <2>4. Disk'
    BY <2>1 DEF Package!LastGoodKept
  <2>5. Undoing'
    BY <2>1
  <2>6. Ended'
    BY <2>1
  <2>7. Removal'
    BY <2>1
  <2>8. Package!LastGoodKept'
    BY <2>1 DEF Package!LastGoodKept
  <2>9. Package!ProcessHasFiles'
    BY <2>1 DEF Package!ProcessHasFiles
  <2> QED
    BY <2>2, <2>3, <2>4, <2>5, <2>6, <2>7, <2>8, <2>9 DEF PackageInv
<1>3. CASE Package!CancelSignals
  <2>1. step' = step /\ UNCHANGED <<op, number, target, previous, retained, row, desired, catalog,
                                    process, known, failure, before>>
    BY <1>3, <1>a, <1>b, <1>c, <1>d, <1>e, <1>f, <1>g, <1>i, <1>j DEF Package!CancelSignals
  <2>2. PackageTypes'
    BY <2>1 DEF PackageTypes
  <2>3. Places'
    BY <2>1 DEF Package!ProcessHasFiles
  <2>4. Disk'
    BY <2>1 DEF Package!LastGoodKept
  <2>5. Undoing'
    BY <2>1
  <2>6. Ended'
    BY <2>1
  <2>7. Removal'
    BY <2>1
  <2>8. Package!LastGoodKept'
    BY <2>1 DEF Package!LastGoodKept
  <2>9. Package!ProcessHasFiles'
    BY <2>1 DEF Package!ProcessHasFiles
  <2> QED
    BY <2>2, <2>3, <2>4, <2>5, <2>6, <2>7, <2>8, <2>9 DEF PackageInv
<1>4. CASE Package!CancelMarks
  <2>1. step' = step /\ UNCHANGED <<op, number, target, previous, retained, row, desired, catalog,
                                    process, known, failure, before>>
    BY <1>4, <1>a, <1>b, <1>c, <1>d, <1>e, <1>f, <1>g, <1>i, <1>j DEF Package!CancelMarks
  <2>2. PackageTypes'
    BY <2>1 DEF PackageTypes
  <2>3. Places'
    BY <2>1 DEF Package!ProcessHasFiles
  <2>4. Disk'
    BY <2>1 DEF Package!LastGoodKept
  <2>5. Undoing'
    BY <2>1
  <2>6. Ended'
    BY <2>1
  <2>7. Removal'
    BY <2>1
  <2>8. Package!LastGoodKept'
    BY <2>1 DEF Package!LastGoodKept
  <2>9. Package!ProcessHasFiles'
    BY <2>1 DEF Package!ProcessHasFiles
  <2> QED
    BY <2>2, <2>3, <2>4, <2>5, <2>6, <2>7, <2>8, <2>9 DEF PackageInv
<1>5. CASE Package!ServiceCloses
  <2>1. step' = step /\ UNCHANGED <<op, number, target, previous, retained, row, desired, catalog,
                                    process, known, failure, before>>
    BY <1>5, <1>a, <1>b, <1>c, <1>d, <1>e, <1>f, <1>g, <1>i, <1>j DEF Package!ServiceCloses
  <2>2. PackageTypes'
    BY <2>1 DEF PackageTypes
  <2>3. Places'
    BY <2>1 DEF Package!ProcessHasFiles
  <2>4. Disk'
    BY <2>1 DEF Package!LastGoodKept
  <2>5. Undoing'
    BY <2>1
  <2>6. Ended'
    BY <2>1
  <2>7. Removal'
    BY <2>1
  <2>8. Package!LastGoodKept'
    BY <2>1 DEF Package!LastGoodKept
  <2>9. Package!ProcessHasFiles'
    BY <2>1 DEF Package!ProcessHasFiles
  <2> QED
    BY <2>2, <2>3, <2>4, <2>5, <2>6, <2>7, <2>8, <2>9 DEF PackageInv
<1>6. CASE Package!Begin
  <2>1. /\ step = "queued" /\ step' \in {"idle", "begun"}
        /\ UNCHANGED <<op, number, target, previous, retained, row, desired, catalog, process,
                       known, failure, before>>
    BY <1>6, <1>a, <1>b, <1>c, <1>d, <1>e, <1>f, <1>g, <1>i, <1>j DEF Package!Begin
  <2>2. PackageTypes'
    BY <2>1 DEF PackageTypes
  <2>3. Places'
    BY <2>1 DEF Package!ProcessHasFiles
  <2>4. Disk'
    BY <2>1 DEF Package!LastGoodKept
  <2>5. Undoing'
    BY <2>1
  <2>6. Ended'
    BY <2>1
  <2>7. Removal'
    BY <2>1
  <2>8. Package!LastGoodKept'
    BY <2>1 DEF Package!LastGoodKept
  <2>9. Package!ProcessHasFiles'
    BY <2>1 DEF Package!ProcessHasFiles
  <2> QED
    BY <2>2, <2>3, <2>4, <2>5, <2>6, <2>7, <2>8, <2>9 DEF PackageInv
<1>7. CASE Package!MarkRunning
  <2>1. /\ step = "begun"
        /\ \/ op.kind = "install" /\ step' = "validate"
           \/ op.kind = "uninstall" /\ step' = "stop to remove"
        /\ before'.target = target /\ before'.row = row /\ before'.desired = desired
        /\ before'.catalog = catalog
        /\ UNCHANGED <<op, number, target, previous, retained, row, desired, catalog, process,
                       known, failure>>
    BY <1>7, <1>a, <1>b, <1>c, <1>d, <1>e, <1>f, <1>g, <1>i, <1>j DEF Package!MarkRunning
  <2>2. PackageTypes'
    BY <2>1 DEF PackageTypes
  <2>3. Places'
    BY <2>1 DEF Package!ProcessHasFiles
  <2>4. Disk'
    BY <2>1 DEF Package!LastGoodKept
  <2>5. Undoing'
    BY <2>1
  <2>6. Ended'
    BY <2>1
  <2>7. Removal'
    BY <2>1
  <2>8. Package!LastGoodKept'
    BY <2>1 DEF Package!LastGoodKept
  <2>9. Package!ProcessHasFiles'
    BY <2>1 DEF Package!ProcessHasFiles
  <2> QED
    BY <2>2, <2>3, <2>4, <2>5, <2>6, <2>7, <2>8, <2>9 DEF PackageInv
<1>8. CASE Package!Validate
  <2>1. /\ step = "validate"
        /\ \/ /\ step' = "stop" /\ failure' = failure
              /\ (known'.exists <=> catalog # None) /\ (known'.replacing <=> target # None)
              /\ known'.row = IF target # None THEN row ELSE None
           \/ /\ step' = "clean up" /\ known' = known
              /\ FailureTypes' /\ failure'.state = None /\ failure'.causes # {}
        /\ UNCHANGED <<op, number, target, previous, retained, row, desired, catalog, process,
                       before>>
    <3>1. /\ step = "validate"
          /\ \/ /\ step' = "stop" /\ failure' = failure
                /\ known' = [exists |-> catalog # None, replacing |-> target # None,
                             row |-> IF target # None THEN row ELSE None]
             \/ step' = "clean up" /\ failure' = [Package!NoFailure EXCEPT !.causes = Package!Causes]
                /\ known' = known
          /\ UNCHANGED <<op, number, target, previous, retained, row, desired, catalog, process,
                         before>>
      BY <1>8 DEF Package!Validate, Package!Rejected
    <3>2. failure' = [Package!NoFailure EXCEPT !.causes = Package!Causes] =>
            FailureTypes' /\ failure'.state = None /\ failure'.causes # {}
      BY <1>c, <1>i
    <3>3. known' = [exists |-> catalog # None, replacing |-> target # None,
                    row |-> IF target # None THEN row ELSE None] =>
            /\ (known'.exists <=> catalog # None) /\ (known'.replacing <=> target # None)
            /\ known'.row = IF target # None THEN row ELSE None
      <4> SUFFICES ASSUME known' = [exists |-> catalog # None, replacing |-> target # None,
                                    row |-> IF target # None THEN row ELSE None]
                   PROVE  /\ (known'.exists <=> catalog # None) /\ (known'.replacing <=> target # None)
                          /\ known'.row = IF target # None THEN row ELSE None
        OBVIOUS
      <4>1. known'.exists = (catalog # None)
        BY Zenon
      <4>2. known'.replacing = (target # None)
        BY Zenon
      <4>3. known'.row = IF target # None THEN row ELSE None
        BY Zenon
      <4> QED
        BY <4>1, <4>2, <4>3, Zenon
    <3> QED
      BY <3>1, <3>2, <3>3
  <2>2. PackageTypes'
    BY <2>1 DEF PackageTypes
  <2>3. Places'
    BY <2>1 DEF Package!ProcessHasFiles
  <2>4. Disk'
    BY <2>1 DEF Package!LastGoodKept
  <2>5. Undoing'
    BY <2>1
  <2>6. Ended'
    BY <2>1
  <2>7. Removal'
    BY <2>1
  <2>8. Package!LastGoodKept'
    BY <2>1 DEF Package!LastGoodKept
  <2>9. Package!ProcessHasFiles'
    BY <2>1 DEF Package!ProcessHasFiles
  <2> QED
    BY <2>2, <2>3, <2>4, <2>5, <2>6, <2>7, <2>8, <2>9 DEF PackageInv
<1>9. CASE Package!SkipStop
  <2>1. /\ step = "stop" /\ step' = "install" /\ before.target = None
        /\ UNCHANGED <<op, number, target, previous, retained, row, desired, catalog, process,
                       known, failure, before>>
    BY <1>9, <1>a, <1>b, <1>c, <1>d, <1>e, <1>f, <1>g, <1>i, <1>j
       DEF Package!SkipStop, Places, InstallAt, Ahead, BackAt
  <2>2. PackageTypes'
    BY <2>1 DEF PackageTypes
  <2>3. Places'
    BY <2>1 DEF Package!ProcessHasFiles
  <2>4. Disk'
    BY <2>1 DEF Package!LastGoodKept
  <2>5. Undoing'
    BY <2>1
  <2>6. Ended'
    BY <2>1
  <2>7. Removal'
    BY <2>1
  <2>8. Package!LastGoodKept'
    BY <2>1 DEF Package!LastGoodKept
  <2>9. Package!ProcessHasFiles'
    BY <2>1 DEF Package!ProcessHasFiles
  <2> QED
    BY <2>2, <2>3, <2>4, <2>5, <2>6, <2>7, <2>8, <2>9 DEF PackageInv
<1>10. CASE Package!StopPrevious
  <2>1. /\ step = "stop" /\ before.target # None
        /\ \/ step' = "back up" /\ process' = None /\ failure' = failure
           \/ step' = "clean up" /\ process' \in {process, None} /\ Fails("unchanged")
        /\ UNCHANGED <<op, number, target, previous, retained, row, desired, catalog, known,
                       before>>
    BY <1>10, <1>a, <1>b, <1>c, <1>d, <1>e, <1>f, <1>g, <1>i, <1>j
       DEF Package!StopPrevious, Places, InstallAt, Ahead, BackAt, Package!Stopped,
           Package!StopFails, FailureStates
  <2>2. PackageTypes'
    BY <2>1 DEF PackageTypes
  <2>3. Places'
    BY <2>1 DEF Package!ProcessHasFiles
  <2>4. Disk'
    BY <2>1 DEF Package!LastGoodKept
  <2>5. Undoing'
    BY <2>1
  <2>6. Ended'
    BY <2>1
  <2>7. Removal'
    BY <2>1
  <2>8. Package!LastGoodKept'
    BY <2>1 DEF Package!LastGoodKept
  <2>9. Package!ProcessHasFiles'
    BY <2>1 DEF Package!ProcessHasFiles
  <2> QED
    BY <2>2, <2>3, <2>4, <2>5, <2>6, <2>7, <2>8, <2>9 DEF PackageInv
<1>11. CASE Package!BackUp
  <2>1. /\ step = "back up"
        /\ \/ step' = "install" /\ previous' = target /\ target' = None /\ failure' = failure
           \/ step' = "resume" /\ Fails("rolled_back") /\ UNCHANGED <<target, previous>>
        /\ UNCHANGED <<op, number, retained, row, desired, catalog, process, known, before>>
    BY <1>11, <1>a, <1>b, <1>c, <1>d, <1>e, <1>f, <1>g, <1>i, <1>j
       DEF Package!BackUp, FailureStates
  <2>2. PackageTypes'
    BY <2>1 DEF PackageTypes
  <2>3. Places'
    BY <2>1 DEF Package!ProcessHasFiles
  <2>4. Disk'
    BY <2>1 DEF Package!LastGoodKept
  <2>5. Undoing'
    BY <2>1
  <2>6. Ended'
    BY <2>1
  <2>7. Removal'
    BY <2>1
  <2>8. Package!LastGoodKept'
    BY <2>1 DEF Package!LastGoodKept
  <2>9. Package!ProcessHasFiles'
    BY <2>1 DEF Package!ProcessHasFiles
  <2> QED
    BY <2>2, <2>3, <2>4, <2>5, <2>6, <2>7, <2>8, <2>9 DEF PackageInv
<1>12. CASE Package!InstallFiles
  <2>1. /\ step = "install"
        /\ \/ step' = "metadata" /\ target' = number /\ failure' = failure
           \/ /\ step' = "move back" /\ Fails("rolled_back") /\ before.target # None
              /\ target' = target
           \/ /\ step' = "clean up" /\ Fails("unchanged") /\ before.target = None
              /\ target' = target
        /\ UNCHANGED <<op, number, previous, retained, row, desired, catalog, process, known,
                       before>>
    BY <1>12, <1>a, <1>b, <1>c, <1>d, <1>e, <1>f, <1>g, <1>i, <1>j
       DEF Package!InstallFiles, Places, InstallAt, Ahead, BackAt, FailureStates
  <2>2. PackageTypes'
    BY <2>1 DEF PackageTypes
  <2>3. Places'
    BY <2>1 DEF Package!ProcessHasFiles
  <2>4. Disk'
    BY <2>1 DEF Package!LastGoodKept
  <2>5. Undoing'
    BY <2>1
  <2>6. Ended'
    BY <2>1
  <2>7. Removal'
    BY <2>1
  <2>8. Package!LastGoodKept'
    BY <2>1 DEF Package!LastGoodKept
  <2>9. Package!ProcessHasFiles'
    BY <2>1 DEF Package!ProcessHasFiles
  <2> QED
    BY <2>2, <2>3, <2>4, <2>5, <2>6, <2>7, <2>8, <2>9 DEF PackageInv
<1>13. CASE Package!MoveBack
  <2>1. /\ step = "move back"
        /\ \/ step' = "resume" /\ target' = previous /\ previous' = None /\ failure' = failure
           \/ step' = "clean up" /\ Fails("rollback_failed") /\ UNCHANGED <<target, previous>>
        /\ UNCHANGED <<op, number, retained, row, desired, catalog, process, known, before>>
    BY <1>13, <1>a, <1>b, <1>c, <1>d, <1>e, <1>f, <1>g, <1>i, <1>j
       DEF Package!MoveBack, FailureStates
  <2>2. PackageTypes'
    BY <2>1 DEF PackageTypes
  <2>3. Places'
    BY <2>1 DEF Package!ProcessHasFiles
  <2>4. Disk'
    BY <2>1 DEF Package!LastGoodKept
  <2>5. Undoing'
    BY <2>1
  <2>6. Ended'
    BY <2>1
  <2>7. Removal'
    BY <2>1
  <2>8. Package!LastGoodKept'
    BY <2>1 DEF Package!LastGoodKept
  <2>9. Package!ProcessHasFiles'
    BY <2>1 DEF Package!ProcessHasFiles
  <2> QED
    BY <2>2, <2>3, <2>4, <2>5, <2>6, <2>7, <2>8, <2>9 DEF PackageInv
<1>14. CASE Package!SaveMetadata
  <2>1. /\ step = "metadata"
        /\ \/ step' = "desired state" /\ row' = number /\ failure' = failure
           \/ step' = "roll back" /\ row' = row /\ Fails("rolled_back")
        /\ UNCHANGED <<op, number, target, previous, retained, desired, catalog, process, known,
                       before>>
    BY <1>14, <1>a, <1>b, <1>c, <1>d, <1>e, <1>f, <1>g, <1>i, <1>j
       DEF Package!SaveMetadata, Package!Finalizes, FailureStates
  <2>2. PackageTypes'
    BY <2>1 DEF PackageTypes
  <2>3. Places'
    BY <2>1 DEF Package!ProcessHasFiles
  <2>4. Disk'
    BY <2>1 DEF Package!LastGoodKept
  <2>5. Undoing'
    BY <2>1
  <2>6. Ended'
    BY <2>1
  <2>7. Removal'
    BY <2>1
  <2>8. Package!LastGoodKept'
    BY <2>1 DEF Package!LastGoodKept
  <2>9. Package!ProcessHasFiles'
    BY <2>1 DEF Package!ProcessHasFiles
  <2> QED
    BY <2>2, <2>3, <2>4, <2>5, <2>6, <2>7, <2>8, <2>9 DEF PackageInv
<1>15. CASE Package!SaveDesired
  <2>1. /\ step = "desired state"
        /\ \/ /\ step' = "catalog" /\ failure' = failure
              /\ (known.exists \/ ~op.development => desired' = desired)
           \/ step' = "roll back" /\ desired' = desired /\ Fails("rolled_back")
        /\ UNCHANGED <<op, number, target, previous, retained, row, catalog, process, known,
                       before>>
    BY <1>15, <1>a, <1>b, <1>c, <1>d, <1>e, <1>f, <1>g, <1>i, <1>j
       DEF Package!SaveDesired, Package!Finalizes, FailureStates
  <2>2. PackageTypes'
    BY <2>1 DEF PackageTypes
  <2>3. Places'
    BY <2>1 DEF Package!ProcessHasFiles
  <2>4. Disk'
    BY <2>1 DEF Package!LastGoodKept
  <2>5. Undoing'
    BY <2>1
  <2>6. Ended'
    BY <2>1
  <2>7. Removal'
    BY <2>1
  <2>8. Package!LastGoodKept'
    BY <2>1 DEF Package!LastGoodKept
  <2>9. Package!ProcessHasFiles'
    BY <2>1 DEF Package!ProcessHasFiles
  <2> QED
    BY <2>2, <2>3, <2>4, <2>5, <2>6, <2>7, <2>8, <2>9 DEF PackageInv
<1>16. CASE Package!RefreshCatalog
  <2>1. /\ step = "catalog"
        /\ \/ step' = "finalize" /\ catalog' = target /\ failure' = failure
           \/ step' = "roll back" /\ catalog' = catalog /\ Fails("rolled_back")
        /\ UNCHANGED <<op, number, target, previous, retained, row, desired, process, known,
                       before>>
    BY <1>16, <1>a, <1>b, <1>c, <1>d, <1>e, <1>f, <1>g, <1>i, <1>j
       DEF Package!RefreshCatalog, Package!Finalizes, FailureStates
  <2>2. PackageTypes'
    BY <2>1 DEF PackageTypes
  <2>3. Places'
    BY <2>1 DEF Package!ProcessHasFiles
  <2>4. Disk'
    BY <2>1 DEF Package!LastGoodKept
  <2>5. Undoing'
    BY <2>1
  <2>6. Ended'
    BY <2>1
  <2>7. Removal'
    BY <2>1
  <2>8. Package!LastGoodKept'
    BY <2>1 DEF Package!LastGoodKept
  <2>9. Package!ProcessHasFiles'
    BY <2>1 DEF Package!ProcessHasFiles
  <2> QED
    BY <2>2, <2>3, <2>4, <2>5, <2>6, <2>7, <2>8, <2>9 DEF PackageInv
<1>17. CASE Package!Finalize
  <2>1. /\ step = "finalize"
        /\ \/ /\ step' = "clean up" /\ before' = Package!Nothing /\ failure' = failure
              /\ process' = IF Package!Wanted THEN target ELSE process
           \/ /\ step' = "roll back" /\ before' = before /\ process' \in {process, target}
              /\ Fails("rolled_back")
        /\ UNCHANGED <<op, number, target, previous, retained, row, desired, catalog, known>>
    BY <1>17, <1>a, <1>b, <1>c, <1>d, <1>e, <1>f, <1>g, <1>i, <1>j
       DEF Package!Finalize, Package!Reconciled, Package!ReconcileFails, FailureStates
  <2>2. PackageTypes'
    BY <2>1 DEF PackageTypes
  <2>3. Places'
    BY <2>1 DEF Package!ProcessHasFiles
  <2>4. Disk'
    BY <2>1 DEF Package!LastGoodKept
  <2>5. Undoing'
    BY <2>1
  <2>6. Ended'
    BY <2>1
  <2>7. Removal'
    BY <2>1
  <2>8. Package!LastGoodKept'
    BY <2>1 DEF Package!LastGoodKept
  <2>9. Package!ProcessHasFiles'
    BY <2>1 DEF Package!ProcessHasFiles
  <2> QED
    BY <2>2, <2>3, <2>4, <2>5, <2>6, <2>7, <2>8, <2>9 DEF PackageInv
<1>18. CASE Package!RollbackStop
  <2>1. /\ step = "roll back"
        /\ \/ step' = "undo desired state" /\ process' = None /\ failure' = failure
           \/ /\ step' = "clean up" /\ process' \in {process, None}
              /\ Fails("rollback_failed")
        /\ UNCHANGED <<op, number, target, previous, retained, row, desired, catalog, known,
                       before>>
    BY <1>18, <1>a, <1>b, <1>c, <1>d, <1>e, <1>f, <1>g, <1>i, <1>j
       DEF Package!RollbackStop, Package!Stopped, Package!StopFails, FailureStates
  <2>2. PackageTypes'
    BY <2>1 DEF PackageTypes
  <2>3. Places'
    BY <2>1 DEF Package!ProcessHasFiles
  <2>4. Disk'
    BY <2>1 DEF Package!LastGoodKept
  <2>5. Undoing'
    BY <2>1
  <2>6. Ended'
    BY <2>1
  <2>7. Removal'
    BY <2>1
  <2>8. Package!LastGoodKept'
    BY <2>1 DEF Package!LastGoodKept
  <2>9. Package!ProcessHasFiles'
    BY <2>1 DEF Package!ProcessHasFiles
  <2> QED
    BY <2>2, <2>3, <2>4, <2>5, <2>6, <2>7, <2>8, <2>9 DEF PackageInv
<1>19. CASE Package!UndoDesired
  <2>1. /\ step = "undo desired state" /\ step' = "remove candidate"
        /\ failure' = failure \/ Fails("rolled_back")
        /\ (known.exists \/ ~op.development => desired' = desired)
        /\ UNCHANGED <<op, number, target, previous, retained, row, catalog, process, known,
                       before>>
    BY <1>19, <1>a, <1>b, <1>c, <1>d, <1>e, <1>f, <1>g, <1>i, <1>j
       DEF Package!UndoDesired, Package!Undone, FailureStates
  <2>2. PackageTypes'
    BY <2>1 DEF PackageTypes
  <2>3. Places'
    BY <2>1 DEF Package!ProcessHasFiles
  <2>4. Disk'
    BY <2>1 DEF Package!LastGoodKept
  <2>5. Undoing'
    BY <2>1
  <2>6. Ended'
    BY <2>1
  <2>7. Removal'
    BY <2>1
  <2>8. Package!LastGoodKept'
    BY <2>1 DEF Package!LastGoodKept
  <2>9. Package!ProcessHasFiles'
    BY <2>1 DEF Package!ProcessHasFiles
  <2> QED
    BY <2>2, <2>3, <2>4, <2>5, <2>6, <2>7, <2>8, <2>9 DEF PackageInv
<1>20. CASE Package!RemoveCandidate
  <2>1. /\ step = "remove candidate"
        /\ \/ /\ step' = IF before.target # None THEN "restore files" ELSE "undo metadata"
              /\ target' = None /\ failure' = failure
           \/ /\ step' = "undo metadata" /\ target' \in {target, Torn} /\ Fails("rolled_back")
        /\ UNCHANGED <<op, number, previous, retained, row, desired, catalog, process, known,
                       before>>
    BY <1>20, <1>a, <1>b, <1>c, <1>d, <1>e, <1>f, <1>g, <1>i, <1>j
       DEF Package!RemoveCandidate, Places, InstallAt, Ahead, BackAt, FailureStates
  <2>2. PackageTypes'
    BY <2>1 DEF PackageTypes
  <2>3. Places'
    BY <2>1 DEF Package!ProcessHasFiles
  <2>4. Disk'
    BY <2>1 DEF Package!LastGoodKept
  <2>5. Undoing'
    BY <2>1
  <2>6. Ended'
    BY <2>1
  <2>7. Removal'
    BY <2>1
  <2>8. Package!LastGoodKept'
    BY <2>1 DEF Package!LastGoodKept
  <2>9. Package!ProcessHasFiles'
    BY <2>1 DEF Package!ProcessHasFiles
  <2> QED
    BY <2>2, <2>3, <2>4, <2>5, <2>6, <2>7, <2>8, <2>9 DEF PackageInv
<1>21. CASE Package!RestoreFiles
  <2>1. /\ step = "restore files" /\ step' = "undo metadata"
        /\ \/ target' = previous /\ previous' = None /\ failure' = failure
           \/ Fails("rolled_back") /\ UNCHANGED <<target, previous>>
        /\ UNCHANGED <<op, number, retained, row, desired, catalog, process, known, before>>
    BY <1>21, <1>a, <1>b, <1>c, <1>d, <1>e, <1>f, <1>g, <1>i, <1>j
       DEF Package!RestoreFiles, Package!Undone, FailureStates
  <2>2. PackageTypes'
    BY <2>1 DEF PackageTypes
  <2>3. Places'
    BY <2>1 DEF Package!ProcessHasFiles
  <2>4. Disk'
    BY <2>1 DEF Package!LastGoodKept
  <2>5. Undoing'
    BY <2>1
  <2>6. Ended'
    BY <2>1
  <2>7. Removal'
    BY <2>1
  <2>8. Package!LastGoodKept'
    BY <2>1 DEF Package!LastGoodKept
  <2>9. Package!ProcessHasFiles'
    BY <2>1 DEF Package!ProcessHasFiles
  <2> QED
    BY <2>2, <2>3, <2>4, <2>5, <2>6, <2>7, <2>8, <2>9 DEF PackageInv
<1>22. CASE Package!UndoMetadata
  <2>1. /\ step = "undo metadata" /\ step' = "undo catalog"
        /\ \/ row' = known.row /\ failure' = failure
           \/ Fails("rolled_back") /\ row' = row
        /\ UNCHANGED <<op, number, target, previous, retained, desired, catalog, process, known,
                       before>>
    BY <1>22, <1>a, <1>b, <1>c, <1>d, <1>e, <1>f, <1>g, <1>i, <1>j
       DEF Package!UndoMetadata, Package!Undone, FailureStates
  <2>2. PackageTypes'
    BY <2>1 DEF PackageTypes
  <2>3. Places'
    BY <2>1 DEF Package!ProcessHasFiles
  <2>4. Disk'
    BY <2>1 DEF Package!LastGoodKept
  <2>5. Undoing'
    BY <2>1
  <2>6. Ended'
    BY <2>1
  <2>7. Removal'
    BY <2>1
  <2>8. Package!LastGoodKept'
    BY <2>1 DEF Package!LastGoodKept
  <2>9. Package!ProcessHasFiles'
    BY <2>1 DEF Package!ProcessHasFiles
  <2> QED
    BY <2>2, <2>3, <2>4, <2>5, <2>6, <2>7, <2>8, <2>9 DEF PackageInv
<1>23. CASE Package!UndoCatalog
  <2>1. /\ step = "undo catalog"
        /\ \/ /\ (step' = "give up" \/ (step' = "resume" /\ target = before.target))
              /\ catalog' = target /\ failure' = failure
           \/ step' = "give up" /\ Fails("rolled_back") /\ catalog' = catalog
        /\ UNCHANGED <<op, number, target, previous, retained, row, desired, process, known,
                       before>>
    BY <1>23, <1>a, <1>b, <1>c, <1>d, <1>e, <1>f, <1>g, <1>i, <1>j
       DEF Package!UndoCatalog, Package!FilesRestored, FailureStates, Places, Disk, InstallAt,
           Ahead, BackAt
  <2>2. PackageTypes'
    BY <2>1 DEF PackageTypes
  <2>3. Places'
    BY <2>1 DEF Package!ProcessHasFiles
  <2>4. Disk'
    BY <2>1 DEF Package!LastGoodKept
  <2>5. Undoing'
    BY <2>1
  <2>6. Ended'
    BY <2>1
  <2>7. Removal'
    BY <2>1
  <2>8. Package!LastGoodKept'
    BY <2>1 DEF Package!LastGoodKept
  <2>9. Package!ProcessHasFiles'
    BY <2>1 DEF Package!ProcessHasFiles
  <2> QED
    BY <2>2, <2>3, <2>4, <2>5, <2>6, <2>7, <2>8, <2>9 DEF PackageInv
<1>24. CASE Package!GiveUp
  <2>1. /\ step = "give up" /\ step' = "clean up"
        /\ FailureTypes' /\ failure'.state = "rollback_failed" /\ failure'.causes = failure.causes
        /\ UNCHANGED <<op, number, target, previous, retained, row, desired, catalog, process,
                       known, before>>
    BY <1>24, <1>a, <1>b, <1>c, <1>d, <1>e, <1>f, <1>g, <1>i, <1>j
       DEF Package!GiveUp, FailureStates
  <2>2. PackageTypes'
    BY <2>1 DEF PackageTypes
  <2>3. Places'
    BY <2>1 DEF Package!ProcessHasFiles
  <2>4. Disk'
    BY <2>1 DEF Package!LastGoodKept
  <2>5. Undoing'
    BY <2>1
  <2>6. Ended'
    BY <2>1
  <2>7. Removal'
    BY <2>1
  <2>8. Package!LastGoodKept'
    BY <2>1 DEF Package!LastGoodKept
  <2>9. Package!ProcessHasFiles'
    BY <2>1 DEF Package!ProcessHasFiles
  <2> QED
    BY <2>2, <2>3, <2>4, <2>5, <2>6, <2>7, <2>8, <2>9 DEF PackageInv
<1>25. CASE Package!Resume
  <2>1. /\ step = "resume" /\ step' = "clean up"
        /\ \/ /\ process' = IF Package!Wanted THEN target ELSE process
              /\ FailureTypes' /\ failure'.causes = failure.causes
              /\ \/ failure'.state = "rollback_failed"
                 \/ failure'.state = "rolled_back" /\ failure.count = 1
           \/ process' \in {process, target} /\ Fails("rollback_failed")
        /\ UNCHANGED <<op, number, target, previous, retained, row, desired, catalog, known,
                       before>>
    <3>1. failure.state = "rolled_back" /\ failure.count > 0
      BY <1>25, <1>a DEF Package!Resume, Undoing, BackAt
    <3>2. ASSUME NEW s, s = (IF failure.count > 1 THEN "rollback_failed" ELSE failure.state),
                 failure' = [failure EXCEPT !.state = s]
          PROVE  /\ FailureTypes' /\ failure'.causes = failure.causes
                 /\ \/ failure'.state = "rollback_failed"
                    \/ failure'.state = "rolled_back" /\ failure.count = 1
      <4>1. s \in FailureStates /\ (s = "rollback_failed" \/ (s = "rolled_back" /\ failure.count = 1))
        BY ONLY <3>1, <3>2, <1>f DEF FailureStates
      <4> QED
        BY <3>2, <4>1, <1>g
    <3>3. Package!Failed("rollback_failed", "error") => Fails("rollback_failed")
      BY <1>b DEF FailureStates
    <3>4. \/ step = "resume" /\ step' = "clean up" /\ Package!Reconciled
             /\ failure' = [failure EXCEPT
                   !.state = IF failure.count > 1 THEN "rollback_failed" ELSE failure.state]
          \/ step = "resume" /\ step' = "clean up" /\ Package!ReconcileFails
             /\ Package!Failed("rollback_failed", "error")
      BY <1>25 DEF Package!Resume
    <3> QED
      BY <1>25, <3>2, <3>3, <3>4 DEF Package!Resume, Package!Reconciled, Package!ReconcileFails
  <2>2. PackageTypes'
    BY <2>1 DEF PackageTypes
  <2>3. Places'
    BY <2>1 DEF Package!ProcessHasFiles
  <2>4. Disk'
    BY <2>1 DEF Package!LastGoodKept
  <2>5. Undoing'
    BY <2>1
  <2>6. Ended'
    BY <2>1
  <2>7. Removal'
    BY <2>1
  <2>8. Package!LastGoodKept'
    BY <2>1 DEF Package!LastGoodKept
  <2>9. Package!ProcessHasFiles'
    BY <2>1 DEF Package!ProcessHasFiles
  <2> QED
    BY <2>2, <2>3, <2>4, <2>5, <2>6, <2>7, <2>8, <2>9 DEF PackageInv
<1>26. CASE Package!RemoveWorkingRoot
  <2>1. /\ step = "clean up" /\ step' = "report"
        /\ \/ UNCHANGED <<previous, failure>>
           \/ failure.state # "rollback_failed" /\ previous' = None /\ failure' = failure
           \/ /\ failure.state # "rollback_failed" /\ previous' \in {previous, None}
              /\ FailureTypes' /\ failure'.causes # {}
              /\ \/ failure.state # None /\ failure'.state = failure.state
                 \/ failure.state = None /\ failure.causes = {} /\ failure'.state = "committed"
                 \/ failure.state = None /\ failure.causes # {} /\ failure'.state = "unchanged"
        /\ UNCHANGED <<op, number, target, retained, row, desired, catalog, process, known,
                       before>>
    <3> DEFINE s == IF failure.state # None THEN failure.state
                    ELSE IF failure.causes = {} THEN "committed" ELSE "unchanged"
               n == 1 + IF failure.state # None THEN failure.count
                        ELSE Package!Cardinality(failure.causes)
               C == failure.causes \cup {"error"}
    <3>1. Package!Cardinality(failure.causes) \in Nat
      <4>1. IsFiniteSet({"cancel"}) /\ {"cancel", "error"} = {"cancel"} \cup {"error"}
        BY FS_Singleton
      <4>2. IsFiniteSet({"cancel", "error"})
        BY ONLY <4>1, FS_AddElement
      <4>3. IsFiniteSet(failure.causes)
        BY <4>2, <1>f, FS_Subset
      <4> QED
        BY <4>3, FS_CardinalityType, PackageCardinality
    <3>2. n \in Nat /\ C \in SUBSET {"cancel", "error"} /\ C # {}
      BY ONLY <1>f, <3>1
    <3>3. \/ failure.state # None /\ s = failure.state
          \/ failure.state = None /\ failure.causes = {} /\ s = "committed"
          \/ failure.state = None /\ failure.causes # {} /\ s = "unchanged"
      OBVIOUS
    <3>4. s \in FailureStates
      BY <3>3, <1>f DEF FailureStates
    <3>5. failure' = [state |-> s, count |-> n, causes |-> C] =>
            FailureTypes' /\ failure'.state = s /\ failure'.causes = C
      BY ONLY <3>2, <3>4, <1>h
    <3>6. /\ step = "clean up" /\ step' = "report"
          /\ \/ UNCHANGED <<previous, failure>>
             \/ failure.state # "rollback_failed" /\ previous' = None /\ failure' = failure
             \/ /\ failure.state # "rollback_failed" /\ previous' \in {previous, None}
                /\ failure' = [state |-> s, count |-> n, causes |-> C]
          /\ UNCHANGED <<op, number, target, retained, row, desired, catalog, process, known,
                         before>>
      BY <1>26 DEF Package!RemoveWorkingRoot
    <3> HIDE DEF s, n, C
    <3> QED
      BY <3>2, <3>3, <3>5, <3>6
  <2>2. PackageTypes'
    BY <2>1 DEF PackageTypes
  <2>3. Places'
    BY <2>1 DEF Package!ProcessHasFiles
  <2>4. Disk'
    BY <2>1 DEF Package!LastGoodKept
  <2>5. Undoing'
    BY <2>1
  <2>6. Ended'
    BY <2>1
  <2>7. Removal'
    BY <2>1
  <2>8. Package!LastGoodKept'
    BY <2>1 DEF Package!LastGoodKept
  <2>9. Package!ProcessHasFiles'
    BY <2>1 DEF Package!ProcessHasFiles
  <2> QED
    BY <2>2, <2>3, <2>4, <2>5, <2>6, <2>7, <2>8, <2>9 DEF PackageInv
<1>27. CASE Package!Report
  <2>1. /\ step = "report" /\ step' = "idle"
        /\ UNCHANGED <<op, number, target, previous, retained, row, desired, catalog, process,
                       known, failure, before>>
    BY <1>27, <1>a, <1>b, <1>c, <1>d, <1>e, <1>f, <1>g, <1>i, <1>j DEF Package!Report
  <2>2. PackageTypes'
    BY <2>1 DEF PackageTypes
  <2>3. Places'
    BY <2>1 DEF Package!ProcessHasFiles
  <2>4. Disk'
    BY <2>1 DEF Package!LastGoodKept
  <2>5. Undoing'
    BY <2>1
  <2>6. Ended'
    BY <2>1
  <2>7. Removal'
    BY <2>1
  <2>8. Package!LastGoodKept'
    BY <2>1 DEF Package!LastGoodKept
  <2>9. Package!ProcessHasFiles'
    BY <2>1 DEF Package!ProcessHasFiles
  <2> QED
    BY <2>2, <2>3, <2>4, <2>5, <2>6, <2>7, <2>8, <2>9 DEF PackageInv
<1>28. CASE Package!StopRemoved
  <2>1. /\ step = "stop to remove"
        /\ \/ step' = "remove" /\ process' = None /\ failure' = failure
           \/ step' = "report" /\ process' \in {process, None} /\ Fails("unchanged")
        /\ UNCHANGED <<op, number, target, previous, retained, row, desired, catalog, known,
                       before>>
    BY <1>28, <1>a, <1>b, <1>c, <1>d, <1>e, <1>f, <1>g, <1>i, <1>j
       DEF Package!StopRemoved, Package!Stopped, Package!StopFails, FailureStates
  <2>2. PackageTypes'
    BY <2>1 DEF PackageTypes
  <2>3. Places'
    BY <2>1 DEF Package!ProcessHasFiles
  <2>4. Disk'
    BY <2>1 DEF Package!LastGoodKept
  <2>5. Undoing'
    BY <2>1
  <2>6. Ended'
    BY <2>1
  <2>7. Removal'
    BY <2>1
  <2>8. Package!LastGoodKept'
    BY <2>1 DEF Package!LastGoodKept
  <2>9. Package!ProcessHasFiles'
    BY <2>1 DEF Package!ProcessHasFiles
  <2> QED
    BY <2>2, <2>3, <2>4, <2>5, <2>6, <2>7, <2>8, <2>9 DEF PackageInv
<1>29. CASE Package!RemoveFiles
  <2>1. /\ step = "remove"
        /\ \/ /\ step' = "drop desired state" /\ target' = None /\ before' = Package!Nothing
              /\ FailureTypes' /\ failure'.state = "committed" /\ failure'.causes = failure.causes
           \/ /\ step' = "report" /\ target' = Torn /\ before' = Package!Nothing
              /\ Fails("partial")
           \/ /\ step' = "report" /\ Fails("unchanged") /\ UNCHANGED <<target, before>>
        /\ UNCHANGED <<op, number, previous, retained, row, desired, catalog, process, known>>
    BY <1>29, <1>a, <1>b, <1>c, <1>d, <1>e, <1>f, <1>g, <1>i, <1>j
       DEF Package!RemoveFiles, FailureStates
  <2>2. PackageTypes'
    BY <2>1 DEF PackageTypes
  <2>3. Places'
    BY <2>1 DEF Package!ProcessHasFiles
  <2>4. Disk'
    BY <2>1 DEF Package!LastGoodKept
  <2>5. Undoing'
    BY <2>1
  <2>6. Ended'
    BY <2>1
  <2>7. Removal'
    BY <2>1
  <2>8. Package!LastGoodKept'
    BY <2>1 DEF Package!LastGoodKept
  <2>9. Package!ProcessHasFiles'
    BY <2>1 DEF Package!ProcessHasFiles
  <2> QED
    BY <2>2, <2>3, <2>4, <2>5, <2>6, <2>7, <2>8, <2>9 DEF PackageInv
<1>30. CASE Package!DropDesired
  <2>1. /\ step = "drop desired state" /\ step' = "drop metadata"
        /\ \/ desired' = None /\ failure' = failure
           \/ Fails("committed")
        /\ UNCHANGED <<op, number, target, previous, retained, row, catalog, process, known,
                       before>>
    BY <1>30, <1>a, <1>b, <1>c, <1>d, <1>e, <1>f, <1>g, <1>i, <1>j
       DEF Package!DropDesired, Package!Dropped, FailureStates
  <2>2. PackageTypes'
    BY <2>1 DEF PackageTypes
  <2>3. Places'
    BY <2>1 DEF Package!ProcessHasFiles
  <2>4. Disk'
    BY <2>1 DEF Package!LastGoodKept
  <2>5. Undoing'
    BY <2>1
  <2>6. Ended'
    BY <2>1
  <2>7. Removal'
    BY <2>1
  <2>8. Package!LastGoodKept'
    BY <2>1 DEF Package!LastGoodKept
  <2>9. Package!ProcessHasFiles'
    BY <2>1 DEF Package!ProcessHasFiles
  <2> QED
    BY <2>2, <2>3, <2>4, <2>5, <2>6, <2>7, <2>8, <2>9 DEF PackageInv
<1>31. CASE Package!DropMetadata
  <2>1. /\ step = "drop metadata" /\ step' = "drop catalog"
        /\ \/ row' = None /\ failure' = failure
           \/ Fails("committed")
        /\ UNCHANGED <<op, number, target, previous, retained, desired, catalog, process, known,
                       before>>
    BY <1>31, <1>a, <1>b, <1>c, <1>d, <1>e, <1>f, <1>g, <1>i, <1>j
       DEF Package!DropMetadata, Package!Dropped, FailureStates
  <2>2. PackageTypes'
    BY <2>1 DEF PackageTypes
  <2>3. Places'
    BY <2>1 DEF Package!ProcessHasFiles
  <2>4. Disk'
    BY <2>1 DEF Package!LastGoodKept
  <2>5. Undoing'
    BY <2>1
  <2>6. Ended'
    BY <2>1
  <2>7. Removal'
    BY <2>1
  <2>8. Package!LastGoodKept'
    BY <2>1 DEF Package!LastGoodKept
  <2>9. Package!ProcessHasFiles'
    BY <2>1 DEF Package!ProcessHasFiles
  <2> QED
    BY <2>2, <2>3, <2>4, <2>5, <2>6, <2>7, <2>8, <2>9 DEF PackageInv
<1>32. CASE Package!DropCatalog
  <2>1. /\ step = "drop catalog" /\ step' = "drop rest"
        /\ \/ catalog' = target /\ failure' = failure
           \/ Fails("committed")
        /\ UNCHANGED <<op, number, target, previous, retained, row, desired, process, known,
                       before>>
    BY <1>32, <1>a, <1>b, <1>c, <1>d, <1>e, <1>f, <1>g, <1>i, <1>j
       DEF Package!DropCatalog, Package!Dropped, FailureStates
  <2>2. PackageTypes'
    BY <2>1 DEF PackageTypes
  <2>3. Places'
    BY <2>1 DEF Package!ProcessHasFiles
  <2>4. Disk'
    BY <2>1 DEF Package!LastGoodKept
  <2>5. Undoing'
    BY <2>1
  <2>6. Ended'
    BY <2>1
  <2>7. Removal'
    BY <2>1
  <2>8. Package!LastGoodKept'
    BY <2>1 DEF Package!LastGoodKept
  <2>9. Package!ProcessHasFiles'
    BY <2>1 DEF Package!ProcessHasFiles
  <2> QED
    BY <2>2, <2>3, <2>4, <2>5, <2>6, <2>7, <2>8, <2>9 DEF PackageInv
<1>33. CASE Package!DropRest
  <2>1. /\ step = "drop rest" /\ step' = "report"
        /\ failure' = failure \/ Fails("committed")
        /\ UNCHANGED <<op, number, target, previous, retained, row, desired, catalog, process,
                       known, before>>
    BY <1>33, <1>a, <1>b, <1>c, <1>d, <1>e, <1>f, <1>g, <1>i, <1>j
       DEF Package!DropRest, Package!Dropped, FailureStates
  <2>2. PackageTypes'
    BY <2>1 DEF PackageTypes
  <2>3. Places'
    BY <2>1 DEF Package!ProcessHasFiles
  <2>4. Disk'
    BY <2>1 DEF Package!LastGoodKept
  <2>5. Undoing'
    BY <2>1
  <2>6. Ended'
    BY <2>1
  <2>7. Removal'
    BY <2>1
  <2>8. Package!LastGoodKept'
    BY <2>1 DEF Package!LastGoodKept
  <2>9. Package!ProcessHasFiles'
    BY <2>1 DEF Package!ProcessHasFiles
  <2> QED
    BY <2>2, <2>3, <2>4, <2>5, <2>6, <2>7, <2>8, <2>9 DEF PackageInv
<1>34. CASE Package!Crash
  <2>1. /\ step' = "down" /\ process' = None /\ FailureTypes'
        /\ UNCHANGED <<op, number, target, previous, retained, row, desired, catalog, known,
                       before>>
    BY <1>34, <1>a, <1>b, <1>c, <1>d, <1>e, <1>f, <1>g, <1>i, <1>j DEF Package!Crash, FailureStates
  <2>2. PackageTypes'
    BY <2>1 DEF PackageTypes
  <2>3. Places'
    BY <2>1 DEF Package!ProcessHasFiles
  <2>4. Disk'
    BY <2>1 DEF Package!LastGoodKept
  <2>5. Undoing'
    BY <2>1
  <2>6. Ended'
    BY <2>1
  <2>7. Removal'
    BY <2>1
  <2>8. Package!LastGoodKept'
    BY <2>1 DEF Package!LastGoodKept
  <2>9. Package!ProcessHasFiles'
    BY <2>1 DEF Package!ProcessHasFiles
  <2> QED
    BY <2>2, <2>3, <2>4, <2>5, <2>6, <2>7, <2>8, <2>9 DEF PackageInv
<1>35. CASE Package!Restart
  <2>1. /\ step = "down" /\ step' = "idle" /\ process' \in {None, target}
        /\ UNCHANGED <<op, number, target, previous, retained, row, desired, known, failure,
                       before>>
    BY <1>35, <1>a, <1>b, <1>c, <1>d, <1>e, <1>f, <1>g, <1>i, <1>j DEF Package!Restart
  <2>2. PackageTypes'
    BY <2>1 DEF PackageTypes
  <2>3. Places'
    BY <2>1 DEF Package!ProcessHasFiles
  <2>4. Disk'
    BY <2>1 DEF Package!LastGoodKept
  <2>5. Undoing'
    BY <2>1
  <2>6. Ended'
    BY <2>1
  <2>7. Removal'
    BY <2>1
  <2>8. Package!LastGoodKept'
    BY <2>1 DEF Package!LastGoodKept
  <2>9. Package!ProcessHasFiles'
    BY <2>1 DEF Package!ProcessHasFiles
  <2> QED
    BY <2>2, <2>3, <2>4, <2>5, <2>6, <2>7, <2>8, <2>9 DEF PackageInv
<1>36. CASE UNCHANGED Package!vars
  <2>1. step' = step /\ UNCHANGED <<op, number, target, previous, retained, row, desired, catalog,
                                    process, known, failure, before>>
    BY <1>36 DEF Package!vars
  <2>2. PackageTypes' /\ Places'
    BY <1>a, <1>f, <2>1 DEF PackageTypes, Places, Flawless
  <2>3. Disk' /\ Undoing'
    BY <1>a, <2>1 DEF Disk, Undoing, Back, Package!Same
  <2>4. Ended' /\ Removal'
    BY <1>a, <2>1 DEF Ended, Removal, Back, Package!Same, Package!Wanted
  <2>5. Package!LastGoodKept' /\ Package!ProcessHasFiles'
    BY <1>a, <2>1 DEF Package!LastGoodKept, Package!ProcessHasFiles
  <2> QED
    BY <2>2, <2>3, <2>4, <2>5 DEF PackageInv
<1> QED
  BY <1>1, <1>2, <1>3, <1>4, <1>5, <1>6, <1>7, <1>8, <1>9, <1>10, <1>11, <1>12, <1>13, <1>14,
     <1>15, <1>16, <1>17, <1>18, <1>19, <1>20, <1>21, <1>22, <1>23, <1>24, <1>25, <1>26, <1>27,
     <1>28, <1>29, <1>30, <1>31, <1>32, <1>33, <1>34, <1>35, <1>36
     DEF Package!Next, Package!Operation

\* What the invariant says of the outcome a task reports.
LEMMA PackageOutcome ==
  ASSUME Package!PackageAssumption, PackageInv PROVE Package!PackageSound
<1>1. Package!OutcomeTrue
  BY DEF Package!PackageAssumption, PackageInv, PackageTypes, Ended, Removal, Back,
         Package!OutcomeTrue
<1> QED
  BY <1>1 DEF PackageInv, Package!PackageSound

\* Whichever step of an installation or a removal fails, and wherever the server crashes, the last
\* good package is on the disk, no process runs without its files, and the outcome that is reported
\* is that of disk, rows, catalog and process.
THEOREM PackageKeepsLastGood ==
  ASSUME Package!PackageAssumption
  PROVE  Package!Spec => []PackageSound
<1>1. Package!Init => PackageInv
  BY PackageInit
<1>2. PackageInv /\ [Package!Next]_Package!vars => PackageInv'
  BY PackageStep
<1>3. PackageInv => PackageSound
  BY PackageOutcome DEF PackageSound
<1> QED
  BY <1>1, <1>2, <1>3, PTL DEF Package!Spec

------------------------------------------------------------------------------
\* The browsers of plugins: a browser has a session, and an owner that is not purged.

CallPhases == {"idle", "called", "marked", "clean", "removing", "returned"}
Closings == [phase : CallPhases, target : Launches \cup {None}, todo : SUBSET Launches,
             failed : BOOLEAN]

BrowserTypes ==
  /\ stage \in [Launches -> Browser!Stages]
  /\ browser \in [Launches -> BOOLEAN] /\ settled \in [Launches -> BOOLEAN]
  /\ sessions \subseteq Launches /\ ended \subseteq Launches
  /\ profiles \in [Browser!Profiles -> Launches \cup {None}]
  /\ closeCall \in [Browser!Calls -> Closings]
  /\ managerClosed \in BOOLEAN

\* A session has its profile, a browser its session, and a launch its session until it is settled.
Registered ==
  /\ \A l \in sessions : profiles[ProfileOf[l]] = l
  /\ \A l \in Launches :
       /\ browser[l] => l \in sessions
       /\ l \in ended => settled[l] /\ l \notin sessions
       /\ stage[l] \in {"trying", "starting", "opened", "failed"} => l \in sessions /\ ~settled[l]
       /\ stage[l] \in {"idle", "refused"} => l \notin sessions /\ ~settled[l]

\* The session a call closes is settled when its browser has ended, and stays without one.
Closing ==
  \A c \in Browser!Calls :
    /\ closeCall[c].phase \in {"marked", "clean"} => closeCall[c].target \in Launches
    /\ closeCall[c].phase = "clean" => settled[closeCall[c].target] /\ ~browser[closeCall[c].target]
    /\ closeCall[c].phase \in {"removing", "returned"} => closeCall[c].todo = {} \/ closeCall[c].failed

\* The sessions a call has still to close.
Before(c, l) ==
  l \in closeCall[c].todo \/ (closeCall[c].phase \in {"marked", "clean"} /\ l = closeCall[c].target)

\* While a purge is under way its plugin has no sessions but those it has still to close.
PurgeHolds(p, c) ==
  /\ closeCall[c].phase \in {"called", "marked", "clean", "removing"} =>
       /\ p \in purging
       /\ \/ closeCall[c].failed
          \/ \A l \in sessions : LauncherOf[l] = p => Before(c, l)
  /\ closeCall[c].phase = "removing" => ~closeCall[c].failed
Purges == \A p \in Browser!Launchers : PurgeHolds(p, <<"purge", p>>)

\* After CloseAll there are no sessions but those it has still to close.
ClosesAll ==
  LET c == <<"all", None>> IN
  closeCall[c].phase # "idle" =>
    /\ managerClosed
    /\ closeCall[c].failed \/ \A l \in sessions : Before(c, l)

BrowserInv == BrowserTypes /\ Registered /\ Closing /\ Purges /\ ClosesAll

\* The calls of different kinds, and of one kind for different owners, are different.
LEMMA CallKeys ==
  /\ \A l \in Launches : <<"launch", l>> \in Browser!Calls /\ <<"timer", l>> \in Browser!Calls
  /\ \A p \in Browser!Launchers : <<"purge", p>> \in Browser!Calls
  /\ <<"all", None>> \in Browser!Calls
  /\ \A c \in Browser!Calls : c[1] = "purge" => c[2] \in Browser!Launchers /\ c = <<"purge", c[2]>>
  /\ \A c \in Browser!Calls : c[1] = "all" => c = <<"all", None>>
  /\ \A c \in Browser!Calls : c[1] = "owner" => c[2] \in Launches
  BY DEF Browser!Calls, Browser!Reasons

\* A launch has a plugin and a profile.
LEMMA LaunchPlugins ==
  \A l \in Launches : LauncherOf[l] \in Browser!Launchers /\ ProfileOf[l] \in Browser!Profiles
  BY DEF Browser!Launchers, Browser!Profiles

\* The invariant holds at the start.
LEMMA BrowserInit ==
  ASSUME Browser!BrowserAssumption, Browser!Init PROVE BrowserInv
<1> USE DEF Browser!Init
<1>1. Browser!Idle \in Closings /\ Browser!Idle.phase = "idle"
  BY DEF Browser!Idle, Closings, CallPhases
<1>2. BrowserTypes
  BY <1>1 DEF BrowserTypes, Browser!Stages
<1>3. Registered /\ Closing /\ Purges /\ ClosesAll
  BY <1>1, CallKeys DEF Registered, Closing, Purges, PurgeHolds, ClosesAll
<1> QED
  BY <1>2, <1>3 DEF BrowserInv

\* What the invariant says of the browsers.
LEMMA BrowsersHaveOwners ==
  ASSUME Browser!BrowserAssumption, BrowserInv PROVE Browser!BrowsersOwned
<1> USE DEF BrowserInv
<1>1. ASSUME NEW l \in Launches, browser[l]
      PROVE  l \in sessions /\ profiles[ProfileOf[l]] = l /\ closeCall[<<"purge",
                                                                         LauncherOf[l]>>].phase # "removing"
  <2>1. l \in sessions /\ profiles[ProfileOf[l]] = l
    BY <1>1 DEF Registered
  <2> DEFINE c == <<"purge", LauncherOf[l]>>
  <2>2. SUFFICES ASSUME closeCall[c].phase = "removing" PROVE FALSE
    BY <2>1
  <2>3. c \in Browser!Calls /\ LauncherOf[l] \in Browser!Launchers
    BY CallKeys, LaunchPlugins
  <2>4. closeCall[c].todo = {} /\ ~closeCall[c].failed
    BY <2>2, <2>3 DEF Closing, Purges, PurgeHolds
  <2> QED
    BY <2>1, <2>2, <2>3, <2>4 DEF Purges, PurgeHolds, Before
<1>2. ASSUME closeCall[<<"all", None>>].phase = "returned", ~closeCall[<<"all", None>>].failed,
                                                                         NEW l \in Launches
      PROVE  ~browser[l] /\ l \notin sessions
  BY <1>2, CallKeys DEF ClosesAll, Closing, Registered, Before
<1> QED
  BY <1>1, <1>2 DEF Browser!BrowsersOwned

\* What a step makes of a call.
Becomes(c, at, of, todo, failed) ==
  /\ closeCall' \in [Browser!Calls -> Closings]
  /\ closeCall'[c].phase = at /\ closeCall'[c].target = of
  /\ closeCall'[c].todo = todo /\ closeCall'[c].failed = failed
  /\ \A d \in Browser!Calls : d # c => closeCall'[d] = closeCall[d]

\* Every way a step writes the record of a call, and what it makes of it.
LEMMA CallBecomes ==
  ASSUME closeCall \in [Browser!Calls -> Closings], NEW c \in Browser!Calls,
         NEW at \in CallPhases, NEW of \in Launches \cup {None},
         NEW todo \in SUBSET Launches
  PROVE  /\ closeCall' = [closeCall EXCEPT ![c].phase = at] =>
              Becomes(c, at, closeCall[c].target, closeCall[c].todo, closeCall[c].failed)
         /\ closeCall' = [closeCall EXCEPT ![c].phase = at, ![c].target = of] =>
              Becomes(c, at, of, closeCall[c].todo, closeCall[c].failed)
         /\ closeCall' = [closeCall EXCEPT ![c].todo = todo] =>
              Becomes(c, closeCall[c].phase, closeCall[c].target, todo, closeCall[c].failed)
         /\ closeCall' = [closeCall EXCEPT ![c].phase = at, ![c].todo = todo] =>
              Becomes(c, at, closeCall[c].target, todo, closeCall[c].failed)
         /\ closeCall' = [closeCall EXCEPT ![c].phase = at, ![c].target = of, ![c].todo = todo] =>
              Becomes(c, at, of, todo, closeCall[c].failed)
         /\ closeCall' = [closeCall EXCEPT ![c] = Browser!Idle] => Becomes(c, "idle", None, {}, FALSE)
<1>1. Browser!Idle \in Closings
  BY DEF Browser!Idle, Closings, CallPhases
<1>2. ASSUME closeCall' = [closeCall EXCEPT ![c].phase = at]
      PROVE  Becomes(c, at, closeCall[c].target, closeCall[c].todo, closeCall[c].failed)
  <2>1. /\ closeCall'[c].phase = at /\ closeCall'[c].target = closeCall[c].target
        /\ closeCall'[c].todo = closeCall[c].todo /\ closeCall'[c].failed = closeCall[c].failed
    BY <1>2 DEF Closings
  <2>2. closeCall' \in [Browser!Calls -> Closings]
    BY <1>2 DEF Closings
  <2>3. \A d \in Browser!Calls : d # c => closeCall'[d] = closeCall[d]
    BY <1>2
  <2> QED
    BY <2>1, <2>2, <2>3 DEF Becomes
<1>3. ASSUME closeCall' = [closeCall EXCEPT ![c].phase = at, ![c].target = of]
      PROVE  Becomes(c, at, of, closeCall[c].todo, closeCall[c].failed)
  <2>1. /\ closeCall'[c].phase = at /\ closeCall'[c].target = of
        /\ closeCall'[c].todo = closeCall[c].todo /\ closeCall'[c].failed = closeCall[c].failed
    BY <1>3 DEF Closings
  <2>2. closeCall' \in [Browser!Calls -> Closings]
    BY <1>3 DEF Closings
  <2>3. \A d \in Browser!Calls : d # c => closeCall'[d] = closeCall[d]
    BY <1>3
  <2> QED
    BY <2>1, <2>2, <2>3 DEF Becomes
<1>4. ASSUME closeCall' = [closeCall EXCEPT ![c].todo = todo]
      PROVE  Becomes(c, closeCall[c].phase, closeCall[c].target, todo, closeCall[c].failed)
  <2>1. /\ closeCall'[c].phase = closeCall[c].phase /\ closeCall'[c].target = closeCall[c].target
        /\ closeCall'[c].todo = todo /\ closeCall'[c].failed = closeCall[c].failed
    BY <1>4 DEF Closings
  <2>2. closeCall' \in [Browser!Calls -> Closings]
    BY <1>4 DEF Closings
  <2>3. \A d \in Browser!Calls : d # c => closeCall'[d] = closeCall[d]
    BY <1>4
  <2> QED
    BY <2>1, <2>2, <2>3 DEF Becomes
<1>5. ASSUME closeCall' = [closeCall EXCEPT ![c].phase = at, ![c].todo = todo]
      PROVE  Becomes(c, at, closeCall[c].target, todo, closeCall[c].failed)
  <2>1. /\ closeCall'[c].phase = at /\ closeCall'[c].target = closeCall[c].target
        /\ closeCall'[c].todo = todo /\ closeCall'[c].failed = closeCall[c].failed
    BY <1>5 DEF Closings
  <2>2. closeCall' \in [Browser!Calls -> Closings]
    BY <1>5 DEF Closings
  <2>3. \A d \in Browser!Calls : d # c => closeCall'[d] = closeCall[d]
    BY <1>5
  <2> QED
    BY <2>1, <2>2, <2>3 DEF Becomes
<1>6. ASSUME closeCall' = [closeCall EXCEPT ![c].phase = at, ![c].target = of, ![c].todo = todo]
      PROVE  Becomes(c, at, of, todo, closeCall[c].failed)
  <2>1. /\ closeCall'[c].phase = at /\ closeCall'[c].target = of
        /\ closeCall'[c].todo = todo /\ closeCall'[c].failed = closeCall[c].failed
    BY <1>6 DEF Closings
  <2>2. closeCall' \in [Browser!Calls -> Closings]
    BY <1>6 DEF Closings
  <2>3. \A d \in Browser!Calls : d # c => closeCall'[d] = closeCall[d]
    BY <1>6
  <2> QED
    BY <2>1, <2>2, <2>3 DEF Becomes
<1>7. closeCall' = [closeCall EXCEPT ![c] = Browser!Idle] => Becomes(c, "idle", None, {}, FALSE)
  BY <1>1 DEF Becomes, Browser!Idle
<1> QED
  BY <1>2, <1>3, <1>4, <1>5, <1>6, <1>7

\* Every step keeps the invariant.
LEMMA BrowserStep ==
  ASSUME Browser!BrowserAssumption, BrowserInv, [Browser!Next]_Browser!vars
  PROVE  BrowserInv'
<1>a. BrowserTypes /\ Registered /\ Closing /\ Purges /\ ClosesAll
  BY DEF BrowserInv
<1>b. /\ stage \in [Launches -> Browser!Stages]
      /\ browser \in [Launches -> BOOLEAN] /\ settled \in [Launches -> BOOLEAN]
      /\ sessions \subseteq Launches /\ ended \subseteq Launches
      /\ profiles \in [Browser!Profiles -> Launches \cup {None}]
      /\ managerClosed \in BOOLEAN
      /\ closeCall \in [Browser!Calls -> Closings]
  BY <1>a DEF BrowserTypes
<1>c. \A c \in Browser!Calls :
        /\ closeCall[c].phase \in CallPhases /\ closeCall[c].target \in Launches \cup {None}
        /\ closeCall[c].todo \subseteq Launches /\ closeCall[c].failed \in BOOLEAN
  BY <1>b DEF Closings
<1>1. ASSUME NEW l \in Launches, Browser!Begin(l)
      PROVE  BrowserInv'
  <2>1. /\ stage[l] = "idle" /\ UNCHANGED <<browser, settled, ended, closeCall, purging,
                                            managerClosed>>
        /\ \/ /\ stage' = [stage EXCEPT ![l] = "refused"] /\ UNCHANGED <<sessions, profiles>>
           \/ /\ stage' = [stage EXCEPT ![l] = "trying"] /\ sessions' = sessions \cup {l}
              /\ profiles' = [profiles EXCEPT ![ProfileOf[l]] = l]
              /\ profiles[ProfileOf[l]] = None /\ LauncherOf[l] \notin purging /\ ~managerClosed
    BY <1>1, Zenon DEF Browser!Begin
  <2>2. BrowserTypes'
    BY <1>a, <1>b, <2>1 DEF BrowserTypes, Browser!Stages
  <2>3. Registered'
    BY <1>a, <1>b, <2>1, LaunchPlugins DEF Registered, Browser!BrowserAssumption
  <2>4. Closing'
    BY <1>a, <1>b, <1>c, <2>1 DEF Closing
  <2>5. Purges'
    <3>1. SUFFICES ASSUME NEW p \in Browser!Launchers PROVE PurgeHolds(p, <<"purge", p>>)'
      BY DEF Purges
    <3> DEFINE k == <<"purge", p>>
    <3>2. k \in Browser!Calls /\ PurgeHolds(p, k)
      BY <1>a, CallKeys DEF Purges
    <3>3. /\ k[1] = "purge" /\ \A y : <<"purge", y>> = k => y = p
          /\ \A x : <<"launch", x>> # k /\ <<"timer", x>> # k /\ <<"all", None>> # k
          /\ \A d \in Browser!Calls : d[1] = "purge" /\ d[2] = p => d = k
      BY CallKeys
    <3> HIDE DEF k
    <3>4. PurgeHolds(p, k)'
      BY <1>a, <1>b, <1>c, <2>1, <3>2, <3>3 DEF PurgeHolds, Before
    <3> QED
      BY <3>4 DEF k
  <2>6. ClosesAll'
    BY <1>a, <1>b, <1>c, <2>1 DEF ClosesAll, Before
  <2> QED
    BY <2>2, <2>3, <2>4, <2>5, <2>6 DEF BrowserInv
<1>2. ASSUME NEW l \in Launches, Browser!Cancel(l)
      PROVE  BrowserInv'
  <2>1. UNCHANGED <<stage, browser, settled, sessions, profiles, ended, closeCall, purging,
                    managerClosed>>
    BY <1>2, <1>a, <1>b DEF Browser!Cancel, Browser!sessionVars, Browser!launchVars
  <2>2. BrowserTypes'
    BY <1>a, <1>b, <2>1 DEF BrowserTypes, Browser!Stages
  <2>3. Registered'
    BY <1>a, <1>b, <1>c, <2>1 DEF Registered
  <2>4. Closing'
    BY <1>a, <1>b, <1>c, <2>1 DEF Closing, Registered
  <2>5. Purges'
    <3>1. SUFFICES ASSUME NEW p \in Browser!Launchers PROVE PurgeHolds(p, <<"purge", p>>)'
      BY DEF Purges
    <3> DEFINE k == <<"purge", p>>
    <3>2. k \in Browser!Calls /\ PurgeHolds(p, k)
      BY <1>a, CallKeys DEF Purges
    <3>3. /\ k[1] = "purge" /\ \A y : <<"purge", y>> = k => y = p
          /\ \A x : <<"launch", x>> # k /\ <<"timer", x>> # k /\ <<"all", None>> # k
          /\ \A d \in Browser!Calls : d[1] = "purge" /\ d[2] = p => d = k
      BY CallKeys
    <3> HIDE DEF k
    <3>4. PurgeHolds(p, k)'
      BY <1>a, <1>b, <1>c, <2>1, <3>2, <3>3 DEF PurgeHolds, Before
    <3> QED
      BY <3>4 DEF k
  <2>6. ClosesAll'
    BY <1>a, <1>b, <1>c, <2>1 DEF ClosesAll, Before
  <2> QED
    BY <2>2, <2>3, <2>4, <2>5, <2>6 DEF BrowserInv
<1>3. ASSUME NEW l \in Launches, Browser!GiveUp(l)
      PROVE  BrowserInv'
  <2>1. /\ stage[l] = "trying" /\ stage' = [stage EXCEPT ![l] = "failed"]
        /\ UNCHANGED <<browser, settled, sessions, profiles, ended, closeCall, purging,
                       managerClosed>>
    BY <1>3, <1>a, <1>b DEF Browser!GiveUp, Browser!sessionVars, Browser!launchVars
  <2>2. BrowserTypes'
    BY <1>a, <1>b, <2>1 DEF BrowserTypes, Browser!Stages
  <2>3. Registered'
    BY <1>a, <1>b, <1>c, <2>1 DEF Registered
  <2>4. Closing'
    BY <1>a, <1>b, <1>c, <2>1 DEF Closing, Registered
  <2>5. Purges'
    <3>1. SUFFICES ASSUME NEW p \in Browser!Launchers PROVE PurgeHolds(p, <<"purge", p>>)'
      BY DEF Purges
    <3> DEFINE k == <<"purge", p>>
    <3>2. k \in Browser!Calls /\ PurgeHolds(p, k)
      BY <1>a, CallKeys DEF Purges
    <3>3. /\ k[1] = "purge" /\ \A y : <<"purge", y>> = k => y = p
          /\ \A x : <<"launch", x>> # k /\ <<"timer", x>> # k /\ <<"all", None>> # k
          /\ \A d \in Browser!Calls : d[1] = "purge" /\ d[2] = p => d = k
      BY CallKeys
    <3> HIDE DEF k
    <3>4. PurgeHolds(p, k)'
      BY <1>a, <1>b, <1>c, <2>1, <3>2, <3>3 DEF PurgeHolds, Before
    <3> QED
      BY <3>4 DEF k
  <2>6. ClosesAll'
    BY <1>a, <1>b, <1>c, <2>1 DEF ClosesAll, Before
  <2> QED
    BY <2>2, <2>3, <2>4, <2>5, <2>6 DEF BrowserInv
<1>4. ASSUME NEW l \in Launches, Browser!Attempt(l)
      PROVE  BrowserInv'
  <2>1. /\ stage[l] = "trying"
        /\ \/ stage' = [stage EXCEPT ![l] = "starting"] /\ browser' = [browser EXCEPT ![l] = TRUE]
           \/ stage' = [stage EXCEPT ![l] = "opened"] /\ browser' = browser
           \/ UNCHANGED <<stage, browser>>
        /\ UNCHANGED <<settled, sessions, profiles, ended, closeCall, purging, managerClosed>>
    BY <1>4, <1>a, <1>b DEF Browser!Attempt, Browser!sessionVars, Browser!launchVars
  <2>2. BrowserTypes'
    BY <1>a, <1>b, <2>1 DEF BrowserTypes, Browser!Stages
  <2>3. Registered'
    BY <1>a, <1>b, <1>c, <2>1 DEF Registered
  <2>4. Closing'
    BY <1>a, <1>b, <1>c, <2>1 DEF Closing, Registered
  <2>5. Purges'
    <3>1. SUFFICES ASSUME NEW p \in Browser!Launchers PROVE PurgeHolds(p, <<"purge", p>>)'
      BY DEF Purges
    <3> DEFINE k == <<"purge", p>>
    <3>2. k \in Browser!Calls /\ PurgeHolds(p, k)
      BY <1>a, CallKeys DEF Purges
    <3>3. /\ k[1] = "purge" /\ \A y : <<"purge", y>> = k => y = p
          /\ \A x : <<"launch", x>> # k /\ <<"timer", x>> # k /\ <<"all", None>> # k
          /\ \A d \in Browser!Calls : d[1] = "purge" /\ d[2] = p => d = k
      BY CallKeys
    <3> HIDE DEF k
    <3>4. PurgeHolds(p, k)'
      BY <1>a, <1>b, <1>c, <2>1, <3>2, <3>3 DEF PurgeHolds, Before
    <3> QED
      BY <3>4 DEF k
  <2>6. ClosesAll'
    BY <1>a, <1>b, <1>c, <2>1 DEF ClosesAll, Before
  <2> QED
    BY <2>2, <2>3, <2>4, <2>5, <2>6 DEF BrowserInv
<1>5. ASSUME NEW l \in Launches, Browser!Started(l)
      PROVE  BrowserInv'
  <2>1. /\ stage[l] = "starting"
        /\ \E s \in {"opened", "trying", "failed"} : stage' = [stage EXCEPT ![l] = s]
        /\ browser' = browser \/ browser' = [browser EXCEPT ![l] = FALSE]
        /\ UNCHANGED <<settled, sessions, profiles, ended, closeCall, purging, managerClosed>>
    BY <1>5, <1>a, <1>b DEF Browser!Started, Browser!sessionVars, Browser!launchVars
  <2>2. BrowserTypes'
    BY <1>a, <1>b, <2>1 DEF BrowserTypes, Browser!Stages
  <2>3. Registered'
    BY <1>a, <1>b, <1>c, <2>1 DEF Registered
  <2>4. Closing'
    BY <1>a, <1>b, <1>c, <2>1 DEF Closing, Registered
  <2>5. Purges'
    <3>1. SUFFICES ASSUME NEW p \in Browser!Launchers PROVE PurgeHolds(p, <<"purge", p>>)'
      BY DEF Purges
    <3> DEFINE k == <<"purge", p>>
    <3>2. k \in Browser!Calls /\ PurgeHolds(p, k)
      BY <1>a, CallKeys DEF Purges
    <3>3. /\ k[1] = "purge" /\ \A y : <<"purge", y>> = k => y = p
          /\ \A x : <<"launch", x>> # k /\ <<"timer", x>> # k /\ <<"all", None>> # k
          /\ \A d \in Browser!Calls : d[1] = "purge" /\ d[2] = p => d = k
      BY CallKeys
    <3> HIDE DEF k
    <3>4. PurgeHolds(p, k)'
      BY <1>a, <1>b, <1>c, <2>1, <3>2, <3>3 DEF PurgeHolds, Before
    <3> QED
      BY <3>4 DEF k
  <2>6. ClosesAll'
    BY <1>a, <1>b, <1>c, <2>1 DEF ClosesAll, Before
  <2> QED
    BY <2>2, <2>3, <2>4, <2>5, <2>6 DEF BrowserInv
<1>6. ASSUME NEW l \in Launches, Browser!Settle(l)
      PROVE  BrowserInv'
  <2>1. /\ stage[l] \in {"opened", "failed"} /\ settled' = [settled EXCEPT ![l] = TRUE]
        /\ \E s \in {"live", "returned"} : stage' = [stage EXCEPT ![l] = s]
        /\ \/ closeCall' = closeCall
           \/ Becomes(<<"launch", l>>, "called", closeCall[<<"launch", l>>].target, {l}, closeCall[<<"launch", l>>].failed)
        /\ UNCHANGED <<browser, sessions, profiles, ended, purging, managerClosed>>
    BY <1>6, <1>b, CallKeys, CallBecomes DEF Browser!Settle, CallPhases
  <2>7. /\ \A p \in Browser!Launchers : <<"purge", p>> \in Browser!Calls /\ <<"launch", l>> # <<"purge", p>>
        /\ <<"all", None>> \in Browser!Calls /\ <<"launch", l>> # <<"all", None>>
    BY CallKeys
  <2>2. BrowserTypes'
    BY <1>a, <1>b, <2>1 DEF BrowserTypes, Browser!Stages, Becomes
  <2>3. Registered'
    BY <1>a, <1>b, <1>c, <2>1 DEF Registered
  <2>4. Closing'
    BY <1>a, <1>b, <1>c, <2>1 DEF Closing, Becomes
  <2>5. Purges'
    <3>1. SUFFICES ASSUME NEW p \in Browser!Launchers PROVE PurgeHolds(p, <<"purge", p>>)'
      BY DEF Purges
    <3> DEFINE k == <<"purge", p>>
    <3>2. k \in Browser!Calls /\ PurgeHolds(p, k)
      BY <1>a, CallKeys DEF Purges
    <3>3. /\ k[1] = "purge" /\ \A y : <<"purge", y>> = k => y = p
          /\ \A x : <<"launch", x>> # k /\ <<"timer", x>> # k /\ <<"all", None>> # k
          /\ \A d \in Browser!Calls : d[1] = "purge" /\ d[2] = p => d = k
      BY CallKeys
    <3> HIDE DEF k
    <3>4. PurgeHolds(p, k)'
      BY <1>a, <1>b, <1>c, <2>1, <3>2, <3>3 DEF PurgeHolds, Before, Becomes
    <3> QED
      BY <3>4 DEF k
  <2>6. ClosesAll'
    BY <1>a, <1>b, <1>c, <2>1, <2>7 DEF ClosesAll, Before, Becomes
  <2> QED
    BY <2>2, <2>3, <2>4, <2>5, <2>6 DEF BrowserInv
<1>7. ASSUME NEW l \in Launches, Browser!Fire(l)
      PROVE  BrowserInv'
  <2>1. /\ Becomes(<<"timer", l>>, "called", closeCall[<<"timer", l>>].target, {l}, closeCall[<<"timer", l>>].failed)
        /\ UNCHANGED <<stage, browser, settled, sessions, profiles, ended, purging, managerClosed>>
    BY <1>7, <1>b, CallKeys, CallBecomes DEF Browser!Fire, Browser!launchVars, CallPhases
  <2>7. /\ \A p \in Browser!Launchers : <<"purge", p>> \in Browser!Calls /\ <<"timer", l>> # <<"purge", p>>
        /\ <<"all", None>> \in Browser!Calls /\ <<"timer", l>> # <<"all", None>>
    BY CallKeys
  <2>2. BrowserTypes'
    BY <1>a, <1>b, <2>1 DEF BrowserTypes, Becomes
  <2>3. Registered'
    BY <1>a, <1>b, <1>c, <2>1 DEF Registered
  <2>4. Closing'
    BY <1>a, <1>b, <1>c, <2>1 DEF Closing, Becomes
  <2>5. Purges'
    <3>1. SUFFICES ASSUME NEW p \in Browser!Launchers PROVE PurgeHolds(p, <<"purge", p>>)'
      BY DEF Purges
    <3> DEFINE k == <<"purge", p>>
    <3>2. k \in Browser!Calls /\ PurgeHolds(p, k)
      BY <1>a, CallKeys DEF Purges
    <3>3. /\ k[1] = "purge" /\ \A y : <<"purge", y>> = k => y = p
          /\ \A x : <<"launch", x>> # k /\ <<"timer", x>> # k /\ <<"all", None>> # k
          /\ \A d \in Browser!Calls : d[1] = "purge" /\ d[2] = p => d = k
      BY CallKeys
    <3> HIDE DEF k
    <3>4. PurgeHolds(p, k)'
      BY <1>a, <1>b, <1>c, <2>1, <3>2, <3>3 DEF PurgeHolds, Before, Becomes
    <3> QED
      BY <3>4 DEF k
  <2>6. ClosesAll'
    BY <1>a, <1>b, <1>c, <2>1, <2>7 DEF ClosesAll, Before, Becomes
  <2> QED
    BY <2>2, <2>3, <2>4, <2>5, <2>6 DEF BrowserInv
<1>8. ASSUME NEW c \in Browser!Calls, Browser!CloseOwn(c)
      PROVE  BrowserInv'
  <2>1. /\ c[1] = "owner" /\ Becomes(c, "called", closeCall[c].target, {c[2]}, closeCall[c].failed)
        /\ UNCHANGED <<stage, browser, settled, sessions, profiles, ended, purging, managerClosed>>
    BY <1>8, <1>b, CallKeys, CallBecomes
       DEF Browser!CloseOwn, Browser!CallClose, Browser!sessionVars, Browser!launchVars, CallPhases
  <2>7. /\ \A p \in Browser!Launchers : <<"purge", p>> \in Browser!Calls /\ c # <<"purge", p>>
        /\ <<"all", None>> \in Browser!Calls /\ c # <<"all", None>>
    BY <2>1, CallKeys
  <2>2. BrowserTypes'
    BY <1>a, <1>b, <2>1 DEF BrowserTypes, Becomes
  <2>3. Registered'
    BY <1>a, <1>b, <1>c, <2>1 DEF Registered
  <2>4. Closing'
    BY <1>a, <1>b, <1>c, <2>1 DEF Closing, Becomes
  <2>5. Purges'
    <3>1. SUFFICES ASSUME NEW p \in Browser!Launchers PROVE PurgeHolds(p, <<"purge", p>>)'
      BY DEF Purges
    <3> DEFINE k == <<"purge", p>>
    <3>2. k \in Browser!Calls /\ PurgeHolds(p, k)
      BY <1>a, CallKeys DEF Purges
    <3>3. /\ k[1] = "purge" /\ \A y : <<"purge", y>> = k => y = p
          /\ \A x : <<"launch", x>> # k /\ <<"timer", x>> # k /\ <<"all", None>> # k
          /\ \A d \in Browser!Calls : d[1] = "purge" /\ d[2] = p => d = k
      BY CallKeys
    <3> HIDE DEF k
    <3>4. PurgeHolds(p, k)'
      BY <1>a, <1>b, <1>c, <2>1, <3>2, <3>3 DEF PurgeHolds, Before, Becomes
    <3> QED
      BY <3>4 DEF k
  <2>6. ClosesAll'
    BY <1>a, <1>b, <1>c, <2>1, <2>7 DEF ClosesAll, Before, Becomes
  <2> QED
    BY <2>2, <2>3, <2>4, <2>5, <2>6 DEF BrowserInv
<1>9. ASSUME NEW q \in Browser!Launchers, Browser!Purge(q)
      PROVE  BrowserInv'
  <2>1. /\ closeCall[<<"purge", q>>].phase = "idle"
        /\ Becomes(<<"purge", q>>, "called", closeCall[<<"purge", q>>].target,
                   {l \in sessions : LauncherOf[l] = q}, closeCall[<<"purge", q>>].failed)
        /\ purging' = purging \cup {q}
        /\ UNCHANGED <<stage, browser, settled, sessions, profiles, ended, managerClosed>>
    BY <1>9, <1>b, CallKeys, CallBecomes
       DEF Browser!Purge, Browser!CallClose, Browser!sessionVars, Browser!launchVars, CallPhases
  <2>2. BrowserTypes'
    BY <1>a, <1>b, <2>1 DEF BrowserTypes, Becomes
  <2>3. Registered'
    BY <1>a, <1>b, <1>c, <2>1 DEF Registered
  <2>4. Closing'
    BY <1>a, <1>b, <1>c, <2>1 DEF Closing, Becomes
  <2>5. Purges'
    <3>1. SUFFICES ASSUME NEW p \in Browser!Launchers PROVE PurgeHolds(p, <<"purge", p>>)'
      BY DEF Purges
    <3> DEFINE k == <<"purge", p>>
    <3>2. k \in Browser!Calls /\ PurgeHolds(p, k)
      BY <1>a, CallKeys DEF Purges
    <3>3. /\ k[1] = "purge" /\ \A y : <<"purge", y>> = k => y = p
          /\ \A x : <<"launch", x>> # k /\ <<"timer", x>> # k /\ <<"all", None>> # k
          /\ \A d \in Browser!Calls : d[1] = "purge" /\ d[2] = p => d = k
      BY CallKeys
    <3> HIDE DEF k
    <3>4. PurgeHolds(p, k)'
      BY <1>a, <1>b, <1>c, <2>1, <3>2, <3>3 DEF PurgeHolds, Before, Becomes
    <3> QED
      BY <3>4 DEF k
  <2>6. ClosesAll'
    BY <1>a, <1>b, <1>c, <2>1, CallKeys DEF ClosesAll, Before, Becomes
  <2> QED
    BY <2>2, <2>3, <2>4, <2>5, <2>6 DEF BrowserInv
<1>10. ASSUME Browser!CloseAll
      PROVE  BrowserInv'
  <2>1. /\ Becomes(<<"all", None>>, "called", closeCall[<<"all", None>>].target, sessions,
                   closeCall[<<"all", None>>].failed)
        /\ managerClosed' = TRUE
        /\ UNCHANGED <<stage, browser, settled, sessions, profiles, ended, purging>>
    BY <1>10, <1>b, CallKeys, CallBecomes
       DEF Browser!CloseAll, Browser!CallClose, Browser!sessionVars, Browser!launchVars, CallPhases
  <2>2. BrowserTypes'
    BY <1>a, <1>b, <2>1 DEF BrowserTypes, Becomes
  <2>3. Registered'
    BY <1>a, <1>b, <1>c, <2>1 DEF Registered
  <2>4. Closing'
    BY <1>a, <1>b, <1>c, <2>1 DEF Closing, Becomes
  <2>5. Purges'
    <3>1. SUFFICES ASSUME NEW p \in Browser!Launchers PROVE PurgeHolds(p, <<"purge", p>>)'
      BY DEF Purges
    <3> DEFINE k == <<"purge", p>>
    <3>2. k \in Browser!Calls /\ PurgeHolds(p, k)
      BY <1>a, CallKeys DEF Purges
    <3>3. /\ k[1] = "purge" /\ \A y : <<"purge", y>> = k => y = p
          /\ \A x : <<"launch", x>> # k /\ <<"timer", x>> # k /\ <<"all", None>> # k
          /\ \A d \in Browser!Calls : d[1] = "purge" /\ d[2] = p => d = k
      BY CallKeys
    <3> HIDE DEF k
    <3>4. PurgeHolds(p, k)'
      BY <1>a, <1>b, <1>c, <2>1, <3>2, <3>3 DEF PurgeHolds, Before, Becomes
    <3> QED
      BY <3>4 DEF k
  <2>6. ClosesAll'
    BY <1>a, <1>b, <1>c, <2>1, CallKeys DEF ClosesAll, Before, Becomes
  <2> QED
    BY <2>2, <2>3, <2>4, <2>5, <2>6 DEF BrowserInv
<1>11. ASSUME NEW c \in Browser!Calls, Browser!Mark(c)
      PROVE  BrowserInv'
  <2>1. /\ closeCall[c].phase = "called"
        /\ \E l \in closeCall[c].todo :
             \/ /\ l \in sessions
                /\ Becomes(c, "marked", l, closeCall[c].todo \ {l}, closeCall[c].failed)
             \/ /\ l \notin sessions
                /\ Becomes(c, "called", closeCall[c].target, closeCall[c].todo \ {l}, closeCall[c].failed)
        /\ UNCHANGED <<stage, browser, settled, sessions, profiles, ended, purging, managerClosed>>
    <3>1. PICK l \in closeCall[c].todo :
            \/ l \in sessions /\ closeCall' = [closeCall EXCEPT ![c].phase = "marked", ![c].target = l, ![c].todo = @ \ {l}]
            \/ l \notin sessions /\ closeCall' = [closeCall EXCEPT ![c].todo = @ \ {l}]
      BY <1>11, Zenon DEF Browser!Mark
    <3>2. l \in Launches /\ closeCall[c].todo \ {l} \in SUBSET Launches /\ closeCall[c].failed \in BOOLEAN
      BY <1>c
    <3>3. closeCall' = [closeCall EXCEPT ![c].phase = "marked", ![c].target = l, ![c].todo = closeCall[c].todo \ {l}] =>
            Becomes(c, "marked", l, closeCall[c].todo \ {l}, closeCall[c].failed)
      BY <1>b, <3>2, CallBecomes DEF CallPhases
    <3>4. closeCall' = [closeCall EXCEPT ![c].todo = closeCall[c].todo \ {l}] =>
            Becomes(c, closeCall[c].phase, closeCall[c].target, closeCall[c].todo \ {l}, closeCall[c].failed)
      BY <1>b, <1>c, <3>2, CallBecomes
    <3> QED
      BY <1>11, <3>1, <3>3, <3>4 DEF Browser!Mark
  <2>2. BrowserTypes'
    BY <1>a, <1>b, <2>1 DEF BrowserTypes, Becomes
  <2>3. Registered'
    BY <1>a, <1>b, <1>c, <2>1 DEF Registered
  <2>4. Closing'
    BY <1>a, <1>b, <1>c, <2>1 DEF Closing, Becomes
  <2>5. Purges'
    <3>1. SUFFICES ASSUME NEW p \in Browser!Launchers PROVE PurgeHolds(p, <<"purge", p>>)'
      BY DEF Purges
    <3> DEFINE k == <<"purge", p>>
    <3>2. k \in Browser!Calls /\ PurgeHolds(p, k)
      BY <1>a, CallKeys DEF Purges
    <3>3. /\ k[1] = "purge" /\ \A y : <<"purge", y>> = k => y = p
          /\ \A x : <<"launch", x>> # k /\ <<"timer", x>> # k /\ <<"all", None>> # k
          /\ \A d \in Browser!Calls : d[1] = "purge" /\ d[2] = p => d = k
      BY CallKeys
    <3> HIDE DEF k
    <3>4. PurgeHolds(p, k)'
      BY <1>a, <1>b, <1>c, <2>1, <3>2, <3>3 DEF PurgeHolds, Before, Becomes, Registered, Closing
    <3> QED
      BY <3>4 DEF k
  <2>6. ClosesAll'
    BY <1>a, <1>b, <1>c, <2>1, CallKeys DEF ClosesAll, Before, Becomes, Registered, Closing
  <2> QED
    BY <2>2, <2>3, <2>4, <2>5, <2>6 DEF BrowserInv
<1>12. ASSUME NEW c \in Browser!Calls, Browser!Closed(c)
      PROVE  BrowserInv'
  <2>1. /\ closeCall[c].phase = "marked" /\ closeCall[c].target \in ended
        /\ Becomes(c, "called", None, closeCall[c].todo, closeCall[c].failed)
        /\ UNCHANGED <<stage, browser, settled, sessions, profiles, ended, purging, managerClosed>>
    BY <1>12, <1>b, <1>c, CallBecomes
       DEF Browser!Closed, Browser!sessionVars, Browser!launchVars, CallPhases
  <2>2. BrowserTypes'
    BY <1>a, <1>b, <2>1 DEF BrowserTypes, Becomes
  <2>3. Registered'
    BY <1>a, <1>b, <1>c, <2>1 DEF Registered
  <2>4. Closing'
    BY <1>a, <1>b, <1>c, <2>1 DEF Closing, Becomes
  <2>5. Purges'
    <3>1. SUFFICES ASSUME NEW p \in Browser!Launchers PROVE PurgeHolds(p, <<"purge", p>>)'
      BY DEF Purges
    <3> DEFINE k == <<"purge", p>>
    <3>2. k \in Browser!Calls /\ PurgeHolds(p, k)
      BY <1>a, CallKeys DEF Purges
    <3>3. /\ k[1] = "purge" /\ \A y : <<"purge", y>> = k => y = p
          /\ \A x : <<"launch", x>> # k /\ <<"timer", x>> # k /\ <<"all", None>> # k
          /\ \A d \in Browser!Calls : d[1] = "purge" /\ d[2] = p => d = k
      BY CallKeys
    <3> HIDE DEF k
    <3>4. PurgeHolds(p, k)'
      BY <1>a, <1>b, <1>c, <2>1, <3>2, <3>3 DEF PurgeHolds, Before, Becomes, Registered, Closing
    <3> QED
      BY <3>4 DEF k
  <2>6. ClosesAll'
    BY <1>a, <1>b, <1>c, <2>1, CallKeys DEF ClosesAll, Before, Becomes, Registered, Closing
  <2> QED
    BY <2>2, <2>3, <2>4, <2>5, <2>6 DEF BrowserInv
<1>13. ASSUME NEW c \in Browser!Calls, Browser!CleanUp(c)
      PROVE  BrowserInv'
  <2>1. /\ closeCall[c].phase = "marked" /\ settled[closeCall[c].target]
        /\ \/ /\ Becomes(c, "clean", closeCall[c].target, closeCall[c].todo, closeCall[c].failed)
              /\ browser' = [browser EXCEPT ![closeCall[c].target] = FALSE]
           \/ /\ browser' = browser
              /\ \E todo \in SUBSET Launches :
                   /\ Becomes(c, "called", None, todo, c[1] \in {"purge", "all"})
        /\ UNCHANGED <<stage, settled, sessions, profiles, ended, purging, managerClosed>>
    <3> DEFINE todo == IF c[1] = "all" THEN closeCall[c].todo ELSE {}
               failed == c[1] \in {"purge", "all"}
    <3>1. todo \in SUBSET Launches /\ failed \in BOOLEAN
      BY <1>c
    <3>2. closeCall' = [closeCall EXCEPT ![c].phase = "called", ![c].target = None, ![c].todo = todo,
                               ![c].failed = failed] =>
            Becomes(c, "called", None, todo, failed)
      <4> HIDE DEF todo, failed
      <4> SUFFICES ASSUME closeCall' = [closeCall EXCEPT ![c].phase = "called", ![c].target = None, ![c].todo = todo,
                                               ![c].failed = failed]
                   PROVE  Becomes(c, "called", None, todo, failed)
        OBVIOUS
      <4>0. closeCall' = [closeCall EXCEPT ![c].phase = "called", ![c].target = None, ![c].todo = todo,
                                 ![c].failed = failed]
        OBVIOUS
      <4>9. "called" \in CallPhases /\ closeCall[c] \in Closings /\ closeCall \in [Browser!Calls -> Closings]
        BY <1>b DEF CallPhases
      <4>1. /\ closeCall'[c].phase = "called" /\ closeCall'[c].target = None
            /\ closeCall'[c].todo = todo /\ closeCall'[c].failed = failed
        BY <3>1, <4>0, <4>9 DEF Closings
      <4>2. closeCall' \in [Browser!Calls -> Closings]
        <5> DEFINE r == [[closeCall[c] EXCEPT !.phase = "called", !.target = None] EXCEPT !.todo = todo]
        <5>1. r \in Closings
          BY <3>1, <4>9 DEF Closings
        <5>2. [r EXCEPT !.failed = failed] \in Closings
          <6> HIDE DEF r
          <6> QED
            BY <3>1, <5>1 DEF Closings
        <5>3. closeCall'[c] = [r EXCEPT !.failed = failed]
          BY <3>1, <4>0, <4>9
        <5>4. DOMAIN closeCall' = Browser!Calls /\ \A d \in Browser!Calls : d # c => closeCall'[d] = closeCall[d]
          BY <3>1, <4>0, <4>9
        <5>5. closeCall' = [d \in Browser!Calls |-> closeCall'[d]]
          BY <3>1, <4>0, <4>9
        <5> HIDE DEF r
        <5> QED
          BY <4>9, <5>2, <5>3, <5>4, <5>5
      <4>3. \A d \in Browser!Calls : d # c => closeCall'[d] = closeCall[d]
        BY <3>1, <4>0, <4>9
      <4> QED
        BY <4>1, <4>2, <4>3 DEF Becomes
    <3>3. closeCall' = [closeCall EXCEPT ![c].phase = "clean"] =>
            Becomes(c, "clean", closeCall[c].target, closeCall[c].todo, closeCall[c].failed)
      BY <1>b, <1>c, CallBecomes DEF CallPhases
    <3>4. /\ closeCall[c].phase = "marked" /\ settled[closeCall[c].target]
          /\ \/ /\ closeCall' = [closeCall EXCEPT ![c].phase = "clean"]
                /\ browser' = [browser EXCEPT ![closeCall[c].target] = FALSE]
             \/ /\ browser' = browser
                /\ closeCall' = [closeCall EXCEPT ![c].phase = "called", ![c].target = None, ![c].todo = todo,
                                         ![c].failed = failed]
          /\ UNCHANGED <<stage, settled, sessions, profiles, ended, purging, managerClosed>>
      BY <1>13 DEF Browser!CleanUp, Browser!launchVars
    <3> HIDE DEF todo
    <3> QED
      BY <3>1, <3>2, <3>3, <3>4
  <2>2. BrowserTypes'
    BY <1>a, <1>b, <2>1 DEF BrowserTypes, Becomes
  <2>3. Registered'
    BY <1>a, <1>b, <1>c, <2>1 DEF Registered
  <2>4. Closing'
    BY <1>a, <1>b, <1>c, <2>1 DEF Closing, Becomes
  <2>5. Purges'
    <3>1. SUFFICES ASSUME NEW p \in Browser!Launchers PROVE PurgeHolds(p, <<"purge", p>>)'
      BY DEF Purges
    <3> DEFINE k == <<"purge", p>>
    <3>2. k \in Browser!Calls /\ PurgeHolds(p, k)
      BY <1>a, CallKeys DEF Purges
    <3>3. /\ k[1] = "purge" /\ \A y : <<"purge", y>> = k => y = p
          /\ \A x : <<"launch", x>> # k /\ <<"timer", x>> # k /\ <<"all", None>> # k
          /\ \A d \in Browser!Calls : d[1] = "purge" /\ d[2] = p => d = k
      BY CallKeys
    <3> HIDE DEF k
    <3>4. PurgeHolds(p, k)'
      BY <1>a, <1>b, <1>c, <2>1, <3>2, <3>3 DEF PurgeHolds, Before, Becomes, Registered, Closing
    <3> QED
      BY <3>4 DEF k
  <2>6. ClosesAll'
    BY <1>a, <1>b, <1>c, <2>1, CallKeys DEF ClosesAll, Before, Becomes, Registered, Closing
  <2> QED
    BY <2>2, <2>3, <2>4, <2>5, <2>6 DEF BrowserInv
<1>14. ASSUME NEW c \in Browser!Calls, Browser!Forget(c)
      PROVE  BrowserInv'
  <2>1. /\ closeCall[c].phase = "clean" /\ sessions' = sessions \ {closeCall[c].target}
        /\ profiles' = [profiles EXCEPT ![ProfileOf[closeCall[c].target]] = IF @ = closeCall[c].target THEN None ELSE @]
        /\ ended' = ended \cup {closeCall[c].target}
        /\ Becomes(c, "called", None, closeCall[c].todo, closeCall[c].failed)
        /\ UNCHANGED <<stage, browser, settled, purging, managerClosed>>
    BY <1>14, <1>b, <1>c, CallBecomes DEF Browser!Forget, Browser!launchVars, CallPhases
  <2>2. BrowserTypes'
    BY <1>a, <1>b, <2>1 DEF BrowserTypes, Becomes, Closing
  <2>3. Registered'
    BY <1>a, <1>b, <1>c, <2>1 DEF Registered, Closing
  <2>4. Closing'
    BY <1>a, <1>b, <1>c, <2>1 DEF Closing, Becomes
  <2>5. Purges'
    <3>1. SUFFICES ASSUME NEW p \in Browser!Launchers PROVE PurgeHolds(p, <<"purge", p>>)'
      BY DEF Purges
    <3> DEFINE k == <<"purge", p>>
    <3>2. k \in Browser!Calls /\ PurgeHolds(p, k)
      BY <1>a, CallKeys DEF Purges
    <3>3. /\ k[1] = "purge" /\ \A y : <<"purge", y>> = k => y = p
          /\ \A x : <<"launch", x>> # k /\ <<"timer", x>> # k /\ <<"all", None>> # k
          /\ \A d \in Browser!Calls : d[1] = "purge" /\ d[2] = p => d = k
      BY CallKeys
    <3> HIDE DEF k
    <3>4. PurgeHolds(p, k)'
      BY <1>a, <1>b, <1>c, <2>1, <3>2, <3>3 DEF PurgeHolds, Before, Becomes, Registered, Closing
    <3> QED
      BY <3>4 DEF k
  <2>6. ClosesAll'
    BY <1>a, <1>b, <1>c, <2>1, CallKeys DEF ClosesAll, Before, Becomes, Registered, Closing
  <2> QED
    BY <2>2, <2>3, <2>4, <2>5, <2>6 DEF BrowserInv
<1>15. ASSUME NEW c \in Browser!Calls, Browser!Return(c)
      PROVE  BrowserInv'
  <2>1. /\ \/ closeCall[c].phase = "called" /\ closeCall[c].todo = {}
           \/ closeCall[c].phase = "removing"
        /\ \/ /\ c[1] = "purge" /\ closeCall[c].phase = "called" /\ ~closeCall[c].failed /\ purging' = purging
              /\ Becomes(c, "removing", closeCall[c].target, closeCall[c].todo, closeCall[c].failed)
           \/ /\ c[1] \in {"timer", "launch"} /\ Becomes(c, "idle", None, {}, FALSE) /\ purging' = purging
           \/ /\ purging' = IF c[1] = "purge" THEN purging \ {c[2]} ELSE purging
              /\ Becomes(c, "returned", closeCall[c].target, closeCall[c].todo, closeCall[c].failed)
        /\ UNCHANGED <<stage, browser, settled, sessions, profiles, ended, managerClosed>>
    BY <1>15, <1>b, <1>c, CallBecomes
       DEF Browser!Return, Browser!sessionVars, Browser!launchVars, CallPhases
  <2>2. BrowserTypes'
    BY <1>a, <1>b, <2>1 DEF BrowserTypes, Becomes
  <2>3. Registered'
    BY <1>a, <1>b, <1>c, <2>1 DEF Registered
  <2>4. Closing'
    BY <1>a, <1>b, <1>c, <2>1 DEF Closing, Becomes
  <2>5. Purges'
    <3>1. SUFFICES ASSUME NEW p \in Browser!Launchers PROVE PurgeHolds(p, <<"purge", p>>)'
      BY DEF Purges
    <3> DEFINE k == <<"purge", p>>
    <3>2. k \in Browser!Calls /\ PurgeHolds(p, k)
      BY <1>a, CallKeys DEF Purges
    <3>3. /\ k[1] = "purge" /\ \A y : <<"purge", y>> = k => y = p
          /\ \A x : <<"launch", x>> # k /\ <<"timer", x>> # k /\ <<"all", None>> # k
          /\ \A d \in Browser!Calls : d[1] = "purge" /\ d[2] = p => d = k
      BY CallKeys
    <3> HIDE DEF k
    <3>4. PurgeHolds(p, k)'
      BY <1>a, <1>b, <1>c, <2>1, <3>2, <3>3 DEF PurgeHolds, Before, Becomes, Registered, Closing
    <3> QED
      BY <3>4 DEF k
  <2>6. ClosesAll'
    BY <1>a, <1>b, <1>c, <2>1, CallKeys DEF ClosesAll, Before, Becomes, Registered, Closing
  <2> QED
    BY <2>2, <2>3, <2>4, <2>5, <2>6 DEF BrowserInv
<1>16. CASE UNCHANGED Browser!vars
  <2>1. UNCHANGED <<stage, browser, settled, sessions, profiles, ended, closeCall, purging,
                    managerClosed>>
    BY <1>16 DEF Browser!vars, Browser!launchVars, Browser!sessionVars
  <2> QED
    BY <1>a, <2>1
       DEF BrowserInv, BrowserTypes, Registered, Closing, Purges, PurgeHolds, ClosesAll, Before
<1> QED
  BY <1>1, <1>2, <1>3, <1>4, <1>5, <1>6, <1>7, <1>8, <1>9, <1>10, <1>11, <1>12, <1>13, <1>14,
     <1>15, <1>16 DEF Browser!Next, Browser!LaunchStep, Browser!CloseStep

\* No browser of a plugin is orphaned, for all plugins, launches and calls: one that runs has its
\* session and its profile, and a purge or a CloseAll that says so leaves none.
THEOREM BrowsersKeepOwners ==
  ASSUME Browser!BrowserAssumption
  PROVE  Browser!Spec => []BrowsersOwned
<1>1. Browser!Init => BrowserInv
  BY BrowserInit
<1>2. BrowserInv /\ [Browser!Next]_Browser!vars => BrowserInv'
  BY BrowserStep
<1>3. BrowserInv => BrowsersOwned
  BY BrowsersHaveOwners DEF BrowsersOwned
<1> QED
  BY <1>1, <1>2, <1>3, PTL DEF Browser!Spec

------------------------------------------------------------------------------
\* Rendering: a slot for every render, and one browser for all of them.

\* Where a request is: with a slot, inside the worker, and with a runner in its hands.
SlottedAt == {"taken", "holding", "entering", "starting", "rendering", "resetting", "leaving"}
InsideAt == SlottedAt \cup {"waiting", "released"}
UsingAt == {"entering", "starting", "rendering", "resetting"}
RequestPlaces == InsideAt \cup {"idle", "returned"}

Owners == Requests \cup {None}
Runners == [closed : BOOLEAN, mu : Owners, browser : Owners, profile : Owners]
Refreshes == [phase : {"idle", "taking", "swapping", "closing", "giving"}, slots : Nat, old : Nat]

RenderTypes ==
  /\ workerCount \in Nat
  /\ position \in [Requests -> RequestPlaces] /\ using \in [Requests -> Nat]
  /\ closer \in [Closers -> {"idle", "called", "waiting", "returned"}]
  /\ refresh \in Refreshes
  /\ runners \in [DOMAIN runners -> Runners]
  /\ Render!Cardinality(DOMAIN runners) \in Nat
  /\ DOMAIN runners = 1 .. Render!Cardinality(DOMAIN runners)
  /\ running \subseteq Requests

\* Who has the lock of the lifecycle, how far a refresh or Close is, and that there is a runner
\* until Close is complete.
Locked ==
  /\ refresh.phase # "idle" <=> lifecycleMu = "refresh"
  /\ \A c \in Closers : closer[c] = "waiting" <=> lifecycleMu = c
  /\ \A c \in Closers : closer[c] # "idle" => closed
  /\ closeComplete => closed /\ refresh.phase = "idle"
  /\ \A c \in Closers : closer[c] = "waiting" => ~closeComplete
  /\ ~closeComplete => runner \in DOMAIN runners /\ ~runners[runner].closed
  /\ refresh.phase = "idle" => refresh.slots = 0
  /\ refresh.phase \in {"taking", "swapping"} => refresh.old = runner
  /\ refresh.phase \in {"swapping", "closing"} => refresh.slots = workerCount
  /\ refresh.phase = "closing" => refresh.old \in DOMAIN runners /\ refresh.old # runner

\* Only the runner of requests has a browser, or while it is being replaced the old one has.
BrowserAt(k) ==
  /\ ~closeComplete
  /\ IF refresh.phase = "closing" THEN k = refresh.old ELSE k = runner
Owned ==
  /\ \A k \in DOMAIN runners : runners[k].browser # None =>
       /\ ~runners[k].closed /\ BrowserAt(k)
       /\ runners[k].profile = runners[k].browser
  /\ \A b \in running : b \in disk /\ \E k \in DOMAIN runners : runners[k].browser = b
  /\ \A x \in disk : \E k \in DOMAIN runners : runners[k].profile = x

\* A request uses the runner that is current.
Attending ==
  /\ \A r \in Requests : position[r] \in UsingAt => using[r] = runner
  /\ closeComplete => \A r \in Requests : position[r] \notin InsideAt

RenderInv == RenderTypes /\ Locked /\ Owned /\ Attending /\ Render!SlotsCounted

\* The instance counts as FiniteSets does.
LEMMA RenderCardinality == \A S : Render!Cardinality(S) = Cardinality(S)
  BY Zenon DEF Render!Cardinality, Cardinality

\* The same of finiteness.
LEMMA RequestsFinite == ASSUME Render!RenderAssumption PROVE IsFiniteSet(Requests)
<1>1. Render!IsFiniteSet(Requests)
  BY DEF Render!RenderAssumption
<1> QED
  BY <1>1, Zenon DEF Render!IsFiniteSet, IsFiniteSet

\* The requests inside and those with a slot are counted by where they are.
LEMMA RequestsCounted ==
  ASSUME Render!RenderAssumption, RenderTypes
  PROVE  /\ Render!Inside = {r \in Requests : position[r] \in InsideAt}
         /\ Render!Slotted = {r \in Requests : position[r] \in SlottedAt}
         /\ IsFiniteSet(Render!Inside) /\ IsFiniteSet(Render!Slotted)
         /\ Render!Cardinality(Render!Inside) \in Nat
         /\ Render!Cardinality(Render!Slotted) \in Nat
         /\ Render!Cardinality(Render!Inside) = 0 => \A r \in Requests : position[r] \notin InsideAt
         /\ Render!Cardinality(Render!Slotted) = 0 => \A r \in Requests : position[r] \notin SlottedAt
<1>1. Render!Inside = {r \in Requests : position[r] \in InsideAt}
  BY DEF Render!Inside, InsideAt, SlottedAt, RequestPlaces, RenderTypes
<1>2. Render!Slotted = {r \in Requests : position[r] \in SlottedAt}
  BY <1>1 DEF Render!Slotted, InsideAt, SlottedAt
<1>3. IsFiniteSet(Render!Inside) /\ IsFiniteSet(Render!Slotted)
  BY <1>1, <1>2, RequestsFinite, FS_Subset
<1>4. \A S : IsFiniteSet(S) => Render!Cardinality(S) \in Nat /\ (Render!Cardinality(S) = 0 <=> S = {})
  BY FS_CardinalityType, FS_EmptySet, RenderCardinality
<1> QED
  BY <1>1, <1>2, <1>3, <1>4

\* What a step makes of the place of a request, and of the counts.
Moves(r, p) ==
  /\ position' \in [Requests -> RequestPlaces]
  /\ position'[r] = p /\ \A q \in Requests : q # r => position'[q] = position[q]
  /\ Render!Cardinality(Render!Inside)' = Render!Cardinality(Render!Inside) +
       (IF p \in InsideAt /\ position[r] \notin InsideAt THEN 1 ELSE 0) -
       (IF p \notin InsideAt /\ position[r] \in InsideAt THEN 1 ELSE 0)
  /\ Render!Cardinality(Render!Slotted)' = Render!Cardinality(Render!Slotted) +
       (IF p \in SlottedAt /\ position[r] \notin SlottedAt THEN 1 ELSE 0) -
       (IF p \notin SlottedAt /\ position[r] \in SlottedAt THEN 1 ELSE 0)

\* A request that moves changes the counts by one at most.
LEMMA RequestMoves ==
  ASSUME Render!RenderAssumption, RenderTypes, NEW r \in Requests, NEW p \in RequestPlaces,
         position' = [position EXCEPT ![r] = p]
  PROVE  Moves(r, p)
<1>1. /\ position \in [Requests -> RequestPlaces] /\ position' \in [Requests -> RequestPlaces]
      /\ position'[r] = p /\ \A q \in Requests : q # r => position'[q] = position[q]
  BY DEF RenderTypes
<1>2. /\ Render!Inside' = {q \in Requests : position'[q] \in InsideAt}
      /\ Render!Slotted' = {q \in Requests : position'[q] \in SlottedAt}
  BY <1>1 DEF Render!Inside, Render!Slotted, InsideAt, SlottedAt, RequestPlaces
<1>3. ASSUME NEW A, NEW S, NEW T, IsFiniteSet(S),
             S = {q \in Requests : position[q] \in A}, T = {q \in Requests : position'[q] \in A}
      PROVE  Render!Cardinality(T) = Render!Cardinality(S) +
               (IF p \in A /\ position[r] \notin A THEN 1 ELSE 0) -
               (IF p \notin A /\ position[r] \in A THEN 1 ELSE 0)
  <2>1. CASE p \in A <=> position[r] \in A
    <3>1. S = T
      BY <1>1, <1>3, <2>1
    <3>2. Render!Cardinality(S) \in Nat
      BY <1>3, FS_CardinalityType, RenderCardinality
    <3> QED
      BY <2>1, <3>1, <3>2
  <2>2. CASE p \in A /\ position[r] \notin A
    <3>1. T = S \cup {r} /\ r \notin S
      BY <1>1, <1>3, <2>2
    <3>2. Render!Cardinality(T) = Render!Cardinality(S) + 1 /\ Render!Cardinality(S) \in Nat
      BY <1>3, <3>1, FS_AddElement, FS_CardinalityType, RenderCardinality
    <3> QED
      BY <2>2, <3>2
  <2>3. CASE p \notin A /\ position[r] \in A
    <3>1. T = S \ {r} /\ r \in S
      BY <1>1, <1>3, <2>3
    <3>2. Render!Cardinality(T) = Render!Cardinality(S) - 1 /\ Render!Cardinality(S) \in Nat
      BY <1>3, <3>1, FS_RemoveElement, FS_CardinalityType, RenderCardinality
    <3> QED
      BY <2>3, <3>2
  <2> QED
    BY <2>1, <2>2, <2>3
<1>4. /\ Render!Cardinality(Render!Inside') = Render!Cardinality(Render!Inside) +
           (IF p \in InsideAt /\ position[r] \notin InsideAt THEN 1 ELSE 0) -
           (IF p \notin InsideAt /\ position[r] \in InsideAt THEN 1 ELSE 0)
      /\ Render!Cardinality(Render!Slotted') = Render!Cardinality(Render!Slotted) +
           (IF p \in SlottedAt /\ position[r] \notin SlottedAt THEN 1 ELSE 0) -
           (IF p \notin SlottedAt /\ position[r] \in SlottedAt THEN 1 ELSE 0)
  BY <1>2, <1>3, RequestsCounted
<1> QED
  BY <1>1, <1>4 DEF Moves

\* What a step makes of a runner.
RunnerIs(k, shut, owner, files) ==
  /\ runners' \in [DOMAIN runners -> Runners] /\ DOMAIN runners' = DOMAIN runners
  /\ runners'[k].closed = shut /\ runners'[k].browser = owner /\ runners'[k].profile = files
  /\ \A j \in DOMAIN runners : j # k => runners'[j] = runners[j]
Closes(k, shut) ==
  /\ running' = running \ {runners[k].browser}
  /\ \/ RunnerIs(k, shut, None, runners[k].profile) /\ disk' = disk
     \/ RunnerIs(k, shut, None, None) /\ disk' = disk \ {runners[k].profile}

\* Every way a step writes the record of a runner, and what it makes of it.
LEMMA RunnerBecomes ==
  ASSUME runners \in [DOMAIN runners -> Runners], NEW k \in DOMAIN runners
  PROVE  /\ runners' = [runners EXCEPT ![k].mu = None] =>
              RunnerIs(k, runners[k].closed, runners[k].browser, runners[k].profile)
         /\ \A r \in Requests :
              runners' = [runners EXCEPT ![k].mu = r, ![k].browser = r, ![k].profile = r] =>
                RunnerIs(k, runners[k].closed, r, r)
         /\ \A shut \in BOOLEAN, removed \in BOOLEAN :
              Render!CloseLocked(k, shut, removed) => Closes(k, shut)
<1>1. runners[k] \in Runners
  OBVIOUS
<1>2. ASSUME runners' = [runners EXCEPT ![k].mu = None]
      PROVE  RunnerIs(k, runners[k].closed, runners[k].browser, runners[k].profile)
  BY <1>1, <1>2 DEF RunnerIs, Runners, Owners
<1>3. ASSUME NEW r \in Requests,
             runners' = [runners EXCEPT ![k].mu = r, ![k].browser = r, ![k].profile = r]
      PROVE  RunnerIs(k, runners[k].closed, r, r)
  BY <1>1, <1>3 DEF RunnerIs, Runners, Owners
<1>4. ASSUME NEW shut \in BOOLEAN, NEW removed \in BOOLEAN, Render!CloseLocked(k, shut, removed)
      PROVE  Closes(k, shut)
  <2>1. \A x \in Owners : [closed |-> shut, mu |-> None, browser |-> None, profile |-> x] \in Runners
    BY DEF Runners, Owners
  <2>2. runners[k].profile \in Owners /\ None \in Owners
    BY <1>1 DEF Runners, Owners
  <2> DEFINE x == IF removed THEN None ELSE runners[k].profile
  <2>3. runners' = [runners EXCEPT ![k] =
                      [closed |-> shut, mu |-> None, browser |-> None, profile |-> x]]
    BY <1>4, Zenon DEF Render!CloseLocked
  <2>4. x \in Owners
    BY <2>2
  <2>5. running' = running \ {runners[k].browser}
    BY <1>4 DEF Render!CloseLocked
  <2>6. \/ x = None /\ disk' = disk \ {runners[k].profile}
        \/ x = runners[k].profile /\ disk' = disk
    BY <1>4 DEF Render!CloseLocked
  <2> HIDE DEF x
  <2>7. RunnerIs(k, shut, None, x)
    BY <2>1, <2>3, <2>4 DEF RunnerIs
  <2> QED
    BY <2>5, <2>6, <2>7 DEF Closes
<1> QED
  BY <1>2, <1>3, <1>4

\* The invariant holds at the start.
LEMMA RenderInit ==
  ASSUME Render!RenderAssumption, Render!Init PROVE RenderInv
<1>1. /\ DOMAIN runners = {1} /\ runners[1] = Render!NewRunner /\ runner = 1
      /\ runners \in [DOMAIN runners -> Runners]
  BY DEF Render!Init, Render!NewRunner, Runners, Owners
<1>2. Render!Cardinality(DOMAIN runners) = 1
  BY <1>1, FS_Singleton, RenderCardinality
<1>3. refresh \in Refreshes /\ refresh.phase = "idle" /\ refresh.slots = 0
  BY DEF Render!Init, Render!NoRefresh, Refreshes
<1>4. RenderTypes
  BY <1>1, <1>2, <1>3 DEF Render!Init, Render!RenderAssumption, RenderTypes, RequestPlaces
<1>5. Locked
  BY <1>1, <1>3 DEF Render!Init, Render!RenderAssumption, Render!NewRunner, Locked
<1>6. Owned
  BY <1>1 DEF Render!Init, Render!NewRunner, Owned
<1>7. Attending
  BY DEF Render!Init, Attending, UsingAt
<1>8. Render!Inside = {} /\ Render!Slotted = {}
  BY DEF Render!Init, Render!Inside, Render!Slotted
<1>9. Render!SlotsCounted
  BY <1>3, <1>4, <1>8, FS_EmptySet, RenderCardinality
     DEF Render!SlotsCounted, Render!Init, RenderTypes
<1> QED
  BY <1>4, <1>5, <1>6, <1>7, <1>9 DEF RenderInv

\* What the invariant says of the renderer.
LEMMA RenderSound ==
  ASSUME Render!RenderAssumption, RenderInv PROVE Render!RendersSound
<1>a. RenderTypes /\ Locked /\ Owned /\ Attending /\ Render!SlotsCounted
  BY DEF RenderInv
<1>b. None \notin Requests /\ running \subseteq Requests
  BY <1>a DEF Render!RenderAssumption, RenderTypes
<1>1. \A b \in running : b \in disk /\ \E k \in DOMAIN runners :
        runners[k].browser = b /\ ~runners[k].closed /\ BrowserAt(k)
  BY <1>a, <1>b DEF Owned
<1>2. \A b, c \in running : b = c
  BY <1>1 DEF BrowserAt
<1>3. Render!Cardinality(running) <= 1
  <2>1. CASE running = {}
    BY <2>1, FS_EmptySet, RenderCardinality
  <2>2. CASE running # {}
    <3>1. PICK b : running = {b}
      BY <1>2, <2>2
    <3>2. Render!Cardinality({b}) = 1
      BY FS_Singleton, RenderCardinality
    <3> QED
      BY <3>1, <3>2
  <2> QED
    BY <2>1, <2>2
<1>4. \A k : BrowserAt(k) => k \in {runner, refresh.old}
  BY DEF BrowserAt
<1>5. \A r \in Requests : position[r] \in UsingAt => using[r] = runner /\ ~runners[runner].closed
  BY <1>a DEF Attending, Locked, UsingAt, InsideAt, SlottedAt
<1>6. closeComplete => running = {} /\ Render!Inside = {}
  BY <1>1, <1>a, RequestsCounted DEF BrowserAt, Attending
<1>7. disk \subseteq {runners[k].profile : k \in DOMAIN runners}
  BY <1>a DEF Owned
<1>8. Render!OneBrowser
  BY <1>1, <1>3, <1>4, <1>5, <1>6, <1>7 DEF Render!OneBrowser, UsingAt
<1> QED
  BY <1>a, <1>8 DEF Render!RendersSound

\* Every step keeps the invariant.
LEMMA RenderStep ==
  ASSUME Render!RenderAssumption, RenderInv, [Render!Next]_Render!vars
  PROVE  RenderInv'
<1>a. RenderTypes /\ Locked /\ Owned /\ Attending /\ Render!SlotsCounted
  BY DEF RenderInv
<1>b. /\ workerCount \in Nat
      /\ position \in [Requests -> RequestPlaces] /\ using \in [Requests -> Nat]
      /\ refresh \in Refreshes /\ refresh.slots \in Nat
      /\ runners \in [DOMAIN runners -> Runners] /\ running \subseteq Requests
      /\ None \notin Requests /\ None \notin Closers /\ None # "refresh" /\ "refresh" \notin Closers
  BY <1>a DEF RenderTypes, Refreshes, Render!RenderAssumption
<1>c. \A r \in Requests, p \in RequestPlaces : position' = [position EXCEPT ![r] = p] => Moves(r, p)
  BY <1>a, RequestMoves
<1>d. /\ activeRequests = 0 => \A r \in Requests : position[r] \notin InsideAt
      /\ refresh.slots = workerCount => \A r \in Requests : position[r] \notin SlottedAt
      /\ Render!Cardinality(Render!Inside) \in Nat /\ Render!Cardinality(Render!Slotted) \in Nat
  <2>1. /\ Render!Cardinality(Render!Inside) \in Nat /\ Render!Cardinality(Render!Slotted) \in Nat
        /\ Render!Cardinality(Render!Inside) = 0 => \A r \in Requests : position[r] \notin InsideAt
        /\ Render!Cardinality(Render!Slotted) = 0 => \A r \in Requests : position[r] \notin SlottedAt
    BY <1>a, RequestsCounted
  <2> QED
    BY <1>a, <1>b, <2>1 DEF Render!SlotsCounted
<1>e. Render!SlotsCounted
  BY <1>a
<1>f. \A k \in DOMAIN runners : runners[k].closed \in BOOLEAN
  BY <1>b, Zenon DEF Runners
<1>g. position' = position => /\ Render!Cardinality(Render!Inside)' = Render!Cardinality(Render!Inside)
                  /\ Render!Cardinality(Render!Slotted)' = Render!Cardinality(Render!Slotted)
  BY DEF Render!Inside, Render!Slotted
<1> USE DEF RequestPlaces, InsideAt, SlottedAt, UsingAt
<1>1. ASSUME NEW r \in Requests, Render!TakeSlot(r)
      PROVE  RenderInv'
  <2>1. /\ position[r] = "waiting" /\ Render!SlotFree
        /\ Moves(r, "taken")
        /\ UNCHANGED <<workerCount, closed, closeComplete, runner, activeRequests, using, runners,
                       running, disk, lifecycleMu, refresh, closer>>
    BY <1>1, <1>c
       DEF Render!TakeSlot, Render!Goto, Render!workerVars, Render!browserVars, Render!callVars
  <2>2. RenderTypes'
    BY <1>a, <2>1 DEF RenderTypes, Moves
  <2>3. Locked'
    BY <1>a, <1>b, <2>1 DEF Locked, RenderTypes, Moves
  <2>4. Owned'
    BY <1>a, <1>b, <1>d, <2>1 DEF Owned, BrowserAt, Locked, Attending, Moves
  <2>5. Attending'
    BY <1>a, <1>b, <1>d, <2>1 DEF Attending, Locked, RenderTypes, Moves
  <2>6. Render!SlotsCounted'
    BY <1>b, <1>d, <1>e, <2>1 DEF Render!SlotsCounted, Moves, Render!SlotFree
  <2> QED
    BY <2>2, <2>3, <2>4, <2>5, <2>6 DEF RenderInv
<1>2. ASSUME NEW r \in Requests, Render!GiveUp(r)
      PROVE  RenderInv'
  <2>1. /\ position[r] = "waiting"
        /\ Moves(r, "released")
        /\ UNCHANGED <<workerCount, closed, closeComplete, runner, activeRequests, using, runners,
                       running, disk, lifecycleMu, refresh, closer>>
    BY <1>2, <1>c
       DEF Render!GiveUp, Render!Goto, Render!workerVars, Render!browserVars, Render!callVars
  <2>2. RenderTypes'
    BY <1>a, <2>1 DEF RenderTypes, Moves
  <2>3. Locked'
    BY <1>a, <1>b, <2>1 DEF Locked, RenderTypes, Moves
  <2>4. Owned'
    BY <1>a, <1>b, <1>d, <2>1 DEF Owned, BrowserAt, Locked, Attending, Moves
  <2>5. Attending'
    BY <1>a, <1>b, <1>d, <2>1 DEF Attending, Locked, RenderTypes, Moves
  <2>6. Render!SlotsCounted'
    BY <1>b, <1>d, <1>e, <2>1 DEF Render!SlotsCounted, Moves
  <2> QED
    BY <2>2, <2>3, <2>4, <2>5, <2>6 DEF RenderInv
<1>3. ASSUME NEW r \in Requests, Render!CheckTaken(r)
      PROVE  RenderInv'
  <2>1. /\ position[r] = "taken"
        /\ \/ Moves(r, "leaving")
           \/ Moves(r, "holding")
        /\ UNCHANGED <<workerCount, closed, closeComplete, runner, activeRequests, using, runners,
                       running, disk, lifecycleMu, refresh, closer>>
    BY <1>3, <1>c
       DEF Render!CheckTaken, Render!Goto, Render!workerVars, Render!browserVars, Render!callVars
  <2>2. RenderTypes'
    BY <1>a, <2>1 DEF RenderTypes, Moves
  <2>3. Locked'
    BY <1>a, <1>b, <2>1 DEF Locked, RenderTypes, Moves
  <2>4. Owned'
    BY <1>a, <1>b, <1>d, <2>1 DEF Owned, BrowserAt, Locked, Attending, Moves
  <2>5. Attending'
    BY <1>a, <1>b, <1>d, <2>1 DEF Attending, Locked, RenderTypes, Moves
  <2>6. Render!SlotsCounted'
    BY <1>b, <1>d, <1>e, <2>1 DEF Render!SlotsCounted, Moves
  <2> QED
    BY <2>2, <2>3, <2>4, <2>5, <2>6 DEF RenderInv
<1>4. ASSUME NEW r \in Requests, Render!FreeSlot(r)
      PROVE  RenderInv'
  <2>1. /\ position[r] = "leaving"
        /\ Moves(r, "released")
        /\ UNCHANGED <<workerCount, closed, closeComplete, runner, activeRequests, using, runners,
                       running, disk, lifecycleMu, refresh, closer>>
    BY <1>4, <1>c
       DEF Render!FreeSlot, Render!Goto, Render!workerVars, Render!browserVars, Render!callVars
  <2>2. RenderTypes'
    BY <1>a, <2>1 DEF RenderTypes, Moves
  <2>3. Locked'
    BY <1>a, <1>b, <2>1 DEF Locked, RenderTypes, Moves
  <2>4. Owned'
    BY <1>a, <1>b, <1>d, <2>1 DEF Owned, BrowserAt, Locked, Attending, Moves
  <2>5. Attending'
    BY <1>a, <1>b, <1>d, <2>1 DEF Attending, Locked, RenderTypes, Moves
  <2>6. Render!SlotsCounted'
    BY <1>b, <1>d, <1>e, <2>1 DEF Render!SlotsCounted, Moves
  <2> QED
    BY <2>2, <2>3, <2>4, <2>5, <2>6 DEF RenderInv
<1>5. ASSUME NEW r \in Requests, Render!Reserve(r)
      PROVE  RenderInv'
  <2>1. /\ position[r] = "idle"
        /\ \/ ~closed /\ Moves(r, "waiting") /\ activeRequests' = activeRequests + 1
           \/ Moves(r, "returned") /\ activeRequests' = activeRequests
        /\ UNCHANGED <<workerCount, closed, closeComplete, runner, using, runners, running, disk,
                       lifecycleMu, refresh, closer>>
    BY <1>5, <1>c
       DEF Render!Reserve, Render!Goto, Render!workerVars, Render!browserVars, Render!callVars
  <2>2. RenderTypes'
    BY <1>a, <2>1 DEF RenderTypes, Moves
  <2>3. Locked'
    BY <1>a, <1>b, <2>1 DEF Locked, RenderTypes, Moves
  <2>4. Owned'
    BY <1>a, <1>b, <1>d, <2>1 DEF Owned, BrowserAt, Locked, Attending, Moves
  <2>5. Attending'
    BY <1>a, <1>b, <1>d, <2>1 DEF Attending, Locked, RenderTypes, Moves
  <2>6. Render!SlotsCounted'
    BY <1>b, <1>d, <1>e, <2>1 DEF Render!SlotsCounted, Moves
  <2> QED
    BY <2>2, <2>3, <2>4, <2>5, <2>6 DEF RenderInv
<1>6. ASSUME NEW r \in Requests, Render!Expire(r)
      PROVE  RenderInv'
  <2>1. UNCHANGED <<workerCount, closed, closeComplete, runner, activeRequests, position, using,
                    runners, running, disk, lifecycleMu, refresh, closer>>
    BY <1>6
       DEF Render!Expire, Render!Goto, Render!workerVars, Render!browserVars, Render!callVars
  <2>2. RenderTypes'
    BY <1>a, <2>1 DEF RenderTypes
  <2>3. Locked'
    BY <1>a, <1>b, <2>1 DEF Locked, RenderTypes
  <2>4. Owned'
    BY <1>a, <1>b, <1>d, <2>1 DEF Owned, BrowserAt, Locked, Attending
  <2>5. Attending'
    BY <1>a, <1>b, <1>d, <2>1 DEF Attending, Locked, RenderTypes
  <2>6. Render!SlotsCounted'
    BY <1>b, <1>d, <1>e, <1>g, <2>1 DEF Render!SlotsCounted
  <2> QED
    BY <2>2, <2>3, <2>4, <2>5, <2>6 DEF RenderInv
<1>7. ASSUME NEW r \in Requests, Render!ReleaseSlot(r)
      PROVE  RenderInv'
  <2>1. /\ position[r] = "released" /\ Moves(r, "returned")
        /\ activeRequests' = activeRequests - 1
        /\ using' = [using EXCEPT ![r] = 0]
        /\ UNCHANGED <<workerCount, closed, closeComplete, runner, runners, running, disk,
                       lifecycleMu, refresh, closer>>
    BY <1>7, <1>c
       DEF Render!ReleaseSlot, Render!Goto, Render!workerVars, Render!browserVars, Render!callVars
  <2>2. RenderTypes'
    BY <1>a, <2>1 DEF RenderTypes, Moves
  <2>3. Locked'
    BY <1>a, <1>b, <2>1 DEF Locked, RenderTypes, Moves
  <2>4. Owned'
    BY <1>a, <1>b, <1>d, <2>1 DEF Owned, BrowserAt, Locked, Attending, Moves
  <2>5. Attending'
    BY <1>a, <1>b, <1>d, <2>1 DEF Attending, Locked, RenderTypes, Moves
  <2>6. Render!SlotsCounted'
    BY <1>b, <1>d, <1>e, <2>1 DEF Render!SlotsCounted, Moves
  <2> QED
    BY <2>2, <2>3, <2>4, <2>5, <2>6 DEF RenderInv
<1>8. ASSUME NEW r \in Requests, Render!WithoutBrowser(r)
      PROVE  RenderInv'
  <2>1. /\ position[r] = "holding"
        /\ Moves(r, "leaving")
        /\ UNCHANGED <<workerCount, closed, closeComplete, runner, activeRequests, using, runners,
                       running, disk, lifecycleMu, refresh, closer>>
    BY <1>8, <1>c
       DEF Render!WithoutBrowser, Render!Goto, Render!workerVars, Render!browserVars, Render!callVars
  <2>2. RenderTypes'
    BY <1>a, <2>1 DEF RenderTypes, Moves
  <2>3. Locked'
    BY <1>a, <1>b, <2>1 DEF Locked, RenderTypes, Moves
  <2>4. Owned'
    BY <1>a, <1>b, <1>d, <2>1 DEF Owned, BrowserAt, Locked, Attending, Moves
  <2>5. Attending'
    BY <1>a, <1>b, <1>d, <2>1 DEF Attending, Locked, RenderTypes, Moves
  <2>6. Render!SlotsCounted'
    BY <1>b, <1>d, <1>e, <2>1 DEF Render!SlotsCounted, Moves
  <2> QED
    BY <2>2, <2>3, <2>4, <2>5, <2>6 DEF RenderInv
<1>9. ASSUME NEW r \in Requests, Render!CurrentRunner(r)
      PROVE  RenderInv'
  <2>1. /\ position[r] = "holding" /\ Moves(r, "entering")
        /\ runner # 0 /\ using' = [using EXCEPT ![r] = runner]
        /\ UNCHANGED <<workerCount, closed, closeComplete, runner, activeRequests, runners,
                       running, disk, lifecycleMu, refresh, closer>>
    BY <1>9, <1>c
       DEF Render!CurrentRunner, Render!Goto, Render!workerVars, Render!browserVars, Render!callVars
  <2>2. RenderTypes'
    BY <1>a, <2>1 DEF RenderTypes, Moves, Locked, Attending
  <2>3. Locked'
    BY <1>a, <1>b, <2>1 DEF Locked, RenderTypes, Moves
  <2>4. Owned'
    BY <1>a, <1>b, <1>d, <2>1 DEF Owned, BrowserAt, Locked, Attending, Moves
  <2>5. Attending'
    BY <1>a, <1>b, <1>d, <2>1 DEF Attending, Locked, RenderTypes, Moves
  <2>6. Render!SlotsCounted'
    BY <1>b, <1>d, <1>e, <2>1 DEF Render!SlotsCounted, Moves
  <2> QED
    BY <2>2, <2>3, <2>4, <2>5, <2>6 DEF RenderInv
<1>10. ASSUME NEW r \in Requests, Render!RefuseBrowser(r)
      PROVE  RenderInv'
  <2>1. /\ position[r] = "entering"
        /\ Moves(r, "leaving")
        /\ UNCHANGED <<workerCount, closed, closeComplete, runner, activeRequests, using, runners,
                       running, disk, lifecycleMu, refresh, closer>>
    BY <1>10, <1>c
       DEF Render!RefuseBrowser, Render!Goto, Render!workerVars, Render!browserVars, Render!callVars
  <2>2. RenderTypes'
    BY <1>a, <2>1 DEF RenderTypes, Moves
  <2>3. Locked'
    BY <1>a, <1>b, <2>1 DEF Locked, RenderTypes, Moves
  <2>4. Owned'
    BY <1>a, <1>b, <1>d, <2>1 DEF Owned, BrowserAt, Locked, Attending, Moves
  <2>5. Attending'
    BY <1>a, <1>b, <1>d, <2>1 DEF Attending, Locked, RenderTypes, Moves
  <2>6. Render!SlotsCounted'
    BY <1>b, <1>d, <1>e, <2>1 DEF Render!SlotsCounted, Moves
  <2> QED
    BY <2>2, <2>3, <2>4, <2>5, <2>6 DEF RenderInv
<1>11. ASSUME NEW r \in Requests, Render!ShareBrowser(r)
      PROVE  RenderInv'
  <2>1. /\ position[r] = "entering" /\ Moves(r, "rendering")
        /\ UNCHANGED <<workerCount, closed, closeComplete, runner, activeRequests, using, runners,
                       running, disk, lifecycleMu, refresh, closer>>
    BY <1>11, <1>c
       DEF Render!ShareBrowser, Render!Goto, Render!workerVars, Render!browserVars, Render!callVars
  <2>2. RenderTypes'
    BY <1>a, <2>1 DEF RenderTypes, Moves
  <2>3. Locked'
    BY <1>a, <1>b, <2>1 DEF Locked, RenderTypes, Moves
  <2>4. Owned'
    BY <1>a, <1>b, <1>d, <2>1 DEF Owned, BrowserAt, Locked, Attending, Moves
  <2>5. Attending'
    BY <1>a, <1>b, <1>d, <2>1 DEF Attending, Locked, RenderTypes, Moves
  <2>6. Render!SlotsCounted'
    BY <1>b, <1>d, <1>e, <2>1 DEF Render!SlotsCounted, Moves
  <2> QED
    BY <2>2, <2>3, <2>4, <2>5, <2>6 DEF RenderInv
<1>12. ASSUME NEW r \in Requests, Render!StartBrowser(r)
      PROVE  RenderInv'
  <2>0. position[r] = "entering"
    BY <1>12 DEF Render!StartBrowser
  <2>a. using[r] = runner /\ ~closeComplete /\ runner \in DOMAIN runners /\ refresh.phase # "closing"
    BY <1>a, <1>d, <2>0 DEF Attending, Locked
  <2>1. /\ Moves(r, "starting")
        /\ runners[runner].browser = None
        /\ RunnerIs(runner, runners[runner].closed, r, r)
        /\ running' = running \cup {r}
        /\ disk' = (disk \ {runners[runner].profile}) \cup {r}
        /\ UNCHANGED <<workerCount, closed, closeComplete, runner, activeRequests, using,
                       lifecycleMu, refresh, closer>>
    BY <1>12, <1>b, <1>c, <2>a, RunnerBecomes
       DEF Render!StartBrowser, Render!Goto, Render!workerVars, Render!browserVars, Render!callVars
  <2>2. RenderTypes'
    BY <1>a, <2>0, <2>a, <2>1 DEF RenderTypes, Moves, RunnerIs
  <2>3. Locked'
    BY <1>a, <1>b, <2>0, <2>a, <2>1 DEF Locked, RenderTypes, Moves, RunnerIs
  <2>4. Owned'
    BY <1>a, <1>b, <1>d, <2>0, <2>a, <2>1 DEF Owned, BrowserAt, Locked, Attending, Moves, RunnerIs
  <2>5. Attending'
    BY <1>a, <1>b, <1>d, <2>0, <2>a, <2>1 DEF Attending, Locked, RenderTypes, Moves
  <2>6. Render!SlotsCounted'
    BY <1>b, <1>d, <1>e, <2>0, <2>a, <2>1 DEF Render!SlotsCounted, Moves
  <2> QED
    BY <2>2, <2>3, <2>4, <2>5, <2>6 DEF RenderInv
<1>13. ASSUME NEW r \in Requests, Render!CancelStartup(r)
      PROVE  RenderInv'
  <2>1. /\ running' = running \ {r}
        /\ UNCHANGED <<workerCount, closed, closeComplete, runner, activeRequests, position,
                       using, runners, disk, lifecycleMu, refresh, closer>>
    BY <1>13
       DEF Render!CancelStartup, Render!Goto, Render!workerVars, Render!browserVars, Render!callVars
  <2>2. RenderTypes'
    BY <1>a, <2>1 DEF RenderTypes
  <2>3. Locked'
    BY <1>a, <1>b, <2>1 DEF Locked, RenderTypes
  <2>4. Owned'
    BY <1>a, <1>b, <1>d, <2>1 DEF Owned, BrowserAt, Locked, Attending
  <2>5. Attending'
    BY <1>a, <1>b, <1>d, <2>1 DEF Attending, Locked, RenderTypes
  <2>6. Render!SlotsCounted'
    BY <1>b, <1>d, <1>e, <1>g, <2>1 DEF Render!SlotsCounted
  <2> QED
    BY <2>2, <2>3, <2>4, <2>5, <2>6 DEF RenderInv
<1>14. ASSUME NEW r \in Requests, Render!WatcherEnds(r)
      PROVE  RenderInv'
  <2>1. UNCHANGED <<workerCount, closed, closeComplete, runner, activeRequests, position, using,
                    runners, running, disk, lifecycleMu, refresh, closer>>
    BY <1>14
       DEF Render!WatcherEnds, Render!Goto, Render!workerVars, Render!browserVars, Render!callVars
  <2>2. RenderTypes'
    BY <1>a, <2>1 DEF RenderTypes
  <2>3. Locked'
    BY <1>a, <1>b, <2>1 DEF Locked, RenderTypes
  <2>4. Owned'
    BY <1>a, <1>b, <1>d, <2>1 DEF Owned, BrowserAt, Locked, Attending
  <2>5. Attending'
    BY <1>a, <1>b, <1>d, <2>1 DEF Attending, Locked, RenderTypes
  <2>6. Render!SlotsCounted'
    BY <1>b, <1>d, <1>e, <1>g, <2>1 DEF Render!SlotsCounted
  <2> QED
    BY <2>2, <2>3, <2>4, <2>5, <2>6 DEF RenderInv
<1>15. ASSUME NEW r \in Requests, Render!StartSucceeds(r)
      PROVE  RenderInv'
  <2>0. position[r] = "starting"
    BY <1>15 DEF Render!StartSucceeds
  <2>a. using[r] = runner /\ ~closeComplete /\ runner \in DOMAIN runners /\ refresh.phase # "closing"
    BY <1>a, <1>d, <2>0 DEF Attending, Locked
  <2>1. /\ Moves(r, "rendering")
        /\ RunnerIs(runner, runners[runner].closed, runners[runner].browser, runners[runner].profile)
        /\ UNCHANGED <<workerCount, closed, closeComplete, runner, activeRequests, using, running,
                       disk, lifecycleMu, refresh, closer>>
    BY <1>15, <1>b, <1>c, <2>a, RunnerBecomes
       DEF Render!StartSucceeds, Render!Goto, Render!workerVars, Render!browserVars, Render!callVars
  <2>2. RenderTypes'
    BY <1>a, <2>0, <2>a, <2>1 DEF RenderTypes, Moves, RunnerIs
  <2>3. Locked'
    BY <1>a, <1>b, <2>0, <2>a, <2>1 DEF Locked, RenderTypes, Moves, RunnerIs
  <2>4. Owned'
    BY <1>a, <1>b, <1>d, <2>0, <2>a, <2>1 DEF Owned, BrowserAt, Locked, Attending, Moves, RunnerIs
  <2>5. Attending'
    BY <1>a, <1>b, <1>d, <2>0, <2>a, <2>1 DEF Attending, Locked, RenderTypes, Moves
  <2>6. Render!SlotsCounted'
    BY <1>b, <1>d, <1>e, <2>0, <2>a, <2>1 DEF Render!SlotsCounted, Moves
  <2> QED
    BY <2>2, <2>3, <2>4, <2>5, <2>6 DEF RenderInv
<1>16. ASSUME NEW r \in Requests, Render!StartFails(r)
      PROVE  RenderInv'
  <2>0. position[r] = "starting"
    BY <1>16 DEF Render!StartFails
  <2>a. using[r] = runner /\ ~closeComplete /\ runner \in DOMAIN runners /\ refresh.phase # "closing"
    BY <1>a, <1>d, <2>0 DEF Attending, Locked
  <2>1. /\ Moves(r, "leaving")
        /\ Closes(runner, FALSE)
        /\ UNCHANGED <<workerCount, closed, closeComplete, runner, activeRequests, using,
                       lifecycleMu, refresh, closer>>
    <3>1. PICK removed \in BOOLEAN : Render!CloseLocked(runner, FALSE, removed)
      BY <1>16, <2>a DEF Render!StartFails
    <3>2. Closes(runner, FALSE)
      BY <1>b, <2>a, <3>1, RunnerBecomes
    <3> QED
      BY <1>16, <1>c, <3>2
       DEF Render!StartFails, Render!Goto, Render!workerVars, Render!browserVars, Render!callVars
  <2>2. RenderTypes'
    BY <1>a, <2>0, <2>a, <2>1 DEF RenderTypes, Moves, RunnerIs, Closes
  <2>3. Locked'
    BY <1>a, <1>b, <2>0, <2>a, <2>1 DEF Locked, RenderTypes, Moves, RunnerIs, Closes
  <2>4. Owned'
    BY <1>a, <1>b, <1>d, <2>0, <2>a, <2>1
       DEF Owned, BrowserAt, Locked, Attending, Moves, RunnerIs, Closes
  <2>5. Attending'
    BY <1>a, <1>b, <1>d, <2>0, <2>a, <2>1 DEF Attending, Locked, RenderTypes, Moves
  <2>6. Render!SlotsCounted'
    BY <1>b, <1>d, <1>e, <2>0, <2>a, <2>1 DEF Render!SlotsCounted, Moves
  <2> QED
    BY <2>2, <2>3, <2>4, <2>5, <2>6 DEF RenderInv
<1>17. ASSUME NEW r \in Requests, Render!BrowserDies(r)
      PROVE  RenderInv'
  <2>1. /\ running' = running \ {r}
        /\ UNCHANGED <<workerCount, closed, closeComplete, runner, activeRequests, position,
                       using, runners, disk, lifecycleMu, refresh, closer>>
    BY <1>17
       DEF Render!BrowserDies, Render!Goto, Render!workerVars, Render!browserVars, Render!callVars
  <2>2. RenderTypes'
    BY <1>a, <2>1 DEF RenderTypes
  <2>3. Locked'
    BY <1>a, <1>b, <2>1 DEF Locked, RenderTypes
  <2>4. Owned'
    BY <1>a, <1>b, <1>d, <2>1 DEF Owned, BrowserAt, Locked, Attending
  <2>5. Attending'
    BY <1>a, <1>b, <1>d, <2>1 DEF Attending, Locked, RenderTypes
  <2>6. Render!SlotsCounted'
    BY <1>b, <1>d, <1>e, <1>g, <2>1 DEF Render!SlotsCounted
  <2> QED
    BY <2>2, <2>3, <2>4, <2>5, <2>6 DEF RenderInv
<1>18. ASSUME NEW r \in Requests, Render!Rendered(r)
      PROVE  RenderInv'
  <2>1. /\ position[r] = "rendering"
        /\ \/ Moves(r, "leaving")
           \/ Moves(r, "resetting")
        /\ UNCHANGED <<workerCount, closed, closeComplete, runner, activeRequests, using, runners,
                       running, disk, lifecycleMu, refresh, closer>>
    BY <1>18, <1>c
       DEF Render!Rendered, Render!Goto, Render!workerVars, Render!browserVars, Render!callVars
  <2>2. RenderTypes'
    BY <1>a, <2>1 DEF RenderTypes, Moves
  <2>3. Locked'
    BY <1>a, <1>b, <2>1 DEF Locked, RenderTypes, Moves
  <2>4. Owned'
    BY <1>a, <1>b, <1>d, <2>1 DEF Owned, BrowserAt, Locked, Attending, Moves
  <2>5. Attending'
    BY <1>a, <1>b, <1>d, <2>1 DEF Attending, Locked, RenderTypes, Moves
  <2>6. Render!SlotsCounted'
    BY <1>b, <1>d, <1>e, <2>1 DEF Render!SlotsCounted, Moves
  <2> QED
    BY <2>2, <2>3, <2>4, <2>5, <2>6 DEF RenderInv
<1>19. ASSUME NEW r \in Requests, Render!ResetBrowser(r)
      PROVE  RenderInv'
  <2>0. position[r] = "resetting"
    BY <1>19 DEF Render!ResetBrowser
  <2>a. using[r] = runner /\ ~closeComplete /\ runner \in DOMAIN runners /\ refresh.phase # "closing"
    BY <1>a, <1>d, <2>0 DEF Attending, Locked
  <2>1. /\ Moves(r, "leaving")
        /\ Closes(runner, runners[runner].closed)
        /\ UNCHANGED <<workerCount, closed, closeComplete, runner, activeRequests, using,
                       lifecycleMu, refresh, closer>>
    <3>1. PICK removed \in BOOLEAN : Render!CloseLocked(runner, runners[runner].closed, removed)
      BY <1>19, <2>a DEF Render!ResetBrowser
    <3>2. Closes(runner, runners[runner].closed)
      BY <1>b, <1>f, <2>a, <3>1, RunnerBecomes
    <3> QED
      BY <1>19, <1>c, <3>2
       DEF Render!ResetBrowser, Render!Goto, Render!workerVars, Render!browserVars, Render!callVars
  <2>2. RenderTypes'
    BY <1>a, <2>0, <2>a, <2>1 DEF RenderTypes, Moves, RunnerIs, Closes
  <2>3. Locked'
    BY <1>a, <1>b, <2>0, <2>a, <2>1 DEF Locked, RenderTypes, Moves, RunnerIs, Closes
  <2>4. Owned'
    BY <1>a, <1>b, <1>d, <2>0, <2>a, <2>1
       DEF Owned, BrowserAt, Locked, Attending, Moves, RunnerIs, Closes
  <2>5. Attending'
    BY <1>a, <1>b, <1>d, <2>0, <2>a, <2>1 DEF Attending, Locked, RenderTypes, Moves
  <2>6. Render!SlotsCounted'
    BY <1>b, <1>d, <1>e, <2>0, <2>a, <2>1 DEF Render!SlotsCounted, Moves
  <2> QED
    BY <2>2, <2>3, <2>4, <2>5, <2>6 DEF RenderInv
<1>20. CASE Render!BeginRefresh
  <2>1. /\ ~closed /\ runner # 0 /\ refresh.phase = "idle" /\ lifecycleMu = None /\ lifecycleMu' = "refresh"
        /\ refresh' \in Refreshes /\ refresh'.phase = "taking" /\ refresh'.slots = 0 /\ refresh'.old = runner
        /\ UNCHANGED <<workerCount, closed, closeComplete, runner, activeRequests, position,
                       using, runners, running, disk, closer>>
    <3>1. runner \in Nat
      BY <1>20, <1>a DEF Render!BeginRefresh, Locked, RenderTypes
    <3> QED
      BY <1>20, <3>1 DEF Render!BeginRefresh, Render!workerVars, Render!browserVars, Refreshes
  <2>2. RenderTypes'
    BY <1>a, <2>1 DEF RenderTypes
  <2>3. Locked'
    BY <1>a, <1>b, <2>1 DEF Locked, RenderTypes
  <2>4. Owned'
    BY <1>a, <1>b, <1>d, <2>1 DEF Owned, BrowserAt, Locked, Attending
  <2>5. Attending'
    BY <1>a, <1>b, <1>d, <2>1 DEF Attending, Locked, RenderTypes
  <2>6. Render!SlotsCounted'
    BY <1>b, <1>d, <1>e, <1>g, <2>1 DEF Render!SlotsCounted
  <2> QED
    BY <2>2, <2>3, <2>4, <2>5, <2>6 DEF RenderInv
<1>21. CASE Render!TakeAllSlots
  <2>1. /\ refresh.phase = "taking" /\ refresh' \in Refreshes /\ refresh'.old = refresh.old
        /\ \/ refresh.slots = workerCount /\ refresh'.phase = "swapping" /\ refresh'.slots = refresh.slots
           \/ Render!SlotFree /\ refresh'.phase = "taking" /\ refresh'.slots = refresh.slots + 1
        /\ UNCHANGED <<workerCount, closed, closeComplete, runner, activeRequests, position,
                       using, runners, running, disk, lifecycleMu, closer>>
    BY <1>21, <1>b DEF Render!TakeAllSlots, Render!workerVars, Render!browserVars, Refreshes
  <2>2. RenderTypes'
    BY <1>a, <2>1 DEF RenderTypes
  <2>3. Locked'
    BY <1>a, <1>b, <2>1 DEF Locked, RenderTypes
  <2>4. Owned'
    BY <1>a, <1>b, <1>d, <2>1 DEF Owned, BrowserAt, Locked, Attending
  <2>5. Attending'
    BY <1>a, <1>b, <1>d, <2>1 DEF Attending, Locked, RenderTypes
  <2>6. Render!SlotsCounted'
    BY <1>b, <1>d, <1>e, <1>g, <2>1 DEF Render!SlotsCounted, Render!SlotFree
  <2> QED
    BY <2>2, <2>3, <2>4, <2>5, <2>6 DEF RenderInv
<1>22. CASE Render!SwapRunner
  <2>1. /\ refresh.phase = "swapping" /\ refresh' \in Refreshes
        /\ refresh'.slots = refresh.slots /\ refresh'.old = refresh.old
        /\ \/ closed /\ refresh'.phase = "giving" /\ UNCHANGED <<runner, runners>>
           \/ /\ ~closed /\ refresh'.phase = "closing" /\ runner' \notin DOMAIN runners
              /\ runners' \in [DOMAIN runners' -> Runners]
              /\ runners'[runner'] = Render!NewRunner
              /\ DOMAIN runners' = DOMAIN runners \cup {runner'}
              /\ \A j \in DOMAIN runners : runners'[j] = runners[j]
              /\ Render!Cardinality(DOMAIN runners') \in Nat
              /\ DOMAIN runners' = 1 .. Render!Cardinality(DOMAIN runners')
        /\ UNCHANGED <<workerCount, closed, closeComplete, activeRequests, position, using,
                       running, disk, lifecycleMu, closer>>
    <3> DEFINE k == Render!Cardinality(DOMAIN runners) + 1
    <3>1. /\ Render!Cardinality(DOMAIN runners) \in Nat
          /\ DOMAIN runners = 1 .. Render!Cardinality(DOMAIN runners)
      BY <1>a DEF RenderTypes
    <3>2. /\ k \in Nat /\ k \notin DOMAIN runners /\ DOMAIN runners \cup {k} = 1 .. k
      BY <3>1
    <3>3. Render!Cardinality(1 .. k) = k
      BY <3>2, FS_Interval, RenderCardinality
    <3>4. /\ refresh.phase = "swapping"
          /\ \/ /\ closed /\ refresh' = [refresh EXCEPT !.phase = "giving"]
                /\ UNCHANGED <<runner, runners>>
             \/ /\ ~closed /\ refresh' = [refresh EXCEPT !.phase = "closing"] /\ runner' = k
                /\ runners' = [j \in DOMAIN runners \cup {k} |->
                                 IF j = k THEN Render!NewRunner ELSE runners[j]]
          /\ UNCHANGED <<workerCount, closed, closeComplete, activeRequests, position, using,
                         running, disk, lifecycleMu, closer>>
      BY <1>22 DEF Render!SwapRunner
    <3> HIDE DEF k
    <3>5. \A at \in {"giving", "closing"} : refresh' = [refresh EXCEPT !.phase = at] =>
            /\ refresh' \in Refreshes /\ refresh'.phase = at
            /\ refresh'.slots = refresh.slots /\ refresh'.old = refresh.old
      BY <1>b DEF Refreshes
    <3>6. Render!NewRunner \in Runners
      BY DEF Render!NewRunner, Runners, Owners
    <3>7. runners' = [j \in DOMAIN runners \cup {k} |->
                       IF j = k THEN Render!NewRunner ELSE runners[j]] =>
            /\ runners' \in [DOMAIN runners' -> Runners] /\ runners'[k] = Render!NewRunner
            /\ DOMAIN runners' = DOMAIN runners \cup {k}
            /\ \A j \in DOMAIN runners : runners'[j] = runners[j]
      BY <1>b, <3>2, <3>6
    <3> QED
      BY <3>2, <3>3, <3>4, <3>5, <3>7
  <2>2. RenderTypes'
    BY <1>a, <2>1 DEF RenderTypes
  <2>3. Locked'
    BY <1>a, <1>b, <2>1 DEF Locked, RenderTypes, Render!NewRunner
  <2>4. Owned'
    BY <1>a, <1>b, <1>d, <2>1 DEF Owned, BrowserAt, Locked, Attending, Render!NewRunner
  <2>5. Attending'
    BY <1>a, <1>b, <1>d, <2>1 DEF Attending, Locked, RenderTypes
  <2>6. Render!SlotsCounted'
    BY <1>b, <1>d, <1>e, <1>g, <2>1 DEF Render!SlotsCounted
  <2> QED
    BY <2>2, <2>3, <2>4, <2>5, <2>6 DEF RenderInv
<1>23. CASE Render!CloseOldRunner
  <2>1. /\ refresh.phase = "closing" /\ refresh' \in Refreshes /\ refresh'.phase = "giving"
        /\ refresh'.slots = refresh.slots /\ refresh'.old = refresh.old
        /\ refresh.old \in DOMAIN runners /\ Closes(refresh.old, TRUE)
        /\ UNCHANGED <<workerCount, closed, closeComplete, runner, activeRequests, position,
                       using, lifecycleMu, closer>>
    <3>1. PICK removed \in BOOLEAN : Render!CloseLocked(refresh.old, TRUE, removed)
      BY <1>23 DEF Render!CloseOldRunner
    <3>2. refresh.phase = "closing" /\ refresh.old \in DOMAIN runners
      BY <1>23, <1>a DEF Render!CloseOldRunner, Locked
    <3>3. Closes(refresh.old, TRUE)
      BY <1>b, <3>1, <3>2, RunnerBecomes
    <3>4. /\ refresh' \in Refreshes /\ refresh'.phase = "giving"
          /\ refresh'.slots = refresh.slots /\ refresh'.old = refresh.old
      BY <1>23, <1>b DEF Render!CloseOldRunner, Refreshes
    <3> QED
      BY <1>23, <3>2, <3>3, <3>4 DEF Render!CloseOldRunner, Render!workerVars
  <2>2. RenderTypes'
    BY <1>a, <2>1 DEF RenderTypes, RunnerIs, Closes
  <2>3. Locked'
    BY <1>a, <1>b, <2>1 DEF Locked, RenderTypes, RunnerIs, Closes
  <2>4. Owned'
    BY <1>a, <1>b, <1>d, <2>1 DEF Owned, BrowserAt, Locked, Attending, RunnerIs, Closes
  <2>5. Attending'
    BY <1>a, <1>b, <1>d, <2>1 DEF Attending, Locked, RenderTypes
  <2>6. Render!SlotsCounted'
    BY <1>b, <1>d, <1>e, <1>g, <2>1 DEF Render!SlotsCounted
  <2> QED
    BY <2>2, <2>3, <2>4, <2>5, <2>6 DEF RenderInv
<1>24. CASE Render!GiveSlotsBack
  <2>1. /\ refresh.phase = "giving" /\ refresh' \in Refreshes
        /\ \/ /\ refresh.slots > 0 /\ refresh'.phase = "giving" /\ refresh'.slots = refresh.slots - 1
              /\ lifecycleMu' = lifecycleMu
           \/ refresh'.phase = "idle" /\ refresh'.slots = 0 /\ lifecycleMu' = None
        /\ UNCHANGED <<workerCount, closed, closeComplete, runner, activeRequests, position,
                       using, runners, running, disk, closer>>
    BY <1>24, <1>b
       DEF Render!GiveSlotsBack, Render!NoRefresh, Render!workerVars, Render!browserVars, Refreshes
  <2>2. RenderTypes'
    BY <1>a, <2>1 DEF RenderTypes
  <2>3. Locked'
    BY <1>a, <1>b, <2>1 DEF Locked, RenderTypes
  <2>4. Owned'
    BY <1>a, <1>b, <1>d, <2>1 DEF Owned, BrowserAt, Locked, Attending
  <2>5. Attending'
    BY <1>a, <1>b, <1>d, <2>1 DEF Attending, Locked, RenderTypes
  <2>6. Render!SlotsCounted'
    BY <1>b, <1>d, <1>e, <1>g, <2>1 DEF Render!SlotsCounted
  <2> QED
    BY <2>2, <2>3, <2>4, <2>5, <2>6 DEF RenderInv
<1>25. ASSUME NEW c \in Closers, Render!CallClose(c)
      PROVE  RenderInv'
  <2>1. /\ closer[c] = "idle" /\ closer' = [closer EXCEPT ![c] = "called"] /\ closed' = TRUE
        /\ UNCHANGED <<workerCount, closeComplete, runner, activeRequests, position, using,
                       runners, running, disk, lifecycleMu, refresh>>
    BY <1>25 DEF Render!CallClose, Render!browserVars
  <2>2. RenderTypes'
    BY <1>a, <2>1 DEF RenderTypes
  <2>3. Locked'
    BY <1>a, <1>b, <2>1 DEF Locked, RenderTypes
  <2>4. Owned'
    BY <1>a, <1>b, <1>d, <2>1 DEF Owned, BrowserAt, Locked, Attending
  <2>5. Attending'
    BY <1>a, <1>b, <1>d, <2>1 DEF Attending, Locked, RenderTypes
  <2>6. Render!SlotsCounted'
    BY <1>b, <1>d, <1>e, <1>g, <2>1 DEF Render!SlotsCounted
  <2> QED
    BY <2>2, <2>3, <2>4, <2>5, <2>6 DEF RenderInv
<1>26. ASSUME NEW c \in Closers, Render!BeginClose(c)
      PROVE  RenderInv'
  <2>1. /\ closer[c] = "called" /\ lifecycleMu = None
        /\ \/ closer' = [closer EXCEPT ![c] = "returned"] /\ lifecycleMu' = lifecycleMu
           \/ closer' = [closer EXCEPT ![c] = "waiting"] /\ lifecycleMu' = c /\ ~closeComplete
        /\ UNCHANGED <<workerCount, closed, closeComplete, runner, activeRequests, position,
                       using, runners, running, disk, refresh>>
    BY <1>26 DEF Render!BeginClose, Render!workerVars, Render!browserVars
  <2>2. RenderTypes'
    BY <1>a, <2>1 DEF RenderTypes
  <2>3. Locked'
    BY <1>a, <1>b, <2>1 DEF Locked, RenderTypes
  <2>4. Owned'
    BY <1>a, <1>b, <1>d, <2>1 DEF Owned, BrowserAt, Locked, Attending
  <2>5. Attending'
    BY <1>a, <1>b, <1>d, <2>1 DEF Attending, Locked, RenderTypes
  <2>6. Render!SlotsCounted'
    BY <1>b, <1>d, <1>e, <1>g, <2>1 DEF Render!SlotsCounted
  <2> QED
    BY <2>2, <2>3, <2>4, <2>5, <2>6 DEF RenderInv
<1>27. ASSUME NEW c \in Closers, Render!CloseRunner(c)
      PROVE  RenderInv'
  <2>1. /\ closer[c] = "waiting" /\ activeRequests = 0 /\ refresh.phase = "idle" /\ runner \in DOMAIN runners
        /\ closer' = [closer EXCEPT ![c] = "returned"] /\ lifecycleMu' = None /\ closeComplete' = TRUE
        /\ runner' = 0 /\ Closes(runner, TRUE) /\ closed
        /\ UNCHANGED <<workerCount, closed, activeRequests, position, using, refresh>>
    <3>1. PICK removed \in BOOLEAN : Render!CloseLocked(runner, TRUE, removed)
      BY <1>27 DEF Render!CloseRunner
    <3>2. closer[c] = "waiting" /\ refresh.phase = "idle" /\ runner \in DOMAIN runners /\ closed
      BY <1>27, <1>a, <1>b DEF Render!CloseRunner, Locked
    <3>3. Closes(runner, TRUE)
      BY <1>b, <3>1, <3>2, RunnerBecomes
    <3> QED
      BY <1>27, <3>2, <3>3 DEF Render!CloseRunner
  <2>2. RenderTypes'
    BY <1>a, <2>1 DEF RenderTypes, RunnerIs, Closes
  <2>3. Locked'
    BY <1>a, <1>b, <2>1 DEF Locked, RenderTypes, RunnerIs, Closes
  <2>4. Owned'
    BY <1>a, <1>b, <1>d, <2>1 DEF Owned, BrowserAt, Locked, Attending, RunnerIs, Closes
  <2>5. Attending'
    BY <1>a, <1>b, <1>d, <2>1 DEF Attending, Locked, RenderTypes
  <2>6. Render!SlotsCounted'
    BY <1>b, <1>d, <1>e, <1>g, <2>1 DEF Render!SlotsCounted
  <2> QED
    BY <2>2, <2>3, <2>4, <2>5, <2>6 DEF RenderInv
<1>28. CASE UNCHANGED Render!vars
  BY <1>a, <1>28
     DEF RenderInv, RenderTypes, Locked, Owned, BrowserAt, Attending, Render!SlotsCounted,
         Render!Inside, Render!Slotted, Render!vars, Render!workerVars, Render!browserVars,
         Render!callVars
<1>q. ASSUME NEW r \in Requests, Render!RequestStep(r) PROVE RenderInv'
  BY <1>q, <1>1, <1>2, <1>3, <1>4, <1>7, <1>8, <1>9, <1>10, <1>11, <1>12, <1>13, <1>14, <1>15,
     <1>16, <1>18, <1>19 DEF Render!RequestStep
<1> QED
  BY <1>q, <1>5, <1>6, <1>17, <1>20, <1>21, <1>22, <1>23, <1>24, <1>25, <1>26, <1>27, <1>28
     DEF Render!Next, Render!Progress, Render!RefreshStep, Render!CloseStep

\* The renderer has one browser at a time, owned by the runner that requests can use, and its
\* profile; requests and slots are counted exactly; and a Close that returned leaves neither a
\* browser nor a request (render/worker.go:54-263, chromium_runner.go:80-200, :330-520).
THEOREM RendersKeepOneBrowser ==
  ASSUME Render!RenderAssumption
  PROVE  Render!Spec => []RendersSound
<1>1. RenderInv /\ [Render!Next]_Render!vars => RenderInv'
  BY RenderStep
<1>2. Render!Init => RenderInv
  BY RenderInit
<1>3. RenderInv => RendersSound
  BY RenderSound DEF RendersSound
<1> QED
  BY <1>1, <1>2, <1>3, PTL DEF Render!Spec

------------------------------------------------------------------------------
\* The shutdown: clients are told before they are cut off, and the database is closed last.

Statuses == Readiness \cup {"stopping"}
ClientPlaces == {"off", "registered", "probing", "writing", "loop", "gone"}
ShutdownTypes ==
  /\ client \in [Clients -> ClientPlaces]
  /\ frame \in [Clients -> Statuses \cup {None}]
  /\ channel \in [Clients -> Seq(Statuses)]
  /\ phase \in 0 .. 3
  /\ closerStage \in [{"http", "workers", "persistence"} -> {"idle", "running", "done"}]
  /\ intent \in BOOLEAN /\ streamClosed \in BOOLEAN /\ streamCancelled \in BOOLEAN
  /\ announcement \in {"idle", "publishing", "marking", "awaiting", "closing", "done"}

\* The phases of Close come one after the other, when Run has ended.
Phased ==
  /\ closerStage["http"] # "idle" => phase > 0
  /\ closerStage["workers"] # "idle" => phase > 1
  /\ phase > 0 => run \in {"closing", "returned"}
  /\ closerStage["workers"] = "done" => worker # "running" /\ server # "serving"
  /\ database = "closed" =>
       announcement = "done" /\ closerStage["http"] = "done" /\ closerStage["workers"] = "done"

\* Who is still present when the stream is closed was told, unless the budget was used up.
Announcing ==
  /\ intent <=> announcement # "idle"
  /\ once = None => ~intent
  /\ lastBroadcast = "stopping" => intent
  /\ announcement \notin {"idle", "publishing"} => lastBroadcast = "stopping"
  /\ announcement \in {"awaiting", "closing", "done"} => streamClosed
  /\ announcement = "awaiting" => Server!Present \subseteq toShut
  /\ streamCancelled =>
       /\ announcement \in {"closing", "done"}
       /\ Server!Present \subseteq told \/ "announcement" \in overrun
  /\ announcement = "done" => Server!Present = {}
  /\ cut \subseteq told \cup left \/ "announcement" \in overrun

\* What a subscriber is still to be written: nothing comes after the stop.
Ordered(c) ==
  /\ c \in told \/ frame[c] = "stopping" =>
       intent /\ \A i \in 1 .. Len(channel[c]) : channel[c][i] = "stopping"
  /\ \A i \in 1 .. Len(channel[c]) : channel[c][i] = "stopping" =>
       intent /\ \A j \in i .. Len(channel[c]) : channel[c][j] = "stopping"
  /\ c \notin Server!Subscribed => channel[c] = <<>>
  /\ lastBroadcast = "stopping" /\ c \in Server!Subscribed \ told =>
       \/ Len(channel[c]) = 0 /\ frame[c] = "stopping"
       \/ Len(channel[c]) > 0 /\ channel[c][Len(channel[c])] = "stopping"

ShutdownInv ==
  /\ ShutdownTypes /\ Phased /\ Announcing
  /\ \A c \in Clients : Ordered(c)

\* The invariant holds at the start.
LEMMA ShutdownInit ==
  ASSUME Server!ShutdownAssumption, Server!Init PROVE ShutdownInv
<1> USE DEF Server!Init, Server!ShutdownAssumption
<1>1. ShutdownTypes
  <2>1. /\ channel \in [Clients -> Seq(Statuses)] /\ frame \in [Clients -> Statuses \cup {None}]
        /\ closerStage \in [{"http", "workers", "persistence"} -> {"idle", "running", "done"}]
    OBVIOUS
  <2>2. client \in [Clients -> ClientPlaces]
    BY DEF ClientPlaces
  <2>3. /\ phase = 0 /\ intent = FALSE /\ streamClosed = FALSE /\ streamCancelled = FALSE
        /\ announcement = "idle"
    BY Zenon
  <2>4. phase \in 0 .. 3
    BY ONLY <2>3
  <2>5. /\ intent \in BOOLEAN /\ streamClosed \in BOOLEAN /\ streamCancelled \in BOOLEAN
        /\ announcement \in {"idle", "publishing", "marking", "awaiting", "closing", "done"}
    BY ONLY <2>3, Zenon
  <2> QED
    BY ONLY <2>1, <2>2, <2>4, <2>5, Zenon DEF ShutdownTypes
<1>2. Server!Present = {}
  BY DEF Server!Present
<1>3. Phased /\ Announcing
  BY <1>2 DEF Phased, Announcing
<1>4. \A c \in Clients : Ordered(c)
  BY DEF Ordered
<1> QED
  BY <1>1, <1>3, <1>4 DEF ShutdownInv

\* The frame and the channel of a subscriber, one behind the other.
LEMMA Frames ==
  ASSUME NEW S, NEW s \in Seq(S), NEW x
  PROVE  /\ Len(<<x>> \o s) = Len(s) + 1
         /\ (<<x>> \o s)[1] = x
         /\ \A i \in 1 .. Len(s) : (<<x>> \o s)[i + 1] = s[i]
<1>1. <<x>> \in Seq({x}) /\ Len(<<x>>) = 1 /\ <<x>>[1] = x
  OBVIOUS
<1> QED
  BY <1>1

\* What the invariant says of the end of the server.
LEMMA ShutdownSound ==
  ASSUME ShutdownInv PROVE Server!StopSound
<1>1. Server!DatabaseLast
  BY DEF ShutdownInv, Phased, Announcing, ShutdownTypes, Server!DatabaseLast
<1>2. cut \subseteq told \cup left \/ "announcement" \in overrun
  BY DEF ShutdownInv, Announcing
<1>3. ASSUME NEW c \in Server!Present
      PROVE  LET frames == <<frame[c]>> \o channel[c] IN
             /\ announcement \notin {"idle", "publishing"} /\ c \in Server!Subscribed \ told =>
                  frames[Len(frames)] = "stopping"
             /\ \A i \in 1 .. (Len(frames) - 1) :
                  c \in told \/ frames[i] = "stopping" => frames[i + 1] = "stopping"
  <2> DEFINE frames == <<frame[c]>> \o channel[c]
  <2>1. c \in Clients /\ Ordered(c) /\ channel[c] \in Seq(Statuses) /\ Len(channel[c]) \in Nat
    BY DEF ShutdownInv, ShutdownTypes, Server!Present
  <2>2. /\ Len(frames) = Len(channel[c]) + 1 /\ frames[1] = frame[c]
        /\ \A i \in 1 .. Len(channel[c]) : frames[i + 1] = channel[c][i]
    BY <2>1, Frames
  <2> HIDE DEF frames
  <2>3. ASSUME announcement \notin {"idle", "publishing"}, c \in Server!Subscribed \ told
        PROVE  frames[Len(frames)] = "stopping"
    BY <2>1, <2>2, <2>3 DEF ShutdownInv, Announcing, Ordered
  <2>4. ASSUME NEW i \in 1 .. (Len(frames) - 1), c \in told \/ frames[i] = "stopping"
        PROVE  frames[i + 1] = "stopping"
    <3>1. i \in 1 .. Len(channel[c]) /\ frames[i + 1] = channel[c][i]
      BY <2>1, <2>2
    <3>2. CASE i = 1
      BY <2>1, <2>2, <2>4, <3>1, <3>2 DEF Ordered
    <3>3. CASE i # 1
      <4>1. i - 1 \in 1 .. Len(channel[c]) /\ frames[i] = channel[c][i - 1] /\ i \in i - 1 .. Len(channel[c])
        BY <2>1, <2>2, <3>1, <3>3
      <4> QED
        BY <2>1, <2>4, <3>1, <4>1 DEF Ordered
    <3> QED
      BY <3>2, <3>3
  <2> QED
    BY <2>3, <2>4 DEF frames
<1> QED
  BY <1>1, <1>2, <1>3 DEF Server!StopSound, Server!StoppingTold

\* What PublishReplace makes of a channel: the value is the last, and the oldest may go.
LEMMA ReplacedChannel ==
  ASSUME Server!ShutdownAssumption, NEW q \in Seq(Statuses), NEW v \in Statuses
  PROVE  LET r == Server!Replaced(q, v) IN
         /\ r \in Seq(Statuses) /\ Len(r) > 0 /\ r[Len(r)] = v
         /\ \E d \in {0, 1} : Len(r) = Len(q) + 1 - d /\ \A i \in 1 .. (Len(r) - 1) : r[i] = q[i + d]
<1>1. CASE Len(q) = StatusBuffer
  <2> DEFINE t == Tail(q)
  <2>1. Len(q) \in Nat \ {0} /\ q # <<>>
    BY <1>1 DEF Server!ShutdownAssumption
  <2>2. t \in Seq(Statuses) /\ Len(t) = Len(q) - 1 /\ \A i \in 1 .. Len(t) : t[i] = q[i + 1]
    BY <2>1
  <2>3. Server!Replaced(q, v) = Append(t, v)
    BY <1>1 DEF Server!Replaced
  <2> HIDE DEF t
  <2>4. /\ Append(t, v) \in Seq(Statuses) /\ Len(Append(t, v)) = Len(t) + 1
        /\ Append(t, v)[Len(t) + 1] = v /\ \A i \in 1 .. Len(t) : Append(t, v)[i] = t[i]
    BY <2>2
  <2> QED
    BY <2>1, <2>2, <2>3, <2>4
<1>2. CASE Len(q) # StatusBuffer
  <2>1. Server!Replaced(q, v) = Append(q, v)
    BY <1>2 DEF Server!Replaced
  <2>2. /\ Append(q, v) \in Seq(Statuses) /\ Len(Append(q, v)) = Len(q) + 1 /\ Len(q) \in Nat
        /\ Append(q, v)[Len(q) + 1] = v /\ \A i \in 1 .. Len(q) : Append(q, v)[i] = q[i]
    OBVIOUS
  <2> QED
    BY <2>1, <2>2
<1> QED
  BY <1>1, <1>2

\* A broadcast keeps the order: from the stop on "stopping" is all that is published.
LEMMA BroadcastOrdered ==
  ASSUME Server!ShutdownAssumption, ShutdownInv, NEW v \in Statuses, v = "stopping" <=> intent,
         Server!Broadcast(v), UNCHANGED <<client, frame, told, intent>>
  PROVE  /\ channel' \in [Clients -> Seq(Statuses)]
         /\ \A c \in Clients : Ordered(c)'
         /\ lastBroadcast' = v
<1>a. /\ channel \in [Clients -> Seq(Statuses)]
      /\ \A c \in Clients : Ordered(c)
  BY DEF ShutdownInv, ShutdownTypes
<1>b. Server!Subscribed' = Server!Subscribed
  BY DEF Server!Subscribed
<1>1. CASE v = lastBroadcast
  <2>1. UNCHANGED <<lastBroadcast, channel>>
    BY <1>1 DEF Server!Broadcast
  <2> QED
    BY <1>a, <1>b, <1>1, <2>1 DEF Ordered
<1>2. CASE v # lastBroadcast
  <2>1. lastBroadcast' = v /\ channel' = [c \in Clients |->
          IF c \in Server!Subscribed THEN Server!Replaced(channel[c], v) ELSE channel[c]]
    BY <1>2 DEF Server!Broadcast
  <2>2. channel' \in [Clients -> Seq(Statuses)]
    BY <1>a, <2>1, ReplacedChannel
  <2>3. ASSUME NEW c \in Clients PROVE Ordered(c)'
    <3>1. CASE c \notin Server!Subscribed
      BY <1>a, <1>b, <2>1, <3>1 DEF Ordered
    <3>2. CASE c \in Server!Subscribed
      <4> DEFINE r == channel'[c]
                 q == channel[c]
      <4>1. r = Server!Replaced(q, v) /\ q \in Seq(Statuses)
        BY <1>a, <2>1, <3>2
      <4>2. /\ Len(r) \in Nat \ {0} /\ r[Len(r)] = v
            /\ \E d \in {0, 1} : Len(r) = Len(q) + 1 - d /\ \A i \in 1 .. (Len(r) - 1) : r[i] = q[i + d]
        <5> HIDE DEF r, q
        <5>1. /\ r \in Seq(Statuses) /\ Len(r) > 0 /\ r[Len(r)] = v
              /\ \E d \in {0, 1} : Len(r) = Len(q) + 1 - d /\ \A i \in 1 .. (Len(r) - 1) : r[i] = q[i + d]
          BY <4>1, ReplacedChannel, Zenon
        <5> QED
          BY <5>1
      <4>3. PICK d \in {0, 1} : Len(r) = Len(q) + 1 - d /\ \A i \in 1 .. (Len(r) - 1) : r[i] = q[i + d]
        BY <4>2
      <4>4. Len(q) \in Nat /\ Ordered(c)
        BY <1>a, <4>1
      <4>5. /\ c \in told \/ frame[c] = "stopping" =>
                 intent /\ \A i \in 1 .. Len(q) : q[i] = "stopping"
            /\ \A i \in 1 .. Len(q) : q[i] = "stopping" =>
                 intent /\ \A j \in i .. Len(q) : q[j] = "stopping"
        BY <4>4 DEF Ordered
      <4> HIDE DEF r, q
      <4>6. c \in told \/ frame[c] = "stopping" =>
              intent /\ \A i \in 1 .. Len(r) : r[i] = "stopping"
        BY <4>2, <4>3, <4>4, <4>5
      <4>7. ASSUME NEW i \in 1 .. Len(r), r[i] = "stopping"
            PROVE  intent /\ \A j \in i .. Len(r) : r[j] = "stopping"
        <5>1. CASE i = Len(r)
          BY <4>2, <4>7, <5>1
        <5>2. CASE i # Len(r)
          <6>1. i \in 1 .. (Len(r) - 1) /\ i + d \in 1 .. Len(q) /\ q[i + d] = "stopping"
            BY <4>2, <4>3, <4>4, <4>7, <5>2
          <6>2. intent /\ \A j \in (i + d) .. Len(q) : q[j] = "stopping"
            BY <4>5, <6>1
          <6>3. ASSUME NEW j \in i .. Len(r), j # Len(r) PROVE r[j] = "stopping"
            <7>1. j \in 1 .. (Len(r) - 1) /\ j + d \in (i + d) .. Len(q)
              <8>1. i \in Nat \ {0} /\ j \in Nat /\ i <= j /\ j <= Len(r) /\ j # Len(r)
                BY <4>2, <6>1, <6>3
              <8>2. j \in 1 .. (Len(r) - 1)
                BY <4>2, <8>1
              <8>3. CASE d = 0
                BY <4>2, <4>3, <4>4, <8>1, <8>2, <8>3
              <8>4. CASE d = 1
                BY <4>2, <4>3, <4>4, <8>1, <8>2, <8>4
              <8> QED
                BY <8>3, <8>4
            <7> QED
              BY <4>3, <6>2, <7>1
          <6> QED
            BY <4>2, <6>2, <6>3
        <5> QED
          BY <5>1, <5>2
      <4>8. lastBroadcast' = "stopping" => Len(r) > 0 /\ r[Len(r)] = "stopping"
        BY <2>1, <4>2
      <4> QED
        BY <1>b, <3>2, <4>2, <4>6, <4>7, <4>8 DEF Ordered, r
    <3> QED
      BY <3>1, <3>2
  <2> QED
    BY <2>1, <2>2, <2>3
<1> QED
  BY <1>1, <1>2

\* Every step keeps the invariant.
LEMMA ShutdownStep ==
  ASSUME Server!ShutdownAssumption, ShutdownInv, [Server!Next]_Server!vars
  PROVE  ShutdownInv'
<1>a. ShutdownTypes /\ Phased /\ Announcing /\ \A c \in Clients : Ordered(c)
  BY DEF ShutdownInv
<1>b. /\ client \in [Clients -> ClientPlaces]
      /\ frame \in [Clients -> Statuses \cup {None}] /\ channel \in [Clients -> Seq(Statuses)]
      /\ phase \in 0 .. 3
      /\ closerStage \in [{"http", "workers", "persistence"} -> {"idle", "running", "done"}]
  BY <1>a DEF ShutdownTypes
<1>c. intent \in BOOLEAN /\ "stopping" \in Statuses /\ None # "stopping" /\ "stopping" \notin Readiness
      /\ Readiness \subseteq Statuses
  BY <1>a DEF ShutdownTypes, Statuses, Server!ShutdownAssumption
<1>d. /\ \A c : c \in Server!Present <=> c \in Clients /\ client[c] \notin {"off", "gone"}
      /\ \A c : c \in Server!Subscribed <=> c \in Clients /\ client[c] \in {"writing", "loop"}
      /\ \A c : c \in Server!Present' <=> c \in Clients /\ client'[c] \notin {"off", "gone"}
      /\ \A c : c \in Server!Subscribed' <=> c \in Clients /\ client'[c] \in {"writing", "loop"}
  BY DEF Server!Present, Server!Subscribed
<1>1. ASSUME Server!BeginPublish
      PROVE  ShutdownInv'
  <2>1. UNCHANGED <<run, worker, server, once, intent, announcement, phase, closerStage, overrun,
                    database, lastBroadcast, streamClosed, streamCancelled, toShut, client, frame,
                    channel, told, left, cut>>
    BY <1>1, <1>b
       DEF Server!BeginPublish, Server!runVars, Server!closeVars, Server!statusVars,
           Server!streamVars, Server!clientVars
  <2>2. ShutdownTypes'
    BY <1>a, <2>1 DEF ShutdownTypes
  <2>3. Phased'
    BY <1>a, <2>1 DEF Phased
  <2>4. Announcing'
    BY <1>a, <2>1 DEF Announcing, Server!Present
  <2>5. \A d \in Clients : Ordered(d)'
    BY <1>a, <2>1 DEF Ordered, Server!Subscribed
  <2> QED
    BY <2>2, <2>3, <2>4, <2>5 DEF ShutdownInv
<1>2. ASSUME Server!EndPublish
      PROVE  ShutdownInv'
  <2>1. /\ \E v \in Statuses : Server!Broadcast(v) /\ (v = "stopping" <=> intent)
        /\ UNCHANGED <<run, worker, server, once, intent, announcement, phase, closerStage,
                       overrun, database, streamClosed, streamCancelled, toShut, client, frame,
                       told, left, cut>>
    BY <1>2, <1>b, <1>c
       DEF Server!EndPublish, Server!runVars, Server!closeVars, Server!statusVars,
           Server!streamVars, Server!clientVars, Server!Probed
  <2>6. /\ channel' \in [Clients -> Seq(Statuses)] /\ \A d \in Clients : Ordered(d)'
        /\ \E v \in Statuses : lastBroadcast' = v /\ (v = "stopping" <=> intent)
    BY <2>1, BroadcastOrdered
  <2>2. ShutdownTypes'
    BY <1>a, <1>b, <2>1, <2>6 DEF ShutdownTypes
  <2>3. Phased'
    BY <1>a, <2>1 DEF Phased
  <2>4. Announcing'
    BY <1>a, <1>b, <1>c, <1>d, <2>1, <2>6 DEF Announcing
  <2>5. \A d \in Clients : Ordered(d)'
    BY <2>6
  <2> QED
    BY <2>2, <2>3, <2>4, <2>5 DEF ShutdownInv
<1>3. ASSUME NEW c \in Clients, Server!Connect(c)
      PROVE  ShutdownInv'
  <2>1. /\ client[c] = "off"
        /\ client' = [client EXCEPT ![c] = IF streamClosed THEN "gone" ELSE "registered"]
        /\ UNCHANGED <<run, worker, server, once, intent, announcement, phase, closerStage,
                       overrun, database, lastBroadcast, streamClosed, streamCancelled, toShut,
                       frame, channel, told, left, cut>>
    BY <1>3, <1>b
       DEF Server!Connect, Server!runVars, Server!closeVars, Server!statusVars, Server!streamVars,
           Server!clientVars
  <2>2. ShutdownTypes'
    BY <1>a, <1>b, <1>c, <1>d, <2>1 DEF ShutdownTypes, ClientPlaces, Statuses
  <2>3. Phased'
    BY <1>a, <2>1 DEF Phased
  <2>4. Announcing'
    BY <1>a, <1>b, <1>c, <1>d, <2>1 DEF Announcing
  <2>5. \A d \in Clients : Ordered(d)'
    BY <1>a, <1>b, <1>c, <1>d, <2>1 DEF Ordered
  <2> QED
    BY <2>2, <2>3, <2>4, <2>5 DEF ShutdownInv
<1>4. ASSUME NEW c \in Clients, Server!Snapshot(c)
      PROVE  ShutdownInv'
  <2>1. /\ client[c] = "registered"
        /\ \/ /\ intent /\ client' = [client EXCEPT ![c] = "writing"]
              /\ frame' = [frame EXCEPT ![c] = "stopping"]
           \/ ~intent /\ client' = [client EXCEPT ![c] = "probing"] /\ frame' = frame
        /\ UNCHANGED <<run, worker, server, once, intent, announcement, phase, closerStage,
                       overrun, database, lastBroadcast, streamClosed, streamCancelled, toShut,
                       channel, told, left, cut>>
    BY <1>4, <1>b
       DEF Server!Snapshot, Server!runVars, Server!closeVars, Server!statusVars,
           Server!streamVars, Server!clientVars
  <2>2. ShutdownTypes'
    BY <1>a, <1>b, <1>c, <1>d, <2>1 DEF ShutdownTypes, ClientPlaces, Statuses
  <2>3. Phased'
    BY <1>a, <2>1 DEF Phased
  <2>4. Announcing'
    BY <1>a, <1>b, <1>c, <1>d, <2>1 DEF Announcing
  <2>5. \A d \in Clients : Ordered(d)'
    BY <1>a, <1>b, <1>c, <1>d, <2>1 DEF Ordered
  <2> QED
    BY <2>2, <2>3, <2>4, <2>5 DEF ShutdownInv
<1>5. ASSUME NEW c \in Clients, Server!Subscribe(c)
      PROVE  ShutdownInv'
  <2>1. /\ client[c] = "probing" /\ client' = [client EXCEPT ![c] = "writing"]
        /\ \E v \in Statuses : frame' = [frame EXCEPT ![c] = v] /\ (v = "stopping" <=> intent)
        /\ UNCHANGED <<run, worker, server, once, intent, announcement, phase, closerStage,
                       overrun, database, lastBroadcast, streamClosed, streamCancelled, toShut,
                       channel, told, left, cut>>
    BY <1>5, <1>b, <1>c
       DEF Server!Subscribe, Server!runVars, Server!closeVars, Server!statusVars,
           Server!streamVars, Server!clientVars, Server!Probed
  <2>2. ShutdownTypes'
    BY <1>a, <1>b, <1>c, <1>d, <2>1 DEF ShutdownTypes, ClientPlaces, Statuses
  <2>3. Phased'
    BY <1>a, <2>1 DEF Phased
  <2>4. Announcing'
    BY <1>a, <1>b, <1>c, <1>d, <2>1 DEF Announcing
  <2>5. \A d \in Clients : Ordered(d)'
    BY <1>a, <1>b, <1>c, <1>d, <2>1 DEF Ordered, Announcing
  <2> QED
    BY <2>2, <2>3, <2>4, <2>5 DEF ShutdownInv
<1>6. ASSUME NEW c \in Clients, Server!Write(c)
      PROVE  ShutdownInv'
  <2>1. /\ client[c] = "writing" /\ client' = [client EXCEPT ![c] = "loop"]
        /\ frame' = [frame EXCEPT ![c] = None]
        /\ told' = IF frame[c] = "stopping" THEN told \cup {c} ELSE told
        /\ UNCHANGED <<run, worker, server, once, intent, announcement, phase, closerStage,
                       overrun, database, lastBroadcast, streamClosed, streamCancelled, toShut,
                       channel, left, cut>>
    BY <1>6, <1>b
       DEF Server!Write, Server!runVars, Server!closeVars, Server!statusVars, Server!streamVars,
           Server!clientVars
  <2>2. ShutdownTypes'
    BY <1>a, <1>b, <1>c, <1>d, <2>1 DEF ShutdownTypes, ClientPlaces, Statuses
  <2>3. Phased'
    BY <1>a, <2>1 DEF Phased
  <2>4. Announcing'
    BY <1>a, <1>b, <1>c, <1>d, <2>1 DEF Announcing
  <2>5. \A d \in Clients : Ordered(d)'
    BY <1>a, <1>b, <1>c, <1>d, <2>1 DEF Ordered
  <2> QED
    BY <2>2, <2>3, <2>4, <2>5 DEF ShutdownInv
<1>7. ASSUME NEW c \in Clients, Server!Receive(c)
      PROVE  ShutdownInv'
  <2>1. /\ client[c] = "loop" /\ client' = [client EXCEPT ![c] = "writing"] /\ channel[c] # <<>>
        /\ frame' = [frame EXCEPT ![c] = Head(channel[c])]
        /\ channel' = [channel EXCEPT ![c] = Tail(channel[c])]
        /\ UNCHANGED <<run, worker, server, once, intent, announcement, phase, closerStage,
                       overrun, database, lastBroadcast, streamClosed, streamCancelled, toShut,
                       told, left, cut>>
    BY <1>7, <1>b
       DEF Server!Receive, Server!runVars, Server!closeVars, Server!statusVars, Server!streamVars,
           Server!clientVars
  <2>6. /\ Len(channel[c]) \in Nat \ {0} /\ Head(channel[c]) = channel[c][1] /\ channel[c][1] \in Statuses
        /\ Tail(channel[c]) \in Seq(Statuses) /\ Len(Tail(channel[c])) = Len(channel[c]) - 1
        /\ \A i \in 1 .. (Len(channel[c]) - 1) : Tail(channel[c])[i] = channel[c][i + 1]
    BY <1>b, <2>1
  <2>2. ShutdownTypes'
    BY <1>a, <1>b, <2>1, <2>6 DEF ShutdownTypes, ClientPlaces
  <2>3. Phased'
    BY <1>a, <2>1 DEF Phased
  <2>4. Announcing'
    BY <1>a, <1>b, <1>c, <1>d, <2>1 DEF Announcing
  <2>5. \A d \in Clients : Ordered(d)'
    <3>1. ASSUME NEW d \in Clients, d # c PROVE Ordered(d)'
      BY <1>a, <1>b, <1>d, <2>1, <3>1 DEF Ordered
    <3> DEFINE q == channel[c]
               r == channel'[c]
    <3>2. /\ Len(q) \in Nat \ {0} /\ frame'[c] = q[1] /\ Len(r) = Len(q) - 1
          /\ \A i \in 1 .. Len(r) : r[i] = q[i + 1]
      BY <1>b, <2>1, <2>6
    <3>3. /\ c \in told => intent /\ \A i \in 1 .. Len(q) : q[i] = "stopping"
          /\ \A i \in 1 .. Len(q) : q[i] = "stopping" =>
               intent /\ \A j \in i .. Len(q) : q[j] = "stopping"
          /\ lastBroadcast = "stopping" /\ c \notin told => q[Len(q)] = "stopping"
      BY <1>a, <1>d, <2>1, <3>2 DEF Ordered
    <3>4. c \in Server!Subscribed' /\ told' = told /\ intent' = intent /\ lastBroadcast' = lastBroadcast
      BY <1>b, <1>d, <2>1
    <3> HIDE DEF q, r
    <3>5. c \in told \/ frame'[c] = "stopping" =>
            intent /\ \A i \in 1 .. Len(r) : r[i] = "stopping"
      BY <3>2, <3>3
    <3>6. ASSUME NEW i \in 1 .. Len(r), r[i] = "stopping"
          PROVE  intent /\ \A j \in i .. Len(r) : r[j] = "stopping"
      <4>1. i + 1 \in 1 .. Len(q) /\ q[i + 1] = "stopping"
        BY <3>2, <3>6
      <4>2. intent /\ \A j \in (i + 1) .. Len(q) : q[j] = "stopping"
        BY <3>3, <4>1
      <4> QED
        BY <3>2, <4>2
    <3>7. lastBroadcast = "stopping" /\ c \notin told =>
            \/ Len(r) = 0 /\ frame'[c] = "stopping"
            \/ Len(r) > 0 /\ r[Len(r)] = "stopping"
      BY <3>2, <3>3
    <3>8. Ordered(c)'
      BY <3>4, <3>5, <3>6, <3>7 DEF Ordered, r
    <3> QED
      BY <3>1, <3>8
  <2> QED
    BY <2>2, <2>3, <2>4, <2>5 DEF ShutdownInv
<1>8. ASSUME NEW c \in Clients, Server!Disconnect(c)
      PROVE  ShutdownInv'
  <2>1. /\ left' = left \cup {c}
        /\ UNCHANGED <<run, worker, server, once, intent, announcement, phase, closerStage,
                       overrun, database, lastBroadcast, streamClosed, streamCancelled, toShut,
                       client, frame, channel, told, cut>>
    BY <1>8, <1>b
       DEF Server!Disconnect, Server!runVars, Server!closeVars, Server!statusVars,
           Server!streamVars, Server!clientVars
  <2>2. ShutdownTypes'
    BY <1>a, <2>1 DEF ShutdownTypes
  <2>3. Phased'
    BY <1>a, <2>1 DEF Phased
  <2>4. Announcing'
    BY <1>a, <1>b, <1>c, <1>d, <2>1 DEF Announcing
  <2>5. \A d \in Clients : Ordered(d)'
    BY <1>a, <2>1 DEF Ordered, Server!Subscribed
  <2> QED
    BY <2>2, <2>3, <2>4, <2>5 DEF ShutdownInv
<1>9. ASSUME NEW c \in Clients, Server!Cut(c)
      PROVE  ShutdownInv'
  <2>1. /\ streamCancelled /\ c \in Server!Present /\ cut' = cut \cup {c}
        /\ UNCHANGED <<run, worker, server, once, intent, announcement, phase, closerStage,
                       overrun, database, lastBroadcast, streamClosed, streamCancelled, toShut,
                       client, frame, channel, told, left>>
    BY <1>9, <1>b
       DEF Server!Cut, Server!runVars, Server!closeVars, Server!statusVars, Server!streamVars,
           Server!clientVars
  <2>2. ShutdownTypes'
    BY <1>a, <2>1 DEF ShutdownTypes
  <2>3. Phased'
    BY <1>a, <2>1 DEF Phased
  <2>4. Announcing'
    BY <1>a, <1>b, <1>c, <1>d, <2>1 DEF Announcing
  <2>5. \A d \in Clients : Ordered(d)'
    BY <1>a, <2>1 DEF Ordered, Server!Subscribed
  <2> QED
    BY <2>2, <2>3, <2>4, <2>5 DEF ShutdownInv
<1>10. ASSUME NEW c \in Clients, Server!Leave(c)
      PROVE  ShutdownInv'
  <2>1. /\ client[c] \in {"writing", "loop"} /\ client' = [client EXCEPT ![c] = "gone"]
        /\ frame' = [frame EXCEPT ![c] = None] /\ channel' = [channel EXCEPT ![c] = <<>>]
        /\ UNCHANGED <<run, worker, server, once, intent, announcement, phase, closerStage,
                       overrun, database, lastBroadcast, streamClosed, streamCancelled, toShut,
                       told, left, cut>>
    BY <1>10, <1>b
       DEF Server!Leave, Server!runVars, Server!closeVars, Server!statusVars, Server!streamVars,
           Server!clientVars
  <2>6. <<>> \in Seq(Statuses) /\ Len(<<>>) = 0
    OBVIOUS
  <2>2. ShutdownTypes'
    BY <1>a, <1>b, <2>1, <2>6 DEF ShutdownTypes, ClientPlaces
  <2>3. Phased'
    BY <1>a, <2>1 DEF Phased
  <2>4. Announcing'
    BY <1>a, <1>b, <1>c, <1>d, <2>1 DEF Announcing
  <2>5. \A d \in Clients : Ordered(d)'
    BY <1>a, <1>b, <1>c, <1>d, <2>1, <2>6 DEF Ordered
  <2> QED
    BY <2>2, <2>3, <2>4, <2>5 DEF ShutdownInv
<1>11. ASSUME Server!BeginRun
      PROVE  ShutdownInv'
  <2>1. /\ run = "idle" /\ run' = "preparing"
        /\ UNCHANGED <<worker, server, once, intent, announcement, phase, closerStage, overrun,
                       database, lastBroadcast, streamClosed, streamCancelled, toShut, client,
                       frame, channel, told, left, cut>>
    BY <1>11, <1>b
       DEF Server!BeginRun, Server!runVars, Server!closeVars, Server!statusVars,
           Server!streamVars, Server!clientVars
  <2>2. ShutdownTypes'
    BY <1>a, <2>1 DEF ShutdownTypes
  <2>3. Phased'
    BY <1>a, <1>b, <1>c, <1>d, <2>1 DEF Phased
  <2>4. Announcing'
    BY <1>a, <2>1 DEF Announcing, Server!Present
  <2>5. \A d \in Clients : Ordered(d)'
    BY <1>a, <2>1 DEF Ordered, Server!Subscribed
  <2> QED
    BY <2>2, <2>3, <2>4, <2>5 DEF ShutdownInv
<1>12. ASSUME Server!Start
      PROVE  ShutdownInv'
  <2>1. /\ run = "preparing" /\ run' \in {"serving", "closing"}
        /\ UNCHANGED <<once, intent, announcement, phase, closerStage, overrun, database,
                       lastBroadcast, streamClosed, streamCancelled, toShut, client, frame,
                       channel, told, left, cut>>
    BY <1>12, <1>b
       DEF Server!Start, Server!runVars, Server!closeVars, Server!statusVars, Server!streamVars,
           Server!clientVars
  <2>2. ShutdownTypes'
    BY <1>a, <2>1 DEF ShutdownTypes
  <2>3. Phased'
    BY <1>a, <1>b, <1>c, <1>d, <2>1 DEF Phased
  <2>4. Announcing'
    BY <1>a, <2>1 DEF Announcing, Server!Present
  <2>5. \A d \in Clients : Ordered(d)'
    BY <1>a, <2>1 DEF Ordered, Server!Subscribed
  <2> QED
    BY <2>2, <2>3, <2>4, <2>5 DEF ShutdownInv
<1>13. ASSUME Server!CancelRun
      PROVE  ShutdownInv'
  <2>1. /\ run \in {"preparing", "serving"} /\ worker' \in {worker, "ended"} /\ server' \in {server, "ended"}
        /\ UNCHANGED <<run, once, intent, announcement, phase, closerStage, overrun, database,
                       lastBroadcast, streamClosed, streamCancelled, toShut, client, frame,
                       channel, told, left, cut>>
    BY <1>13, <1>b
       DEF Server!CancelRun, Server!runVars, Server!closeVars, Server!statusVars,
           Server!streamVars, Server!clientVars
  <2>2. ShutdownTypes'
    BY <1>a, <2>1 DEF ShutdownTypes
  <2>3. Phased'
    BY <1>a, <1>b, <1>c, <1>d, <2>1 DEF Phased
  <2>4. Announcing'
    BY <1>a, <2>1 DEF Announcing, Server!Present
  <2>5. \A d \in Clients : Ordered(d)'
    BY <1>a, <2>1 DEF Ordered, Server!Subscribed
  <2> QED
    BY <2>2, <2>3, <2>4, <2>5 DEF ShutdownInv
<1>14. ASSUME Server!WorkerEnds
      PROVE  ShutdownInv'
  <2>1. /\ worker' = "ended"
        /\ UNCHANGED <<run, server, once, intent, announcement, phase, closerStage, overrun,
                       database, lastBroadcast, streamClosed, streamCancelled, toShut, client,
                       frame, channel, told, left, cut>>
    BY <1>14, <1>b
       DEF Server!WorkerEnds, Server!runVars, Server!closeVars, Server!statusVars,
           Server!streamVars, Server!clientVars
  <2>2. ShutdownTypes'
    BY <1>a, <2>1 DEF ShutdownTypes
  <2>3. Phased'
    BY <1>a, <1>b, <1>c, <1>d, <2>1 DEF Phased
  <2>4. Announcing'
    BY <1>a, <2>1 DEF Announcing, Server!Present
  <2>5. \A d \in Clients : Ordered(d)'
    BY <1>a, <2>1 DEF Ordered, Server!Subscribed
  <2> QED
    BY <2>2, <2>3, <2>4, <2>5 DEF ShutdownInv
<1>15. ASSUME Server!EndServing
      PROVE  ShutdownInv'
  <2>1. /\ run = "serving" /\ run' = "closing"
        /\ UNCHANGED <<worker, server, once, intent, announcement, phase, closerStage, overrun,
                       database, lastBroadcast, streamClosed, streamCancelled, toShut, client,
                       frame, channel, told, left, cut>>
    BY <1>15, <1>b
       DEF Server!EndServing, Server!runVars, Server!closeVars, Server!statusVars,
           Server!streamVars, Server!clientVars
  <2>2. ShutdownTypes'
    BY <1>a, <2>1 DEF ShutdownTypes
  <2>3. Phased'
    BY <1>a, <1>b, <1>c, <1>d, <2>1 DEF Phased
  <2>4. Announcing'
    BY <1>a, <2>1 DEF Announcing, Server!Present
  <2>5. \A d \in Clients : Ordered(d)'
    BY <1>a, <2>1 DEF Ordered, Server!Subscribed
  <2> QED
    BY <2>2, <2>3, <2>4, <2>5 DEF ShutdownInv
<1>16. ASSUME NEW c \in Server!Callers, Server!RequestShutdown(c)
      PROVE  ShutdownInv'
  <2>1. /\ \/ UNCHANGED <<once, intent, announcement>>
           \/ /\ announcement = "idle" /\ announcement' = "publishing"
              /\ intent' = TRUE /\ once' # None
        /\ UNCHANGED <<run, worker, server, phase, closerStage, overrun, database, lastBroadcast,
                       streamClosed, streamCancelled, toShut, client, frame, channel, told, left,
                       cut>>
    BY <1>16, <1>b, <1>a
       DEF Server!RequestShutdown, Server!runVars, Server!closeVars, Server!statusVars,
           Server!streamVars, Server!clientVars, Server!ShutdownAssumption, Server!Callers,
           Announcing
  <2>2. ShutdownTypes'
    BY <1>a, <1>b, <1>c, <1>d, <2>1 DEF ShutdownTypes, ClientPlaces, Statuses
  <2>3. Phased'
    BY <1>a, <1>b, <1>c, <1>d, <2>1 DEF Phased
  <2>4. Announcing'
    BY <1>a, <1>b, <1>c, <1>d, <2>1 DEF Announcing
  <2>5. \A d \in Clients : Ordered(d)'
    BY <1>a, <1>b, <1>c, <1>d, <2>1 DEF Ordered
  <2> QED
    BY <2>2, <2>3, <2>4, <2>5 DEF ShutdownInv
<1>17. ASSUME NEW c \in Server!Callers, Server!Announced(c)
      PROVE  ShutdownInv'
  <2>1. /\ once' # None
        /\ UNCHANGED <<run, worker, server, intent, announcement, phase, closerStage, overrun,
                       database, lastBroadcast, streamClosed, streamCancelled, toShut, client,
                       frame, channel, told, left, cut>>
    BY <1>17, <1>b
       DEF Server!Announced, Server!runVars, Server!closeVars, Server!statusVars,
           Server!streamVars, Server!clientVars, Server!ShutdownAssumption
  <2>2. ShutdownTypes'
    BY <1>a, <2>1 DEF ShutdownTypes
  <2>3. Phased'
    BY <1>a, <2>1 DEF Phased
  <2>4. Announcing'
    BY <1>a, <1>b, <1>c, <1>d, <2>1 DEF Announcing
  <2>5. \A d \in Clients : Ordered(d)'
    BY <1>a, <2>1 DEF Ordered, Server!Subscribed
  <2> QED
    BY <2>2, <2>3, <2>4, <2>5 DEF ShutdownInv
<1>18. ASSUME NEW c \in Server!Callers, Server!RequestReturns(c)
      PROVE  ShutdownInv'
  <2>1. UNCHANGED <<run, worker, server, once, intent, announcement, phase, closerStage, overrun,
                    database, lastBroadcast, streamClosed, streamCancelled, toShut, client, frame,
                    channel, told, left, cut>>
    BY <1>18, <1>b
       DEF Server!RequestReturns, Server!runVars, Server!closeVars, Server!statusVars,
           Server!streamVars, Server!clientVars
  <2>2. ShutdownTypes'
    BY <1>a, <2>1 DEF ShutdownTypes
  <2>3. Phased'
    BY <1>a, <2>1 DEF Phased
  <2>4. Announcing'
    BY <1>a, <2>1 DEF Announcing, Server!Present
  <2>5. \A d \in Clients : Ordered(d)'
    BY <1>a, <2>1 DEF Ordered, Server!Subscribed
  <2> QED
    BY <2>2, <2>3, <2>4, <2>5 DEF ShutdownInv
<1>19. ASSUME Server!PublishStopping
      PROVE  ShutdownInv'
  <2>1. /\ announcement = "publishing" /\ announcement' = "marking"
        /\ intent /\ Server!Broadcast("stopping")
        /\ UNCHANGED <<run, worker, server, once, intent, phase, closerStage, overrun, database,
                       streamClosed, streamCancelled, toShut, client, frame, told, left, cut>>
    BY <1>19, <1>b, <1>a
       DEF Server!PublishStopping, Server!runVars, Server!closeVars, Server!statusVars,
           Server!streamVars, Server!clientVars, Announcing
  <2>6. /\ channel' \in [Clients -> Seq(Statuses)] /\ \A d \in Clients : Ordered(d)'
        /\ lastBroadcast' = "stopping"
    BY <1>c, <2>1, BroadcastOrdered
  <2>2. ShutdownTypes'
    BY <1>a, <1>b, <2>1, <2>6 DEF ShutdownTypes
  <2>3. Phased'
    BY <1>a, <1>b, <1>c, <1>d, <2>1 DEF Phased
  <2>4. Announcing'
    BY <1>a, <1>b, <1>c, <1>d, <2>1, <2>6 DEF Announcing
  <2>5. \A d \in Clients : Ordered(d)'
    BY <2>6
  <2> QED
    BY <2>2, <2>3, <2>4, <2>5 DEF ShutdownInv
<1>20. ASSUME Server!MarkStream
      PROVE  ShutdownInv'
  <2>1. /\ announcement = "marking" /\ announcement' = "awaiting" /\ streamClosed' = TRUE
        /\ toShut' = Server!Present
        /\ UNCHANGED <<run, worker, server, once, intent, phase, closerStage, overrun, database,
                       lastBroadcast, streamCancelled, client, frame, channel, told, left, cut>>
    BY <1>20, <1>b
       DEF Server!MarkStream, Server!runVars, Server!closeVars, Server!statusVars,
           Server!streamVars, Server!clientVars
  <2>2. ShutdownTypes'
    BY <1>a, <1>b, <1>c, <1>d, <2>1 DEF ShutdownTypes, ClientPlaces, Statuses
  <2>3. Phased'
    BY <1>a, <1>b, <1>c, <1>d, <2>1 DEF Phased
  <2>4. Announcing'
    BY <1>a, <1>b, <1>c, <1>d, <2>1 DEF Announcing
  <2>5. \A d \in Clients : Ordered(d)'
    BY <1>a, <2>1 DEF Ordered, Server!Subscribed
  <2> QED
    BY <2>2, <2>3, <2>4, <2>5 DEF ShutdownInv
<1>21. ASSUME Server!CloseStream
      PROVE  ShutdownInv'
  <2>1. /\ announcement = "awaiting" /\ announcement' = "closing" /\ streamCancelled' = TRUE
        /\ (\A c \in toShut : c \in told \/ client[c] = "gone") \/ "announcement" \in overrun
        /\ UNCHANGED <<run, worker, server, once, intent, phase, closerStage, overrun, database,
                       lastBroadcast, streamClosed, client, frame, channel, told, left, cut>>
    BY <1>21, <1>b
       DEF Server!CloseStream, Server!runVars, Server!closeVars, Server!statusVars,
           Server!streamVars, Server!clientVars
  <2>2. ShutdownTypes'
    BY <1>a, <1>b, <1>c, <1>d, <2>1 DEF ShutdownTypes, ClientPlaces, Statuses
  <2>3. Phased'
    BY <1>a, <1>b, <1>c, <1>d, <2>1 DEF Phased
  <2>4. Announcing'
    BY <1>a, <1>b, <1>c, <1>d, <2>1 DEF Announcing
  <2>5. \A d \in Clients : Ordered(d)'
    BY <1>a, <2>1 DEF Ordered, Server!Subscribed
  <2> QED
    BY <2>2, <2>3, <2>4, <2>5 DEF ShutdownInv
<1>22. ASSUME Server!EndAnnouncement
      PROVE  ShutdownInv'
  <2>1. /\ announcement = "closing" /\ announcement' = "done" /\ Server!Present = {}
        /\ UNCHANGED <<run, worker, server, once, intent, phase, closerStage, overrun, database,
                       lastBroadcast, streamClosed, streamCancelled, toShut, client, frame,
                       channel, told, left, cut>>
    BY <1>22, <1>b
       DEF Server!EndAnnouncement, Server!runVars, Server!closeVars, Server!statusVars,
           Server!streamVars, Server!clientVars
  <2>2. ShutdownTypes'
    BY <1>a, <1>b, <1>c, <1>d, <2>1 DEF ShutdownTypes, ClientPlaces, Statuses
  <2>3. Phased'
    BY <1>a, <1>b, <1>c, <1>d, <2>1 DEF Phased
  <2>4. Announcing'
    BY <1>a, <1>b, <1>c, <1>d, <2>1 DEF Announcing
  <2>5. \A d \in Clients : Ordered(d)'
    BY <1>a, <2>1 DEF Ordered, Server!Subscribed
  <2> QED
    BY <2>2, <2>3, <2>4, <2>5 DEF ShutdownInv
<1>23. ASSUME Server!NextPhase
      PROVE  ShutdownInv'
  <2>6. /\ Server!Phases[1] = "http" /\ Server!Phases[2] = "workers" /\ Server!Phases[3] = "persistence"
        /\ Len(Server!Phases) = 3
    BY DEF Server!Phases
  <2>1. /\ run = "closing"
        /\ \/ run' = "returned" /\ UNCHANGED <<phase, closerStage, server>>
           \/ /\ phase \in 0 .. 2 /\ phase' = phase + 1 /\ run' = run
              /\ closerStage' = [closerStage EXCEPT ![Server!Phases[phase + 1]] = "running"]
              /\ server' = IF server = "serving" THEN "ended" ELSE server
        /\ UNCHANGED <<worker, once, intent, announcement, overrun, database, lastBroadcast,
                       streamClosed, streamCancelled, toShut, client, frame, channel, told, left,
                       cut>>
    BY <1>23, <1>b, <2>6
       DEF Server!NextPhase, Server!runVars, Server!closeVars, Server!statusVars,
           Server!streamVars, Server!clientVars
  <2>7. phase \in 0 .. 2 => phase = 0 \/ phase = 1 \/ phase = 2
    OBVIOUS
  <2>2. ShutdownTypes'
    BY <1>a, <1>b, <2>1, <2>6, <2>7 DEF ShutdownTypes
  <2>3. Phased'
    BY <1>a, <1>b, <2>1, <2>6, <2>7 DEF Phased
  <2>4. Announcing'
    BY <1>a, <2>1 DEF Announcing, Server!Present
  <2>5. \A d \in Clients : Ordered(d)'
    BY <1>a, <2>1 DEF Ordered, Server!Subscribed
  <2> QED
    BY <2>2, <2>3, <2>4, <2>5 DEF ShutdownInv
<1>24. ASSUME NEW p \in {"announcement", "http", "workers", "persistence"}, Server!Late(p)
      PROVE  ShutdownInv'
  <2>1. /\ overrun \subseteq overrun'
        /\ UNCHANGED <<run, worker, server, once, intent, announcement, phase, closerStage,
                       database, lastBroadcast, streamClosed, streamCancelled, toShut, client,
                       frame, channel, told, left, cut>>
    BY <1>24, <1>b
       DEF Server!Late, Server!runVars, Server!closeVars, Server!statusVars, Server!streamVars,
           Server!clientVars
  <2>2. ShutdownTypes'
    BY <1>a, <2>1 DEF ShutdownTypes
  <2>3. Phased'
    BY <1>a, <2>1 DEF Phased
  <2>4. Announcing'
    BY <1>a, <1>b, <1>c, <1>d, <2>1 DEF Announcing
  <2>5. \A d \in Clients : Ordered(d)'
    BY <1>a, <2>1 DEF Ordered, Server!Subscribed
  <2> QED
    BY <2>2, <2>3, <2>4, <2>5 DEF ShutdownInv
<1>25. ASSUME NEW p \in {"http", "workers"}, Server!EndCloser(p)
      PROVE  ShutdownInv'
  <2>1. /\ closerStage[p] = "running" /\ closerStage' = [closerStage EXCEPT ![p] = "done"]
        /\ p = "workers" => worker # "running" /\ server # "serving"
        /\ UNCHANGED <<run, worker, server, once, intent, announcement, phase, overrun, database,
                       lastBroadcast, streamClosed, streamCancelled, toShut, client, frame,
                       channel, told, left, cut>>
    BY <1>25, <1>b
       DEF Server!EndCloser, Server!runVars, Server!closeVars, Server!statusVars,
           Server!streamVars, Server!clientVars
  <2>2. ShutdownTypes'
    BY <1>a, <1>b, <1>c, <1>d, <2>1 DEF ShutdownTypes, ClientPlaces, Statuses
  <2>3. Phased'
    BY <1>a, <1>b, <1>c, <1>d, <2>1 DEF Phased
  <2>4. Announcing'
    BY <1>a, <2>1 DEF Announcing, Server!Present
  <2>5. \A d \in Clients : Ordered(d)'
    BY <1>a, <2>1 DEF Ordered, Server!Subscribed
  <2> QED
    BY <2>2, <2>3, <2>4, <2>5 DEF ShutdownInv
<1>26. ASSUME Server!EndPersistence
      PROVE  ShutdownInv'
  <2>1. /\ closerStage' = [closerStage EXCEPT !["persistence"] = "done"] /\ closerStage["persistence"] = "running"
        /\ \/ database' = database
           \/ announcement = "done" /\ closerStage["http"] = "done" /\ closerStage["workers"] = "done"
        /\ UNCHANGED <<run, worker, server, once, intent, announcement, phase, overrun,
                       lastBroadcast, streamClosed, streamCancelled, toShut, client, frame,
                       channel, told, left, cut>>
    BY <1>26, <1>b
       DEF Server!EndPersistence, Server!runVars, Server!closeVars, Server!statusVars,
           Server!streamVars, Server!clientVars, Server!AllClosed
  <2>2. ShutdownTypes'
    BY <1>a, <1>b, <1>c, <1>d, <2>1 DEF ShutdownTypes, ClientPlaces, Statuses
  <2>3. Phased'
    BY <1>a, <1>b, <1>c, <1>d, <2>1 DEF Phased
  <2>4. Announcing'
    BY <1>a, <2>1 DEF Announcing, Server!Present
  <2>5. \A d \in Clients : Ordered(d)'
    BY <1>a, <2>1 DEF Ordered, Server!Subscribed
  <2> QED
    BY <2>2, <2>3, <2>4, <2>5 DEF ShutdownInv
<1>27. CASE UNCHANGED Server!vars
  <2>1. UNCHANGED <<run, worker, server, once, intent, announcement, phase, closerStage, overrun,
                    database, lastBroadcast, streamClosed, streamCancelled, toShut, client, frame,
                    channel, told, left, cut>>
    BY <1>27
       DEF Server!vars, Server!runVars, Server!closeVars, Server!statusVars, Server!streamVars,
           Server!clientVars
  <2> QED
    BY <2>1
       DEF ShutdownInv, ShutdownTypes, Phased, Announcing, Ordered, Server!Present,
           Server!Subscribed
<1> QED
  BY <1>1, <1>2, <1>3, <1>4, <1>5, <1>6, <1>7, <1>8, <1>9, <1>10, <1>11, <1>12, <1>13, <1>14,
     <1>15, <1>16, <1>17, <1>18, <1>19, <1>20, <1>21, <1>22, <1>23, <1>24, <1>25, <1>26, <1>27
     DEF Server!Next, Server!Progress, Server!Callers

\* Whatever hangs and whoever comes late: nothing follows "stopping", nobody is cut off before it
\* was told unless the budget is used up, and the database is closed after all that may use it.
THEOREM ShutdownKeepsOrder ==
  ASSUME Server!ShutdownAssumption
  PROVE  Server!Spec => []StopSound
<1>1. Server!Init => ShutdownInv
  BY ShutdownInit
<1>2. ShutdownInv /\ [Server!Next]_Server!vars => ShutdownInv'
  BY ShutdownStep
<1>3. ShutdownInv => StopSound
  BY ShutdownSound DEF StopSound
<1> QED
  BY <1>1, <1>2, <1>3, PTL DEF Server!Spec
==============================================================================

---------------------------- MODULE InstallProofs ----------------------------
(***************************************************************************)
(* For every set of crashing services, every earlier installation and      *)
(* every --enable-service: the transaction loses no file, implements the   *)
(* atomic installation, and leaves the services as they were, or as it was *)
(* asked to, with what is installed.                                       *)
(***************************************************************************)
EXTENDS InstallTransaction, TLAPS

Early == {"stage", "snapshot", "query", "backup", "activate"}
Forward == {"put", "reload", "restart", "finish"}
Backward == {"restore", "rollback_reload", "undo", "revive"}
Dropping == {"drop_backup", "drop_staged", "drop_tmp"}

\* What a phase says of the notes of the script.
PhaseInv ==
    /\ phase \in Upgrading => status = "ok"
    /\ phase \in Backward => status = "failed"
    /\ phase \in Early => ~activated
    /\ phase \in Forward \union Backward => activated
    /\ Committed => activated
    /\ phase # "ended" => tmpDir
    /\ unrestored # {} => incomplete

\* a has been looked at and copied, if it was there.
Copied(a) ==
    \/ activated
    \/ phase = "activate"
    \/ a \notin Binary /\ phase \in {"query", "backup"}
    \/ phase \in {"snapshot", "backup"} /\ a \in Work(phase) \ todo

\* a copy of what was there exists.
Spare(a) == before[a] = "old" => saved[a] = "old"

\* Before activation nothing is touched, and the copies become complete.
CopyInv ==
    /\ ~activated => disk = before
    /\ \A a \in existed : before[a] = "old"
    /\ \A a \in Asset : Copied(a) /\ before[a] = "old" => a \in existed
    /\ phase \in Upgrading => \A a \in Asset : Copied(a) => Spare(a)

\* What is to be put in place is there, and what was put in place is.
Ready(r) ==
    \/ phase \in {"snapshot", "query", "backup", "activate"}
    \/ phase = "stage" /\ r \notin todo
    \/ phase = "put" /\ r \in todo

Placed(a) ==
    \/ phase = "put" /\ a \notin todo
    \/ phase \in {"reload", "restart", "finish"}
    \/ Committed

PutInv ==
    /\ \A r \in Binary : Ready(r) => staged[r] = "new"
    /\ \A a \in Asset : Placed(a) => disk[a] = "new"

\* The rollback has passed a.
Settled(a) ==
    \/ phase \in {"rollback_reload", "undo", "revive"} \union Dropping
    \/ phase = "restore" /\ a \notin todo

\* What the rollback has passed is as before, or known not to be and still
\* saved; the copies of assets go last, with the directory.
Recovered(a) ==
    IF a \in Binary THEN disk[a] = before[a] \/ (a \in unrestored /\ Spare(a))
    ELSE Spare(a) /\ (disk[a] = before[a] \/ incomplete)

RollbackInv ==
    status = "failed" /\ activated => \A a \in Asset :
        /\ phase = "restore" /\ a \in todo => Spare(a)
        /\ Settled(a) => Recovered(a)

\* A rollback that is called complete is.
EndInv == phase = "ended" /\ ~tmpDir => status = "ok" \/ disk = before

-----------------------------------------------------------------------------
\* The services

Runs(r, i) == service[r] = "up" => image[r] = i

Addressed(r) == request = {} \/ r \in request

\* Nothing activated: the services run what was installed.
UntouchedInv ==
    ~activated => \A r \in Binary :
        loaded[r] = before[UnitOf[r]] /\ Runs(r, <<before[r], loaded[r]>>)

Restarted(r) ==
    \/ phase = "restart" /\ r \notin todo
    \/ phase = "finish"
    \/ Committed

\* Upgraded: systemd has read the new units, and what was restarted is new.
UpgradedInv ==
    managed => \A r \in Binary :
        /\ phase \in {"restart", "finish"} \/ Committed => loaded[r] = "new"
        /\ Restarted(r) /\ Addressed(r) => Runs(r, <<"new", "new">>)

Undone(r) ==
    \/ phase = "undo" /\ r \notin todo
    \/ phase \in {"revive"} \union Dropping

Revived(r) ==
    \/ phase = "revive" /\ r \notin todo
    \/ phase \in Dropping

\* Rolled back, each step of it unless something failed.
RevertedInv ==
    managed /\ activated /\ status = "failed" /\ ~incomplete => \A r \in Binary :
        /\ phase \in {"undo", "revive"} \union Dropping => loaded[r] = before[UnitOf[r]]
        /\ Undone(r) =>
             /\ r \in enabled <=> r \in wasEnabled
             /\ r \notin wasActive => /\ Runs(r, <<before[r], loaded[r]>>)
                                      /\ r \notin Crashing => service[r] # "up"
        /\ Revived(r) /\ r \in wasActive =>
             /\ Runs(r, <<before[r], loaded[r]>>)
             /\ r \notin Crashing => service[r] = "up"

\* Only what fails pauses.
PauseInv == \A r \in Binary : service[r] = "pausing" => r \in Crashing

\* The script has asked systemd about r.
Asked(r) ==
    \/ phase = "query" /\ r \notin todo
    \/ phase \in {"backup", "activate"}
    \/ activated

\* What the script has not yet asked, it has noted nothing of.
NotesInv == \A r \in Binary :
    phase \in {"stage", "snapshot"} \/ (phase = "query" /\ r \in todo)
      => r \notin wasActive /\ r \notin wasEnabled

Added(r) == Restarted(r) /\ r \in request

\* What the script notes is how it was, and that is how it is until it restarts
\* the services.
AsFormer(r) ==
    /\ Asked(r) => /\ r \in wasEnabled <=> r \in former.enabled
                   /\ r \notin Crashing => (r \in wasActive <=> r \in former.up)
    /\ status = "ok" \/ ~activated =>
         /\ r \in enabled <=> r \in former.enabled \/ Added(r)
         /\ r \notin Crashing => (service[r] = "up" <=> r \in former.up \/ Added(r))

FormerInv == managed => \A r \in Binary : AsFormer(r)

ServicesInv ==
    /\ UntouchedInv /\ UpgradedInv /\ RevertedInv
    /\ PauseInv /\ NotesInv /\ FormerInv
    /\ ServicesMatch

-----------------------------------------------------------------------------
\* Types

Phases == Upgrading \union Cleaning \union {"ended"}

PhaseType ==
    /\ phase \in Phases
    /\ todo \subseteq Work(phase)
    /\ Work(phase) # {} => todo # {}

LEMMA GoType ==
  ASSUME NEW p \in Phases, Go(p)
  PROVE  PhaseType'
BY DEF Go, PhaseType

LEMMA DoneType ==
  ASSUME TypeOK, NEW p, NEW a, NEW n \in Phases, Turn(p, a), Done(a, n)
  PROVE  PhaseType'
<1>1. CASE todo = {a}
  BY <1>1, GoType DEF Done
<1>2. CASE todo # {a}
  BY <1>2 DEF Done, Turn, PhaseType, Phases, TypeOK
<1>3. QED
  BY <1>1, <1>2

\* Every phase there is to go to.
LEMMA PhaseNames ==
  /\ \A p \in {"stage", "snapshot", "query", "backup", "activate", "put", "reload",
               "restart", "finish", "restore", "rollback_reload", "undo", "revive",
               "drop_backup", "drop_staged", "drop_tmp", "ended"} : p \in Phases
  /\ AfterPut \in Phases
  /\ AfterRestore \in Phases
BY DEF Phases, Upgrading, Cleaning, AfterPut, AfterRestore

LEMMA AbortType ==
  ASSUME Abort
  PROVE  PhaseType' /\ status' = "failed"
BY GoType, PhaseNames DEF Abort

LEMMA FallsType ==
  ASSUME TypeOK, NEW r \in Binary, NEW s \in {"down", "pausing"}, Falls(r, s)
  PROVE  /\ service' \in [Binary -> {"up", "down", "pausing"}]
         /\ image' \in [Binary -> Content \X Content]
<1>1. NoProcess \in Content \X Content
  BY DEF NoProcess, Content
<1>2. QED
  BY <1>1 DEF Falls, TypeOK

LEMMA StartType ==
  ASSUME TypeOK, NEW r \in Binary, StartNow(r)
  PROVE  /\ service' \in [Binary -> {"up", "down", "pausing"}]
         /\ image' \in [Binary -> Content \X Content]
<1>1. <<disk[r], loaded[r]>> \in Content \X Content
  BY DEF TypeOK, Asset
<1>2. QED
  BY <1>1 DEF StartNow, TypeOK

LEMMA ReloadedType ==
  ASSUME TypeOK, Reloaded
  PROVE  loaded' \in [Binary -> Content]
<1>1. \A r \in Binary : UnitOf[r] \in Asset
  BY DEF UnitOf, Binary, Asset, Unit
<1>2. QED
  BY <1>1 DEF Reloaded, TypeOK

\* The parts of the state, each with its type.
NotesType == activated \in BOOLEAN /\ existed \subseteq Asset /\ wasActive \subseteq Binary
             /\ wasEnabled \subseteq Binary
TroubleType == unrestored \subseteq Binary /\ incomplete \in BOOLEAN
FilesType == disk \in [Asset -> Content] /\ saved \in [Asset -> Content]
             /\ staged \in [Binary -> Content] /\ tmpDir \in BOOLEAN
SystemdType == service \in [Binary -> {"up", "down", "pausing"}]
               /\ image \in [Binary -> Content \X Content]
               /\ loaded \in [Binary -> Content] /\ enabled \subseteq Binary
GivenType == (\E p \in Previous : before = [a \in Asset |-> IF a \in p THEN "old" ELSE "none"])
             /\ former \in [up : SUBSET Binary, enabled : SUBSET Binary]
             /\ managed \in BOOLEAN /\ request \in Request

Typed == PhaseType /\ status \in {"ok", "failed"} /\ NotesType /\ TroubleType /\ FilesType
         /\ SystemdType /\ GivenType

LEMMA TypeParts == (TypeOK => Typed) /\ (Typed' => TypeOK') /\ (Typed => TypeOK)
BY DEF TypeOK, Typed, PhaseType, Phases, NotesType, TroubleType, FilesType, SystemdType, GivenType

\* What is left alone keeps its type.
LEMMA PartsKept ==
  ASSUME Typed
  PROVE  /\ UNCHANGED notes => NotesType'
         /\ UNCHANGED trouble => TroubleType'
         /\ UNCHANGED files => FilesType'
         /\ UNCHANGED systemd => SystemdType'
         /\ UNCHANGED given => GivenType'
BY DEF Typed, NotesType, TroubleType, FilesType, SystemdType, GivenType, notes, trouble, files,
       systemd, given

LEMMA TypeInit == Init => TypeOK
<1> SUFFICES ASSUME Init PROVE TypeOK
  OBVIOUS
<1>1. PICK p \in Previous : before = [a \in Asset |-> IF a \in p THEN "old" ELSE "none"]
  BY DEF Init
<1>2. before \in [Asset -> Content]
  BY <1>1 DEF Content
<1>3. \A r \in Binary : r \in Asset /\ UnitOf[r] \in Asset
  BY DEF UnitOf, Binary, Asset, Unit
<1>4. loaded \in [Binary -> Content]
  BY <1>2, <1>3 DEF Init
<1>5. \A r \in Binary : <<before[r], loaded[r]>> \in Content \X Content /\ NoProcess \in Content \X Content
  BY <1>2, <1>3, <1>4 DEF NoProcess, Content
<1>6. image \in [Binary -> Content \X Content]
  BY <1>5 DEF Init
<1>7. PhaseType /\ status \in {"ok", "failed"}
  BY DEF Init, PhaseType, Phases, Upgrading, Work, Binary
<1>8. NotesType /\ TroubleType
  BY DEF Init, NotesType, TroubleType
<1>9. FilesType
  BY <1>2 DEF Init, FilesType, Content
<1>10. SystemdType
  BY <1>4, <1>6 DEF Init, SystemdType
<1>11. GivenType
  <2>1. former \in [up : SUBSET Binary, enabled : SUBSET Binary]
    BY DEF Init
  <2>2. QED
    BY <1>1, <2>1 DEF Init, GivenType
<1>12. QED
  BY <1>7, <1>8, <1>9, <1>10, <1>11, TypeParts DEF Typed

LEMMA TypeUpgrade ==
  ASSUME TypeOK, Upgrade
  PROVE  TypeOK'
<1> USE TypeParts, PartsKept, PhaseNames
<1>1. ASSUME NEW r \in Binary, Stage(r) PROVE TypeOK'
  <2>1. PhaseType'
    BY <1>1, DoneType DEF Stage
  <2>2. QED
    BY <1>1, <2>1 DEF Typed, Stage, FilesType, Content
<1>2. ASSUME NEW a \in Asset, Snapshot(a) \/ (a \in Binary /\ Backup(a)) PROVE TypeOK'
  <2>1. PhaseType'
    BY <1>2, DoneType DEF Snapshot, Backup
  <2>2. QED
    BY <1>2, <2>1 DEF Typed, Snapshot, Backup, Save, SaveUnchanged, NotesType, FilesType
<1>3. ASSUME NEW r \in Binary, Query(r) PROVE TypeOK'
  <2>1. PhaseType'
    BY <1>3, DoneType DEF Query
  <2>2. QED
    BY <1>3, <2>1 DEF Typed, Query, NotesType
<1>4. ASSUME Activate PROVE TypeOK'
  BY <1>4, GoType DEF Typed, Activate, NotesType
<1>5. ASSUME NEW r \in Binary, Swap(r) PROVE TypeOK'
  <2>1. PhaseType'
    BY <1>5, DoneType DEF Swap
  <2>2. QED
    BY <1>5, <2>1 DEF Typed, Swap, FilesType, Content
<1>6. ASSUME NEW a \in Asset, Put(a) PROVE TypeOK'
  <2>1. PhaseType'
    BY <1>6, DoneType DEF Put
  <2>2. QED
    BY <1>6, <2>1 DEF Typed, Put, FilesType, Content
<1>7. ASSUME Reload PROVE TypeOK'
  BY <1>7, GoType, ReloadedType DEF Typed, Reload, SystemdType
<1>8. ASSUME NEW r \in Binary, Restart(r) PROVE TypeOK'
  <2>1. PhaseType'
    BY <1>8, DoneType DEF Restart
  <2>2. /\ service' \in [Binary -> {"up", "down", "pausing"}]
        /\ image' \in [Binary -> Content \X Content]
    BY <1>8, StartType DEF Typed, Restart, SystemdType
  <2>3. QED
    BY <1>8, <2>1, <2>2 DEF Typed, Restart, SystemdType
<1>9. ASSUME Finish PROVE TypeOK'
  BY <1>9, GoType DEF Typed, Finish
<1>10. QED
  BY <1>1, <1>2, <1>3, <1>4, <1>5, <1>6, <1>7, <1>8, <1>9 DEF Upgrade, Asset

LEMMA TypeFailure ==
  ASSUME TypeOK, Failure
  PROVE  TypeOK'
<1> USE TypeParts, PartsKept, PhaseNames
<1>1. ASSUME CommandFails PROVE TypeOK'
  BY <1>1, AbortType DEF Typed, CommandFails
<1>2. ASSUME NEW a \in Asset, SaveFails(a) \/ PutFails(a) PROVE TypeOK'
  BY <1>2, AbortType DEF Typed, SaveFails, PutFails, FilesType, Content
<1>3. ASSUME NEW r \in Binary, RestartFails(r) PROVE TypeOK'
  <2>1. /\ service' \in [Binary -> {"up", "down", "pausing"}]
        /\ image' \in [Binary -> Content \X Content]
    BY <1>3, FallsType DEF Typed, RestartFails, FailsToStart, SystemdType
  <2>2. QED
    BY <1>3, <2>1, AbortType DEF Typed, RestartFails, SystemdType
<1>4. ASSUME Cut PROVE TypeOK'
  BY <1>4, GoType DEF Typed, Cut
<1>5. QED
  BY <1>1, <1>2, <1>3, <1>4 DEF Failure

LEMMA TypeCleanup ==
  ASSUME TypeOK, Cleanup
  PROVE  TypeOK'
<1> USE TypeParts, PartsKept, PhaseNames
<1>1. ASSUME NEW a \in Asset, Restore(a) PROVE TypeOK'
  <2>1. PhaseType'
    BY <1>1, DoneType DEF Restore
  <2>2. Retained(a) \in Content
    BY DEF Typed, Retained, FilesType, Content
  <2>3. QED
    BY <1>1, <2>1, <2>2 DEF Typed, Restore, FilesType, Content
<1>2. ASSUME NEW r \in Binary, RestoreBinaryFails(r) PROVE TypeOK'
  <2>1. PhaseType'
    BY <1>2, DoneType DEF RestoreBinaryFails
  <2>2. QED
    BY <1>2, <2>1 DEF Typed, RestoreBinaryFails, TroubleType
<1>3. ASSUME NEW a \in Asset, RestoreAssetFails(a) PROVE TypeOK'
  <2>1. PhaseType'
    BY <1>3, DoneType DEF RestoreAssetFails
  <2>2. QED
    BY <1>3, <2>1 DEF Typed, RestoreAssetFails, TroubleType, FilesType, Content
<1>4. ASSUME RollbackReload PROVE TypeOK'
  BY <1>4, GoType, ReloadedType DEF Typed, RollbackReload, TroubleType, SystemdType
<1>5. ASSUME NEW r \in Binary, Undo(r) PROVE TypeOK'
  <2>1. PhaseType'
    BY <1>5, DoneType DEF Undo
  <2>2. /\ service' \in [Binary -> {"up", "down", "pausing"}]
        /\ image' \in [Binary -> Content \X Content]
    BY <1>5, FallsType DEF Typed, Undo, SystemdType
  <2>3. enabled' \subseteq Binary /\ incomplete' \in BOOLEAN
    BY <1>5 DEF Typed, Undo, SystemdType, TroubleType
  <2>4. QED
    BY <1>5, <2>1, <2>2, <2>3 DEF Typed, Undo, TroubleType, SystemdType
<1>6. ASSUME NEW r \in Binary, Revive(r) PROVE TypeOK'
  <2>1. PhaseType'
    BY <1>6, DoneType DEF Revive
  <2>2. /\ service' \in [Binary -> {"up", "down", "pausing"}]
        /\ image' \in [Binary -> Content \X Content]
    BY <1>6, StartType DEF Typed, Revive, SystemdType
  <2>3. QED
    BY <1>6, <2>1, <2>2 DEF Typed, Revive, SystemdType
<1>7. ASSUME NEW r \in Binary, ReviveFails(r) PROVE TypeOK'
  <2>1. PhaseType'
    BY <1>7, DoneType DEF ReviveFails
  <2>2. /\ service' \in [Binary -> {"up", "down", "pausing"}]
        /\ image' \in [Binary -> Content \X Content]
    BY <1>7, FallsType DEF Typed, ReviveFails, FailsToStart, SystemdType
  <2>3. QED
    BY <1>7, <2>1, <2>2 DEF Typed, ReviveFails, TroubleType, SystemdType
<1>8. ASSUME NEW r \in Binary, DropBackup(r) PROVE TypeOK'
  <2>1. PhaseType'
    BY <1>8, DoneType DEF DropBackup
  <2>2. QED
    BY <1>8, <2>1 DEF Typed, DropBackup, FilesType, Content
<1>9. ASSUME DropStaged PROVE TypeOK'
  BY <1>9, GoType DEF Typed, DropStaged, FilesType, Content
<1>10. ASSUME Exit PROVE TypeOK'
  BY <1>10, GoType DEF Typed, Exit, FilesType, Content
<1>11. QED
  BY <1>1, <1>2, <1>3, <1>4, <1>5, <1>6, <1>7, <1>8, <1>9, <1>10 DEF Cleanup

LEMMA TypeSystemd ==
  ASSUME TypeOK, Systemd
  PROVE  TypeOK'
<1> USE TypeParts, PartsKept
<1>1. PICK r \in Binary : Crash(r) \/ Resume(r) \/ GiveUp(r)
  BY DEF Systemd
<1>2. /\ service' \in [Binary -> {"up", "down", "pausing"}]
      /\ image' \in [Binary -> Content \X Content]
  BY <1>1, FallsType, StartType DEF Crash, Resume, GiveUp
<1>3. QED
  BY <1>1, <1>2 DEF Typed, Crash, Resume, GiveUp, PhaseType, SystemdType, control

LEMMA TypeStutter ==
  ASSUME TypeOK, UNCHANGED vars
  PROVE  TypeOK'
BY DEF TypeOK, vars, control, notes, trouble, files, systemd, given

\* Every variable keeps its type whatever fails and whatever is installed, and
\* a phase never waits for work it does not have (install.sh:455-465).
THEOREM TypeCorrect == Spec => []TypeOK
<1>1. TypeOK /\ [Next]_vars => TypeOK'
  BY TypeUpgrade, TypeFailure, TypeCleanup, TypeSystemd, TypeStutter DEF Next, Ended
<1>2. QED
  BY <1>1, TypeInit, PTL DEF Spec

-----------------------------------------------------------------------------
\* Where the script goes

\* A loop goes on, or its phase is over.
LEMMA DoneMoves ==
  ASSUME NEW p, NEW a, NEW n, Turn(p, a), Done(a, n)
  PROVE  /\ phase = p
         /\ \/ todo = {a} /\ phase' = n /\ todo' = Work(n)
            \/ todo # {a} /\ phase' = p /\ todo' = todo \ {a}
BY DEF Turn, Done, Go

LEMMA PhaseInit == Init => PhaseInv
BY DEF Init, PhaseInv, Upgrading, Backward, Early, Forward, Committed

LEMMA PhaseUpgrade ==
  ASSUME TypeOK, PhaseInv, Upgrade
  PROVE  PhaseInv'
<1> USE DEF PhaseInv, Upgrading, Backward, Early, Forward, Committed
<1>1. ASSUME NEW r \in Binary, Stage(r) PROVE PhaseInv'
  BY <1>1, DoneMoves DEF Stage, notes, trouble
<1>2. ASSUME NEW a \in Asset, Snapshot(a) PROVE PhaseInv'
  BY <1>2, DoneMoves DEF Snapshot, SaveUnchanged, trouble
<1>3. ASSUME NEW r \in Binary, Query(r) PROVE PhaseInv'
  BY <1>3, DoneMoves DEF Query, files, trouble
<1>4. ASSUME NEW r \in Binary, Backup(r) PROVE PhaseInv'
  BY <1>4, DoneMoves DEF Backup, SaveUnchanged, trouble
<1>5. ASSUME Activate PROVE PhaseInv'
  BY <1>5 DEF Activate, Go, files, trouble
<1>6. ASSUME NEW a \in Asset, Put(a) \/ Swap(a) PROVE PhaseInv'
  BY <1>6, DoneMoves DEF Put, Swap, AfterPut, notes, trouble
<1>7. ASSUME Reload PROVE PhaseInv'
  BY <1>7 DEF Reload, Go, notes, files, trouble
<1>8. ASSUME NEW r \in Binary, Restart(r) PROVE PhaseInv'
  BY <1>8, DoneMoves DEF Restart, notes, files, trouble
<1>9. ASSUME Finish PROVE PhaseInv'
  BY <1>9 DEF Finish, Go, notes, files, trouble
<1>10. QED
  BY <1>1, <1>2, <1>3, <1>4, <1>5, <1>6, <1>7, <1>8, <1>9 DEF Upgrade, Asset

LEMMA PhaseFailure ==
  ASSUME TypeOK, PhaseInv, Failure
  PROVE  PhaseInv'
<1> USE DEF PhaseInv, Upgrading, Backward, Early, Forward, Committed, Abort, Go, notes, trouble
<1>1. ASSUME CommandFails PROVE PhaseInv'
  BY <1>1 DEF CommandFails, files
<1>2. ASSUME NEW a \in Asset, SaveFails(a) \/ PutFails(a) PROVE PhaseInv'
  BY <1>2 DEF SaveFails, PutFails, Turn
<1>3. ASSUME NEW r \in Binary, RestartFails(r) PROVE PhaseInv'
  BY <1>3 DEF RestartFails, Turn, files
<1>4. ASSUME Cut PROVE PhaseInv'
  BY <1>4 DEF Cut, files
<1>5. QED
  BY <1>1, <1>2, <1>3, <1>4 DEF Failure

LEMMA PhaseCleanup ==
  ASSUME TypeOK, PhaseInv, Cleanup
  PROVE  PhaseInv'
<1> USE DEF PhaseInv, Upgrading, Backward, Early, Forward, Committed, notes
<1>1. ASSUME NEW a \in Asset, Restore(a) PROVE PhaseInv'
  BY <1>1, DoneMoves DEF Restore, AfterRestore, trouble
<1>2. ASSUME NEW a \in Asset, RestoreBinaryFails(a) \/ RestoreAssetFails(a) PROVE PhaseInv'
  BY <1>2, DoneMoves DEF RestoreBinaryFails, RestoreAssetFails, AfterRestore, files
<1>3. ASSUME RollbackReload PROVE PhaseInv'
  BY <1>3 DEF RollbackReload, Go, files
<1>4. ASSUME NEW r \in Binary, Undo(r) PROVE PhaseInv'
  <2>1. incomplete => incomplete'
    BY <1>4 DEF Undo, TypeOK
  <2>2. QED
    BY <1>4, <2>1, DoneMoves DEF Undo, files
<1>5. ASSUME NEW r \in Binary, Revive(r) \/ ReviveFails(r) PROVE PhaseInv'
  BY <1>5, DoneMoves DEF Revive, ReviveFails, files, trouble
<1>6. ASSUME NEW r \in Binary, DropBackup(r) PROVE PhaseInv'
  BY <1>6, DoneMoves DEF DropBackup, trouble
<1>7. ASSUME DropStaged \/ Exit PROVE PhaseInv'
  BY <1>7 DEF DropStaged, Exit, Go, trouble
<1>8. QED
  BY <1>1, <1>2, <1>3, <1>4, <1>5, <1>6, <1>7 DEF Cleanup, Asset

LEMMA PhaseNext ==
  ASSUME TypeOK, PhaseInv, [Next]_vars
  PROVE  PhaseInv'
<1>1. CASE Systemd \/ UNCHANGED vars
  BY <1>1 DEF Systemd, Crash, Resume, GiveUp, PhaseInv, Committed, vars, control, notes, trouble,
              files
<1>2. QED
  BY <1>1, PhaseUpgrade, PhaseFailure, PhaseCleanup DEF Next, Ended

-----------------------------------------------------------------------------
\* The copies

LEMMA CopyInit == Init => CopyInv
<1> SUFFICES ASSUME Init PROVE CopyInv
  OBVIOUS
<1>1. phase = "stage" /\ existed = {} /\ disk = before /\ ~activated
  BY DEF Init
<1>2. QED
  BY <1>1 DEF CopyInv, Copied

\* One more file is copied, or known not to be there.
LEMMA SaveCopies ==
  ASSUME TypeOK, PhaseInv, CopyInv, NEW a \in Asset, Save(a), phase \in Early,
         UNCHANGED <<activated, disk, before>>
  PROVE  /\ \A b \in existed' : before[b] = "old"
         /\ before[a] = "old" => a \in existed' /\ saved'[a] = "old"
         /\ \A b \in Asset : saved[b] = "old" => b = a \/ saved'[b] = "old"
         /\ existed \subseteq existed'
         /\ \A b \in Asset : b # a => saved'[b] = saved[b]
<1>1. disk = before
  BY DEF PhaseInv, CopyInv
<1>2. before[a] \in {"none", "old"} /\ saved \in [Asset -> Content]
  BY DEF TypeOK
<1>3. \A b \in existed : before[b] = "old"
  BY DEF CopyInv
<1>4. CASE before[a] = "none"
  BY <1>1, <1>3, <1>4 DEF Save
<1>5. CASE before[a] = "old"
  <2>1. saved' = [saved EXCEPT ![a] = "old"] /\ existed' = existed \union {a}
    BY <1>1, <1>5 DEF Save
  <2>2. QED
    BY <1>2, <1>3, <1>5, <2>1
<1>6. QED
  BY <1>2, <1>4, <1>5

LEMMA CopySnapshot ==
  ASSUME TypeOK, PhaseInv, CopyInv, NEW a \in Asset, Snapshot(a)
  PROVE  CopyInv'
<1>1. phase = "snapshot" /\ a \in todo /\ ~activated /\ a \notin Binary
  BY DEF Snapshot, Turn, PhaseInv, Early, TypeOK, Work, Binary, Unit
<1>2. UNCHANGED <<activated, disk, before>>
  BY DEF Snapshot, SaveUnchanged, given
<1>3. /\ \A b \in existed' : before[b] = "old"
      /\ before[a] = "old" => a \in existed' /\ saved'[a] = "old"
      /\ existed \subseteq existed'
      /\ \A b \in Asset : b # a => saved'[b] = saved[b]
  BY <1>1, <1>2, SaveCopies DEF Snapshot, Early
<1>4. \A b \in Asset : Copied(b)' => b = a \/ Copied(b)
  <2> SUFFICES ASSUME NEW b \in Asset, Copied(b)', b # a PROVE Copied(b)
    OBVIOUS
  <2>1. CASE todo = {a}
    <3>1. b \notin Binary
      BY <1>1, <1>2, <2>1, DoneMoves DEF Snapshot, Copied, Work
    <3>2. QED
      BY <1>1, <2>1, <3>1 DEF Copied, Work, Asset
  <2>2. CASE todo # {a}
    BY <1>1, <1>2, <2>2, DoneMoves DEF Snapshot, Copied
  <2>3. QED
    BY <2>1, <2>2
<1>5. QED
  BY <1>1, <1>2, <1>3, <1>4 DEF CopyInv, Spare, Upgrading

LEMMA CopyBackup ==
  ASSUME TypeOK, PhaseInv, CopyInv, NEW a \in Binary, Backup(a)
  PROVE  CopyInv'
<1>1. phase = "backup" /\ a \in todo /\ ~activated
  BY DEF Backup, Turn, PhaseInv, Early
<1>2. UNCHANGED <<activated, disk, before>>
  BY DEF Backup, SaveUnchanged, given
<1>3. /\ \A b \in existed' : before[b] = "old"
      /\ before[a] = "old" => a \in existed' /\ saved'[a] = "old"
      /\ existed \subseteq existed'
      /\ \A b \in Asset : b # a => saved'[b] = saved[b]
  BY <1>1, <1>2, SaveCopies DEF Backup, Early, Asset
<1>4. \A b \in Asset : Copied(b)' => b = a \/ Copied(b)
  <2> SUFFICES ASSUME NEW b \in Asset, Copied(b)', b # a PROVE Copied(b)
    OBVIOUS
  <2>1. CASE todo = {a}
    BY <1>1, <2>1 DEF Copied, Work
  <2>2. CASE todo # {a}
    BY <1>1, <1>2, <2>2, DoneMoves DEF Backup, Copied
  <2>3. QED
    BY <2>1, <2>2
<1>5. QED
  BY <1>1, <1>2, <1>3, <1>4 DEF CopyInv, Spare, Upgrading, Asset

\* Nothing is copied, put in place or put back.
LEMMA CopyQuiet ==
  ASSUME CopyInv, UNCHANGED <<activated, existed, disk, saved, before>>,
         \A b \in Asset : Copied(b)' => Copied(b),
         phase' \in Upgrading => phase \in Upgrading
  PROVE  CopyInv'
BY DEF CopyInv, Spare

\* After activation only the files themselves move.
LEMMA CopyActivated ==
  ASSUME CopyInv, activated, activated', UNCHANGED <<existed, before>>,
         phase' \in Upgrading => phase \in Upgrading /\ UNCHANGED saved
  PROVE  CopyInv'
BY DEF CopyInv, Spare, Copied

LEMMA CopyUpgrade ==
  ASSUME TypeOK, PhaseInv, CopyInv, Upgrade
  PROVE  CopyInv'
<1>1. ASSUME NEW r \in Binary, Stage(r) PROVE CopyInv'
  <2>1. phase = "stage" /\ phase' \in {"stage", "snapshot"} /\ ~activated /\ UNCHANGED activated
        /\ (phase' = "snapshot" => todo' = Work("snapshot"))
    BY <1>1, DoneMoves DEF Stage, PhaseInv, Early, notes
  <2>2. \A b \in Asset : ~Copied(b)'
    BY <2>1 DEF Copied
  <2>3. QED
    BY <1>1, <2>1, <2>2, CopyQuiet DEF Stage, notes, given, Upgrading
<1>2. ASSUME NEW r \in Binary, Query(r) PROVE CopyInv'
  <2>1. phase = "query" /\ phase' \in {"query", "backup"} /\ ~activated /\ UNCHANGED activated
        /\ (phase' = "backup" => todo' = Work("backup"))
    BY <1>2, DoneMoves DEF Query, PhaseInv, Early
  <2>2. \A b \in Asset : Copied(b)' => Copied(b)
    BY <2>1 DEF Copied
  <2>3. QED
    BY <1>2, <2>1, <2>2, CopyQuiet DEF Query, files, given, Upgrading
<1>3. ASSUME Activate PROVE CopyInv'
  <2>1. phase = "activate" /\ phase' = "put" /\ ~activated /\ activated'
    BY <1>3 DEF Activate, Go, PhaseInv, Early
  <2>2. \A b \in Asset : Copied(b)
    BY <2>1 DEF Copied
  <2>3. UNCHANGED <<existed, disk, saved, before>>
    BY <1>3 DEF Activate, files, given
  <2>4. QED
    BY <2>1, <2>2, <2>3 DEF CopyInv, Spare, Upgrading
<1>4. ASSUME NEW a \in Asset, Put(a) \/ Swap(a) PROVE CopyInv'
  <2>1. phase = "put" /\ activated /\ UNCHANGED <<activated, existed, before, saved>>
    BY <1>4 DEF Put, Swap, Turn, PhaseInv, Forward, notes, given
  <2>2. QED
    BY <2>1, CopyActivated DEF Upgrading
<1>5. ASSUME NEW r \in Binary, Reload \/ Restart(r) \/ Finish PROVE CopyInv'
  <2>1. activated /\ phase \in Upgrading /\ UNCHANGED <<activated, existed, before, saved>>
    BY <1>5 DEF Reload, Restart, Finish, Turn, PhaseInv, Forward, notes, given, files, Upgrading
  <2>2. QED
    BY <2>1, CopyActivated
<1>6. QED
  BY <1>1, <1>2, <1>3, <1>4, <1>5, CopySnapshot, CopyBackup DEF Upgrade, Asset, Binary

LEMMA CopyFailure ==
  ASSUME TypeOK, PhaseInv, CopyInv, Failure
  PROVE  CopyInv'
<1>1. phase' \notin Upgrading
  BY DEF Failure, CommandFails, SaveFails, PutFails, RestartFails, Cut, Abort, Go, Upgrading
<1>2. UNCHANGED <<activated, existed, before>>
  BY DEF Failure, CommandFails, SaveFails, PutFails, RestartFails, Cut, notes, given
<1>3. ~activated => disk' = disk
  BY DEF Failure, CommandFails, SaveFails, PutFails, RestartFails, Cut, files, Turn, PhaseInv,
         Forward
<1>4. phase' \notin {"activate", "query", "snapshot", "backup"}
  BY <1>1 DEF Upgrading
<1>5. \A b \in Asset : Copied(b)' => activated
  BY <1>2, <1>4 DEF Copied
<1>6. QED
  BY <1>1, <1>2, <1>3, <1>5 DEF CopyInv, Copied

LEMMA CopyCleanup ==
  ASSUME TypeOK, PhaseInv, CopyInv, Cleanup
  PROVE  CopyInv'
<1>1. UNCHANGED <<activated, existed, before>>
  BY DEF Cleanup, Restore, RestoreBinaryFails, RestoreAssetFails, RollbackReload, Undo, Revive,
         ReviveFails, DropBackup, DropStaged, Exit, notes, given
<1>2. phase' \notin Upgrading
  <2>1. phase \in Cleaning /\ (phase' = phase \/ phase' \in Cleaning \union {"ended"})
    BY DoneMoves DEF Cleanup, Restore, RestoreBinaryFails, RestoreAssetFails, RollbackReload,
                     Undo,
         Revive, ReviveFails, DropBackup, DropStaged, Exit, Go, AfterRestore, Cleaning
  <2>2. QED
    BY <2>1 DEF Cleaning, Upgrading
<1>3. ~activated => disk' = disk
  BY DEF Cleanup, Restore, RestoreBinaryFails, RestoreAssetFails, RollbackReload, Undo, Revive,
         ReviveFails, DropBackup, DropStaged, Exit, files, Turn, PhaseInv, Backward
<1>4. phase' \notin {"activate", "query", "snapshot", "backup"}
  BY <1>2 DEF Upgrading
<1>5. \A b \in Asset : Copied(b)' => activated
  BY <1>1, <1>4 DEF Copied
<1>6. QED
  BY <1>1, <1>2, <1>3, <1>5 DEF CopyInv, Copied

\* systemd touches neither the script nor its files.
LEMMA FilesKept ==
  ASSUME Systemd \/ UNCHANGED vars
  PROVE  UNCHANGED <<phase, todo, status, activated, existed, wasActive, wasEnabled, unrestored,
                     incomplete, disk, saved, staged, tmpDir, loaded, enabled, before, former,
                     managed, request>>
BY DEF Systemd, Crash, Resume, GiveUp, vars, control, notes, trouble, files, systemd, given

LEMMA CopyNext ==
  ASSUME TypeOK, PhaseInv, CopyInv, [Next]_vars
  PROVE  CopyInv'
<1>1. CASE Systemd \/ UNCHANGED vars
  BY <1>1, FilesKept DEF CopyInv, Copied, Spare
<1>2. QED
  BY <1>1, CopyUpgrade, CopyFailure, CopyCleanup DEF Next, Ended

-----------------------------------------------------------------------------
\* What is put in place

LEMMA PutInit == Init => PutInv
BY DEF Init, PutInv, Ready, Placed, Committed, Upgrading

\* Nothing is staged, put in place or put back.
LEMMA PutQuiet ==
  ASSUME PutInv, UNCHANGED <<staged, disk>>,
         \A r \in Binary : Ready(r)' => Ready(r),
         \A a \in Asset : Placed(a)' => Placed(a)
  PROVE  PutInv'
BY DEF PutInv

LEMMA PutUpgrade ==
  ASSUME TypeOK, PhaseInv, PutInv, Upgrade
  PROVE  PutInv'
<1>1. ASSUME NEW r \in Binary, Stage(r) PROVE PutInv'
  <2>1. /\ phase = "stage" /\ phase' \in {"stage", "snapshot"}
        /\ phase' = "stage" => todo' = todo \ {r}
        /\ phase' = "snapshot" => todo = {r}
    BY <1>1, DoneMoves DEF Stage
  <2>2. \A b \in Asset : ~Placed(b)'
    BY <2>1 DEF Placed, Committed, Upgrading
  <2>3. \A b \in Binary : Ready(b)' => b = r \/ Ready(b)
    BY <2>1 DEF Ready
  <2>4. staged' = [staged EXCEPT ![r] = "new"]
    BY <1>1 DEF Stage
  <2>5. QED
    BY <2>2, <2>3, <2>4 DEF PutInv, TypeOK
<1>2. ASSUME NEW a \in Asset, Snapshot(a) \/ Query(a) \/ Backup(a) PROVE PutInv'
  <2>1. /\ phase \in {"snapshot", "query", "backup"}
        /\ phase' \in {"snapshot", "query", "backup", "activate"}
    BY <1>2, DoneMoves DEF Snapshot, Query, Backup
  <2>2. UNCHANGED <<staged, disk, status>>
    BY <1>2 DEF Snapshot, Query, Backup, SaveUnchanged, files
  <2>3. QED
    BY <2>1, <2>2, PutQuiet DEF Ready, Placed, Committed, Upgrading
<1>3. ASSUME Activate PROVE PutInv'
  <2>1. phase = "activate" /\ phase' = "put" /\ todo' = Asset /\ UNCHANGED <<staged, disk>>
    BY <1>3 DEF Activate, Go, Work, files
  <2>2. QED
    BY <2>1, PutQuiet DEF Ready, Placed, Committed, Upgrading
<1>4. ASSUME NEW a \in Asset, Put(a) \/ (a \in Binary /\ Swap(a)) PROVE PutInv'
  <2>1. /\ phase = "put" /\ a \in todo /\ phase' \in {"put", "reload", "finish"}
        /\ phase' = "put" => todo' = todo \ {a}
        /\ phase' # "put" => todo = {a}
    BY <1>4, DoneMoves DEF Put, Swap, Turn, AfterPut
  <2>2. \A b \in Asset : Placed(b)' => b = a \/ Placed(b)
    BY <2>1 DEF Placed, Committed, Upgrading
  <2>3. \A b \in Binary : Ready(b)' => b # a /\ Ready(b)
    BY <2>1 DEF Ready
  <2>4. disk' = [disk EXCEPT ![a] = "new"]
    BY <1>4, <2>1 DEF Put, Swap, PutInv, Ready
  <2>5. a \notin Binary => staged' = staged
    BY <1>4 DEF Put
  <2>6. \A b \in Binary : b # a => staged'[b] = staged[b]
    BY <1>4 DEF Put, Swap, TypeOK
  <2>7. QED
    BY <2>2, <2>3, <2>4, <2>6 DEF PutInv, TypeOK
<1>5. ASSUME NEW r \in Binary, Reload \/ Restart(r) \/ Finish PROVE PutInv'
  <2>1. /\ phase \in {"reload", "restart", "finish"}
        /\ phase' \in {"restart", "finish", "drop_backup"}
    BY <1>5, DoneMoves DEF Reload, Restart, Finish, Turn, Go
  <2>2. UNCHANGED <<staged, disk>>
    BY <1>5 DEF Reload, Restart, Finish, files
  <2>3. QED
    BY <2>1, <2>2, PutQuiet DEF Ready, Placed
<1>6. QED
  BY <1>1, <1>2, <1>3, <1>4, <1>5 DEF Upgrade, Asset, Binary

\* Once the script has failed it puts nothing in place.
LEMMA PutOver ==
  ASSUME phase' \notin Upgrading, ~Committed'
  PROVE  PutInv'
BY DEF PutInv, Ready, Placed, Upgrading

LEMMA FailureFails ==
  ASSUME TypeOK, PhaseInv, Failure
  PROVE  /\ phase' \in {"restore", "drop_backup", "ended"}
         /\ ~Committed => status' = "failed" /\ ~Committed'
         /\ Committed => Cut /\ UNCHANGED <<disk, staged, saved>>
<1>1. CASE Cut
  BY <1>1 DEF Cut, Go, Committed, files, TypeOK
<1>2. CASE ~Cut
  <2>1. phase \in Upgrading
    BY <1>2 DEF Failure, CommandFails, SaveFails, PutFails, RestartFails, Turn, Upgrading
  <2>2. Abort
    BY <1>2 DEF Failure, CommandFails, SaveFails, PutFails, RestartFails
  <2>3. QED
    BY <2>1, <2>2 DEF Abort, Go, Committed
<1>3. QED
  BY <1>1, <1>2

\* Cleaning up is no part of the upgrade, and keeps its status.
LEMMA CleanupKeeps ==
  ASSUME PhaseInv, Cleanup
  PROVE  /\ phase \in Cleaning /\ phase' \in Cleaning \union {"ended"}
         /\ phase \notin Upgrading /\ phase' \notin Upgrading
         /\ UNCHANGED <<status, activated, existed, wasActive, wasEnabled, before, managed, request>>
         /\ Committed <=> Committed'
         /\ Committed => UNCHANGED disk
<1>1. phase \in Cleaning /\ phase' \in Cleaning \union {"ended"}
  BY DoneMoves DEF Cleanup, Restore, RestoreBinaryFails, RestoreAssetFails, RollbackReload, Undo,
         Revive, ReviveFails, DropBackup, DropStaged, Exit, Go, AfterRestore, Cleaning
<1>2. phase \notin Upgrading /\ phase' \notin Upgrading
  BY <1>1 DEF Cleaning, Upgrading
<1>3. UNCHANGED <<status, activated, existed, wasActive, wasEnabled, before, managed, request>>
  BY DEF Cleanup, Restore, RestoreBinaryFails, RestoreAssetFails, RollbackReload, Undo,
         Revive, ReviveFails, DropBackup, DropStaged, Exit, notes, given
<1>4. Committed => UNCHANGED disk
  BY DEF Cleanup, Restore, RestoreBinaryFails, RestoreAssetFails, RollbackReload, Undo, Committed,
         Revive, ReviveFails, DropBackup, DropStaged, Exit, files, Turn, PhaseInv, Backward
<1>5. QED
  BY <1>1, <1>2, <1>3, <1>4 DEF Committed

LEMMA PutNext ==
  ASSUME TypeOK, PhaseInv, PutInv, [Next]_vars
  PROVE  PutInv'
<1>1. CASE Systemd \/ UNCHANGED vars
  BY <1>1, FilesKept DEF PutInv, Ready, Placed, Committed
<1>2. CASE Failure \/ Cleanup
  <2>1. phase' \notin Upgrading
    BY <1>2, FailureFails, CleanupKeeps DEF Upgrading
  <2>2. CASE Committed
    <3>1. disk' = disk
      BY <1>2, <2>2, FailureFails, CleanupKeeps
    <3>2. \A a \in Asset : disk[a] = "new"
      BY <2>2 DEF PutInv, Placed
    <3>3. QED
      BY <2>1, <3>1, <3>2 DEF PutInv, Ready, Upgrading
  <2>3. CASE ~Committed
    BY <1>2, <2>1, <2>3, FailureFails, CleanupKeeps, PutOver
  <2>4. QED
    BY <2>2, <2>3
<1>3. QED
  BY <1>1, <1>2, PutUpgrade DEF Next, Ended

-----------------------------------------------------------------------------
\* The rollback

LEMMA RollbackInit == Init => RollbackInv
BY DEF Init, RollbackInv

\* What there was of a is in its place, or its copy is there.
LEMMA SpareKept ==
  ASSUME NEW a, UNCHANGED before, saved'[a] = saved[a]
  PROVE  Spare(a) => Spare(a)'
BY DEF Spare

LEMMA RollbackRestore ==
  ASSUME TypeOK, PhaseInv, CopyInv, RollbackInv, NEW a \in Asset, Restore(a)
  PROVE  RollbackInv'
<1>1. /\ phase = "restore" /\ a \in todo /\ status = "failed" /\ activated
      /\ phase' = "restore" => todo' = todo \ {a}
      /\ phase' # "restore" => todo = {a} /\ phase' \in {"rollback_reload", "drop_backup"}
  BY DoneMoves DEF Restore, Turn, AfterRestore, PhaseInv, Backward
<1>2. UNCHANGED <<existed, before, unrestored, incomplete>>
  BY DEF Restore, notes, trouble, given
<1>3. /\ disk' = [disk EXCEPT ![a] = Retained(a)]
      /\ \A b \in Asset : b # a \/ a \notin Binary => saved'[b] = saved[b]
  BY DEF Restore, TypeOK
<1>4. Spare(a)
  BY <1>1 DEF RollbackInv
<1>5. Retained(a) = before[a]
  <2>1. before[a] \in {"none", "old"}
    BY DEF TypeOK
  <2>2. before[a] = "old" <=> a \in existed
    BY <1>1 DEF CopyInv, Copied
  <2>3. QED
    BY <1>4, <2>1, <2>2 DEF Retained, Spare
<1>6. disk'[a] = before[a] /\ \A b \in Asset : b # a => disk'[b] = disk[b]
  BY <1>3, <1>5 DEF TypeOK
<1>7. ASSUME NEW b \in Asset, phase' = "restore" /\ b \in todo' PROVE Spare(b)'
  BY <1>1, <1>2, <1>3, <1>7 DEF RollbackInv, Spare
<1>8. ASSUME NEW b \in Asset, Settled(b)' PROVE Recovered(b)'
  <2>1. CASE b = a
    BY <1>2, <1>3, <1>4, <1>6, <2>1 DEF Recovered, Spare
  <2>2. CASE b # a
    <3>1. Settled(b)
      BY <1>1, <1>8, <2>2 DEF Settled
    <3>2. Recovered(b)
      BY <1>1, <3>1 DEF RollbackInv
    <3>3. QED
      BY <1>2, <1>3, <1>6, <2>2, <3>2 DEF Recovered, Spare
  <2>3. QED
    BY <2>1, <2>2
<1>9. QED
  BY <1>7, <1>8 DEF RollbackInv

LEMMA RollbackFails ==
  ASSUME TypeOK, PhaseInv, CopyInv, RollbackInv, NEW a \in Asset,
         RestoreBinaryFails(a) \/ RestoreAssetFails(a)
  PROVE  RollbackInv'
<1>1. /\ phase = "restore" /\ a \in todo /\ status = "failed" /\ activated
      /\ phase' = "restore" => todo' = todo \ {a}
      /\ phase' # "restore" => todo = {a} /\ phase' \in {"rollback_reload", "drop_backup"}
  BY DoneMoves DEF RestoreBinaryFails, RestoreAssetFails, Turn, AfterRestore, PhaseInv, Backward
<1>2. UNCHANGED <<before, saved>> /\ incomplete'
  BY DEF RestoreBinaryFails, RestoreAssetFails, files, given
<1>3. /\ \A b \in Asset : b # a => disk'[b] = disk[b]
      /\ unrestored \subseteq unrestored'
      /\ a \in Binary => a \in unrestored'
  BY DEF RestoreBinaryFails, RestoreAssetFails, files, TypeOK
<1>4. ASSUME NEW b \in Asset, phase' = "restore" /\ b \in todo' PROVE Spare(b)'
  BY <1>1, <1>2, <1>4 DEF RollbackInv, Spare
<1>5. ASSUME NEW b \in Asset, Settled(b)' PROVE Recovered(b)'
  <2>1. CASE b = a
    BY <1>1, <1>2, <1>3, <2>1 DEF Recovered, Spare, RollbackInv
  <2>2. CASE b # a
    <3>1. Settled(b)
      BY <1>1, <1>5, <2>2 DEF Settled
    <3>2. Recovered(b)
      BY <1>1, <3>1 DEF RollbackInv
    <3>3. QED
      BY <1>2, <1>3, <2>2, <3>2 DEF Recovered, Spare
  <2>3. QED
    BY <2>1, <2>2
<1>6. QED
  BY <1>4, <1>5 DEF RollbackInv

\* Behind the restoration the files stay as they are.
LEMMA RollbackQuiet ==
  ASSUME RollbackInv, UNCHANGED <<status, activated, disk, before, unrestored>>,
         incomplete => incomplete', phase' # "restore",
         \A b \in Asset : Settled(b)' => Settled(b),
         \A b \in Asset : Settled(b)' /\ Spare(b) => Spare(b)' \/ (b \in Binary /\ b \notin unrestored)
  PROVE  RollbackInv'
<1> SUFFICES ASSUME status = "failed", activated, NEW b \in Asset, Settled(b)'
             PROVE  Recovered(b)'
  BY DEF RollbackInv
<1>1. Recovered(b)
  BY DEF RollbackInv
<1>2. QED
  BY <1>1 DEF Recovered

LEMMA RollbackCleanup ==
  ASSUME TypeOK, PhaseInv, CopyInv, RollbackInv, Cleanup
  PROVE  RollbackInv'
<1>1. CASE RollbackReload \/ \E r \in Binary : Undo(r) \/ Revive(r) \/ ReviveFails(r)
  <2>1. /\ phase \in {"rollback_reload", "undo", "revive"}
        /\ phase' \in {"undo", "revive", "drop_backup"}
    BY <1>1, DoneMoves DEF RollbackReload, Undo, Revive, ReviveFails, Go
  <2>2. UNCHANGED <<status, activated, disk, saved, before, unrestored>>
    BY <1>1 DEF RollbackReload, Undo, Revive, ReviveFails, notes, trouble, files, given
  <2>3. incomplete => incomplete'
    BY <1>1 DEF RollbackReload, Undo, Revive, ReviveFails, trouble, TypeOK
  <2>4. QED
    BY <2>1, <2>2, <2>3, RollbackQuiet DEF Settled, Dropping, Spare
<1>2. CASE \E r \in Binary : DropBackup(r)
  <2>1. PICK r \in Binary : DropBackup(r)
    BY <1>2
  <2>2. phase = "drop_backup" /\ phase' \in {"drop_backup", "drop_staged"}
    BY <2>1, DoneMoves DEF DropBackup
  <2>3. UNCHANGED <<status, activated, disk, before, unrestored, incomplete>>
    BY <2>1 DEF DropBackup, notes, trouble, given
  <2>4. \A b \in Asset : saved'[b] = saved[b] \/ (b \in Binary /\ b \notin unrestored)
    BY <2>1 DEF DropBackup, TypeOK
  <2>5. QED
    BY <2>2, <2>3, <2>4, RollbackQuiet DEF Settled, Dropping, Spare
<1>3. CASE DropStaged
  <2>1. phase = "drop_staged" /\ phase' = "drop_tmp"
    BY <1>3 DEF DropStaged, Go
  <2>2. UNCHANGED <<status, activated, disk, saved, before, unrestored, incomplete>>
    BY <1>3 DEF DropStaged, notes, trouble, given
  <2>3. QED
    BY <2>1, <2>2, RollbackQuiet DEF Settled, Dropping, Spare
<1>4. CASE Exit
  BY <1>4 DEF Exit, Go, RollbackInv, Settled, Dropping
<1>5. QED
  BY <1>1, <1>2, <1>3, <1>4, RollbackRestore, RollbackFails DEF Cleanup, Asset

\* The rollback starts with every copy there, and from then on only goes on.
LEMMA RollbackNext ==
  ASSUME TypeOK, PhaseInv, CopyInv, RollbackInv, [Next]_vars
  PROVE  RollbackInv'
<1>1. CASE Systemd \/ UNCHANGED vars
  <2>1. UNCHANGED <<phase, todo, status, activated, unrestored, incomplete, disk, saved, before>>
    BY <1>1, FilesKept
  <2>2. \A a \in Asset : (Settled(a)' <=> Settled(a)) /\ (Recovered(a)' <=> Recovered(a))
                         /\ (Spare(a)' <=> Spare(a))
    BY <2>1 DEF Settled, Recovered, Spare
  <2>3. QED
    BY <2>1, <2>2 DEF RollbackInv
<1>2. CASE Upgrade
  <2>1. status' = status /\ phase \in Upgrading
    BY <1>2 DEF Upgrade, Stage, Query, Backup, Swap, Restart, Snapshot, Put, Activate, Reload,
                Finish,
           SaveUnchanged, Turn, Upgrading
  <2>2. QED
    BY <2>1 DEF PhaseInv, RollbackInv
<1>3. CASE Cut
  BY <1>3 DEF Cut, Go, RollbackInv, Settled, Dropping
<1>4. CASE Failure /\ ~Cut
  <2>1. phase \in Upgrading /\ UNCHANGED <<activated, before>>
    BY <1>4 DEF Failure, CommandFails, SaveFails, PutFails, RestartFails, Turn, Upgrading,
                notes, given
  <2>2. Abort
    BY <1>4 DEF Failure, CommandFails, SaveFails, PutFails, RestartFails
  <2>3. activated => UNCHANGED saved
    BY <1>4 DEF Failure, CommandFails, SaveFails, PutFails, RestartFails, Turn, files,
                PhaseInv, Early
  <2>4. activated => \A a \in Asset : Spare(a)
    BY <2>1 DEF CopyInv, Copied
  <2>5. activated => phase' = "restore" /\ todo' = Asset
    BY <2>2 DEF Abort, Go, Work
  <2>6. QED
    BY <2>1, <2>3, <2>4, <2>5 DEF RollbackInv, Settled, Dropping, Spare
<1>5. QED
  BY <1>1, <1>2, <1>3, <1>4, RollbackCleanup DEF Next, Ended, Failure

-----------------------------------------------------------------------------
\* What a reader gets: no file is lost

\* A rollback that is called complete has put everything back.
LEMMA AllBack ==
  ASSUME PhaseInv, CopyInv, RollbackInv, status = "failed",
         ~incomplete, \A a \in Asset : activated => Settled(a), TypeOK
  PROVE  disk = before
<1>1. CASE ~activated
  BY <1>1 DEF CopyInv
<1>2. CASE activated
  <2>1. \A a \in Asset : disk[a] = before[a]
    BY <1>2 DEF RollbackInv, Recovered, PhaseInv
  <2>2. QED
    BY <2>1 DEF TypeOK
<1>3. QED
  BY <1>1, <1>2

LEMMA EndInit == Init => EndInv
BY DEF Init, EndInv

LEMMA EndNext ==
  ASSUME TypeOK, PhaseInv, CopyInv, RollbackInv, EndInv, [Next]_vars
  PROVE  EndInv'
<1>1. CASE Systemd \/ UNCHANGED vars
  BY <1>1, FilesKept DEF EndInv
<1>2. CASE Upgrade \/ Failure
  <2>1. phase # "ended"
    BY <1>2 DEF Upgrade, Stage, Query, Backup, Swap, Restart, Snapshot, Put, Activate, Reload,
                Finish,
           Failure, CommandFails, SaveFails, PutFails, RestartFails, Cut, Turn, Upgrading
  <2>2. tmpDir' = tmpDir
    BY <1>2 DEF Upgrade, Stage, Query, Backup, Swap, Restart, Snapshot, Put, Activate, Reload,
                Finish,
           Failure, CommandFails, SaveFails, PutFails, RestartFails, Cut, SaveUnchanged, files
  <2>3. QED
    BY <2>1, <2>2 DEF PhaseInv, EndInv
<1>3. CASE Cleanup /\ ~Exit
  <2>1. phase # "ended" /\ tmpDir' = tmpDir
    BY <1>3 DEF Cleanup, Restore, RestoreBinaryFails, RestoreAssetFails, RollbackReload, Undo,
                Revive,
           ReviveFails, DropBackup, DropStaged, Turn, files
  <2>2. QED
    BY <2>1 DEF PhaseInv, EndInv
<1>4. CASE Exit
  <2>1. CASE incomplete \/ status = "ok"
    BY <1>4, <2>1 DEF Exit, EndInv, PhaseInv
  <2>2. CASE ~incomplete /\ status = "failed"
    <3>1. \A a \in Asset : Settled(a)
      BY <1>4 DEF Exit, Settled, Dropping
    <3>2. disk = before
      BY <2>2, <3>1, AllBack
    <3>3. QED
      BY <1>4, <3>2 DEF Exit, EndInv, given
  <2>3. QED
    BY <2>1, <2>2 DEF TypeOK
<1>5. QED
  BY <1>1, <1>2, <1>3, <1>4 DEF Next, Ended

LEMMA KeptInit == Init => NothingLost
BY DEF Init, NothingLost

\* While the script upgrades, or is in its rollback, the copies tell.
LEMMA KeptRunning ==
  ASSUME TypeOK, PhaseInv, CopyInv, RollbackInv, phase # "ended"
  PROVE  NothingLost
<1> SUFFICES ASSUME ~Committed, activated, NEW a \in Asset, before[a] = "old"
             PROVE  "old" \in {disk[a], saved[a]}
  BY DEF NothingLost, CopyInv
<1>1. CASE phase \in Upgrading
  BY <1>1 DEF CopyInv, Copied, Spare
<1>2. CASE phase \notin Upgrading
  <2>1. status = "failed"
    BY <1>2 DEF Committed, TypeOK
  <2>2. (phase = "restore" /\ a \in todo) \/ Settled(a)
    BY <1>2 DEF TypeOK, Cleaning, Settled, Dropping
  <2>3. QED
    BY <2>1, <2>2 DEF RollbackInv, Recovered, Spare
<1>3. QED
  BY <1>1, <1>2

FilesInv == CopyInv /\ PutInv /\ RollbackInv /\ EndInv /\ NothingLost

LEMMA KeptNext ==
  ASSUME TypeOK, PhaseInv, CopyInv, RollbackInv, NothingLost, [Next]_vars,
         TypeOK', PhaseInv', CopyInv', RollbackInv'
  PROVE  NothingLost'
<1>1. CASE phase' # "ended"
  <2>1. TypeOK' /\ PhaseInv' /\ CopyInv' /\ RollbackInv' /\ (phase # "ended")' => NothingLost'
    BY KeptRunning, PTL
  <2>2. QED
    BY <1>1, <2>1
<1>2. CASE phase' = "ended"
  <2>1. CASE Systemd \/ UNCHANGED vars
    BY <2>1, FilesKept DEF NothingLost, Committed
  <2>2. CASE Cut
    BY <1>2, <2>2 DEF Cut, NothingLost, Committed, Upgrading, files, given
  <2>3. CASE Exit
    <3>1. CASE incomplete
      BY <2>3, <3>1 DEF Exit, Go, NothingLost, Committed, Upgrading, given
    <3>2. CASE ~incomplete /\ status = "failed"
      <4>1. \A a \in Asset : Settled(a)
        BY <2>3 DEF Exit, Settled, Dropping
      <4>2. disk = before
        BY <3>2, <4>1, AllBack
      <4>3. QED
        BY <2>3, <4>2 DEF Exit, NothingLost, given
    <3>3. CASE status = "ok"
      BY <1>2, <2>3, <3>3 DEF Exit, NothingLost, Committed, Upgrading
    <3>4. QED
      BY <3>1, <3>2, <3>3 DEF TypeOK
  <2>4. CASE Upgrade \/ (Failure /\ ~Cut) \/ (Cleanup /\ ~Exit)
    BY <1>2, <2>4, DoneMoves DEF Upgrade, Stage, Query, Backup, Swap, Restart, Snapshot, Put,
                                 Activate,
       Reload, Finish, Failure, CommandFails, SaveFails, PutFails, RestartFails, Abort, Cleanup,
       Restore, RestoreBinaryFails, RestoreAssetFails, RollbackReload, Undo, Revive, ReviveFails,
       DropBackup, DropStaged, AfterPut, AfterRestore, Go
  <2>5. QED
    BY <2>1, <2>2, <2>3, <2>4 DEF Next, Ended
<1>3. QED
  BY <1>1, <1>2

InstallInv == TypeOK /\ PhaseInv /\ FilesInv

LEMMA InstallInvInit == Init => InstallInv
BY TypeInit, PhaseInit, CopyInit, PutInit, RollbackInit, EndInit, KeptInit DEF InstallInv,
                                                                               FilesInv

LEMMA InstallInvNext == InstallInv /\ [Next]_vars => InstallInv'
<1> SUFFICES ASSUME InstallInv, [Next]_vars PROVE InstallInv'
  OBVIOUS
<1>1. TypeOK'
  BY TypeUpgrade, TypeFailure, TypeCleanup, TypeSystemd, TypeStutter DEF InstallInv, Next, Ended
<1>2. PhaseInv' /\ CopyInv' /\ PutInv' /\ RollbackInv' /\ EndInv'
  BY PhaseNext, CopyNext, PutNext, RollbackNext, EndNext DEF InstallInv, FilesInv
<1>3. NothingLost'
  BY <1>1, <1>2, KeptNext DEF InstallInv, FilesInv
<1>4. QED
  BY <1>1, <1>2, <1>3 DEF InstallInv, FilesInv

\* Until the upgrade is done every file there was can still be found, whatever
\* fails and wherever the installer is killed (install.sh:455-465).
THEOREM NoFileLost == Spec => []NothingLost
<1>1. InstallInv => NothingLost
  BY DEF InstallInv, FilesInv
<1>2. QED
  BY <1>1, InstallInvInit, InstallInvNext, PTL DEF Spec

-----------------------------------------------------------------------------
\* The atomic installation

\* What is in place is told apart by its contents.
LEMMA DeployedValues ==
  /\ Deployed \in {"old", "new", "mixed"}
  /\ Deployed = "old" <=> disk = before
  /\ disk # before => (Deployed = "new" <=> \A a \in Asset : disk[a] = "new")
BY DEF Deployed

\* A file that neither was there before nor is as before.
LEMMA Moved ==
  ASSUME TypeOK, NEW a \in Asset, disk[a] \in {"new", "partial"}
  PROVE  disk # before
<1>1. before[a] \in {"none", "old"}
  BY DEF TypeOK
<1>2. QED
  BY <1>1

\* A file that is put back is not new.
LEMMA NotNew ==
  ASSUME NEW a \in Asset, disk[a] # "new"
  PROVE  Deployed \in {"old", "mixed"}
BY DEF Deployed

LEMMA VerdictValues ==
  ASSUME TypeOK, PhaseInv
  PROVE  /\ phase \in Upgrading => Verdict = "trying"
         /\ status = "ok" /\ phase \notin Upgrading => Verdict = "installed"
         /\ status = "failed" /\ phase # "ended" => Verdict = "undoing"
         /\ status = "failed" /\ phase = "ended" =>
              Verdict = IF tmpDir THEN "unfinished" ELSE "restored"
BY DEF Verdict, Committed, PhaseInv, Upgrading, TypeOK

LEMMA KeptValue ==
  /\ Kept \in BOOLEAN
  /\ NothingLost /\ ~Committed => Kept = TRUE
BY DEF Kept, NothingLost

LEMMA AtomicInit == Init => Atomic!Init
<1> SUFFICES ASSUME Init PROVE Atomic!Init
  OBVIOUS
<1>1. disk = before /\ Deployed = "old"
  BY DEF Init, Deployed
<1>2. Kept = TRUE
  BY <1>1 DEF Kept
<1>3. Verdict = "trying"
  BY DEF Init, Verdict, Committed, Upgrading
<1>4. QED
  BY <1>1, <1>2, <1>3 DEF Atomic!Init

Same == UNCHANGED <<Deployed, Kept, Verdict>>

\* The next state has the same facts.
LEMMA NextFacts ==
  ASSUME InstallInv, [Next]_vars
  PROVE  /\ TypeOK /\ PhaseInv /\ NothingLost /\ PutInv
         /\ TypeOK' /\ PhaseInv' /\ NothingLost' /\ PutInv' /\ EndInv'
BY InstallInvNext DEF InstallInv, FilesInv

LEMMA NextValues ==
  ASSUME InstallInv, [Next]_vars
  PROVE  /\ phase' \in Upgrading => Verdict' = "trying"
         /\ status' = "ok" /\ phase' \notin Upgrading => Verdict' = "installed"
         /\ status' = "failed" /\ phase' # "ended" => Verdict' = "undoing"
         /\ status' = "failed" /\ phase' = "ended" =>
              Verdict' = IF tmpDir' THEN "unfinished" ELSE "restored"
         /\ Kept' \in BOOLEAN /\ (~Committed' => Kept' = TRUE)
         /\ Deployed' \in {"old", "new", "mixed"}
         /\ Deployed' = "old" <=> disk' = before'
<1>1. TypeOK' /\ PhaseInv' /\ NothingLost'
  BY NextFacts
<1>2. (TypeOK /\ PhaseInv)' =>
         /\ phase' \in Upgrading => Verdict' = "trying"
         /\ status' = "ok" /\ phase' \notin Upgrading => Verdict' = "installed"
         /\ status' = "failed" /\ phase' # "ended" => Verdict' = "undoing"
         /\ status' = "failed" /\ phase' = "ended" =>
              Verdict' = IF tmpDir' THEN "unfinished" ELSE "restored"
  BY DEF Verdict, Committed, PhaseInv, Upgrading, TypeOK
<1>3. Kept' \in BOOLEAN /\ (NothingLost' /\ ~Committed' => Kept' = TRUE)
  BY DEF Kept, NothingLost
<1>4. Deployed' \in {"old", "new", "mixed"} /\ (Deployed' = "old" <=> disk' = before')
  BY DEF Deployed
<1>5. QED
  BY <1>1, <1>2, <1>3, <1>4

\* Files and copies left alone.
LEMMA Alone ==
  ASSUME UNCHANGED <<disk, before>>
  PROVE  /\ UNCHANGED Deployed
         /\ UNCHANGED saved => UNCHANGED Kept
BY DEF Deployed, Kept

\* Nothing in place is touched: the same, or a failure.
LEMMA AtomicPrepare ==
  ASSUME InstallInv, [Next]_vars, phase \in Upgrading, UNCHANGED <<disk, before>>,
         phase' \in Upgrading \/ (status' = "failed" /\ phase' # "ended")
  PROVE  Same \/ Atomic!Next
<1>1. UNCHANGED Deployed
  BY Alone
<1>2. Verdict = "trying" /\ Kept = TRUE
  BY NextFacts, VerdictValues, KeptValue DEF Committed
<1>3. Kept' = TRUE /\ Verdict' \in {"trying", "undoing"}
  BY NextValues DEF Committed
<1>4. QED
  BY <1>1, <1>2, <1>3 DEF Same, Atomic!Next, Atomic!Fail

\* A file is put in place.
LEMMA AtomicReplace ==
  ASSUME InstallInv, [Next]_vars, phase \in Upgrading,
         NEW a \in Asset, disk'[a] \in {"new", "partial"},
         phase' \in Upgrading \/ (status' = "failed" /\ phase' # "ended")
  PROVE  Atomic!Next
<1>1. Verdict = "trying"
  BY NextFacts, VerdictValues
<1>2. Kept' = TRUE /\ Verdict' \in {"trying", "undoing"}
  BY NextValues DEF Committed
<1>3. disk' # before'
  <2>1. before'[a] \in {"none", "old"}
    BY NextFacts DEF TypeOK
  <2>2. QED
    BY <2>1
<1>4. Deployed' \in {"new", "mixed"}
  BY <1>3, NextValues
<1>5. QED
  BY <1>1, <1>2, <1>4 DEF Atomic!Next, Atomic!Replace

LEMMA AtomicUpgrade ==
  ASSUME InstallInv, [Next]_vars, Upgrade
  PROVE  Same \/ Atomic!Next
<1>1. CASE Finish
  <2>1. phase = "finish" /\ phase' = "drop_backup" /\ UNCHANGED <<disk, saved, before, status>>
    BY <1>1 DEF Finish, Go, files, given
  <2>2. status = "ok" /\ phase \in Upgrading
    BY <2>1, NextFacts DEF PhaseInv, Upgrading
  <2>3. Verdict = "trying" /\ Verdict' = "installed"
    BY <2>1, <2>2, NextFacts, VerdictValues, NextValues DEF Upgrading
  <2>4. \A a \in Asset : disk[a] = "new"
    BY <2>1, NextFacts DEF PutInv, Placed
  <2>5. Deployed = "new"
    BY <2>4, NextFacts, Moved, DeployedValues DEF Asset, Binary
  <2>6. QED
    BY <2>1, <2>3, <2>5, Alone DEF Atomic!Next, Atomic!Commit
<1>2. CASE \E a \in Asset : Put(a) \/ (a \in Binary /\ Swap(a))
  <2>1. PICK a \in Asset : Put(a) \/ (a \in Binary /\ Swap(a))
    BY <1>2
  <2>2. phase = "put" /\ phase' \in {"put", "reload", "finish"} /\ a \in todo
    BY <2>1, DoneMoves DEF Put, Swap, AfterPut, Turn
  <2>3. disk'[a] = "new"
    BY <2>1, <2>2, NextFacts DEF Put, Swap, TypeOK, PutInv, Ready
  <2>4. QED
    BY <2>2, <2>3, AtomicReplace DEF Upgrading
<1>3. CASE Upgrade /\ ~Finish /\ ~\E a \in Asset : Put(a) \/ (a \in Binary /\ Swap(a))
  <2>1. phase \in Upgrading /\ phase' \in Upgrading
    BY <1>3, DoneMoves DEF Upgrade, Stage, Query, Backup, Restart, Snapshot, Activate, Reload,
                           Asset,
           Turn, Go, Upgrading
  <2>2. UNCHANGED <<disk, before>>
    BY <1>3 DEF Upgrade, Stage, Query, Backup, Restart, Snapshot, Activate, Reload, Asset,
           SaveUnchanged, files, given
  <2>3. QED
    BY <2>1, <2>2, AtomicPrepare
<1>4. QED
  BY <1>1, <1>2, <1>3

LEMMA AtomicFailure ==
  ASSUME InstallInv, [Next]_vars, Failure
  PROVE  Same \/ Atomic!Next
<1>1. CASE Cut
  <2>1. phase # "ended" /\ phase' = "ended" /\ UNCHANGED <<disk, saved, before, tmpDir>>
    BY <1>1 DEF Cut, Go, files, given
  <2>2. UNCHANGED <<Deployed, Kept>> /\ tmpDir'
    BY <2>1, NextFacts, Alone DEF PhaseInv
  <2>3. CASE Committed
    <3>1. status = "ok" /\ status' = "ok" /\ phase \notin Upgrading /\ phase' \notin Upgrading
      BY <1>1, <2>1, <2>3 DEF Cut, Committed, Upgrading
    <3>2. Verdict = "installed" /\ Verdict' = "installed"
      BY <3>1, NextFacts, VerdictValues, NextValues
    <3>3. QED
      BY <2>2, <3>2 DEF Same
  <2>4. CASE ~Committed
    <3>1. status' = "failed"
      BY <1>1, <2>4, NextFacts, FailureFails
    <3>2. Verdict' = "unfinished"
      BY <2>1, <2>2, <3>1, NextValues
    <3>3. Verdict \in {"trying", "undoing"}
      BY <2>1, <2>4, NextFacts, VerdictValues DEF Committed, TypeOK
    <3>4. QED
      BY <2>2, <3>2, <3>3 DEF Atomic!Next, Atomic!Abandon
  <2>5. QED
    BY <2>3, <2>4
<1>2. CASE Failure /\ ~Cut
  <2>1. phase \in Upgrading /\ UNCHANGED before
    BY <1>2 DEF Failure, CommandFails, SaveFails, PutFails, RestartFails, Turn, Upgrading, given
  <2>2. status' = "failed" /\ phase' # "ended"
    BY <1>2 DEF Failure, CommandFails, SaveFails, PutFails, RestartFails, Abort, Go
  <2>3. CASE disk' = disk
    BY <2>1, <2>2, <2>3, AtomicPrepare
  <2>4. CASE disk' # disk
    <3>1. PICK a \in Asset : PutFails(a)
      BY <1>2, <2>4 DEF Failure, CommandFails, SaveFails, RestartFails, files
    <3>2. disk'[a] = "partial"
      BY <3>1, NextFacts DEF PutFails, TypeOK
    <3>3. QED
      BY <2>1, <2>2, <3>2, AtomicReplace
  <2>5. QED
    BY <2>3, <2>4
<1>3. QED
  BY <1>1, <1>2

LEMMA AtomicCleanup ==
  ASSUME InstallInv, [Next]_vars, Cleanup
  PROVE  Same \/ Atomic!Next
<1>1. UNCHANGED <<status, before>> /\ phase \notin Upgrading /\ phase' \notin Upgrading
  BY NextFacts, CleanupKeeps
<1>2. CASE status = "ok"
  <2>1. Verdict = "installed" /\ Verdict' = "installed" /\ Kept' \in BOOLEAN
    BY <1>1, <1>2, NextFacts, VerdictValues, NextValues
  <2>2. UNCHANGED Deployed
    BY <1>1, <1>2, NextFacts, CleanupKeeps, Alone DEF Committed
  <2>3. QED
    BY <2>1, <2>2 DEF Atomic!Next, Atomic!Forget
<1>3. CASE status = "failed" /\ Exit
  <2>1. phase = "drop_tmp" /\ phase' = "ended" /\ UNCHANGED disk
    BY <1>3 DEF Exit, Go
  <2>2. Verdict = "undoing" /\ Kept = TRUE /\ Kept' = TRUE /\ UNCHANGED Deployed
    BY <1>1, <1>3, <2>1, NextFacts, VerdictValues, NextValues, KeptValue, Alone DEF Committed
  <2>3. CASE tmpDir'
    <3>1. Verdict' = "unfinished"
      BY <1>1, <1>3, <2>1, <2>3, NextValues
    <3>2. QED
      BY <2>2, <3>1 DEF Atomic!Next, Atomic!Abandon
  <2>4. CASE ~tmpDir'
    <3>1. Verdict' = "restored" /\ disk' = before'
      BY <1>1, <1>3, <2>1, <2>4, NextValues, NextFacts DEF EndInv
    <3>2. Deployed = "old"
      BY <2>2, <3>1, NextValues
    <3>3. QED
      BY <2>2, <3>1, <3>2 DEF Atomic!Next, Atomic!Report
  <2>5. QED
    BY <2>3, <2>4
<1>4. CASE status = "failed" /\ ~Exit
  <2>1. phase # "ended" /\ phase' # "ended"
    BY <1>4, DoneMoves DEF Cleanup, Restore, RestoreBinaryFails, RestoreAssetFails,
                           RollbackReload,
           Undo, Revive, ReviveFails, DropBackup, DropStaged, Go, AfterRestore, Turn
  <2>2. Verdict = "undoing" /\ Verdict' = "undoing" /\ Kept = TRUE /\ Kept' = TRUE
    BY <1>1, <1>4, <2>1, NextFacts, VerdictValues, NextValues, KeptValue DEF Committed
  <2>3. CASE disk' = disk
    BY <1>1, <2>2, <2>3, Alone DEF Same
  <2>4. CASE disk' # disk
    <3>1. PICK a \in Asset : Restore(a) \/ RestoreAssetFails(a)
      BY <1>4, <2>4 DEF Cleanup, RestoreBinaryFails, RollbackReload, Undo, Revive, ReviveFails,
             DropBackup, DropStaged, files
    <3>2. disk'[a] # "new"
      <4>1. CASE Restore(a)
        <5>1. phase = "restore" /\ a \in todo /\ disk'[a] = Retained(a)
          BY <4>1, NextFacts DEF Restore, Turn, TypeOK
        <5>2. a \in existed => saved[a] = "old"
          BY <1>4, <5>1 DEF InstallInv, FilesInv, RollbackInv, CopyInv, PhaseInv, Backward, Spare
        <5>3. QED
          BY <5>1, <5>2 DEF Retained
      <4>2. CASE RestoreAssetFails(a)
        BY <2>4, <4>2, NextFacts DEF RestoreAssetFails, TypeOK
      <4>3. QED
        BY <3>1, <4>1, <4>2
    <3>3. Deployed' \in {"old", "mixed"}
      BY <3>2 DEF Deployed
    <3>4. QED
      BY <2>2, <3>3 DEF Atomic!Next, Atomic!PutBack
  <2>5. QED
    BY <2>3, <2>4
<1>5. QED
  BY <1>2, <1>3, <1>4, NextFacts DEF TypeOK

LEMMA AtomicNext ==
  ASSUME InstallInv, [Next]_vars
  PROVE  [Atomic!Next]_(Atomic!vars)
<1>1. CASE Systemd \/ UNCHANGED vars
  <2>1. Same
    BY <1>1, FilesKept DEF Same, Deployed, Kept, Verdict, Committed
  <2>2. QED
    BY <2>1 DEF Same, Atomic!vars
<1>2. QED
  BY <1>1, AtomicUpgrade, AtomicFailure, AtomicCleanup DEF Same, Atomic!vars, Next, Ended

\* The transaction is an atomic installation: it ends with everything new, with
\* everything as before, or with a rollback it calls incomplete and everything
\* still there (README.md:104).
THEOREM InstallIsAtomic == Spec => ImplementsAtomic
<1>1. Spec => []InstallInv
  BY InstallInvInit, InstallInvNext, PTL DEF Spec
<1>2. QED
  BY <1>1, AtomicInit, AtomicNext, PTL DEF Spec, ImplementsAtomic, Atomic!Spec

-----------------------------------------------------------------------------
\* systemd next to the script

\* A service that comes back runs what is in place and what systemd has read;
\* one that does not fail is left alone.
LEMMA SystemdStep ==
  ASSUME TypeOK, Systemd \/ UNCHANGED vars, NEW r \in Binary
  PROVE  /\ service'[r] = "up" => \/ image'[r] = <<disk[r], loaded[r]>>
                                  \/ service[r] = "up" /\ image'[r] = image[r]
         /\ service'[r] # "down" => service[r] # "down"
         /\ service'[r] = service[r] \/ r \in Crashing \/ service[r] = "pausing"
<1>1. CASE UNCHANGED vars
  BY <1>1 DEF vars, systemd
<1>2. ASSUME NEW s \in Binary, Crash(s) \/ GiveUp(s)
      PROVE  /\ service'[r] = "up" => service[r] = "up" /\ image'[r] = image[r]
             /\ service'[r] # "down" => service[r] # "down"
             /\ service'[r] = service[r] \/ r \in Crashing \/ service[r] = "pausing"
  BY <1>2 DEF Crash, GiveUp, Falls, TypeOK
<1>3. ASSUME NEW s \in Binary, Resume(s)
      PROVE  /\ service'[r] = "up" => \/ image'[r] = <<disk[r], loaded[r]>>
                                      \/ service[r] = "up" /\ image'[r] = image[r]
             /\ service'[r] # "down" => service[r] # "down"
             /\ service'[r] = service[r] \/ service[r] = "pausing"
  <2>1. CASE r = s
    BY <1>3, <2>1 DEF Resume, StartNow, TypeOK
  <2>2. CASE r # s
    BY <1>3, <2>2 DEF Resume, StartNow, TypeOK
  <2>3. QED
    BY <2>1, <2>2
<1>4. QED
  BY <1>1, <1>2, <1>3 DEF Systemd

\* Whatever a service that comes back may run, one that runs it keeps it.
LEMMA SystemdRuns ==
  ASSUME TypeOK, Systemd \/ UNCHANGED vars, NEW r \in Binary, NEW i,
         i = <<disk[r], loaded[r]>>, Runs(r, i)
  PROVE  service'[r] = "up" => image'[r] = i
BY SystemdStep DEF Runs

\* The services, and what systemd has read of them, are left alone.
Alike == UNCHANGED <<service, image, loaded, enabled>>

LEMMA UntouchedInit == Init => UntouchedInv
<1> SUFFICES ASSUME Init, NEW r \in Binary
             PROVE  loaded[r] = before[UnitOf[r]] /\ Runs(r, <<before[r], loaded[r]>>)
  BY DEF UntouchedInv
<1>1. loaded[r] = before[UnitOf[r]]
  BY DEF Init
<1>2. service[r] = "up" => image[r] = <<before[r], loaded[r]>>
  BY DEF Init
<1>3. QED
  BY <1>1, <1>2 DEF Runs

\* Before activation only systemd itself moves the services.
LEMMA EarlyAlike ==
  ASSUME PhaseInv, Upgrade \/ Failure \/ Cleanup, ~activated
  PROVE  Alike
BY DEF Alike, Upgrade, Stage, Query, Backup, Swap, Restart, Snapshot, Put, Activate, Reload,
       Finish,
       Failure, CommandFails, SaveFails, PutFails, RestartFails, Cut, Cleanup, Restore,
       RestoreBinaryFails, RestoreAssetFails, RollbackReload, Undo, Revive, ReviveFails,
       DropBackup,
       DropStaged, Exit, SaveUnchanged, systemd, Turn, PhaseInv, Forward, Backward

LEMMA ActivatedStays ==
  ASSUME [Next]_vars
  PROVE  /\ UNCHANGED <<before, former, managed, request>>
         /\ activated => activated'
BY FilesKept DEF Next, Ended, Upgrade, Stage, Query, Backup, Swap, Restart, Snapshot, Put,
                 Activate,
       Reload, Finish, Failure, CommandFails, SaveFails, PutFails, RestartFails, Cut, Cleanup,
       Restore,
       RestoreBinaryFails, RestoreAssetFails, RollbackReload, Undo, Revive, ReviveFails,
       DropBackup,
       DropStaged, Exit, SaveUnchanged, given, notes

LEMMA UntouchedNext ==
  ASSUME TypeOK, PhaseInv, CopyInv, UntouchedInv, [Next]_vars
  PROVE  UntouchedInv'
<1> SUFFICES ASSUME ~activated', NEW r \in Binary
             PROVE  /\ loaded'[r] = before'[UnitOf[r]]
                    /\ service'[r] = "up" => image'[r] = <<before'[r], loaded'[r]>>
  BY DEF UntouchedInv, Runs
<1>1. ~activated /\ UNCHANGED before
  BY ActivatedStays
<1>2. loaded[r] = before[UnitOf[r]] /\ Runs(r, <<before[r], loaded[r]>>)
  BY <1>1 DEF UntouchedInv
<1>3. CASE Systemd \/ UNCHANGED vars
  <2>1. UNCHANGED loaded /\ before = disk
    BY <1>1, <1>3, FilesKept DEF CopyInv
  <2>2. QED
    BY <1>1, <1>2, <1>3, <2>1, SystemdRuns
<1>4. CASE Upgrade \/ Failure \/ Cleanup
  <2>1. Alike
    BY <1>1, <1>4, EarlyAlike
  <2>2. QED
    BY <1>1, <1>2, <2>1 DEF Alike, Runs
<1>5. QED
  BY <1>3, <1>4 DEF Next, Ended

LEMMA UpgradedInit == Init => UpgradedInv
BY DEF Init, UpgradedInv, Restarted, Committed, Upgrading

\* What is in place once all was put in place.
LEMMA AllNew ==
  ASSUME PutInv, phase \in {"reload", "restart", "finish"} \/ Committed, NEW r \in Binary
  PROVE  disk[r] = "new" /\ disk[UnitOf[r]] = "new"
<1>1. r \in Asset /\ UnitOf[r] \in Asset
  BY DEF UnitOf, Binary, Asset, Unit
<1>2. QED
  BY <1>1 DEF PutInv, Placed

LEMMA UpgradedRestart ==
  ASSUME TypeOK, PhaseInv, PutInv, UpgradedInv, managed, NEW r \in Binary, Restart(r),
         UNCHANGED managed
  PROVE  UpgradedInv'
<1>1. /\ phase = "restart" /\ phase' \in {"restart", "finish"} /\ status = "ok"
      /\ phase' = "restart" => todo' = todo \ {r}
      /\ phase' = "finish" => todo = {r}
  BY DoneMoves DEF Restart, PhaseInv, Upgrading
<1>2. UNCHANGED <<loaded, request>>
  BY DEF Restart, given
<1>3. \A s \in Binary : loaded[s] = "new"
  BY <1>1 DEF UpgradedInv
<1>4. ASSUME NEW s \in Binary, Restarted(s)', Addressed(s)
      PROVE  service'[s] = "up" => image'[s] = <<"new", "new">>
  <2>1. CASE s = r /\ Due(r)
    <3>1. image'[r] = <<disk[r], loaded[r]>>
      BY <2>1 DEF Restart, StartNow, TypeOK
    <3>2. QED
      BY <1>1, <1>3, <2>1, <3>1, AllNew
  <2>2. CASE s = r /\ ~Due(r)
    BY <1>4, <2>2 DEF Restart, Due, Addressed
  <2>3. CASE s # r
    <3>1. Restarted(s)
      BY <1>1, <1>4, <2>3 DEF Restarted, Committed, Upgrading
    <3>2. service'[s] = service[s] /\ image'[s] = image[s]
      BY <2>3 DEF Restart, StartNow, TypeOK
    <3>3. QED
      BY <1>4, <3>1, <3>2 DEF UpgradedInv, Runs
  <2>4. QED
    BY <2>1, <2>2, <2>3
<1>5. QED
  BY <1>2, <1>3, <1>4 DEF UpgradedInv, Runs, Addressed

\* Nothing of an upgrade that is done, or near it, is touched.
LEMMA UpgradedQuiet ==
  ASSUME UpgradedInv, Alike, UNCHANGED <<managed, request>>,
         \A r \in Binary : Restarted(r)' => Restarted(r),
         phase' \in {"restart", "finish"} \/ Committed' => phase \in {"restart", "finish"} \/ Committed
  PROVE  UpgradedInv'
BY DEF UpgradedInv, Alike, Runs, Addressed

LEMMA UpgradedOver ==
  ASSUME phase' \notin {"restart", "finish"}, ~Committed'
  PROVE  UpgradedInv'
BY DEF UpgradedInv, Restarted

\* Nor does the script, when the upgrade is done.
LEMMA CommittedAlike ==
  ASSUME TypeOK, PhaseInv, Committed, Failure \/ Cleanup
  PROVE  Alike
<1>1. CASE Failure
  BY <1>1, FailureFails DEF Cut, Alike, systemd
<1>2. CASE Cleanup
  BY <1>2 DEF Cleanup, Restore, RestoreBinaryFails, RestoreAssetFails, RollbackReload, Undo,
              Revive, ReviveFails, DropBackup, DropStaged, Exit, Turn, PhaseInv, Backward,
              Committed, Alike, systemd
<1>3. QED
  BY <1>1, <1>2

LEMMA UpgradedNext ==
  ASSUME TypeOK, PhaseInv, PutInv, UpgradedInv, [Next]_vars
  PROVE  UpgradedInv'
<1>1. UNCHANGED <<managed, request>>
  BY ActivatedStays
<1>2. CASE ~managed
  BY <1>1, <1>2 DEF UpgradedInv
<1>3. CASE managed /\ (Systemd \/ UNCHANGED vars)
  <2>1. UNCHANGED <<phase, todo, status, disk, loaded>>
    BY <1>3, FilesKept
  <2>2. ASSUME NEW r \in Binary, Restarted(r), Addressed(r)
        PROVE  service'[r] = "up" => image'[r] = <<"new", "new">>
    <3>1. phase \in {"restart", "finish"} \/ Committed
      BY <2>2 DEF Restarted
    <3>2. Runs(r, <<"new", "new">>) /\ loaded[r] = "new" /\ disk[r] = "new"
      BY <1>3, <2>2, <3>1, AllNew DEF UpgradedInv
    <3>3. QED
      BY <1>3, <3>2, SystemdRuns
  <2>3. QED
    BY <1>1, <2>1, <2>2 DEF UpgradedInv, Restarted, Addressed, Committed, Runs
<1>4. CASE managed /\ Reload
  <2>1. phase = "reload" /\ phase' = "restart" /\ todo' = Binary /\ Reloaded
    BY <1>4 DEF Reload, Go, Work
  <2>2. \A r \in Binary : loaded'[r] = "new"
    BY <2>1, AllNew DEF Reloaded
  <2>3. QED
    BY <2>1, <2>2 DEF UpgradedInv, Restarted, Committed, Upgrading
<1>5. CASE Finish
  <2>1. phase = "finish" /\ phase' = "drop_backup" /\ Alike
    BY <1>5 DEF Finish, Go, Alike, systemd
  <2>2. QED
    BY <1>1, <2>1, UpgradedQuiet DEF Restarted
<1>6. CASE managed /\ Upgrade /\ ~Reload /\ ~Finish /\ ~\E r \in Binary : Restart(r)
  <2>1. phase' \in {"stage", "snapshot", "query", "backup", "activate", "put", "reload"}
    BY <1>6, DoneMoves DEF Upgrade, Stage, Snapshot, Query, Backup, Activate, Put, Swap, Go,
                           AfterPut
  <2>2. QED
    BY <2>1, UpgradedOver DEF Committed, Upgrading
<1>7. CASE Failure \/ Cleanup
  <2>1. phase' \notin Upgrading
    BY <1>7, FailureFails, CleanupKeeps DEF Upgrading
  <2>2. CASE ~Committed
    BY <1>7, <2>1, <2>2, FailureFails, CleanupKeeps, UpgradedOver DEF Upgrading
  <2>3. CASE Committed
    <3>1. Alike
      BY <1>7, <2>3, CommittedAlike
    <3>2. QED
      BY <1>1, <2>1, <2>3, <3>1, UpgradedQuiet DEF Restarted, Upgrading
  <2>4. QED
    BY <2>2, <2>3
<1>8. QED
  BY <1>1, <1>2, <1>3, <1>4, <1>5, <1>6, <1>7, UpgradedRestart DEF Next, Ended

-----------------------------------------------------------------------------
\* The services and the script's notes of them

LEMMA PauseInit == Init => PauseInv
BY DEF Init, PauseInv

LEMMA PauseMoves ==
  ASSUME TypeOK, PauseInv, NEW r \in Binary,
         StartNow(r) \/ Falls(r, "down") \/ FailsToStart(r) \/ UNCHANGED service
  PROVE  PauseInv'
BY DEF StartNow, Falls, FailsToStart, PauseInv, TypeOK

LEMMA PauseNext ==
  ASSUME TypeOK, PauseInv, [Next]_vars
  PROVE  PauseInv'
<1>1. CASE UNCHANGED service
  BY <1>1 DEF PauseInv
<1>2. CASE \E r \in Binary : Restart(r) \/ RestartFails(r) \/ Undo(r) \/ Revive(r) \/ ReviveFails(r)
  BY <1>2, PauseMoves DEF Restart, RestartFails, Undo, Revive, ReviveFails
<1>3. CASE Systemd
  BY <1>3, PauseMoves DEF Systemd, Crash, Resume, GiveUp, FailsToStart
<1>4. CASE UNCHANGED vars
  BY <1>1, <1>4 DEF vars, systemd
<1>5. CASE \/ Upgrade /\ ~\E r \in Binary : Restart(r)
           \/ Failure /\ ~\E r \in Binary : RestartFails(r)
  BY <1>1, <1>5 DEF Upgrade, Stage, Query, Backup, Swap, Snapshot, Put, Activate, Reload, Finish,
                    Failure, CommandFails, SaveFails, PutFails, Cut, SaveUnchanged, systemd
<1>6. CASE Cleanup /\ ~\E r \in Binary : Undo(r) \/ Revive(r) \/ ReviveFails(r)
  BY <1>1, <1>6 DEF Cleanup, Restore, RestoreBinaryFails, RestoreAssetFails, RollbackReload,
                    DropBackup, DropStaged, Exit, systemd
<1>7. QED
  BY <1>2, <1>3, <1>4, <1>5, <1>6 DEF Next, Ended

LEMMA NotesInit == Init => NotesInv
BY DEF Init, NotesInv

LEMMA NotesNext ==
  ASSUME PhaseInv, NotesInv, [Next]_vars
  PROVE  NotesInv'
<1>1. CASE \E q \in Binary : Query(q)
  <2>1. PICK q \in Binary : Query(q)
    BY <1>1
  <2>2. phase = "query" /\ ((phase' = "query" /\ todo' = todo \ {q}) \/ phase' = "backup")
    BY <2>1, DoneMoves DEF Query
  <2>3. wasActive' \subseteq wasActive \union {q} /\ wasEnabled' \subseteq wasEnabled \union {q}
    BY <2>1 DEF Query
  <2>4. QED
    BY <2>2, <2>3 DEF NotesInv
<1>2. CASE ~\E q \in Binary : Query(q)
  <2>1. UNCHANGED <<wasActive, wasEnabled>>
    BY <1>2, CleanupKeeps, FilesKept
       DEF Next, Ended, Upgrade, Stage, Backup, Swap, Restart, Snapshot, Put, Activate, Reload,
           Finish, SaveUnchanged, Failure, CommandFails, SaveFails, PutFails, RestartFails, Cut,
           notes
  <2>2. CASE Upgrade
    <3>1. \/ phase \in {"stage", "snapshot"}
          \/ phase' \notin {"stage", "snapshot", "query"}
      BY <1>2, <2>2, DoneMoves
         DEF Upgrade, Stage, Backup, Swap, Restart, Snapshot, Put, Activate, Reload, Finish, Go,
             AfterPut
    <3>2. QED
      BY <2>1, <3>1 DEF NotesInv
  <2>3. CASE Failure \/ Cleanup
    <3>1. phase' \in {"restore", "drop_backup"} \union Cleaning \union {"ended"}
      BY <2>3, CleanupKeeps DEF Failure, CommandFails, SaveFails, PutFails, RestartFails, Cut,
                                Abort, Go
    <3>2. QED
      BY <3>1 DEF NotesInv, Cleaning
  <2>4. CASE Systemd \/ UNCHANGED vars
    BY <2>1, <2>4, FilesKept DEF NotesInv
  <2>5. QED
    BY <2>2, <2>3, <2>4 DEF Next, Ended
<1>3. QED
  BY <1>1, <1>2

LEMMA FormerInit == Init => FormerInv
BY DEF Init, FormerInv, AsFormer, Asked, Added, Restarted, Committed, Upgrading

\* Services, notes and what is restarted are left alone.
LEMMA FormerFrame ==
  ASSUME FormerInv, UNCHANGED <<service, enabled, wasActive, wasEnabled, former, managed,
         request>>,
         status' = "ok" \/ ~activated' => status = "ok" \/ ~activated,
         managed => \A r \in Binary : (Asked(r)' => Asked(r)) /\ (Restarted(r)' <=> Restarted(r))
  PROVE  FormerInv'
BY DEF FormerInv, AsFormer, Added

LEMMA FormerQuery ==
  ASSUME TypeOK, PhaseInv, NotesInv, FormerInv, NEW q \in Binary, Query(q)
  PROVE  FormerInv'
<1>1. /\ phase = "query" /\ q \in todo /\ phase' \in {"query", "backup"}
      /\ phase' = "query" => todo' = todo \ {q}
      /\ phase' = "backup" => todo = {q}
  BY DoneMoves DEF Query, Turn
<1>2. UNCHANGED <<status, activated, service, enabled, former, managed, request>>
  BY DEF Query, systemd, given
<1>3. ~activated
  BY <1>1 DEF PhaseInv, Early
<1>4. SUFFICES ASSUME managed, NEW r \in Binary PROVE AsFormer(r)'
  BY <1>2 DEF FormerInv
<1>5. AsFormer(r)
  BY <1>4 DEF FormerInv
<1>6. ~Restarted(r) /\ ~Restarted(r)'
  BY <1>1, <1>2 DEF Restarted, Committed, Upgrading
<1>7. /\ r \in enabled <=> r \in former.enabled
      /\ r \notin Crashing => (service[r] = "up" <=> r \in former.up)
  BY <1>3, <1>5, <1>6 DEF AsFormer, Added
<1>8. CASE r = q
  <2>1. (r \in wasEnabled' <=> r \in wasEnabled \/ r \in enabled)
        /\ (r \in wasActive' <=> r \in wasActive \/ service[r] = "up")
    BY <1>8 DEF Query
  <2>2. r \notin wasEnabled /\ r \notin wasActive
    BY <1>1, <1>8 DEF NotesInv
  <2>3. QED
    BY <1>2, <1>6, <1>7, <2>1, <2>2 DEF AsFormer, Added
<1>9. CASE r # q
  <2>1. (r \in wasEnabled' <=> r \in wasEnabled) /\ (r \in wasActive' <=> r \in wasActive)
    BY <1>9 DEF Query
  <2>2. Asked(r)' => Asked(r)
    BY <1>1, <1>2, <1>3, <1>9 DEF Asked
  <2>3. QED
    BY <1>2, <1>5, <1>6, <2>1, <2>2 DEF AsFormer, Added
<1>10. QED
  BY <1>8, <1>9

LEMMA FormerRestart ==
  ASSUME TypeOK, PhaseInv, FormerInv, NEW q \in Binary, Restart(q)
  PROVE  FormerInv'
<1>1. /\ phase = "restart" /\ q \in todo /\ phase' \in {"restart", "finish"}
      /\ phase' = "restart" => todo' = todo \ {q}
      /\ phase' = "finish" => todo = {q}
  BY DoneMoves DEF Restart, Turn
<1>2. UNCHANGED <<status, activated, wasActive, wasEnabled, former, managed, request>>
  BY DEF Restart, notes, given
<1>3. activated /\ status = "ok"
  BY <1>1 DEF PhaseInv, Forward, Upgrading
<1>4. SUFFICES ASSUME managed, NEW r \in Binary PROVE AsFormer(r)'
  BY <1>2 DEF FormerInv
<1>5. AsFormer(r) /\ Asked(r)
  BY <1>3, <1>4 DEF FormerInv, Asked
<1>6. CASE r = q
  <2>1. Restarted(r)' /\ ~Restarted(r)
    BY <1>1, <1>6 DEF Restarted, Committed, Upgrading
  <2>2. r \in enabled' <=> r \in enabled \/ r \in request
    BY <1>6 DEF Restart
  <2>3. service'[r] = "up" <=> service[r] = "up" \/ r \in request
    BY <1>6 DEF Restart, Due, StartNow, TypeOK
  <2>4. QED
    BY <1>2, <1>3, <1>5, <2>1, <2>2, <2>3 DEF AsFormer, Added
<1>7. CASE r # q
  <2>1. Restarted(r)' <=> Restarted(r)
    BY <1>1, <1>7 DEF Restarted, Committed, Upgrading
  <2>2. (r \in enabled' <=> r \in enabled) /\ service'[r] = service[r]
    BY <1>7 DEF Restart, StartNow, TypeOK
  <2>3. QED
    BY <1>2, <1>3, <1>5, <2>1, <2>2 DEF AsFormer, Added
<1>8. QED
  BY <1>6, <1>7

LEMMA FormerUpgrade ==
  ASSUME TypeOK, PhaseInv, FormerInv, Upgrade, UNCHANGED <<former, managed, request>>,
         ~\E r \in Binary : Query(r) \/ Restart(r)
  PROVE  FormerInv'
<1>1. UNCHANGED <<status, service, enabled, wasActive, wasEnabled>>
  BY DEF Upgrade, Stage, Backup, Swap, Snapshot, Put, Activate, Reload, Finish, SaveUnchanged,
         systemd, notes
<1>2. status = "ok" /\ phase \in Upgrading
  BY DEF Upgrade, Stage, Backup, Swap, Snapshot, Put, Activate, Reload, Finish, PhaseInv, Turn,
         Upgrading
<1>3. SUFFICES ASSUME managed, NEW r \in Binary
               PROVE  (Asked(r)' => Asked(r)) /\ (Restarted(r)' <=> Restarted(r))
  BY <1>1, <1>2, FormerFrame
<1>4. CASE \E a \in Binary : Stage(a) \/ Swap(a)
  BY <1>1, <1>2, <1>3, <1>4, DoneMoves
     DEF Stage, Swap, Turn, AfterPut, Asked, Restarted, Committed, Upgrading, notes
<1>5. CASE \E a \in Asset : Snapshot(a)
  <2>1. phase = "snapshot" /\ phase' \in {"snapshot", "query"} /\ activated' = activated
        /\ (phase' = "query" => todo' = Binary)
    BY <1>3, <1>5, DoneMoves DEF Snapshot, Turn, Work, SaveUnchanged
  <2>2. QED
    BY <1>1, <1>3, <2>1 DEF Asked, Restarted, Committed, Upgrading
<1>6. CASE \E a \in Binary : Backup(a)
  BY <1>1, <1>2, <1>3, <1>6, DoneMoves
     DEF Backup, SaveUnchanged, Turn, Asked, Restarted, Committed, Upgrading
<1>7. CASE \E a \in Asset : Put(a)
  BY <1>1, <1>2, <1>3, <1>7, DoneMoves
     DEF Put, Turn, AfterPut, Asked, Restarted, Committed, Upgrading, notes
<1>8. CASE Activate
  BY <1>1, <1>2, <1>8 DEF Activate, Go, Asked, Restarted, Committed, Upgrading
<1>9. CASE Reload
  <2>1. phase = "reload" /\ phase' = "restart" /\ todo' = Binary /\ activated' = activated
    BY <1>9 DEF Reload, Go, Work, notes
  <2>2. QED
    BY <1>1, <1>3, <2>1 DEF Asked, Restarted, Committed, Upgrading
<1>10. CASE Finish
  BY <1>1, <1>2, <1>10 DEF Finish, Go, Asked, Restarted, Committed, Upgrading, notes
<1>11. QED
  BY <1>4, <1>5, <1>6, <1>7, <1>8, <1>9, <1>10 DEF Upgrade

LEMMA FormerOver ==
  ASSUME TypeOK, PhaseInv, FormerInv, Failure \/ Cleanup, UNCHANGED <<former, managed, request>>
  PROVE  FormerInv'
<1>1. UNCHANGED <<activated, wasActive, wasEnabled>>
  BY CleanupKeeps DEF Failure, CommandFails, SaveFails, PutFails, RestartFails, Cut, notes
<1>2. phase' \in Cleaning \union {"ended"} /\ (Committed <=> Committed')
  <2>1. CASE Failure
    <3>1. phase' \in Cleaning \union {"ended"}
      BY <2>1, FailureFails DEF Cleaning
    <3>2. Committed => Committed'
      BY <2>1, FailureFails DEF Cut, Committed, Go, Upgrading
    <3>3. QED
      BY <2>1, <3>1, <3>2, FailureFails
  <2>2. CASE Cleanup
    BY <2>2, CleanupKeeps
  <2>3. QED
    BY <2>1, <2>2
<1>3. phase' \notin {"query", "backup", "activate", "restart", "finish"}
  BY <1>2 DEF Cleaning
<1>4. \A r \in Binary : (Asked(r)' => Asked(r)) /\ (Restarted(r)' <=> Committed)
  BY <1>1, <1>2, <1>3 DEF Asked, Restarted
<1>5. CASE Committed
  <2>1. Alike /\ status = "ok"
    BY <1>5, CommittedAlike DEF Committed
  <2>2. \A r \in Binary : Restarted(r)
    BY <1>5 DEF Restarted
  <2>3. QED
    BY <1>1, <1>4, <1>5, <2>1, <2>2, FormerFrame DEF Alike
<1>6. CASE ~activated
  <2>1. Alike
    BY <1>6, EarlyAlike
  <2>2. \A r \in Binary : ~Restarted(r)
    BY <1>6 DEF Restarted, PhaseInv, Forward
  <2>3. ~Committed
    BY <1>6 DEF PhaseInv
  <2>4. QED
    BY <1>1, <1>4, <1>6, <2>1, <2>2, <2>3, FormerFrame DEF Alike
<1>7. CASE activated /\ ~Committed
  <2>1. activated' /\ status' = "failed"
    <3>1. CASE Failure
      BY <1>1, <1>7, <3>1, FailureFails
    <3>2. CASE Cleanup
      BY <1>1, <1>7, <3>2, CleanupKeeps DEF Committed, TypeOK
    <3>3. QED
      BY <3>1, <3>2
  <2>2. QED
    BY <1>1, <1>4, <2>1 DEF FormerInv, AsFormer
<1>8. QED
  BY <1>5, <1>6, <1>7

LEMMA FormerNext ==
  ASSUME TypeOK, PhaseInv, PauseInv, NotesInv, FormerInv, [Next]_vars
  PROVE  FormerInv'
<1>1. UNCHANGED <<former, managed, request>>
  BY ActivatedStays
<1>2. CASE Systemd \/ UNCHANGED vars
  <2>1. UNCHANGED <<phase, todo, status, activated, wasActive, wasEnabled, enabled>>
    BY <1>2, FilesKept
  <2>2. \A r \in Binary \ Crashing : service'[r] = service[r]
    BY <1>2, SystemdStep DEF PauseInv
  <2>3. \A r \in Binary : (Asked(r)' <=> Asked(r)) /\ (Added(r)' <=> Added(r))
    BY <1>1, <2>1 DEF Asked, Added, Restarted, Committed
  <2>4. QED
    BY <1>1, <2>1, <2>2, <2>3 DEF FormerInv, AsFormer
<1>3. CASE Upgrade
  BY <1>1, <1>3, FormerQuery, FormerRestart, FormerUpgrade
<1>4. QED
  BY <1>1, <1>2, <1>3, FormerOver DEF Next, Ended

-----------------------------------------------------------------------------
\* The services behind a rollback

LEMMA RevertedInit == Init => RevertedInv
BY DEF Init, RevertedInv

\* What RevertedInv says of one service.
RevertedOne(r) ==
    /\ phase \in {"undo", "revive"} \union Dropping => loaded[r] = before[UnitOf[r]]
    /\ Undone(r) =>
         /\ r \in enabled <=> r \in wasEnabled
         /\ r \notin wasActive => /\ Runs(r, <<before[r], loaded[r]>>)
                                  /\ r \notin Crashing => service[r] # "up"
    /\ Revived(r) /\ r \in wasActive =>
         /\ Runs(r, <<before[r], loaded[r]>>)
         /\ r \notin Crashing => service[r] = "up"

RollingBack == managed /\ activated /\ status = "failed" /\ ~incomplete

LEMMA RevertedOnes == RevertedInv <=> (RollingBack => \A r \in Binary : RevertedOne(r))
BY DEF RevertedInv, RevertedOne, RollingBack

\* Behind the restoration of a rollback without failure all is as before.
LEMMA RolledBack ==
  ASSUME TypeOK, PhaseInv, CopyInv, RollbackInv, RollingBack,
         phase \in {"rollback_reload", "undo", "revive"} \union Dropping
  PROVE  disk = before
<1>1. \A a \in Asset : Settled(a)
  BY DEF Settled
<1>2. QED
  BY <1>1, AllBack DEF RollingBack

LEMMA RevertedReload ==
  ASSUME TypeOK, PhaseInv, CopyInv, RollbackInv, RollbackReload, ~incomplete', RollingBack
  PROVE  \A r \in Binary : RevertedOne(r)'
<1>1. phase = "rollback_reload" /\ phase' = "undo" /\ todo' = Binary
  BY DEF RollbackReload, Go, Work
<1>2. Reloaded /\ UNCHANGED before
  BY DEF RollbackReload, given
<1>3. disk = before
  BY <1>1, RolledBack
<1>4. \A r \in Binary : loaded'[r] = before'[UnitOf[r]]
  BY <1>2, <1>3 DEF Reloaded
<1>5. QED
  BY <1>1, <1>4 DEF RevertedOne, Undone, Revived, Dropping

LEMMA RevertedUndo ==
  ASSUME TypeOK, RevertedInv, RollingBack, NEW s \in Binary, Undo(s), ~incomplete'
  PROVE  \A r \in Binary : RevertedOne(r)'
<1>1. /\ phase = "undo" /\ s \in todo /\ phase' \in {"undo", "revive"}
      /\ phase' = "undo" => todo' = todo \ {s}
      /\ phase' = "revive" => todo = {s} /\ todo' = Binary
  BY DoneMoves DEF Undo, Turn, Work
<1>2. UNCHANGED <<before, loaded, wasActive, wasEnabled>>
  BY DEF Undo, files, notes, given
<1>3. PICK stopped \in BOOLEAN, set \in BOOLEAN :
         /\ ~stopped => Stops(s)
         /\ IF Stops(s) /\ stopped THEN Falls(s, "down") ELSE UNCHANGED <<service, image>>
         /\ enabled' = IF ~set THEN enabled
                       ELSE IF s \in wasEnabled THEN enabled \union {s} ELSE enabled \ {s}
         /\ incomplete' = (incomplete \/ ~stopped \/ ~set)
  BY DEF Undo
<1>4. stopped /\ set
  BY <1>3
<1>5. s \notin wasActive => service'[s] # "up"
  BY <1>3, <1>4 DEF Stops, Falls, TypeOK
<1>6. s \in enabled' <=> s \in wasEnabled
  BY <1>3, <1>4
<1>7. \A r \in Binary : RevertedOne(r)
  BY RevertedOnes
<1>8. ASSUME NEW r \in Binary, r # s
      PROVE  service'[r] = service[r] /\ image'[r] = image[r] /\ (r \in enabled' <=> r \in enabled)
  BY <1>3, <1>8 DEF Falls, TypeOK
<1>9. SUFFICES ASSUME NEW r \in Binary PROVE RevertedOne(r)'
  OBVIOUS
<1>10. loaded'[r] = before'[UnitOf[r]] /\ ~Revived(r)'
  BY <1>1, <1>2, <1>7 DEF RevertedOne, Revived, Dropping
<1>11. CASE r = s
  BY <1>2, <1>5, <1>6, <1>10, <1>11 DEF RevertedOne, Runs
<1>12. CASE r # s
  <2>1. Undone(r)' => Undone(r)
    BY <1>1, <1>12 DEF Undone, Dropping
  <2>2. QED
    BY <1>2, <1>7, <1>8, <1>10, <1>12, <2>1 DEF RevertedOne, Runs
<1>13. QED
  BY <1>11, <1>12

LEMMA RevertedRevive ==
  ASSUME TypeOK, PhaseInv, CopyInv, RollbackInv, RevertedInv, RollingBack, NEW s \in Binary,
         Revive(s)
  PROVE  \A r \in Binary : RevertedOne(r)'
<1>1. /\ phase = "revive" /\ s \in todo /\ phase' \in {"revive", "drop_backup"}
      /\ phase' = "revive" => todo' = todo \ {s}
      /\ phase' = "drop_backup" => todo = {s}
  BY DoneMoves DEF Revive, Turn
<1>2. UNCHANGED <<before, loaded, wasActive, wasEnabled, enabled>>
  BY DEF Revive, files, notes, given
<1>3. disk = before
  BY <1>1, RolledBack
<1>4. \A r \in Binary : RevertedOne(r)
  BY RevertedOnes
<1>5. ASSUME NEW r \in Binary, r # s PROVE service'[r] = service[r] /\ image'[r] = image[r]
  BY <1>5 DEF Revive, StartNow, TypeOK
<1>6. SUFFICES ASSUME NEW r \in Binary PROVE RevertedOne(r)'
  OBVIOUS
<1>7. loaded[r] = before[UnitOf[r]] /\ Undone(r) /\ Undone(r)'
  BY <1>1, <1>4 DEF RevertedOne, Undone, Dropping
<1>8. CASE r = s /\ r \in wasActive
  <2>1. service'[r] = "up" /\ image'[r] = <<before[r], loaded[r]>>
    BY <1>3, <1>8 DEF Revive, StartNow, TypeOK
  <2>2. r \in enabled <=> r \in wasEnabled
    BY <1>4, <1>7 DEF RevertedOne
  <2>3. QED
    BY <1>2, <1>7, <1>8, <2>1, <2>2 DEF RevertedOne, Runs
<1>9. CASE r = s /\ r \notin wasActive
  <2>1. UNCHANGED <<service, image>>
    BY <1>9 DEF Revive
  <2>2. QED
    BY <1>2, <1>4, <1>7, <1>9, <2>1 DEF RevertedOne, Runs
<1>10. CASE r # s
  <2>1. Revived(r)' => Revived(r)
    BY <1>1, <1>10 DEF Revived, Dropping
  <2>2. QED
    BY <1>2, <1>4, <1>5, <1>7, <1>10, <2>1 DEF RevertedOne, Runs
<1>11. QED
  BY <1>8, <1>9, <1>10

\* Clearing up, which touches no service.
LEMMA RevertedQuiet ==
  ASSUME RevertedInv, RollingBack, Alike, UNCHANGED <<before, wasActive, wasEnabled>>,
         phase' \in {"undo", "revive"} \union Dropping => phase \in {"undo", "revive"} \union Dropping,
         \A r \in Binary : (Undone(r)' => Undone(r)) /\ (Revived(r)' => Revived(r))
  PROVE  \A r \in Binary : RevertedOne(r)'
<1> SUFFICES ASSUME NEW r \in Binary PROVE RevertedOne(r)'
  OBVIOUS
<1>1. RevertedOne(r)
  BY RevertedOnes
<1>2. QED
  BY <1>1 DEF RevertedOne, Alike, Runs

LEMMA RevertedSystemd ==
  ASSUME TypeOK, PhaseInv, CopyInv, RollbackInv, RevertedInv, PauseInv, RollingBack,
         Systemd \/ UNCHANGED vars
  PROVE  \A r \in Binary : RevertedOne(r)'
<1> SUFFICES ASSUME NEW r \in Binary PROVE RevertedOne(r)'
  OBVIOUS
<1>1. RevertedOne(r)
  BY RevertedOnes
<1>2. UNCHANGED <<phase, todo, loaded, before, enabled, wasActive, wasEnabled>>
  BY FilesKept
<1>3. Undone(r) \/ Revived(r) => disk = before
  BY RolledBack DEF Undone, Revived
<1>4. r \notin Crashing => service'[r] = service[r]
  BY SystemdStep DEF PauseInv
<1>5. (Undone(r) \/ Revived(r)) /\ Runs(r, <<before[r], loaded[r]>>)
      => (service'[r] = "up" => image'[r] = <<before[r], loaded[r]>>)
  BY <1>3, SystemdRuns
<1>6. (Undone(r)' <=> Undone(r)) /\ (Revived(r)' <=> Revived(r))
  BY <1>2 DEF Undone, Revived
<1>7. QED
  <2>1. (Undone(r) /\ r \notin wasActive) \/ (Revived(r) /\ r \in wasActive)
        => Runs(r, <<before[r], loaded[r]>>)
    BY <1>1 DEF RevertedOne
  <2>2. (Undone(r) /\ r \notin wasActive) \/ (Revived(r) /\ r \in wasActive)
        => Runs(r, <<before[r], loaded[r]>>)'
    BY <1>2, <1>5, <2>1 DEF Runs
  <2>3. QED
    BY <1>1, <1>2, <1>4, <1>6, <2>2 DEF RevertedOne

LEMMA RevertedNext ==
  ASSUME TypeOK, PhaseInv, CopyInv, RollbackInv, RevertedInv, PauseInv, [Next]_vars
  PROVE  RevertedInv'
<1>1. SUFFICES ASSUME RollingBack' PROVE \A r \in Binary : RevertedOne(r)'
  BY DEF RevertedInv, RevertedOne, RollingBack
<1>2. managed
  BY <1>1, ActivatedStays DEF RollingBack
<1>3. CASE Upgrade
  <2>1. status' = status /\ phase \in Upgrading
    BY <1>3 DEF Upgrade, Stage, Query, Backup, Swap, Restart, Snapshot, Put, Activate, Reload,
                Finish,
           SaveUnchanged, Turn, Upgrading
  <2>2. QED
    BY <1>1, <2>1 DEF PhaseInv, RollingBack
<1>4. CASE Failure
  <2>1. phase' \in {"restore", "ended"} \/ ~activated'
    BY <1>4 DEF Failure, CommandFails, SaveFails, PutFails, RestartFails, Cut, Abort, Go, notes
  <2>2. QED
    BY <1>1, <2>1 DEF RollingBack, RevertedOne, Undone, Revived, Dropping
<1>5. CASE Cleanup \/ Systemd \/ UNCHANGED vars
  <2>1. UNCHANGED <<status, activated, before, managed, wasActive, wasEnabled>>
    BY <1>5, CleanupKeeps, FilesKept
  <2>2. incomplete => incomplete'
    BY <1>5, FilesKept DEF Cleanup, Restore, RestoreBinaryFails, RestoreAssetFails,
                           RollbackReload,
           Undo, Revive, ReviveFails, DropBackup, DropStaged, Exit, trouble, TypeOK
  <2>3. RollingBack /\ ~incomplete'
    BY <1>1, <2>1, <2>2 DEF RollingBack
  <2>4. CASE Systemd \/ UNCHANGED vars
    BY <2>3, <2>4, RevertedSystemd
  <2>5. CASE RollbackReload
    BY <2>3, <2>5, RevertedReload
  <2>6. CASE \E s \in Binary : Undo(s)
    BY <2>3, <2>6, RevertedUndo
  <2>7. CASE \E s \in Binary : Revive(s)
    BY <2>3, <2>7, RevertedRevive
  <2>8. CASE \E a \in Asset : Restore(a) \/ RestoreAssetFails(a) \/ RestoreBinaryFails(a)
    <3>1. phase' \in {"restore", "rollback_reload"}
      BY <1>2, <2>8, DoneMoves DEF Restore, RestoreAssetFails, RestoreBinaryFails, AfterRestore
    <3>2. QED
      BY <3>1 DEF RevertedOne, Undone, Revived, Dropping
  <2>9. CASE (\E s \in Binary : DropBackup(s)) \/ DropStaged \/ Exit
    <3>1. phase \in Dropping /\ phase' \in Dropping \union {"ended"} /\ phase # "ended"
      BY <2>9, DoneMoves DEF DropBackup, DropStaged, Exit, Go, Dropping
    <3>2. Alike
      BY <2>9 DEF DropBackup, DropStaged, Exit, Alike, systemd
    <3>3. \A r \in Binary : Undone(r) /\ Revived(r)
      BY <3>1 DEF Undone, Revived
    <3>4. phase' \in {"undo", "revive"} \union Dropping => phase \in {"undo", "revive"} \union Dropping
      BY <3>1
    <3>5. QED
      BY <2>1, <2>3, <3>2, <3>3, <3>4, RevertedQuiet
  <2>10. CASE \E s \in Binary : ReviveFails(s)
    BY <2>3, <2>10 DEF ReviveFails
  <2>11. QED
    BY <1>5, <2>4, <2>5, <2>6, <2>7, <2>8, <2>9, <2>10 DEF Cleanup, Asset
<1>6. QED
  BY <1>3, <1>4, <1>5 DEF Next, Ended

-----------------------------------------------------------------------------
\* The services when the installer has ended

\* What ServicesMatch says of one service.
Matches(r) ==
    /\ r \in enabled <=> r \in former.enabled \union Wanted
    /\ r \notin Crashing => (service[r] = "up" <=> r \in former.up \union Wanted)
    /\ service[r] # "down" => loaded[r] = disk[UnitOf[r]] /\ disk[r] # "partial"
    /\ service[r] = "up" /\ (Wanted = {} \/ r \in Wanted) => image[r] = <<disk[r], loaded[r]>>

LEMMA MatchesEach ==
  ASSUME TypeOK
  PROVE  ServicesMatch <=> (Clean /\ managed => \A r \in Binary : Matches(r))
<1>1. enabled \subseteq Binary /\ former.enabled \subseteq Binary
  BY DEF TypeOK
<1>2. Wanted \subseteq Binary
  BY InstallAssumption DEF TypeOK, Wanted
<1>3. enabled = former.enabled \union Wanted
      <=> \A r \in Binary : r \in enabled <=> r \in former.enabled \union Wanted
  BY <1>1, <1>2
<1>4. QED
  BY <1>3 DEF ServicesMatch, Matches

LEMMA MatchInit == Init => ServicesMatch
BY DEF Init, ServicesMatch, Clean

\* The script leaves cleanly.
LEMMA MatchExit ==
  ASSUME TypeOK, PhaseInv, FilesInv, UntouchedInv, UpgradedInv, RevertedInv, FormerInv, Exit,
         managed, ~incomplete, NEW r \in Binary
  PROVE  Matches(r)
<1>1. phase = "drop_tmp"
  BY DEF Exit
<1>2. disk[r] = before[r] => disk[r] # "partial"
  BY DEF TypeOK, Asset
<1>3. AsFormer(r)
  BY DEF FormerInv
<1>4. CASE status = "ok"
  <2>1. Committed /\ Restarted(r) /\ Wanted = request
    BY <1>1, <1>4 DEF Committed, Upgrading, Restarted, Wanted
  <2>2. disk[r] = "new" /\ disk[UnitOf[r]] = "new" /\ loaded[r] = "new"
    BY <2>1, AllNew DEF FilesInv, UpgradedInv
  <2>3. Addressed(r) => Runs(r, <<"new", "new">>)
    BY <2>1 DEF UpgradedInv
  <2>4. QED
    BY <1>3, <1>4, <2>1, <2>2, <2>3 DEF Matches, Addressed, Runs, AsFormer, Added
<1>5. CASE status = "failed" /\ ~activated
  <2>1. disk = before /\ loaded[r] = before[UnitOf[r]] /\ Runs(r, <<before[r], loaded[r]>>)
    BY <1>5 DEF FilesInv, CopyInv, UntouchedInv
  <2>2. Wanted = {} /\ ~Added(r)
    BY <1>1, <1>5 DEF Wanted, Added, Restarted, Committed
  <2>3. QED
    BY <1>2, <1>3, <1>5, <2>1, <2>2 DEF Matches, Runs, AsFormer
<1>6. CASE status = "failed" /\ activated
  <2>1. RollingBack /\ phase \in Dropping /\ Asked(r) /\ Wanted = {}
    BY <1>1, <1>6 DEF RollingBack, Dropping, Asked, Wanted
  <2>2. disk = before
    BY <2>1, RolledBack DEF FilesInv
  <2>3. RevertedOne(r) /\ Undone(r) /\ Revived(r)
    BY <2>1, RevertedOnes DEF Undone, Revived
  <2>4. QED
    <3>1. (r \in enabled <=> r \in former.enabled)
          /\ (r \notin Crashing => (r \in wasActive <=> r \in former.up))
      BY <1>3, <2>1, <2>3 DEF RevertedOne, AsFormer
    <3>2. r \notin Crashing => (service[r] = "up" <=> r \in wasActive)
      BY <2>3 DEF RevertedOne
    <3>3. loaded[r] = before[UnitOf[r]] /\ Runs(r, <<before[r], loaded[r]>>)
      BY <2>1, <2>3 DEF RevertedOne
    <3>4. QED
      BY <1>2, <2>1, <2>2, <3>1, <3>2, <3>3 DEF Matches, Runs
<1>7. QED
  BY <1>4, <1>5, <1>6 DEF TypeOK

LEMMA MatchNext ==
  ASSUME TypeOK, TypeOK', PhaseInv, FilesInv, UntouchedInv, UpgradedInv, RevertedInv, PauseInv,
         FormerInv, ServicesMatch, [Next]_vars
  PROVE  ServicesMatch'
<1>1. ServicesMatch' <=> (Clean' /\ managed' => \A r \in Binary : Matches(r)')
  <2>1. enabled' \subseteq Binary /\ former'.enabled \subseteq Binary
    BY DEF TypeOK
  <2>2. Wanted' \subseteq Binary
    BY InstallAssumption DEF TypeOK, Wanted
  <2>3. enabled' = former'.enabled \union Wanted'
        <=> \A r \in Binary : r \in enabled' <=> r \in former'.enabled \union Wanted'
    BY <2>1, <2>2
  <2>4. QED
    BY <2>3 DEF ServicesMatch, Matches
<1>2. SUFFICES ASSUME Clean', managed', NEW r \in Binary PROVE Matches(r)'
  BY <1>1
<1>3. managed
  BY <1>2, ActivatedStays
<1>4. CASE Systemd \/ UNCHANGED vars
  <2>1. UNCHANGED <<phase, status, disk, tmpDir, loaded, enabled, former, request>>
    BY <1>4, FilesKept
  <2>2. Matches(r) /\ UNCHANGED Wanted
    BY <1>2, <1>3, <2>1, MatchesEach DEF Clean, Wanted
  <2>3. r \notin Crashing => service'[r] = service[r]
    BY <1>4, SystemdStep DEF PauseInv
  <2>4. QED
    BY <1>4, <2>1, <2>2, <2>3, SystemdStep DEF Matches
<1>5. CASE Exit
  <2>1. ~incomplete
    BY <1>2, <1>5 DEF Exit, PhaseInv, Clean
  <2>2. Matches(r)
    BY <1>3, <1>5, <2>1, MatchExit
  <2>3. UNCHANGED <<status, disk, loaded, enabled, service, image, former, request>>
    BY <1>5 DEF Exit, systemd, given
  <2>4. QED
    BY <2>2, <2>3 DEF Matches, Wanted
<1>6. CASE Upgrade \/ Failure \/ (Cleanup /\ ~Exit)
  <2>1. phase # "ended"
    BY <1>6 DEF Upgrade, Stage, Query, Backup, Swap, Restart, Snapshot, Put, Activate, Reload,
                Finish, Failure, CommandFails, SaveFails, PutFails, RestartFails, Cut, Turn,
                Upgrading, Cleanup, Restore, RestoreBinaryFails, RestoreAssetFails,
                RollbackReload, Undo, Revive, ReviveFails, DropBackup, DropStaged
  <2>2. tmpDir' = tmpDir
    BY <1>6 DEF Upgrade, Stage, Query, Backup, Swap, Restart, Snapshot, Put, Activate, Reload,
                Finish, Failure, CommandFails, SaveFails, PutFails, RestartFails, Cut,
                SaveUnchanged, files, Cleanup, Restore, RestoreBinaryFails, RestoreAssetFails,
                RollbackReload, Undo, Revive, ReviveFails, DropBackup, DropStaged
  <2>3. QED
    BY <1>2, <2>1, <2>2 DEF PhaseInv, Clean
<1>7. QED
  BY <1>4, <1>5, <1>6 DEF Next, Ended

\* Where the installer has ended cleanly, whatever failed and whichever former
\* installation there was: of both roles the units that were enabled and those
\* asked for are enabled, of the services that do not fail those that were up
\* and those asked for are up, so that a rollback stops the ones it newly
\* started; and what runs is what is installed, but for an active service that
\* --enable-service does not name (README.md:104).
THEOREM ServicesAgree == Spec => []ServicesMatch
<1> DEFINE Inv == InstallInv /\ ServicesInv
<1>1. Init => Inv
  BY InstallInvInit, UntouchedInit, UpgradedInit, RevertedInit, PauseInit, NotesInit, FormerInit,
     MatchInit DEF ServicesInv
<1>2. Inv /\ [Next]_vars => Inv'
  <2> SUFFICES ASSUME InstallInv, ServicesInv, [Next]_vars PROVE InstallInv' /\ ServicesInv'
    OBVIOUS
  <2>1. InstallInv' /\ TypeOK'
    BY InstallInvNext DEF InstallInv
  <2>2. UntouchedInv' /\ UpgradedInv'
    BY UntouchedNext, UpgradedNext DEF ServicesInv, InstallInv, FilesInv
  <2>3. PauseInv' /\ NotesInv' /\ FormerInv'
    BY PauseNext, NotesNext, FormerNext DEF ServicesInv, InstallInv, FilesInv
  <2>4. RevertedInv'
    BY RevertedNext DEF ServicesInv, InstallInv, FilesInv
  <2>5. ServicesMatch'
    BY <2>1, MatchNext DEF ServicesInv, InstallInv, FilesInv
  <2>6. QED
    BY <2>1, <2>2, <2>3, <2>4, <2>5 DEF ServicesInv
<1>3. Inv => ServicesMatch
  BY DEF ServicesInv
<1>4. QED
  BY <1>1, <1>2, <1>3, PTL DEF Spec
=============================================================================

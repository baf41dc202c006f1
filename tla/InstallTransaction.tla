-------------------------- MODULE InstallTransaction --------------------------
(***************************************************************************)
(* The transaction of scripts/install.sh: both binaries, the shared assets *)
(* and both systemd units are replaced by those of a verified package, and *)
(* the services restarted; an error or a signal after activation runs the  *)
(* EXIT handler, which puts everything back.                               *)
(*                                                                         *)
(* One action is one command of the script.  A file is only what its       *)
(* content comes from.  systemd goes on living next to the installer:      *)
(* services crash, and RestartSec later start again from what is in place, *)
(* until systemd gives them up.                                            *)
(***************************************************************************)
EXTENDS Naturals

CONSTANTS
    Crashing,           \* the services whose process may fail, when started or later
    Previous,           \* the installations there may have been before
    Request             \* the sets of services that --enable-service may name

Binary == {"tx", "rx"}
Unit == {"tx_unit", "rx_unit"}
Asset == Binary \union Unit \union {"share"}
UnitOf == [tx |-> "tx_unit", rx |-> "rx_unit"]
Content == {"none", "old", "new", "partial"}    \* partial: half written, or half removed

ASSUME InstallAssumption ==
    Crashing \subseteq Binary /\ Previous \subseteq SUBSET Asset /\ Request \subseteq SUBSET Binary

NoProcess == <<"none", "none">>

VARIABLES
    \* the installer
    phase, todo,        \* where the script is, and what its loop has left
    status,             \* its exit status so far
    activated,          \* ACTIVATION_STARTED
    existed,            \* {TX,RX,SHARE,TX_UNIT,RX_UNIT}_EXISTED
    wasActive,          \* {TX,RX}_WAS_ACTIVE
    wasEnabled,         \* {TX,RX}_WAS_ENABLED
    unrestored,         \* {tx,rx}_restored = false
    incomplete,         \* rollback_failed
    \* files
    disk,               \* what is installed
    saved,              \* {TX,RX}_BACKUP, and the copies in TRANSACTION_DIR
    staged,             \* {TX,RX}_STAGED
    tmpDir,             \* TMP_DIR exists
    \* systemd
    service,            \* "up", "down", or "pausing" for RestartSec
    image,              \* the binary and the unit a service was started from
    loaded,             \* the unit systemd has read
    enabled,            \* the services that are enabled
    \* given
    before,             \* what was installed before
    former,             \* the services that were up and enabled before
    managed,            \* installer_systemd_available
    request             \* ENABLE_SERVICE

control == <<phase, todo, status>>
notes == <<activated, existed, wasActive, wasEnabled>>
trouble == <<unrestored, incomplete>>
files == <<disk, saved, staged, tmpDir>>
systemd == <<service, image, loaded, enabled>>
given == <<before, former, managed, request>>
vars == <<control, notes, trouble, files, systemd, given>>

Upgrading == {"stage", "snapshot", "query", "backup", "activate", "put", "reload",
              "restart", "finish"}
Cleaning == {"restore", "rollback_reload", "undo", "revive", "drop_backup",
             "drop_staged", "drop_tmp"}

\* What the loop of a phase goes through, and in which order.
Work(p) ==
    IF p \in {"put", "restore"} THEN Asset
    ELSE IF p = "snapshot" THEN Unit \union {"share"}
    ELSE IF p \in {"stage", "query", "backup", "restart", "undo", "revive", "drop_backup"}
         THEN Binary ELSE {}

\* Only the snapshot takes the units before the shared assets.
Place(p, a) ==
    IF p = "snapshot" /\ a = "share" THEN 6
    ELSE [tx |-> 1, rx |-> 2, share |-> 3, tx_unit |-> 4, rx_unit |-> 5][a]

Turn(p, a) ==
    /\ phase = p
    /\ a \in todo
    /\ \A b \in todo : Place(p, a) <= Place(p, b)

Go(p) == phase' = p /\ todo' = Work(p)

\* Mutant: the next loop has nothing to go through.
MutantDone(a, next) ==
    IF todo = {a} THEN phase' = next /\ todo' = {} ELSE todo' = todo \ {a} /\ UNCHANGED phase

Done(a, next) == IF todo = {a} THEN Go(next) ELSE todo' = todo \ {a} /\ UNCHANGED phase

Init ==
    /\ \E p \in Previous : before = [a \in Asset |-> IF a \in p THEN "old" ELSE "none"]
    /\ managed \in BOOLEAN
    /\ request \in Request /\ (request # {} => managed)
    /\ disk = before
    /\ service \in [Binary -> {"up", "down", "pausing"}]
    /\ enabled \in SUBSET Binary
    /\ \A r \in Binary :
         /\ r \in enabled => managed /\ before[UnitOf[r]] = "old"
         /\ service[r] # "down" => managed /\ before[r] = "old" /\ before[UnitOf[r]] = "old"
         /\ service[r] = "pausing" => r \in Crashing
    /\ former = [up |-> {r \in Binary : service[r] = "up"}, enabled |-> enabled]
    /\ loaded = [r \in Binary |-> before[UnitOf[r]]]
    /\ image = [r \in Binary |-> IF service[r] = "up" THEN <<before[r], loaded[r]>> ELSE NoProcess]
    /\ phase = "stage" /\ todo = Binary
    /\ status = "ok"
    /\ activated = FALSE
    /\ existed = {} /\ wasActive = {} /\ wasEnabled = {}
    /\ unrestored = {} /\ incomplete = FALSE
    /\ saved = [a \in Asset |-> "none"]
    /\ staged = [r \in Binary |-> "none"]
    /\ tmpDir = TRUE

-----------------------------------------------------------------------------
\* The upgrade

Stage(r) ==
    /\ Turn("stage", r)
    /\ staged' = [staged EXCEPT ![r] = "new"]
    /\ Done(r, "snapshot")
    /\ UNCHANGED <<status, notes, trouble, disk, saved, tmpDir, systemd, given>>

\* What is not there is not copied, and known not to have been there.
Save(a) ==
    IF disk[a] # "none"
    THEN saved' = [saved EXCEPT ![a] = disk[a]] /\ existed' = existed \union {a}
    ELSE UNCHANGED <<saved, existed>>

SaveUnchanged ==
    UNCHANGED <<status, activated, wasActive, wasEnabled, trouble, disk, staged, tmpDir,
                systemd, given>>

Snapshot(a) ==
    /\ Turn("snapshot", a)
    /\ Save(a)
    /\ Done(a, IF managed THEN "query" ELSE "backup")
    /\ SaveUnchanged

\* A service in its restart pause is not active.
Query(r) ==
    /\ Turn("query", r)
    /\ wasActive' = IF service[r] = "up" THEN wasActive \union {r} ELSE wasActive
    /\ wasEnabled' = IF r \in enabled THEN wasEnabled \union {r} ELSE wasEnabled
    /\ Done(r, "backup")
    /\ UNCHANGED <<status, activated, existed, trouble, files, systemd, given>>

Backup(r) ==
    /\ Turn("backup", r)
    /\ Save(r)
    /\ Done(r, "activate")
    /\ SaveUnchanged

Activate ==
    /\ phase = "activate"
    /\ activated' = TRUE
    /\ Go("put")
    /\ UNCHANGED <<status, existed, wasActive, wasEnabled, trouble, files, systemd, given>>

AfterPut == IF managed THEN "reload" ELSE "finish"

\* mv of the staged binary over the installed one, in one directory.
Swap(r) ==
    /\ Turn("put", r)
    /\ disk' = [disk EXCEPT ![r] = staged[r]]
    /\ staged' = [staged EXCEPT ![r] = "none"]
    /\ Done(r, AfterPut)
    /\ UNCHANGED <<status, notes, trouble, saved, tmpDir, systemd, given>>

Put(a) ==
    /\ a \notin Binary
    /\ Turn("put", a)
    /\ disk' = [disk EXCEPT ![a] = "new"]
    /\ Done(a, AfterPut)
    /\ UNCHANGED <<status, notes, trouble, saved, staged, tmpDir, systemd, given>>

Reloaded == loaded' = [r \in Binary |-> disk[UnitOf[r]]]

\* daemon-reload, once more in enable_services.
Reload ==
    /\ phase = "reload"
    /\ Reloaded
    /\ Go("restart")
    /\ UNCHANGED <<status, notes, trouble, files, service, image, enabled, given>>

\* Without --enable-service the services that are active, with it the ones it
\* names and no others.
Due(r) == IF request = {} THEN service[r] = "up" ELSE r \in request

Falls(r, s) ==
    /\ service' = [service EXCEPT ![r] = s]
    /\ image' = [image EXCEPT ![r] = NoProcess]

StartNow(r) ==
    /\ service' = [service EXCEPT ![r] = "up"]
    /\ image' = [image EXCEPT ![r] = <<disk[r], loaded[r]>>]

\* enable, for the ones it names, then restart and is-active.
Restart(r) ==
    /\ Turn("restart", r)
    /\ IF Due(r) THEN StartNow(r) ELSE UNCHANGED <<service, image>>
    /\ enabled' = IF r \in request THEN enabled \union {r} ELSE enabled
    /\ Done(r, "finish")
    /\ UNCHANGED <<status, notes, trouble, files, loaded, given>>

\* The last commands only talk; then the EXIT handler runs with status 0.
Finish ==
    /\ phase = "finish"
    /\ Go("drop_backup")
    /\ UNCHANGED <<status, notes, trouble, files, systemd, given>>

-----------------------------------------------------------------------------
\* Errors (set -e, fail) and the first signal: the EXIT handler takes over

Abort ==
    /\ status' = "failed"
    /\ IF activated THEN Go("restore") ELSE Go("drop_backup")

\* A command failed without effect, or the script was told to stop before it.
CommandFails ==
    /\ phase \in Upgrading
    /\ Abort
    /\ UNCHANGED <<notes, trouble, files, systemd, given>>

\* A file is left half written.
SaveFails(a) ==
    /\ Turn("snapshot", a) \/ Turn("backup", a)
    /\ disk[a] # "none"
    /\ saved' = [saved EXCEPT ![a] = "partial"]
    /\ Abort
    /\ UNCHANGED <<notes, trouble, disk, staged, tmpDir, systemd, given>>

PutFails(a) ==
    /\ a \notin Binary
    /\ Turn("put", a)
    /\ disk' = [disk EXCEPT ![a] = "partial"]
    /\ Abort
    /\ UNCHANGED <<notes, trouble, saved, staged, tmpDir, systemd, given>>

\* It does not come up, or is down again when it is looked at; systemd tries a
\* process that failed again.
FailsToStart(r) ==
    \/ Falls(r, "down")
    \/ r \in Crashing /\ Falls(r, "pausing")

\* Or it is enabled, and the restart fails without effect.
RestartFails(r) ==
    /\ Turn("restart", r)
    /\ Due(r)
    /\ FailsToStart(r) \/ UNCHANGED <<service, image>>
    /\ enabled' = IF r \in request THEN enabled \union {r} ELSE enabled
    /\ Abort
    /\ UNCHANGED <<notes, trouble, files, loaded, given>>

-----------------------------------------------------------------------------
\* The EXIT handler, cleanup

AfterRestore == IF managed THEN "rollback_reload" ELSE "drop_backup"

\* Mutant: what was not there before is left behind.
MutantRetained(a) == IF a \in existed THEN saved[a] ELSE disk[a]

Retained(a) == IF a \in existed THEN saved[a] ELSE "none"

\* restore_binary moves the backup, restore_deployed_assets copies.
Restore(a) ==
    /\ Turn("restore", a)
    /\ disk' = [disk EXCEPT ![a] = Retained(a)]
    /\ saved' = IF a \in Binary THEN [saved EXCEPT ![a] = "none"] ELSE saved
    /\ Done(a, AfterRestore)
    /\ UNCHANGED <<status, notes, trouble, staged, tmpDir, systemd, given>>

\* mv or rm of a binary fails: it stays as it is, and its backup too.
RestoreBinaryFails(r) ==
    /\ r \in Binary
    /\ Turn("restore", r)
    /\ unrestored' = unrestored \union {r}
    /\ incomplete' = TRUE
    /\ Done(r, AfterRestore)
    /\ UNCHANGED <<status, notes, files, systemd, given>>

\* rm, or cp after it, fails.
RestoreAssetFails(a) ==
    /\ a \notin Binary
    /\ Turn("restore", a)
    /\ \E c \in {disk[a], "partial"} : disk' = [disk EXCEPT ![a] = c]
    /\ incomplete' = TRUE
    /\ Done(a, AfterRestore)
    /\ UNCHANGED <<status, notes, unrestored, saved, staged, tmpDir, systemd, given>>

RollbackReload ==
    /\ phase = "rollback_reload"
    /\ \/ Reloaded /\ UNCHANGED incomplete
       \/ incomplete' = TRUE /\ UNCHANGED loaded
    /\ Go("undo")
    /\ UNCHANGED <<status, notes, unrestored, files, service, image, enabled, given>>

\* Mutant: what had been enabled may go on running.
MutantStops(r) == r \notin wasEnabled /\ r \notin wasActive /\ service[r] = "up"

\* A service in its restart pause is not active, and is not stopped.
Stops(r) == r \notin wasActive /\ service[r] = "up"

\* stop what was not active, then enable or disable; each may fail, disable
\* for one where the unit has just been removed.
Undo(r) ==
    /\ Turn("undo", r)
    /\ \E stopped, set \in BOOLEAN :
         /\ ~stopped => Stops(r)
         /\ IF Stops(r) /\ stopped THEN Falls(r, "down") ELSE UNCHANGED <<service, image>>
         /\ enabled' = IF ~set THEN enabled
                       ELSE IF r \in wasEnabled THEN enabled \union {r} ELSE enabled \ {r}
         /\ incomplete' = (incomplete \/ ~stopped \/ ~set)
    /\ Done(r, "revive")
    /\ UNCHANGED <<status, notes, unrestored, files, loaded, given>>

CanStart(r) == disk[r] \in {"old", "new"} /\ loaded[r] \in {"old", "new"}

Revive(r) ==
    /\ Turn("revive", r)
    /\ IF r \in wasActive
       THEN CanStart(r) /\ StartNow(r) ELSE UNCHANGED <<service, image>>
    /\ Done(r, "drop_backup")
    /\ UNCHANGED <<status, notes, trouble, files, loaded, enabled, given>>

ReviveFails(r) ==
    /\ Turn("revive", r)
    /\ r \in wasActive
    /\ FailsToStart(r) \/ UNCHANGED <<service, image>>
    /\ incomplete' = TRUE
    /\ Done(r, "drop_backup")
    /\ UNCHANGED <<status, notes, unrestored, files, loaded, enabled, given>>

\* Mutant: the backups are removed whatever became of the rollback.
MutantDropBackup(r) ==
    /\ Turn("drop_backup", r)
    /\ saved' = [saved EXCEPT ![r] = "none"]
    /\ Done(r, "drop_staged")
    /\ UNCHANGED <<status, notes, trouble, disk, staged, tmpDir, systemd, given>>

DropBackup(r) ==
    /\ Turn("drop_backup", r)
    /\ saved' = IF r \in unrestored THEN saved ELSE [saved EXCEPT ![r] = "none"]
    /\ Done(r, "drop_staged")
    /\ UNCHANGED <<status, notes, trouble, disk, staged, tmpDir, systemd, given>>

DropStaged ==
    /\ phase = "drop_staged"
    /\ staged' = [r \in Binary |-> "none"]
    /\ Go("drop_tmp")
    /\ UNCHANGED <<status, notes, trouble, disk, saved, tmpDir, systemd, given>>

\* An incomplete rollback keeps TMP_DIR, and says so.
Exit ==
    /\ phase = "drop_tmp"
    /\ IF incomplete THEN UNCHANGED <<saved, tmpDir>>
       ELSE /\ tmpDir' = FALSE
            /\ saved' = [a \in Asset |-> IF a \in Binary THEN saved[a] ELSE "none"]
    /\ Go("ended")
    /\ UNCHANGED <<status, notes, trouble, disk, staged, systemd, given>>

\* SIGKILL anywhere; in cleanup, whose EXIT trap is gone while the traps for
\* HUP, INT and TERM still exit, any second signal.
Cut ==
    /\ phase # "ended"
    /\ Go("ended")
    /\ status' = IF phase \in Upgrading THEN "failed" ELSE status
    /\ UNCHANGED <<notes, trouble, files, systemd, given>>

-----------------------------------------------------------------------------
\* systemd (Restart=on-failure, RestartSec=1, and its limit of starts in a time)

Crash(r) ==
    /\ r \in Crashing
    /\ service[r] = "up"
    /\ Falls(r, "pausing")
    /\ UNCHANGED <<control, notes, trouble, files, loaded, enabled, given>>

Resume(r) ==
    /\ service[r] = "pausing"
    /\ CanStart(r)
    /\ StartNow(r)
    /\ UNCHANGED <<control, notes, trouble, files, loaded, enabled, given>>

GiveUp(r) ==
    /\ service[r] = "pausing"
    /\ Falls(r, "down")
    /\ UNCHANGED <<control, notes, trouble, files, loaded, enabled, given>>

-----------------------------------------------------------------------------

Upgrade ==
    \/ \E r \in Binary : Stage(r) \/ Query(r) \/ Backup(r) \/ Swap(r) \/ Restart(r)
    \/ \E a \in Asset : Snapshot(a) \/ Put(a)
    \/ Activate \/ Reload \/ Finish

Failure ==
    \/ CommandFails
    \/ \E a \in Asset : SaveFails(a) \/ PutFails(a)
    \/ \E r \in Binary : RestartFails(r)
    \/ Cut

Cleanup ==
    \/ \E a \in Asset : Restore(a) \/ RestoreAssetFails(a)
    \/ \E r \in Binary : RestoreBinaryFails(r) \/ Undo(r) \/ Revive(r) \/ ReviveFails(r)
                         \/ DropBackup(r)
    \/ RollbackReload \/ DropStaged \/ Exit

Systemd == \E r \in Binary : Crash(r) \/ Resume(r) \/ GiveUp(r)

Ended == phase = "ended" /\ UNCHANGED vars

Next == Upgrade \/ Failure \/ Cleanup \/ Systemd \/ Ended

Spec == Init /\ [][Next]_vars

-----------------------------------------------------------------------------
\* Properties

\* Every variable has its type; a phase has its own work left (the variables
\* of install.sh:455-465).
TypeOK ==
    /\ phase \in Upgrading \union Cleaning \union {"ended"}
    /\ todo \subseteq Work(phase) /\ (Work(phase) # {} => todo # {})
    /\ status \in {"ok", "failed"}
    /\ activated \in BOOLEAN
    /\ existed \subseteq Asset /\ wasActive \subseteq Binary /\ wasEnabled \subseteq Binary
    /\ unrestored \subseteq Binary /\ incomplete \in BOOLEAN
    /\ disk \in [Asset -> Content]
    /\ saved \in [Asset -> Content]
    /\ staged \in [Binary -> Content]
    /\ tmpDir \in BOOLEAN
    /\ service \in [Binary -> {"up", "down", "pausing"}]
    /\ image \in [Binary -> Content \X Content]
    /\ loaded \in [Binary -> Content]
    /\ enabled \subseteq Binary
    /\ \E p \in Previous : before = [a \in Asset |-> IF a \in p THEN "old" ELSE "none"]
    /\ former \in [up : SUBSET Binary, enabled : SUBSET Binary]
    /\ managed \in BOOLEAN
    /\ request \in Request

\* The upgrade is done: only what is no longer needed is left to remove.
Committed == status = "ok" /\ phase \notin Upgrading

\* At every instant until the upgrade is done, whatever has failed and even if
\* the installer is killed, every file that was installed can still be found,
\* in its place or where the installer saved it.
NothingLost ==
    ~Committed => \A a \in Asset :
        before[a] = "old" => "old" \in {disk[a], saved[a]}

\* The installer ended on its own terms and reported no incomplete rollback.
Clean == phase = "ended" /\ ~tmpDir

\* What an installation that went through was asked to enable and start.
Wanted == IF status = "ok" THEN request ELSE {}

\* Where the installer has ended cleanly the services are enabled that were, and
\* those it was asked for; of the ones whose process does not fail, the same are
\* up: after a rollback those that had been active, and a newly started one is
\* stopped (README.md:104).  No service runs, or will when its restart pause is
\* over, anything but what is installed, but for an active one that
\* --enable-service does not name.
ServicesMatch ==
    Clean /\ managed =>
        /\ enabled = former.enabled \union Wanted
        /\ \A r \in Binary :
             /\ r \notin Crashing => (service[r] = "up" <=> r \in former.up \union Wanted)
             /\ service[r] # "down" => loaded[r] = disk[UnitOf[r]] /\ disk[r] # "partial"
             /\ service[r] = "up" /\ (Wanted = {} \/ r \in Wanted)
                  => image[r] = <<disk[r], loaded[r]>>

Deployed ==
    IF disk = before THEN "old"
    ELSE IF \A a \in Asset : disk[a] = "new" THEN "new" ELSE "mixed"

Verdict ==
    IF Committed THEN "installed"
    ELSE IF phase # "ended" THEN IF status = "ok" THEN "trying" ELSE "undoing"
    ELSE IF tmpDir THEN "unfinished" ELSE "restored"

Kept == \A a \in Asset : before[a] = "old" => "old" \in {disk[a], saved[a]}

Atomic == INSTANCE AtomicInstall WITH deployed <- Deployed, kept <- Kept, verdict <- Verdict

\* The transaction implements the atomic installation: it ends with everything
\* new, with everything as before, or with a rollback it calls incomplete.
ImplementsAtomic == Atomic!Spec
=============================================================================

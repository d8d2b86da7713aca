--------------------------- MODULE ManagementUpdate ---------------------------
(***************************************************************************)
(* The management update of internal/managementupdate: the four management *)
(* services are stopped, their datasets snapshotted, the candidate release *)
(* started on the same data, and the update committed or rolled back.      *)
(* management.json, the Compose file, the startup gate, Docker's           *)
(* containers and the pool survive a power loss; the activation directory  *)
(* and the runtime mask of the core-stack unit, under /run, do not.        *)
(*                                                                         *)
(* Every writer of the journal holds one file lock (update.Acquire), so    *)
(* there is at most one procedure under way: pc is its next command.  A    *)
(* journal write that fails is not modelled, and a whole host update, the  *)
(* subject of HostUpgrade, is one step here (HostUpdate).                  *)
(***************************************************************************)
EXTENDS Naturals, FiniteSets

CONSTANTS Ops,          \* operation ids
          Releases,     \* management releases
          Installed,    \* the release the appliance was installed with
          Datasets,     \* datasets under floatlab/system/management
          None,
          MaxCrashes,   \* bound on power losses and hostd deaths
          MaxFaults,    \* bound on commands that fail and containers that exit
          MaxActions    \* bound on rollback and cleanup requests

ASSUME ManagementAssumption == /\ Installed \in Releases
                               /\ None \notin Ops \cup Releases
                               /\ Datasets # {}
                               /\ {MaxCrashes, MaxFaults, MaxActions} \subseteq Nat

VARIABLES
  journal,  \* management.json
  history,  \* management-history/<op>.json
  compose,  \* docker-compose.yml: release, and whether it says restart: "no"
  cont,     \* the containers: release, running, restart policy "no"
  data,     \* the release that last wrote each dataset
  mounted,  \* is the dataset mounted?
  snap,     \* the rollback snapshot of each operation, and what it holds
  newer,    \* has a host update left a newer snapshot of the datasets?
  tags,     \* releases with a floatlab-rollback image tag
  sandbox,  \* operations that own preflight clones
  gate,     \* updates/management-blocked
  run,      \* /run: activation/blocked, and the mask of the core-stack unit
  pc,       \* next command of the lock holder, "free" when there is none
  caller,   \* what the lock holder runs: see Callers
  due,      \* is hostd's Recover of this hostd start still due?
  unit,     \* floatlab-core-stack.service: "reconcile", "launch" or "done"
  crashes, faults, actions

disk == <<journal, history, compose, data, snap, newer, tags, sandbox, gate>>
env  == <<due, unit, crashes, faults, actions>>
vars == <<disk, cont, mounted, run, pc, caller, env>>

Callers == {"execute", "rollback", "cleanup", "hostd", "unit"}
Phases  == {"idle", "prepare", "preflight", "fencing", "snapshot", "installing", "checking",
            "authorizing", "committed", "restoring", "verifying_previous",
            "authorizing_previous", "rolled_back", "cleaning", "cleaned"}
States  == {"idle", "running", "recovering", "recovery_failed", "succeeded", "failed",
            "rolled_back"}
terminal(state) == state \in {"idle", "succeeded", "failed", "rolled_back"}

----------------------------------------------------------------------------
(* The procedures, as the order of their commands.  suppressAndStop and    *)
(* Authorize are shared: the journal says who called them.                 *)

After ==
  [preflight |-> "sandbox", sandbox |-> "tidy", tidy |-> "fencing",
   fencing |-> "fence", fence |-> "gate",
   restoring |-> "gate",
   gate |-> "mask", mask |-> "composeNo", composeNo |-> "policyNo", policyNo |-> "stop",
   snapshot |-> "zfsSnapshot", zfsSnapshot |-> "hold", hold |-> "installing",
   installing |-> "writeCandidate", writeCandidate |-> "upCandidate",
   upCandidate |-> "checking", checking |-> "healthy", healthy |-> "authorizing",
   remove |-> "unmount", unmount |-> "rollbackData", rollbackData |-> "mount",
   mount |-> "writePrevious", writePrevious |-> "upPrevious",
   upPrevious |-> "verifying", verifying |-> "healthyPrevious",
   healthyPrevious |-> "authorizingPrevious",
   authorizing |-> "policyFile", authorizingPrevious |-> "policyFile",
   policyFile |-> "policies", policies |-> "unblock", unblock |-> "ungate",
   ungate |-> "unmask",
   clean |-> "cleaned", abandonClean |-> "failed",
   pruneRelease |-> "pruneDestroy", pruneDestroy |-> "pruneImages",
   pruneImages |-> "pruneSave", pruneSave |-> "prune"]

Steps == DOMAIN After \cup
         {"free", "prepare", "stop", "unmask", "committed", "rolledBack", "prune",
          "failed", "recoveryFailed", "cleaned", "cleanFailed"}

Go(step) == /\ pc = step
            /\ pc' = After[step]
            /\ UNCHANGED caller

Jump(from, to) == /\ pc = from
                  /\ pc' = to
                  /\ UNCHANGED caller

\* The procedure returns.  hostd runs Recover once per start, whatever the
\* outcome; the core-stack unit runs it until it succeeds, then starts the stack.
Leave(ok) ==
  /\ pc' = "free"
  /\ caller' = None
  /\ due' = (due /\ caller # "hostd")
  /\ unit' = IF caller = "unit" /\ ok THEN "launch" ELSE unit
  /\ UNCHANGED <<crashes, actions>>

Return(ok) == Leave(ok) /\ UNCHANGED faults

Save(state, phase) == [journal EXCEPT !.state = state, !.phase = phase]

\* A journal write between two commands, and nothing else.
Saves(j) == /\ journal' = j
            /\ UNCHANGED <<history, compose, data, snap, newer, tags, sandbox, gate>>
            /\ UNCHANGED <<cont, mounted, run>>

exceptJournal == <<history, compose, data, snap, newer, tags, sandbox, gate>>
exceptGates   == <<journal, history, compose, data, snap, newer, tags, sandbox>>
exceptCompose == <<journal, history, data, snap, newer, tags, sandbox, gate>>
exceptData    == <<journal, history, compose, snap, newer, tags, sandbox, gate>>
exceptSnap    == <<journal, history, compose, data, newer, tags, sandbox, gate>>
exceptSandbox == <<journal, history, compose, data, snap, newer, tags, gate>>

AllMounted == \A d \in Datasets : mounted[d]

NoSnapshot == [made |-> "none", data |-> [d \in Datasets |-> None]]
NoHistory  == [made |-> FALSE, snap |-> FALSE, src |-> None]

----------------------------------------------------------------------------
Init ==
  /\ journal = [op |-> None, state |-> "idle", phase |-> "idle", src |-> None, tgt |-> None,
                snap |-> FALSE, prod |-> FALSE, auth |-> FALSE, cleanup |-> None]
  /\ history = [o \in Ops |-> NoHistory]
  /\ compose = [rel |-> Installed, norestart |-> FALSE]
  /\ cont = [rel |-> Installed, up |-> TRUE, norestart |-> FALSE]
  /\ data = [d \in Datasets |-> Installed]
  /\ mounted = [d \in Datasets |-> TRUE]
  /\ snap = [o \in Ops |-> NoSnapshot]
  /\ newer = FALSE /\ tags = {} /\ sandbox = {}
  /\ gate = FALSE /\ run = [blocked |-> FALSE, masked |-> FALSE]
  /\ pc = "free" /\ caller = None
  /\ due = FALSE /\ unit = "done"
  /\ crashes = 0 /\ faults = 0 /\ actions = 0

(* Requests. *)

\* Start with an id that is in use returns what is recorded of it.
Start(op, rel) ==
  /\ pc = "free" /\ terminal(journal.state)
  /\ op # journal.op /\ ~history[op].made
  /\ history' = IF journal.op = None THEN history
                ELSE [history EXCEPT ![journal.op] =
                        [made |-> TRUE, snap |-> journal.snap, src |-> journal.src]]
  /\ journal' = [op |-> op, state |-> "running", phase |-> "prepare", src |-> None,
                 tgt |-> rel, snap |-> FALSE, prod |-> FALSE, auth |-> FALSE,
                 cleanup |-> None]
  /\ pc' = "prepare" /\ caller' = "execute"
  /\ UNCHANGED <<compose, data, snap, newer, tags, sandbox, gate, cont, mounted, run, env>>

Requested == /\ pc = "free" /\ terminal(journal.state)
             /\ journal.op # None
             /\ actions < MaxActions
             /\ actions' = actions + 1

\* A repeat of the last idempotency key returns the journal; any other key is new.
RequestRollback ==
  /\ Requested
  /\ journal.snap
  /\ journal' = [Save("running", "restoring") EXCEPT !.auth = FALSE]
  /\ pc' = "restoring" /\ caller' = "rollback"
  /\ UNCHANGED <<exceptJournal, cont, mounted, run, due, unit, crashes, faults>>

RequestCleanup ==
  /\ Requested
  /\ journal' = [Save("running", "cleaning") EXCEPT !.cleanup = journal.state]
  /\ pc' = "clean" /\ caller' = "cleanup"
  /\ UNCHANGED <<exceptJournal, cont, mounted, run, due, unit, crashes, faults>>

----------------------------------------------------------------------------
(* execute: preparation and preflight leave production alone. *)

\* capture asks the running control container, and tags the installed images.
\* SkipDryRun, an option of the request, leaves the preflight out.
Prepare ==
  /\ \E skipDryRun \in BOOLEAN :
       Jump("prepare", IF skipDryRun THEN "fencing" ELSE "preflight")
  /\ cont.up /\ AllMounted
  /\ journal' = [journal EXCEPT !.src = cont.rel]
  /\ tags' = tags \cup {cont.rel}
  /\ UNCHANGED <<history, compose, data, snap, newer, sandbox, gate, cont, mounted, run, env>>

SavePreflight ==
  /\ Go("preflight")
  /\ Saves(Save("running", "preflight"))
  /\ UNCHANGED env

\* The candidate runs on clones of the datasets, never on the datasets.
Preflight ==
  /\ Go("sandbox")
  /\ sandbox' = sandbox \cup {journal.op}
  /\ UNCHANGED <<exceptSandbox, cont, mounted, run, env>>

TidyPreflight ==
  /\ Go("tidy")
  /\ sandbox' = sandbox \ {journal.op}
  /\ UNCHANGED <<exceptSandbox, cont, mounted, run, env>>

----------------------------------------------------------------------------
(* Fence and suppressAndStop. *)

SaveFencing ==
  /\ Go("fencing")
  /\ Saves(Save("running", "fencing"))
  /\ UNCHANGED env

\* Fence: block mutations and wait for the drain (module UpdateFence).
Fence ==
  /\ Go("fence")
  /\ run' = [run EXCEPT !.blocked = TRUE]
  /\ UNCHANGED <<disk, cont, mounted, env>>

CloseGate ==
  /\ Go("gate")
  /\ gate' = TRUE
  /\ run' = [run EXCEPT !.blocked = TRUE]
  /\ UNCHANGED <<exceptGates, cont, mounted, env>>

Mask ==
  /\ Go("mask")
  /\ run' = [run EXCEPT !.masked = TRUE]
  /\ UNCHANGED <<disk, cont, mounted, env>>

SuppressCompose ==
  /\ Go("composeNo")
  /\ compose' = [rel |-> journal.src, norestart |-> TRUE]
  /\ UNCHANGED <<exceptCompose, cont, mounted, run, env>>

SuppressPolicies ==
  /\ Go("policyNo")
  /\ cont' = [cont EXCEPT !.norestart = TRUE]
  /\ UNCHANGED <<disk, mounted, run, env>>

\* What follows suppressAndStop: the snapshot of an update, the data of a rollback.
Stopped == IF journal.phase = "fencing" THEN "snapshot"
           ELSE IF journal.prod THEN "remove" ELSE "writePrevious"

Stop ==
  /\ Jump("stop", Stopped)
  /\ cont' = [cont EXCEPT !.up = FALSE]
  /\ UNCHANGED <<disk, mounted, run, env>>

----------------------------------------------------------------------------
(* The rollback point and the candidate. *)

SaveSnapshot ==
  /\ Go("snapshot")
  /\ Saves([Save("running", "snapshot") EXCEPT !.snap = TRUE])
  /\ UNCHANGED env

\* zfs snapshot -r is atomic; it is now the newest snapshot of every dataset.
Snapshot ==
  /\ Go("zfsSnapshot")
  /\ ~cont.up
  /\ snap' = [snap EXCEPT ![journal.op] = [made |-> "taken", data |-> data]]
  /\ newer' = FALSE
  /\ UNCHANGED <<journal, history, compose, data, tags, sandbox, gate, cont, mounted, run, env>>

Hold ==
  /\ Go("hold")
  /\ snap' = [snap EXCEPT ![journal.op].made = "held"]
  /\ UNCHANGED <<exceptSnap, cont, mounted, run, env>>

\* Mutant: the journal does not record that production is about to change.
InstallUnrecorded ==
  /\ Go("installing")
  /\ Saves(Save("running", "installing"))
  /\ UNCHANGED env

SaveInstalling ==
  /\ Go("installing")
  /\ Saves([Save("running", "installing") EXCEPT !.prod = TRUE])
  /\ UNCHANGED env

\* Mutant: the candidate's Compose file keeps the normal restart policies.
CandidateRestarts ==
  /\ Go("writeCandidate")
  /\ AllMounted
  /\ compose' = [rel |-> journal.tgt, norestart |-> FALSE]
  /\ UNCHANGED <<exceptCompose, cont, mounted, run, env>>

WriteCandidate ==
  /\ Go("writeCandidate")
  /\ AllMounted
  /\ compose' = [rel |-> journal.tgt, norestart |-> TRUE]
  /\ UNCHANGED <<exceptCompose, cont, mounted, run, env>>

\* compose up: services start one after the other, and may have written any
\* of the datasets when the command returns or is interrupted.
Up == /\ cont' = [rel |-> compose.rel, up |-> TRUE, norestart |-> compose.norestart]
      /\ \E W \in SUBSET Datasets :
           data' = [d \in Datasets |-> IF d \in W THEN compose.rel ELSE data[d]]

UpCandidate ==
  /\ Go("upCandidate")
  /\ Up
  /\ UNCHANGED <<exceptData, mounted, run, env>>

SaveChecking ==
  /\ Go("checking")
  /\ Saves(Save("running", "checking"))
  /\ UNCHANGED env

\* Healthy: the expected release passes its self-test, every service writes.
Healthy ==
  /\ \/ Go("healthy") /\ cont.rel = journal.tgt
     \/ Go("healthyPrevious") /\ cont.rel = journal.src
  /\ cont.up
  /\ data' = [d \in Datasets |-> cont.rel]
  /\ UNCHANGED <<exceptData, cont, mounted, run, env>>

----------------------------------------------------------------------------
(* rollback: stop every writer, roll the data back offline, start the source. *)

SaveRecovering ==
  /\ Go("restoring")
  /\ Saves([Save("recovering", "restoring") EXCEPT !.auth = FALSE])
  /\ UNCHANGED env

\* The containers go first: they hold the bind mounts.
Remove ==
  /\ Go("remove")
  /\ snap[journal.op].made # "none"
  /\ cont' = [rel |-> None, up |-> FALSE, norestart |-> TRUE]
  /\ UNCHANGED <<disk, mounted, run, env>>

\* The loops of restoreDatasets, one dataset at a time, in any order.
Unmount ==
  /\ IF \A d \in Datasets : ~mounted[d]
     THEN Go("unmount") /\ UNCHANGED mounted
     ELSE /\ pc = "unmount" /\ UNCHANGED <<pc, caller>>
          /\ \E d \in Datasets : mounted[d] /\ mounted' = [mounted EXCEPT ![d] = FALSE]
  /\ UNCHANGED <<disk, cont, run, env>>

\* Plain zfs rollback refuses when a newer snapshot exists.
RollbackData ==
  /\ pc = "rollbackData" /\ ~newer
  /\ IF data = snap[journal.op].data
     THEN Go("rollbackData") /\ UNCHANGED data
     ELSE /\ UNCHANGED <<pc, caller>>
          /\ \E d \in Datasets : /\ data[d] # snap[journal.op].data[d]
                                 /\ data' = [data EXCEPT ![d] = snap[journal.op].data[d]]
  /\ UNCHANGED <<exceptData, cont, mounted, run, env>>

\* Mutant: one dataset is mounted again.
MountOne ==
  /\ Go("mount")
  /\ \E d \in Datasets : mounted' = [mounted EXCEPT ![d] = TRUE]
  /\ UNCHANGED <<disk, cont, run, env>>

Mount ==
  /\ IF AllMounted
     THEN Go("mount") /\ UNCHANGED mounted
     ELSE /\ pc = "mount" /\ UNCHANGED <<pc, caller>>
          /\ \E d \in Datasets : ~mounted[d] /\ mounted' = [mounted EXCEPT ![d] = TRUE]
  /\ UNCHANGED <<disk, cont, run, env>>

WritePrevious ==
  /\ Go("writePrevious")
  /\ compose' = [rel |-> journal.src, norestart |-> TRUE]
  /\ UNCHANGED <<exceptCompose, cont, mounted, run, env>>

\* --pull never: the retained image has to be there.
UpPrevious ==
  /\ Go("upPrevious")
  /\ AllMounted /\ compose.rel \in tags
  /\ Up
  /\ UNCHANGED <<exceptData, mounted, run, env>>

SaveVerifying ==
  /\ Go("verifying")
  /\ Saves(Save("recovering", "verifying_previous"))
  /\ UNCHANGED env

----------------------------------------------------------------------------
(* Authorize, and the ends of execute, rollback and Recover. *)

\* The authorization is durable before any policy is restored.
SaveAuthorized ==
  /\ \/ Go("authorizing") /\ Saves([Save("running", "authorizing") EXCEPT !.auth = TRUE])
     \/ /\ Go("authorizingPrevious")
        /\ Saves([Save("recovering", "authorizing_previous") EXCEPT !.auth = TRUE])
  /\ UNCHANGED env

RestoreCompose ==
  /\ Go("policyFile")
  /\ compose' = [compose EXCEPT !.norestart = FALSE]
  /\ UNCHANGED <<exceptCompose, cont, mounted, run, env>>

RestorePolicies ==
  /\ Go("policies")
  /\ cont' = [cont EXCEPT !.norestart = FALSE]
  /\ UNCHANGED <<disk, mounted, run, env>>

Unblock ==
  /\ Go("unblock")
  /\ run' = [run EXCEPT !.blocked = FALSE]
  /\ UNCHANGED <<disk, cont, mounted, env>>

OpenGate ==
  /\ Go("ungate")
  /\ gate' = FALSE
  /\ UNCHANGED <<exceptGates, cont, mounted, run, env>>

Authorized == IF journal.state = "recovering" THEN "rolledBack" ELSE "committed"

Unmask ==
  /\ Jump("unmask", Authorized)
  /\ run' = [run EXCEPT !.masked = FALSE]
  /\ UNCHANGED <<disk, cont, mounted, env>>

\* Only execute goes on to prune the history.
SaveCommitted ==
  /\ pc = "committed"
  /\ Saves(Save("succeeded", "committed"))
  /\ IF caller = "execute"
     THEN pc' = "prune" /\ UNCHANGED <<caller, env>>
     ELSE Return(TRUE)

SaveRolledBack ==
  /\ pc = "rolledBack"
  /\ Saves(Save("rolled_back", "rolled_back"))
  /\ Return(TRUE)

----------------------------------------------------------------------------
(* Cleanup of the preflight, and of older rollback points. *)

Clean ==
  /\ Go("clean")
  /\ sandbox' = sandbox \ {journal.op}
  /\ UNCHANGED <<exceptSandbox, cont, mounted, run, env>>

SaveCleaned ==
  /\ pc = "cleaned"
  /\ Saves(Save(journal.cleanup, "cleaned"))
  /\ IF caller = "cleanup" /\ journal.cleanup = "succeeded"
     THEN pc' = "prune" /\ UNCHANGED <<caller, env>>
     ELSE Return(TRUE)

\* Entries that were pruned before have nothing left to release.
Prunable == journal.state = "succeeded" /\ journal.snap

Unpruned == {o \in Ops : history[o].made /\ (history[o].snap \/ history[o].src # None)}

\* The entry under way is the first of the directory.
Entry == CHOOSE o \in Unpruned : TRUE

Prune ==
  /\ pc = "prune"
  /\ IF Prunable /\ Unpruned # {}
     THEN /\ pc' = IF history[Entry].snap THEN "pruneRelease" ELSE "pruneImages"
          /\ UNCHANGED <<caller, env>>
     ELSE Return(TRUE)
  /\ UNCHANGED <<disk, cont, mounted, run>>

\* zfs release fails on a snapshot that is not held.
PruneRelease ==
  /\ Go("pruneRelease")
  /\ snap[Entry].made = "held"
  /\ snap' = [snap EXCEPT ![Entry].made = "taken"]
  /\ UNCHANGED <<exceptSnap, cont, mounted, run, env>>

PruneDestroy ==
  /\ Go("pruneDestroy")
  /\ snap' = [snap EXCEPT ![Entry] = NoSnapshot]
  /\ UNCHANGED <<exceptSnap, cont, mounted, run, env>>

\* Mutant: the images of the retained rollback point are not protected.
ProtectedInstalled == {compose.rel, cont.rel}

\* Images that the Compose file, the journal or a container refers to.
Protected == {compose.rel, cont.rel, journal.src, journal.tgt}

ReleaseImages ==
  /\ Go("pruneImages")
  /\ tags' = IF history[Entry].src \in Protected THEN tags ELSE tags \ {history[Entry].src}
  /\ UNCHANGED <<journal, history, compose, data, snap, newer, sandbox, gate>>
  /\ UNCHANGED <<cont, mounted, run, env>>

SavePruned ==
  /\ Go("pruneSave")
  /\ history' = [history EXCEPT ![Entry] = [made |-> TRUE, snap |-> FALSE, src |-> None]]
  /\ UNCHANGED <<journal, compose, data, snap, newer, tags, sandbox, gate>>
  /\ UNCHANGED <<cont, mounted, run, env>>

----------------------------------------------------------------------------
(* Commands that fail. *)

AbandonPreflight ==
  /\ Go("abandonClean")
  /\ sandbox' = sandbox \ {journal.op}
  /\ UNCHANGED <<exceptSandbox, cont, mounted, run, env>>

SaveFailed ==
  /\ \/ pc = "failed" /\ Saves(Save("failed", journal.phase))
     \/ pc = "recoveryFailed" /\ Saves(Save("recovery_failed", journal.phase))
     \/ pc = "cleanFailed" /\ Saves(Save("failed", journal.phase))
  /\ Return(pc = "failed")

Journals == {"preflight", "fencing", "snapshot", "installing", "checking", "authorizing",
             "restoring", "verifying", "authorizingPrevious", "committed", "rolledBack",
             "cleaned", "failed", "recoveryFailed", "cleanFailed"}
Commands == Steps \ (Journals \cup {"free", "prune"})

\* The command under way cannot succeed in the present state.
Refused ==
  \/ pc = "prepare" /\ ~(cont.up /\ AllMounted)
  \/ pc = "zfsSnapshot" /\ cont.up
  \/ pc = "writeCandidate" /\ ~AllMounted
  \/ pc = "healthy" /\ ~(cont.up /\ cont.rel = journal.tgt)
  \/ pc = "remove" /\ snap[journal.op].made = "none"
  \/ pc = "rollbackData" /\ newer
  \/ pc = "upPrevious" /\ ~(AllMounted /\ compose.rel \in tags)
  \/ pc = "healthyPrevious" /\ ~(cont.up /\ cont.rel = journal.src)
  \/ pc = "pruneRelease" /\ snap[Entry].made # "held"

\* What the procedure does about a failed command; "free" means it returns.
Instead ==
  CASE pc \in {"prepare", "sandbox"} -> "abandonClean"
    [] pc = "tidy"                   -> "failed"
    [] pc = "abandonClean"           -> IF caller = "execute" THEN "failed" ELSE "free"
    [] pc = "clean"                  -> IF caller = "cleanup" THEN "cleanFailed" ELSE "free"
    [] pc \in {"pruneRelease", "pruneDestroy", "pruneImages", "pruneSave"} -> "free"
    [] OTHER -> IF journal.auth /\ (caller # "execute" \/ journal.state = "recovering")
                THEN "free"
                ELSE IF journal.state = "running" THEN "restoring" ELSE "recoveryFailed"

\* A failed preflight leaves clones; a failed start of the previous services
\* stops them again; a failed start of the candidate is one that Healthy rejects.
Fails ==
  /\ pc \in Commands
  /\ IF Instead = "free" THEN Leave(FALSE)
                         ELSE pc' = Instead /\ UNCHANGED <<caller, due, unit, crashes, actions>>
  /\ sandbox' = IF pc = "sandbox" THEN sandbox \cup {journal.op} ELSE sandbox
  /\ cont' = IF pc = "upPrevious" /\ ~Refused
             THEN [rel |-> compose.rel, up |-> FALSE, norestart |-> compose.norestart] ELSE cont
  /\ UNCHANGED <<exceptSandbox, mounted, run>>

Refuse == Refused /\ Fails /\ UNCHANGED faults

Fault == /\ ~Refused /\ faults < MaxFaults /\ faults' = faults + 1
         /\ Fails

----------------------------------------------------------------------------
(* Recover, the core-stack unit, and what may happen to the appliance. *)

\* Mutant: an interrupted authorization is rolled back.
ResumeUndoing == IF journal.phase = "cleaning" THEN "clean"
                 ELSE IF journal.phase \in {"prepare", "preflight"} THEN "abandonClean"
                 ELSE "restoring"

Resume == IF journal.phase = "cleaning" THEN "clean"
          ELSE IF journal.auth THEN "policyFile"
          ELSE IF journal.phase \in {"prepare", "preflight"} THEN "abandonClean"
          ELSE "restoring"

Recover(who) ==
  /\ pc = "free"
  /\ \/ who = "hostd" /\ due
     \/ who = "unit" /\ unit = "reconcile" /\ ~run.masked
  /\ IF terminal(journal.state)
     THEN /\ due' = (due /\ who # "hostd")
          /\ unit' = IF who = "unit" THEN "launch" ELSE unit
          /\ UNCHANGED <<pc, caller>>
     ELSE /\ pc' = Resume /\ caller' = who
          /\ UNCHANGED <<due, unit>>
  /\ UNCHANGED <<disk, cont, mounted, run, crashes, faults, actions>>

\* The launcher takes the lock again after its reconciliation; when it cannot,
\* or when the gate is closed, the unit fails and is restarted later.
Launch ==
  /\ unit = "launch"
  /\ IF pc # "free" \/ gate
     THEN unit' = "reconcile" /\ UNCHANGED <<cont, data>>
     ELSE /\ unit' = "done"
          /\ IF cont.up THEN UNCHANGED <<cont, data>> ELSE Up
  /\ UNCHANGED <<exceptData, mounted, run, pc, caller, due, crashes, faults, actions>>

\* A committed host update leaves its checkpoint, a later one removes it.
HostUpdate ==
  /\ pc = "free" /\ terminal(journal.state) /\ cont.up
  /\ newer' = ~newer
  /\ UNCHANGED <<journal, history, compose, data, snap, tags, sandbox, gate>>
  /\ UNCHANGED <<cont, mounted, run, pc, caller, env>>

ContainersExit ==
  /\ cont.up /\ cont.norestart
  /\ faults < MaxFaults /\ faults' = faults + 1
  /\ cont' = [cont EXCEPT !.up = FALSE]
  /\ UNCHANGED <<disk, mounted, run, pc, caller, due, unit, crashes, actions>>

HostdDies ==
  /\ crashes < MaxCrashes /\ crashes' = crashes + 1
  /\ IF caller = "unit" THEN UNCHANGED <<pc, caller>> ELSE pc' = "free" /\ caller' = None
  /\ due' = TRUE
  /\ UNCHANGED <<disk, cont, mounted, run, unit, faults, actions>>

\* systemd ends a start of the unit that takes more than ten minutes.
UnitTimesOut ==
  /\ caller = "unit"
  /\ crashes < MaxCrashes /\ crashes' = crashes + 1
  /\ pc' = "free" /\ caller' = None
  /\ UNCHANGED <<disk, cont, mounted, run, due, unit, faults, actions>>

\* At boot the pool mounts its datasets and Docker restarts the containers
\* that were running, unless their policy is "no".
PowerLoss ==
  /\ crashes < MaxCrashes /\ crashes' = crashes + 1
  /\ cont' = [cont EXCEPT !.up = cont.up /\ ~cont.norestart]
  /\ mounted' = [d \in Datasets |-> TRUE]
  /\ run' = [blocked |-> FALSE, masked |-> FALSE]
  /\ pc' = "free" /\ caller' = None
  /\ due' = TRUE /\ unit' = "reconcile"
  /\ UNCHANGED <<disk, faults, actions>>

----------------------------------------------------------------------------
Execute == \/ Prepare \/ SavePreflight \/ Preflight \/ TidyPreflight
           \/ SaveFencing \/ Fence \/ SaveSnapshot \/ Snapshot \/ Hold
           \/ SaveInstalling \/ WriteCandidate \/ UpCandidate \/ SaveChecking

Suppress == CloseGate \/ Mask \/ SuppressCompose \/ SuppressPolicies \/ Stop

Rollback == \/ SaveRecovering \/ Remove \/ Unmount \/ RollbackData \/ Mount
            \/ WritePrevious \/ UpPrevious \/ SaveVerifying

Authorize == \/ SaveAuthorized \/ RestoreCompose \/ RestorePolicies \/ Unblock
             \/ OpenGate \/ Unmask \/ SaveCommitted \/ SaveRolledBack

Cleanup == \/ Clean \/ SaveCleaned \/ Prune \/ PruneRelease \/ PruneDestroy
           \/ ReleaseImages \/ SavePruned \/ AbandonPreflight \/ SaveFailed

Progress == Execute \/ Suppress \/ Healthy \/ Rollback \/ Authorize \/ Cleanup \/ Refuse

\* An update to the release that runs already changes nothing told apart here.
Request == \/ \E op \in Ops, rel \in Releases \ {cont.rel} : Start(op, rel)
           \/ RequestRollback \/ RequestCleanup

Next == \/ Request \/ Progress \/ Fault
        \/ \E who \in {"hostd", "unit"} : Recover(who)
        \/ Launch \/ HostUpdate \/ ContainersExit
        \/ HostdDies \/ UnitTimesOut \/ PowerLoss

\* systemd restarts hostd and the unit; a procedure under way goes on.
Fairness == /\ WF_vars(Progress)
            /\ WF_vars(Recover("hostd")) /\ WF_vars(Recover("unit"))
            /\ WF_vars(Launch)

Spec == Init /\ [][Next]_vars /\ Fairness

----------------------------------------------------------------------------
(* Properties. *)

JournalRecords == [op : Ops \cup {None}, state : States, phase : Phases,
                   src : Releases \cup {None}, tgt : Releases \cup {None},
                   snap : BOOLEAN, prod : BOOLEAN, auth : BOOLEAN, cleanup : States \cup {None}]
HistoryRecords == [made : BOOLEAN, snap : BOOLEAN, src : Releases \cup {None}]
ComposeFiles == [rel : Releases, norestart : BOOLEAN]
Containers == [rel : Releases \cup {None}, up : BOOLEAN, norestart : BOOLEAN]
Snapshots == [made : {"none", "taken", "held"}, data : [Datasets -> Releases \cup {None}]]
Flags == [blocked : BOOLEAN, masked : BOOLEAN]

\* Every variable has its type.
TypeOK ==
  /\ journal \in JournalRecords
  /\ history \in [Ops -> HistoryRecords]
  /\ compose \in ComposeFiles
  /\ cont \in Containers
  /\ data \in [Datasets -> Releases]
  /\ mounted \in [Datasets -> BOOLEAN]
  /\ snap \in [Ops -> Snapshots]
  /\ newer \in BOOLEAN /\ tags \subseteq Releases /\ sandbox \subseteq Ops
  /\ gate \in BOOLEAN /\ run \in Flags
  /\ pc \in Steps /\ caller \in Callers \cup {None}
  /\ due \in BOOLEAN /\ unit \in {"reconcile", "launch", "done"}
  /\ crashes \in 0..MaxCrashes /\ faults \in 0..MaxFaults /\ actions \in 0..MaxActions

\* Releases whose data the running release may open: its own, and, for the
\* candidate of an update, those of the release it replaces.
Opens == {cont.rel} \cup (IF journal.prod /\ cont.rel = journal.tgt THEN {journal.src} ELSE {})

\* "Rollback never starts an old rqlite image against a data directory modified
\* by a newer release": services run only on mounted datasets, and only on data
\* that their release wrote or, for a candidate, was meant to upgrade.
OldNeverReadsNew == cont.up => AllMounted /\ \A d \in Datasets : data[d] \in Opens

\* Docker (a policy other than "no") and the launcher (no gate) can start
\* services by themselves only when every dataset is that release's own.
StartupGated ==
  /\ ~cont.norestart => \A d \in Datasets : data[d] = cont.rel
  /\ ~gate => \A d \in Datasets : data[d] = compose.rel

\* While production is changed and can be changed back, the way back exists: a
\* held snapshot that holds only the source release's data, and its images.
RollbackPointKept ==
  journal.prod => /\ snap[journal.op].made = "held"
                  /\ \A d \in Datasets : snap[journal.op].data[d] = journal.src
                  /\ journal.src \in tags

\* The recorded outcome is what the appliance runs, with nothing left blocked.
OutcomeReal ==
  /\ journal.state = "succeeded" => compose.rel = journal.tgt
  /\ journal.state = "rolled_back" => compose.rel = journal.src
  /\ terminal(journal.state) => /\ ~gate /\ ~run.blocked /\ ~run.masked
                                /\ ~compose.norestart /\ ~cont.norestart

\* An update whose authorization was saved is not undone unless a rollback is
\* requested or one of its commands fails.
CommittedStays ==
  [][journal.auth /\ ~journal'.auth /\ journal'.op = journal.op
       => \/ pc = "free" /\ actions' # actions
          \/ pc = "restoring" /\ caller = "execute"]_vars

\* hostd's Recover, after a death of hostd or a boot, settles the transaction
\* and, after a boot, the launcher has started the services; unless a further
\* command fails, or a newer snapshot stands in the way of the rollback.
RecoverSettles ==
  \A n \in 0..MaxFaults :
    (due /\ pc = "free" /\ faults = n)
      ~> ((terminal(journal.state) /\ unit = "done") \/ newer \/ faults # n)

\* The journal of a management update never claims what the machine did not do, and
\* nothing starts by itself on data of another release (manager.go Apply, Recover).
OutcomeSafe == TypeOK /\ StartupGated /\ OutcomeReal
=============================================================================

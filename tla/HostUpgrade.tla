----------------------------- MODULE HostUpgrade -----------------------------
(***************************************************************************)
(* The host OS update of internal/hostupgrade: a release is staged as the  *)
(* boot alias "next", booted once through the firmware's BootNext, and     *)
(* made permanent by an explicit commit; anything else must lead back to   *)
(* the committed OS and to the management data as they were before the     *)
(* trial.  The journal host.json, the boot aliases, the pool's bootfs and  *)
(* the firmware variable are durable; everything else is lost when power   *)
(* fails, which may happen between any two commands.                       *)
(*                                                                         *)
(* All journal writers hold one file lock (update.Acquire), so there is at *)
(* most one procedure under way; pc is its next command.  A management     *)
(* update, which shares the lock, is not part of this module.              *)
(***************************************************************************)
EXTENDS Naturals, FiniteSets

CONSTANTS Ops,          \* operation ids, each used by one Prepare
          Versions,     \* host releases
          Installed,    \* the release the appliance was installed with
          None,
          MaxCrashes,   \* bound on power losses and hostd deaths
          MaxFaults,    \* bound on commands that fail
          MaxEarly      \* bound on requests that precede a due Recover

ASSUME HostAssumption == /\ Installed \in Versions
                         /\ None \notin Ops \cup Versions
                         /\ {MaxCrashes, MaxFaults, MaxEarly} \subseteq Nat

VARIABLES
  journal,   \* host.json
  alias,     \* the boot clones under floatlab/os
  retired,   \* operations op that own a clone retired-op
  bootfs,    \* the alias the pool property bootfs refers to
  bootNext,  \* the firmware's one-shot entry, which prefers "next"
  mgmt,      \* management stack: containers, startup gate, last data writer
  ckpt,      \* management-os-<op>.json, and the snapshot it names
  run,       \* the OS that is running, and the trial token it booted with
  pc,        \* next command of the lock holder, "free" when there is none
  caller,    \* who holds the lock: "submit" or "recover"
  recover,   \* is a Recover still due in this boot?
  rebooting, \* systemctl reboot was accepted
  healthy,   \* do this boot's services and the management release pass Health?
  watched,   \* does hostd supervise the trial of this boot?
  crashes, faults, early,
  trusted,   \* history: releases that may be booted by default
  trials     \* history: boots of "next", per operation

durable == <<journal, alias, retired, bootfs, ckpt>>
history == <<trusted, trials>>
vars == <<durable, bootNext, mgmt, run, pc, caller, recover, rebooting, healthy,
          watched, crashes, faults, early, history>>

Aliases == {"current", "previous", "next", "recovery"}
Actions == {"activate", "commit", "rollback", "cleanup"}
States  == {"idle", "staging", "staged", "failed", "arming", "armed", "trial", "ready",
            "committing", "committed", "recovering", "recovered"}
terminal(state) == state \in {"idle", "committed", "recovered", "failed"}

Gone == [ver |-> None, own |-> None, tok |-> None]
Clone(v, op, tok) == [ver |-> v, own |-> op, tok |-> tok]

----------------------------------------------------------------------------
(* The procedures, as the order of their commands. *)

After ==
  [stage |-> "preflight", preflight |-> "staged",
   arming |-> "capture", capture |-> "fence", fence |-> "quiet", quiet |-> "snapshot",
   snapshot |-> "checkpointed", checkpointed |-> "arm", arm |-> "armed", armed |-> "reboot",
   recovering |-> "clear", clear |-> "restoreBoot", restoreBoot |-> "restoreData",
   restoreData |-> "startPrevious", startPrevious |-> "authorize", authorize |-> "recovered",
   committing |-> "promote", promote |-> "committed", committed |-> "release",
   release |-> "finalize", finalize |-> "finalized", finalized |-> "tidy",
   undo |-> "undoClear", undoClear |-> "undoStop", undoStop |-> "undoBoot",
   stopTrial |-> "clearTrial", clearTrial |-> "undoBoot", undoBoot |-> "undoReboot",
   startTrial |-> "trial"]

Steps == DOMAIN After \cup Actions \cup
         {"free", "staged", "stageFailed", "reboot", "recovered", "tidy", "undoReboot", "trial"}

\* The procedure goes on with the next command of its list.
Go(step) == /\ pc = step
            /\ pc' = After[step]
            /\ UNCHANGED <<caller, recover, rebooting>>

\* Mutant: no failed Recover is retried.
AttemptedOnce(ok) == "done"

\* A Recover of the core-stack unit that fails is retried, one of hostd is not.
Attempted(ok) == IF ok \/ recover = "once" THEN "done" ELSE "retry"

\* The procedure returns and the lock is released.  Submit's goroutine clears
\* a request that is still recorded, Recover does not.
Return(ok) ==
  /\ pc' = "free"
  /\ caller' = None
  /\ recover' = IF caller = "recover" THEN Attempted(ok) ELSE recover

Save(state) == [journal EXCEPT !.state = state, !.req = "none"]
Returned(j) == IF caller = "submit" THEN [j EXCEPT !.req = "none"] ELSE j

\* A ZFS rename; the pool's bootfs refers to the dataset, not to its name.
Rename(from, to) ==
  /\ alias' = [alias EXCEPT ![from] = Gone, ![to] = alias[from]]
  /\ bootfs' = IF bootfs = from THEN to ELSE bootfs

Running == [ver |-> run.ver, tok |-> run.tok, ok |-> run.tok = None \/ ~bootNext]
OnTrial == run.tok = journal.op /\ run.ver = journal.target

\* Health also needs the management containers, which it asks for a self-test.
Health == healthy /\ mgmt.up

\* Management containers start, and write their data, under the running OS.
Start(m) == [m EXCEPT !.up = TRUE, !.data = run.ver]

idleEnv == UNCHANGED <<run, healthy, watched, crashes, faults, early>>

----------------------------------------------------------------------------
Init ==
  /\ journal = [state |-> "idle", req |-> "none", op |-> None, source |-> None,
                want |-> None, target |-> None, sameBoot |-> FALSE, final |-> FALSE]
  /\ alias = [a \in Aliases |-> IF a = "current" THEN Clone(Installed, None, None) ELSE Gone]
  /\ retired = {}
  /\ bootfs = "current"
  /\ bootNext = FALSE
  /\ mgmt = [up |-> TRUE, blocked |-> FALSE, data |-> Installed]
  /\ ckpt = [o \in Ops |-> [made |-> "none", snap |-> None]]
  /\ run = [ver |-> Installed, tok |-> None]
  /\ pc = "free" /\ caller = None /\ recover = "done"
  /\ rebooting = FALSE /\ healthy = TRUE /\ watched = FALSE
  /\ crashes = 0 /\ faults = 0 /\ early = 0
  /\ trusted = {Installed}
  /\ trials = [o \in Ops |-> 0]

(* Requests. *)

\* Clients draw a fresh id for every update.
Unused == {o \in Ops : o # journal.op /\ trials[o] = 0 /\ ckpt[o].made = "none"
                         /\ \A a \in Aliases : alias[a].own # o}

Prepare(op, v) ==
  /\ pc = "free" /\ ~rebooting
  /\ terminal(journal.state)
  /\ op \in Unused
  /\ journal' = [state |-> "staging", req |-> "none", op |-> op, source |-> None,
                 want |-> v, target |-> None, sameBoot |-> FALSE, final |-> FALSE]
  /\ pc' = "stage" /\ caller' = "submit"
  /\ UNCHANGED <<alias, retired, bootfs, ckpt, bootNext, mgmt, recover, rebooting, history>>
  /\ idleEnv

Accepts(action) ==
  CASE action = "activate" -> journal.state = "staged"
    [] action = "commit"   -> journal.state \in {"ready", "committing"}
    [] action = "cleanup"  -> terminal(journal.state)
    [] action = "rollback" -> TRUE

Submit(action) ==
  /\ pc = "free" /\ ~rebooting
  /\ journal.op # None
  /\ Accepts(action)
  /\ recover = "done" \/ early < MaxEarly
  /\ early' = IF recover = "done" THEN early ELSE early + 1
  /\ journal' = [journal EXCEPT !.req = action]
  /\ pc' = action /\ caller' = "submit"
  /\ UNCHANGED <<alias, retired, bootfs, ckpt, bootNext, mgmt, recover, rebooting, history>>
  /\ UNCHANGED <<run, healthy, watched, crashes, faults>>

----------------------------------------------------------------------------
(* Staging. *)

Stage ==
  /\ IF journal.want = run.ver \/ alias["next"] # Gone
     THEN /\ pc = "stage" /\ pc' = "stageFailed"
          /\ UNCHANGED <<alias, caller, recover, rebooting>>
     ELSE /\ Go("stage")
          /\ alias' = [alias EXCEPT !["next"] = Clone(journal.want, journal.op, journal.op)]
  /\ UNCHANGED <<journal, retired, bootfs, ckpt, bootNext, mgmt, history>>
  /\ idleEnv

Preflight ==
  /\ Go("preflight")
  /\ UNCHANGED <<durable, bootNext, mgmt, history>>
  /\ idleEnv

SaveStaged ==
  /\ pc \in {"staged", "stageFailed"}
  /\ journal' = [Save(IF pc = "staged" THEN "staged" ELSE "failed") EXCEPT
                 !.source = run.ver, !.target = journal.want]
  /\ Return(TRUE)
  /\ UNCHANGED <<alias, retired, bootfs, ckpt, bootNext, mgmt, rebooting, history>>
  /\ idleEnv

----------------------------------------------------------------------------
(* Activation: checkpoint the management data, set BootNext, reboot. *)

\* The running management container says which hosts it supports.
ValidateManagement == mgmt.up

Activate ==
  /\ pc = "activate"
  /\ IF journal.state = "staged" /\ ValidateManagement /\ Running.ok
     THEN /\ pc' = "arming"
          /\ UNCHANGED <<journal, caller, recover>>
     ELSE /\ Return(journal.state \in {"armed", "trial", "ready"})
          /\ journal' = Returned(journal)
  /\ UNCHANGED <<alias, retired, bootfs, ckpt, bootNext, mgmt, rebooting, history>>
  /\ idleEnv

SaveArming ==
  /\ Go("arming")
  /\ journal' = [Save("arming") EXCEPT !.sameBoot = TRUE]
  /\ UNCHANGED <<alias, retired, bootfs, ckpt, bootNext, mgmt, history>>
  /\ idleEnv

Record(made, snap) == ckpt' = [ckpt EXCEPT ![journal.op] = [made |-> made, snap |-> snap]]

\* Checkpoint: record what runs, close the gate, stop the containers, snapshot.
Checkpoint ==
  /\ \/ Go("capture") /\ Record("captured", None) /\ UNCHANGED mgmt
     \/ Go("fence") /\ mgmt' = [mgmt EXCEPT !.blocked = TRUE] /\ UNCHANGED ckpt
     \/ Go("quiet") /\ mgmt' = [mgmt EXCEPT !.up = FALSE] /\ UNCHANGED ckpt
     \/ Go("snapshot") /\ Record("captured", mgmt.data) /\ UNCHANGED mgmt
     \/ Go("checkpointed") /\ Record("changed", ckpt[journal.op].snap) /\ UNCHANGED mgmt
  /\ UNCHANGED <<journal, alias, retired, bootfs, bootNext, history>>
  /\ idleEnv

Arm ==
  /\ Go("arm")
  /\ bootNext' = TRUE
  /\ UNCHANGED <<durable, mgmt, history>>
  /\ idleEnv

SaveArmed ==
  /\ Go("armed")
  /\ journal' = Save("armed")
  /\ UNCHANGED <<alias, retired, bootfs, ckpt, bootNext, mgmt, history>>
  /\ idleEnv

\* systemctl reboot is accepted: the procedure returns, the machine goes down later.
Reboot ==
  /\ pc \in {"reboot", "undoReboot"}
  /\ rebooting' = TRUE
  /\ Return(TRUE)
  /\ UNCHANGED <<durable, bootNext, mgmt, history>>
  /\ idleEnv

----------------------------------------------------------------------------
(* restore: back to the source OS and to the checkpointed management data. *)

SaveRecovering ==
  /\ \/ Go("recovering")
     \/ Go("undo")
  /\ journal' = Save("recovering")
  /\ trusted' = IF journal.state = "committed" THEN trusted \cup {journal.source} ELSE trusted
  /\ UNCHANGED <<alias, retired, bootfs, ckpt, bootNext, mgmt, trials>>
  /\ idleEnv

Clear ==
  /\ \/ Go("clear")
     \/ Go("undoClear")
     \/ Go("clearTrial")
  /\ bootNext' = FALSE
  /\ UNCHANGED <<durable, mgmt, history>>
  /\ idleEnv

\* The aliases RestoreBoot may turn into "current", in the order it tries them.
Fallback == IF alias["previous"].ver = journal.source THEN "previous" ELSE "recovery"

\* One command of RestoreBoot.  Each command changes the fact that the next
\* one is chosen by, so the procedure and a rerun of it take the same path.
RestoreStep ==
  \/ /\ alias["current"].ver = journal.source
     /\ bootfs' = "current" /\ UNCHANGED alias
  \/ /\ alias["current"].ver = journal.target
     /\ alias["recovery"].ver = journal.source
     /\ bootfs # "recovery"
     /\ bootfs' = "recovery" /\ UNCHANGED alias
  \/ /\ alias["current"].ver = journal.target
     /\ alias["recovery"].ver = journal.source
     /\ bootfs = "recovery"
     /\ alias["next"] = Gone
     /\ Rename("current", "next")
  \/ /\ alias["current"] = Gone
     /\ alias[Fallback].ver = journal.source
     /\ Rename(Fallback, "current")

CannotRestore ==
  \/ alias["current"].ver \notin {None, journal.source, journal.target}
  \/ /\ alias["current"].ver = journal.target
     /\ \/ alias["recovery"].ver # journal.source
        \/ bootfs = "recovery" /\ alias["next"] # Gone
  \/ alias["current"] = Gone /\ alias[Fallback].ver # journal.source

RestoreBoot ==
  /\ pc \in {"restoreBoot", "undoBoot"}
  /\ RestoreStep
  /\ pc' = IF alias["current"].ver = journal.source THEN After[pc] ELSE pc
  /\ UNCHANGED <<journal, retired, ckpt, bootNext, mgmt, caller, recover, rebooting, history>>
  /\ idleEnv

\* Mutant: starts the previous services on the data as they are.
RestoreServicesOnly ==
  /\ \/ Go("restoreData") /\ mgmt' = [mgmt EXCEPT !.up = FALSE, !.blocked = TRUE]
     \/ Go("startPrevious") /\ mgmt' = Start(mgmt)
     \/ Go("authorize") /\ mgmt' = [mgmt EXCEPT !.blocked = FALSE]
  /\ UNCHANGED <<durable, bootNext, history>>
  /\ idleEnv

\* RestoreCheckpoint: stop every writer, roll the data back, start, reopen the gate.
RestoreCheckpoint ==
  /\ \/ /\ Go("restoreData")
        /\ ckpt[journal.op].made # "none"
        /\ mgmt' = [mgmt EXCEPT !.up = FALSE, !.blocked = TRUE,
                                !.data = IF ckpt[journal.op].made = "changed"
                                         THEN ckpt[journal.op].snap ELSE mgmt.data]
     \/ Go("startPrevious") /\ mgmt' = Start(mgmt)
     \/ Go("authorize") /\ mgmt' = [mgmt EXCEPT !.blocked = FALSE]
  /\ UNCHANGED <<durable, bootNext, history>>
  /\ idleEnv

SaveRecovered ==
  /\ pc = "recovered"
  /\ journal' = Save("recovered")
  /\ trusted' = {journal.source}
  /\ Return(TRUE)
  /\ UNCHANGED <<alias, retired, bootfs, ckpt, bootNext, mgmt, rebooting, trials>>
  /\ idleEnv

----------------------------------------------------------------------------
(* Commit. *)

\* Submit admits a commit in the states ready and committing only, and no
\* request survives a change of state, so "committed" is not met here.
Commit ==
  /\ pc = "commit"
  /\ IF Running.ok /\ OnTrial /\ Health
     THEN pc' = "committing" /\ UNCHANGED <<journal, caller, recover>>
     ELSE Return(FALSE) /\ journal' = Returned(journal)
  /\ UNCHANGED <<alias, retired, bootfs, ckpt, bootNext, mgmt, rebooting, history>>
  /\ idleEnv

SaveCommitting ==
  /\ Go("committing")
  /\ journal' = Save("committing")
  /\ trusted' = trusted \cup {journal.target}
  /\ UNCHANGED <<alias, retired, bootfs, ckpt, bootNext, mgmt, trials>>
  /\ idleEnv

\* The source has a boot alias of its own, and the pool boots it.
SourceKept == alias["recovery"].ver = journal.source /\ bootfs = "recovery"

\* One command of Promote: a source alias stays bootable through the renames.
PromoteStep ==
  \/ /\ alias["current"].ver = journal.target
     /\ bootfs' = "current" /\ UNCHANGED <<alias, retired>>
  \/ /\ alias["current"].ver # journal.target
     /\ \/ /\ alias["recovery"].ver \notin {None, journal.source}
           /\ alias' = [alias EXCEPT !["recovery"] = Gone]
           /\ UNCHANGED <<bootfs, retired>>
        \/ /\ alias["recovery"] = Gone
           /\ alias' = [alias EXCEPT !["recovery"] = Clone(journal.source, journal.op, None)]
           /\ UNCHANGED <<bootfs, retired>>
        \/ /\ alias["recovery"].ver = journal.source /\ bootfs # "recovery"
           /\ bootfs' = "recovery" /\ UNCHANGED <<alias, retired>>
        \/ /\ SourceKept
           /\ alias["current"].ver = journal.source /\ alias["previous"] # Gone
           /\ alias' = [alias EXCEPT !["previous"] = Gone]
           /\ retired' = retired \cup {journal.op}
           /\ UNCHANGED bootfs
        \/ /\ SourceKept
           /\ alias["current"].ver = journal.source /\ alias["previous"] = Gone
           /\ Rename("current", "previous") /\ UNCHANGED retired
        \/ /\ SourceKept
           /\ alias["current"] = Gone /\ alias["next"].ver = journal.target
           /\ Rename("next", "current") /\ UNCHANGED retired

CannotPromote ==
  /\ SourceKept
  /\ \/ alias["current"].ver \notin {None, journal.source, journal.target}
     \/ alias["current"] = Gone /\ alias["next"].ver # journal.target

Promote ==
  /\ pc = "promote"
  /\ PromoteStep
  /\ pc' = IF alias["current"].ver = journal.target THEN After[pc] ELSE pc
  /\ UNCHANGED <<journal, ckpt, bootNext, mgmt, caller, recover, rebooting, history>>
  /\ idleEnv

SaveCommitted ==
  /\ Go("committed")
  /\ journal' = Save("committed")
  /\ trusted' = {journal.target}
  /\ UNCHANGED <<alias, retired, bootfs, ckpt, bootNext, mgmt, trials>>
  /\ idleEnv

\* finishCommit: reopen the gate, clear the trial token, record it, tidy up.
ReleaseCheckpoint ==
  /\ Go("release")
  /\ mgmt' = [mgmt EXCEPT !.blocked = FALSE]
  /\ UNCHANGED <<journal, alias, retired, ckpt>>

FinalizeCommit ==
  /\ Go("finalize")
  /\ alias' = [alias EXCEPT !["current"].tok = None]
  /\ UNCHANGED <<journal, retired, ckpt, mgmt>>

SaveFinalized ==
  /\ Go("finalized")
  /\ journal' = [Save("committed") EXCEPT !.final = TRUE]
  /\ UNCHANGED <<alias, retired, ckpt, mgmt>>

\* Mutant: tidying removes the recovery alias with the retired ones.
CleanupWithRecovery ==
  /\ pc = "tidy"
  /\ alias' = [alias EXCEPT !["recovery"] = Gone]
  /\ Return(TRUE)
  /\ UNCHANGED <<journal, retired, ckpt, mgmt, rebooting>>

\* Only the checkpoints of earlier operations go; the last one stays.
CleanupCheckpoint ==
  /\ pc = "tidy"
  /\ retired' = {}
  /\ ckpt' = [o \in Ops |-> IF o = journal.op THEN ckpt[o]
                             ELSE [made |-> "none", snap |-> None]]
  /\ Return(TRUE)
  /\ UNCHANGED <<journal, alias, mgmt, rebooting>>

FinishCommit ==
  /\ ReleaseCheckpoint \/ FinalizeCommit \/ SaveFinalized \/ CleanupCheckpoint
  /\ UNCHANGED <<bootfs, bootNext, history>>
  /\ idleEnv

----------------------------------------------------------------------------
(* Rollback, cleanup. *)

\* Mutant: a committed update counts as one that never booted.
RollbackOnPaper ==
  /\ pc = "rollback"
  /\ \/ /\ journal.state \in {"staged", "failed", "committed"}
        /\ bootNext' = FALSE
        /\ Return(TRUE) /\ journal' = Save("recovered")
     \/ /\ journal.state \notin {"staged", "failed", "committed"}
        /\ pc' = "undo"
        /\ UNCHANGED <<journal, bootNext, caller, recover>>
  /\ UNCHANGED <<alias, retired, bootfs, ckpt, mgmt, rebooting, history>>
  /\ idleEnv

Rollback ==
  /\ pc = "rollback"
  /\ \/ /\ journal.state = "recovered"
        /\ Return(TRUE) /\ journal' = Returned(journal)
        /\ UNCHANGED bootNext
     \/ /\ journal.state \in {"staged", "failed"}
        /\ bootNext' = FALSE
        /\ Return(TRUE) /\ journal' = Save("recovered")
     \/ /\ journal.state \notin {"recovered", "staged", "failed"}
        /\ pc' = "undo"
        /\ UNCHANGED <<journal, bootNext, caller, recover>>
  /\ UNCHANGED <<alias, retired, bootfs, ckpt, mgmt, rebooting, history>>
  /\ idleEnv

\* TrialStop: close the gate and stop the management containers.
StopCheckpoint ==
  /\ \/ Go("undoStop")
     \/ Go("stopTrial")
  /\ ckpt[journal.op].made # "none"
  /\ mgmt' = [mgmt EXCEPT !.up = FALSE, !.blocked = TRUE]
  /\ UNCHANGED <<durable, bootNext, history>>
  /\ idleEnv

\* cleanup of a terminal operation: retired aliases after a commit, a leftover "next" otherwise.
Cleanup ==
  /\ pc = "cleanup"
  /\ \/ /\ journal.state = "committed"
        /\ retired' = {}
        /\ ckpt' = [o \in Ops |-> IF o = journal.op THEN ckpt[o]
                                   ELSE [made |-> "none", snap |-> None]]
        /\ Return(TRUE)
        /\ UNCHANGED alias
     \/ /\ journal.state \in {"recovered", "failed"}
        /\ \/ /\ alias["next"].own \in {None, journal.op}
              /\ alias' = [alias EXCEPT !["next"] = Gone]
              /\ Return(TRUE)
           \/ /\ alias["next"].own \notin {None, journal.op}
              /\ Return(FALSE)
              /\ UNCHANGED alias
        /\ UNCHANGED <<retired, ckpt>>
  /\ journal' = Returned(journal)
  /\ UNCHANGED <<bootfs, bootNext, mgmt, rebooting, history>>
  /\ idleEnv

Stranded == \/ pc \in {"restoreBoot", "undoBoot"} /\ CannotRestore
            \/ pc = "promote" /\ CannotPromote
NoCheckpoint == /\ pc \in {"restoreData", "undoStop", "stopTrial", "startTrial"}
                /\ ckpt[journal.op].made = "none"

\* An error return of a command, which leaves the journal as last saved.
Refuse ==
  /\ Stranded \/ NoCheckpoint
  /\ Return(FALSE)
  /\ journal' = Returned(journal)
  /\ UNCHANGED <<alias, retired, bootfs, ckpt, bootNext, mgmt, rebooting, history>>
  /\ idleEnv

----------------------------------------------------------------------------
(* Recover, before every core-stack start: what to do is read off the       *)
(* journal and the running OS.                                              *)

Fail == recover' = Attempted(FALSE) /\ UNCHANGED <<journal, pc, caller>>
Nothing == recover' = "done" /\ UNCHANGED <<journal, pc, caller>>
Begin(step) == pc' = step /\ caller' = "recover" /\ UNCHANGED <<journal, recover>>

Reconcile ==
  LET s == journal.state IN
  \/ s = "committed" /\ ~journal.final /\ Begin("release")
  \/ s = "committed" /\ journal.final /\ Nothing
  \/ s \in {"idle", "recovered", "failed", "staged"} /\ Nothing
  \/ /\ s = "staging"
     /\ journal' = Save("failed")
     /\ recover' = "done" /\ UNCHANGED <<pc, caller>>
  \/ /\ s \in States \ {"idle", "committed", "recovered", "failed", "staging", "staged"}
     /\ \/ ~Running.ok /\ Fail
        \/ /\ Running.ok /\ s = "recovering" /\ run.ver = journal.target
           /\ Begin("stopTrial")
        \/ /\ Running.ok /\ s # "recovering" /\ OnTrial
           /\ Begin(IF s = "committing" THEN "promote" ELSE "startTrial")
        \/ /\ Running.ok
           /\ IF s = "recovering" THEN run.ver # journal.target ELSE ~OnTrial
           /\ IF (s = "armed" /\ journal.sameBoot) \/ run.ver # journal.source
              THEN Fail ELSE Begin("recovering")

Recover ==
  /\ pc = "free" /\ recover # "done"
  /\ IF journal.req # "none" THEN Begin(journal.req) ELSE Reconcile
  /\ UNCHANGED <<alias, retired, bootfs, ckpt, bootNext, mgmt, rebooting, history>>
  /\ idleEnv

StartTrial ==
  /\ Go("startTrial")
  /\ ckpt[journal.op].made # "none"
  /\ mgmt' = Start(mgmt)
  /\ UNCHANGED <<durable, bootNext, history>>
  /\ idleEnv

SaveTrial ==
  /\ pc = "trial"
  /\ journal' = IF journal.state = "ready" THEN journal ELSE Save("trial")
  /\ Return(TRUE)
  /\ UNCHANGED <<alias, retired, bootfs, ckpt, bootNext, mgmt, rebooting, history>>
  /\ watched' = TRUE
  /\ UNCHANGED <<run, healthy, crashes, faults, early>>

\* Supervise: after a minute of health the trial may be committed.
BecomeReady ==
  /\ pc = "free"
  /\ journal.state = "trial" /\ watched /\ Health
  /\ journal' = Save("ready")
  /\ UNCHANGED <<alias, retired, bootfs, ckpt, bootNext, mgmt, pc, caller, recover,
                 rebooting, history>>
  /\ idleEnv

\* The core-stack unit, once reconciled and not gated.
StartCore ==
  /\ pc = "free" /\ recover = "done" /\ ~rebooting
  /\ ~mgmt.up /\ ~mgmt.blocked
  /\ mgmt' = Start(mgmt)
  /\ UNCHANGED <<durable, bootNext, pc, caller, recover, rebooting, history>>
  /\ idleEnv

----------------------------------------------------------------------------
(* The machine. *)

\* The firmware uses up BootNext; a candidate that dies before userspace is
\* reset and the pool's bootfs boots instead.  Docker restarts management
\* containers that were up and whose restart policy is not suppressed.
Boot(from) ==
  /\ from = bootfs \/ (from = "next" /\ bootNext)
  /\ alias[from] # Gone
  /\ run' = [ver |-> alias[from].ver, tok |-> alias[from].tok]
  /\ bootNext' = FALSE
  /\ \E up \in {FALSE, mgmt.up /\ ~mgmt.blocked} :
       mgmt' = [mgmt EXCEPT !.up = up, !.data = IF up THEN alias[from].ver ELSE mgmt.data]
  /\ healthy' \in BOOLEAN
  /\ journal' = [journal EXCEPT !.sameBoot = FALSE]
  /\ pc' = "free" /\ caller' = None /\ recover' = "due" /\ rebooting' = FALSE
  /\ watched' = FALSE
  /\ trials' = IF from = "next" THEN [trials EXCEPT ![alias[from].own] = @ + 1] ELSE trials
  /\ UNCHANGED <<alias, retired, bootfs, ckpt, faults, early, trusted>>

OrderlyReboot == /\ rebooting
                 /\ \E from \in Aliases : Boot(from)
                 /\ UNCHANGED crashes

\* Mutant: the guard retires as soon as hostd has recorded the trial.
GuardedUntilTrial == /\ run.tok # None
                     /\ ~(journal.op = run.tok /\ journal.state \in {"trial", "committed"})

\* The guard retires once the commit of its operation is final.
Guarded == /\ run.tok # None
           /\ ~(journal.op = run.tok /\ journal.state = "committed" /\ journal.final)

\* Supervise stays silent while a commit is unfinished or the trial is undone.
Heartbeat == watched /\ Health /\ journal.state \notin {"committed", "recovering"}

\* GuardState: no readiness in ten minutes, or no heartbeat for one.  A procedure
\* and a first Recover are taken to end within that time, if they start.
Expired == pc = "free" /\ (~healthy \/ (recover # "due" /\ ~Heartbeat))

GuardReboot == /\ Guarded
               /\ Expired
               /\ \E from \in Aliases : Boot(from)
               /\ UNCHANGED crashes

PowerLoss == /\ crashes < MaxCrashes
             /\ crashes' = crashes + 1
             /\ \E from \in Aliases : Boot(from)

\* hostd dies and is restarted; its lock goes with it, and it recovers once.
HostdDies ==
  /\ crashes < MaxCrashes
  /\ crashes' = crashes + 1
  /\ pc' = "free" /\ caller' = None
  /\ recover' = IF recover \in {"due", "retry"} THEN recover ELSE "once"
  /\ watched' = FALSE
  /\ UNCHANGED <<durable, bootNext, mgmt, run, rebooting, healthy, faults, early, history>>

Fallible == {"stage", "preflight", "capture", "fence", "quiet", "snapshot", "checkpointed",
             "arm", "reboot", "clear", "restoreBoot", "restoreData", "startPrevious",
             "authorize", "promote", "release", "finalize", "tidy", "undoClear", "undoStop",
             "undoBoot", "undoReboot", "stopTrial", "clearTrial", "startTrial"}

\* A command fails.  Activation answers by restoring; a failed staging is
\* recorded; a failed tidying is only noted; the rest return the error.
CommandFails ==
  /\ faults < MaxFaults
  /\ faults' = faults + 1
  /\ pc \in Fallible
  /\ \/ /\ pc \in {"capture", "fence", "quiet", "snapshot", "checkpointed", "arm", "reboot"}
        /\ pc' = "recovering"
        /\ bootNext' \in IF pc = "arm" THEN BOOLEAN ELSE {bootNext}
        /\ UNCHANGED <<journal, caller, recover>>
     \/ /\ pc \in {"stage", "preflight"}
        /\ pc' = "stageFailed"
        /\ UNCHANGED <<journal, bootNext, caller, recover>>
     \/ /\ pc \notin {"capture", "fence", "quiet", "snapshot", "checkpointed", "arm", "reboot",
                      "stage", "preflight"}
        /\ Return(pc = "tidy")
        /\ journal' = Returned(journal)
        /\ UNCHANGED bootNext
  /\ UNCHANGED <<alias, retired, bootfs, ckpt, mgmt, run, rebooting, healthy, watched, crashes, early, history>>

----------------------------------------------------------------------------
Procedure ==
  \/ Stage \/ Preflight \/ SaveStaged
  \/ Activate \/ SaveArming \/ Checkpoint \/ Arm \/ SaveArmed \/ Reboot
  \/ SaveRecovering \/ Clear \/ RestoreBoot \/ RestoreCheckpoint \/ SaveRecovered
  \/ Commit \/ SaveCommitting \/ Promote \/ SaveCommitted \/ FinishCommit
  \/ Rollback \/ StopCheckpoint \/ Cleanup \/ Refuse
  \/ StartTrial \/ SaveTrial

Next ==
  \/ \E op \in Ops, v \in Versions : Prepare(op, v)
  \/ \E action \in Actions : Submit(action)
  \/ Procedure
  \/ Recover \/ BecomeReady \/ StartCore
  \/ OrderlyReboot \/ GuardReboot \/ PowerLoss \/ HostdDies \/ CommandFails

Spec == Init /\ [][Next]_vars

\* The goroutine holding the lock runs on; an accepted reboot happens; the
\* guard's clock runs; systemd retries the core-stack unit, which calls Recover.
Fairness == /\ WF_vars(Procedure)
            /\ WF_vars(Recover)
            /\ WF_vars(OrderlyReboot)
            /\ WF_vars(GuardReboot)

FairSpec == Spec /\ Fairness

----------------------------------------------------------------------------
(* Properties. *)

Journals == [state : States, req : Actions \cup {"none"}, op : Ops \cup {None},
             source : Versions \cup {None}, want : Versions \cup {None},
             target : Versions \cup {None}, sameBoot : BOOLEAN, final : BOOLEAN]
Clones == [ver : Versions \cup {None}, own : Ops \cup {None}, tok : Ops \cup {None}]
Managements == [up : BOOLEAN, blocked : BOOLEAN, data : Versions]
Checkpoints == [made : {"none", "captured", "changed"}, snap : Versions \cup {None}]

TypeOK ==
  /\ journal \in Journals
  /\ alias \in [Aliases -> Clones]
  /\ retired \subseteq Ops
  /\ bootfs \in Aliases
  /\ mgmt \in Managements
  /\ ckpt \in [Ops -> Checkpoints]
  /\ run \in [ver : Versions, tok : Ops \cup {None}]
  /\ pc \in Steps
  /\ caller \in {"submit", "recover", None}
  /\ recover \in {"due", "retry", "once", "done"}
  /\ bootNext \in BOOLEAN /\ rebooting \in BOOLEAN
  /\ healthy \in BOOLEAN /\ watched \in BOOLEAN
  /\ crashes \in 0..MaxCrashes /\ faults \in 0..MaxFaults /\ early \in 0..MaxEarly
  /\ trusted \subseteq Versions
  /\ trials \in [Ops -> Nat]

\* At every moment the pool's bootfs refers to an existing boot alias of a
\* release known to be good: the committed one, or the candidate once it has
\* passed its health check (linux.go Promote and RestoreBoot, step by step).
KnownGoodBoot == alias[bootfs] # Gone /\ alias[bootfs].ver \in trusted

\* A candidate is booted from "next" at most once, and no one-shot selection
\* outlives its operation: nothing reboots into a failed candidate again.
CandidateOnce ==
  /\ \A o \in Ops : trials[o] <= 1
  /\ terminal(journal.state) => ~bootNext

\* Management never starts under the source OS of an update on data that were
\* last written under its target.
OldNeverReadsNew ==
  [][mgmt'.up /\ (~mgmt.up \/ run' # run) =>
       ~(mgmt.data = journal.target /\ run'.ver = journal.source
           /\ journal.target # journal.source)]_vars

\* The boot aliases never leave Promote or RestoreBoot without a way to go on,
\* wherever either was cut short: "known-good boot alias unavailable" and the
\* other refusals of linux.go are not met.
NeverStranded == ~Stranded

\* What the journal says of a finished update is so on disk: the permanent
\* alias, the default boot, and the management data belong to one release.
JournalMatchesDisk ==
  /\ journal.state = "committed" =>
       /\ alias["current"].ver = journal.target
       /\ bootfs = "current"
       /\ mgmt.data = journal.target
       /\ journal.final => alias["current"].tok = None /\ ~mgmt.blocked
  /\ journal.state = "recovered" /\ ckpt[journal.op].made # "none" =>
       /\ alias["current"].ver = journal.source
       /\ bootfs = "current"
       /\ mgmt.data = journal.source
       /\ ~mgmt.blocked

Uncommitted == journal.state \in {"armed", "trial", "ready"}
BackOnSource == Uncommitted /\ run.ver = journal.source /\ ~journal.sameBoot

\* A request that was journaled and whose procedure did not live to answer it.
CutShort == journal.req # "none" /\ pc = "free"

\* A boot of the committed OS while a trial is uncommitted ends with the update
\* recorded as recovered, whatever crashes and failures come in between, if no
\* request is cut short and no guard of an earlier trial is still armed.
TrialUndone == (BackOnSource /\ journal.req = "none" /\ run.tok = None) ~>
               (journal.state = "recovered" \/ CutShort)

\* A candidate that never becomes healthy is given up.
BadTrialAbandoned ==
  (Uncommitted /\ OnTrial /\ ~healthy) ~> (run.ver # journal.target \/ healthy)

\* Between any two commands of a host update the machine can be switched off: what boots
\* next is known good or the one trial, and there is a way back (linux.go Stage to Commit).
BootSafe == TypeOK /\ KnownGoodBoot /\ CandidateOnce /\ NeverStranded
=============================================================================

------------------------------ MODULE DatasetSwap ------------------------------
(***************************************************************************)
(* The clone-and-swap that puts a recursive snapshot back as a stack's     *)
(* data: Worker.restoreDatasets (internal/worker/queue.go) driving the     *)
(* hostd ZFS commands (internal/hostd/dispatcher.go).  Snapshot recovery   *)
(* and the rollback of a failed upgrade both run it.                       *)
(*                                                                         *)
(* A stack's data is a tree of datasets: the stack root, number 0, and its *)
(* mounts 1..Children, in the order "zfs list" and the mountpoint sort     *)
(* give them.  Three trees can exist: "root" (what the stack uses), "temp" *)
(* (<root>-restore-<operation>) and "recov" (<root>-recovery-<operation>). *)
(*                                                                         *)
(* The worker executes one hostd command at a time.  A command may fail,   *)
(* its answer may be lost after it took effect, and, because hostd runs    *)
(* every command in a goroutine of its own and the client gives up after   *)
(* 30 seconds, it may take effect long after the worker has given up and   *)
(* retried.  The control process may be killed between any two commands.   *)
(***************************************************************************)
EXTENDS Integers, FiniteSets

CONSTANTS
    Children,     \* number of mounts below the stack root
    Captured,     \* the datasets the snapshot was taken of
    MaxAttempts,  \* maxAttempts of the task queue
    MaxCrashes,   \* bound on control-process restarts
    MaxLate       \* bound on commands that outlive the worker's wait

ASSUME ChildrenAssumption == Children \in Nat
ASSUME CapturedAssumption == Captured \subseteq 0..Children
ASSUME BoundsAssumption ==
    MaxAttempts \in Nat \ {0} /\ MaxCrashes \in Nat /\ MaxLate \in Nat

VARIABLES
    ds,        \* ds[t][m]: whose data is the dataset m of tree t
    mnt,       \* mnt[t][m]: the tree under whose path it is mounted
    promoted,  \* the clones whose origin has been reversed
    phase,     \* where restoreDatasets is
    idx,       \* the dataset its current loop is at
    swapped,   \* this attempt found the swap already done
    attempts,  \* tasks.attempts
    crashes,   \* restarts so far
    late,      \* commands abandoned by the worker and still running in hostd
    disturbed  \* history: a late command has changed a mountpoint

zfs == <<ds, mnt, promoted>>
task == <<phase, idx, swapped, attempts, crashes>>
vars == <<ds, mnt, promoted, phase, idx, swapped, attempts, crashes, late, disturbed>>

Mounts == 0..Children
Trees == {"root", "temp", "recov"}
Contents == {"absent", "orig", "clone"}
Places == Trees \cup {"none"}

\* The loops and single commands of restoreDatasets, in program order.
Steps == {"clone", "renameRoot", "unmountRecov", "mountRecov",
          "renameTemp", "unmountRoot", "mountRoot", "promote"}

Command == [op : {"clone", "rename", "unmount", "mount", "promote"},
            tree : Trees, m : Mounts]

Whole(t, c) == \A m \in Mounts : ds[t][m] = c
Exists(t) == ds[t][0] # "absent"

Init ==
    /\ ds = [t \in Trees |-> [m \in Mounts |->
                IF t = "root" THEN "orig" ELSE "absent"]]
    /\ mnt = [t \in Trees |-> [m \in Mounts |->
                IF t = "root" THEN "root" ELSE "none"]]
    /\ promoted = {}
    /\ phase = "pending" /\ idx = 0 /\ swapped = FALSE
    /\ attempts = 0 /\ crashes = 0 /\ late = {} /\ disturbed = FALSE

--------------------------------------------------------------------------------
(* hostd: the ZFS commands.  A command with no enabled effect is an error  *)
(* answer.  The handlers test for the target before they act; the zfs      *)
(* action itself refuses the same conflicts, so the pair is one step.      *)

\* "zfs clone root/m@snapshot temp/m"; an existing target is success.  The
\* snapshot is found under the root tree only: with the original before the
\* swap, with the promoted clone after it.
datasetClone(m) ==
    \/ /\ ds["temp"][m] # "absent"
       /\ UNCHANGED zfs
    \/ /\ ds["temp"][m] = "absent"
       /\ m \in Captured
       /\ \/ ds["root"][m] = "orig" /\ m \notin promoted
          \/ ds["root"][m] = "clone" /\ m \in promoted
       /\ m = 0 \/ Exists("temp")
       /\ ds' = [ds EXCEPT !["temp"][m] = "clone"]
       /\ mnt' = [mnt EXCEPT !["temp"][m] = "none"]
       /\ UNCHANGED promoted

\* Mutant of datasetRename: an existing target does not stop the rename.
RenameOverTarget(a, b) ==
    /\ Exists(a)
    /\ ds' = [ds EXCEPT ![b] = ds[a], ![a] = [m \in Mounts |-> "absent"]]
    /\ mnt' = [mnt EXCEPT ![b] = mnt[a], ![a] = [m \in Mounts |-> "none"]]
    /\ UNCHANGED promoted

\* "zfs rename a b" moves a whole tree and keeps explicit mountpoints.  A
\* missing source with a present target is success.
datasetRename(a, b) ==
    \/ /\ ~Exists(a) /\ Exists(b)
       /\ UNCHANGED zfs
    \/ /\ Exists(a) /\ ~Exists(b)
       /\ ds' = [ds EXCEPT ![b] = ds[a], ![a] = [m \in Mounts |-> "absent"]]
       /\ mnt' = [mnt EXCEPT ![b] = mnt[a], ![a] = [m \in Mounts |-> "none"]]
       /\ UNCHANGED promoted

\* "zfs set mountpoint=..." on one dataset of a tree.
datasetSet(t, m, place) ==
    /\ ds[t][m] # "absent"
    /\ mnt' = [mnt EXCEPT ![t][m] = place]
    /\ UNCHANGED <<ds, promoted>>

\* "zfs promote root/m"; a dataset without an origin is success.
datasetPromote(m) ==
    /\ ds["root"][m] # "absent"
    /\ promoted' = IF ds["root"][m] = "clone" THEN promoted \cup {m} ELSE promoted
    /\ UNCHANGED <<ds, mnt>>

Perform(c) ==
    \/ c.op = "clone" /\ datasetClone(c.m)
    \/ c.op = "rename" /\ c.tree = "root" /\ datasetRename("root", "recov")
    \/ c.op = "rename" /\ c.tree = "temp" /\ datasetRename("temp", "root")
    \/ c.op = "unmount" /\ datasetSet(c.tree, c.m, "none")
    \/ c.op = "mount" /\ datasetSet(c.tree, c.m, c.tree)
    \/ c.op = "promote" /\ datasetPromote(c.m)

--------------------------------------------------------------------------------
(* The worker. *)

\* The command restoreDatasets, restoreMountpoints or promoteTree issues next.
CurrentCommand ==
    [op |-> CASE phase = "clone" -> "clone"
              [] phase \in {"renameRoot", "renameTemp"} -> "rename"
              [] phase \in {"unmountRecov", "unmountRoot"} -> "unmount"
              [] phase \in {"mountRecov", "mountRoot"} -> "mount"
              [] OTHER -> "promote",
     tree |-> CASE phase \in {"clone", "renameTemp"} -> "temp"
                [] phase \in {"unmountRecov", "mountRecov"} -> "recov"
                [] OTHER -> "root",
     m |-> IF phase \in {"renameRoot", "renameTemp"} THEN 0 ELSE idx]

\* Mutants of ListDatasets: a swap that is done is not remounted; an existing
\* temporary tree counts as complete.
ListSkipsMounts ==
    /\ phase = "pending"
    /\ \/ /\ Exists("root") /\ Exists("recov")
          /\ phase' = "promote" /\ idx' = 0 /\ swapped' = TRUE
       \/ /\ Exists("root") /\ ~Exists("recov")
          /\ phase' = "clone" /\ idx' = 0 /\ swapped' = FALSE
    /\ UNCHANGED <<ds, mnt, promoted, attempts, crashes, late, disturbed>>
ListTrustsTemp ==
    /\ phase = "pending"
    /\ phase' = IF Exists("temp") THEN "renameRoot" ELSE "clone"
    /\ idx' = 0 /\ swapped' = FALSE
    /\ UNCHANGED <<ds, mnt, promoted, attempts, crashes, late, disturbed>>

\* A new attempt lists the datasets and decides how far an earlier attempt
\* came.  A missing root with nothing to activate is an error (see Fail).
ListDatasets ==
    /\ phase = "pending"
    /\ \/ /\ Exists("root") /\ Exists("recov")
          /\ phase' = "unmountRecov" /\ idx' = Children /\ swapped' = TRUE
       \/ /\ ~Exists("root") /\ Exists("recov") /\ Exists("temp")
          /\ phase' = "unmountRecov" /\ idx' = Children /\ swapped' = FALSE
       \/ /\ Exists("root") /\ ~Exists("recov")
          /\ phase' = "clone" /\ idx' = 0 /\ swapped' = FALSE
    /\ UNCHANGED <<ds, mnt, promoted, attempts, crashes, late, disturbed>>

Move(p, i) == phase' = p /\ idx' = i /\ UNCHANGED swapped

\* Where the function goes when the current command has succeeded.  Mountpoints
\* are released children first and set parents first.
Advance ==
    \/ phase = "clone" /\ idx < Children /\ Move("clone", idx + 1)
    \/ phase = "clone" /\ idx = Children /\ Move("renameRoot", 0)
    \/ phase = "renameRoot" /\ Move("unmountRecov", Children)
    \/ phase = "unmountRecov" /\ idx > 0 /\ Move("unmountRecov", idx - 1)
    \/ phase = "unmountRecov" /\ idx = 0 /\ Move("mountRecov", 0)
    \/ phase = "mountRecov" /\ idx < Children /\ Move("mountRecov", idx + 1)
    \/ /\ phase = "mountRecov" /\ idx = Children
       /\ IF swapped THEN Move("unmountRoot", Children) ELSE Move("renameTemp", 0)
    \/ phase = "renameTemp" /\ Move("unmountRoot", Children)
    \/ phase = "unmountRoot" /\ idx > 0 /\ Move("unmountRoot", idx - 1)
    \/ phase = "unmountRoot" /\ idx = 0 /\ Move("mountRoot", 0)
    \/ phase = "mountRoot" /\ idx < Children /\ Move("mountRoot", idx + 1)
    \/ phase = "mountRoot" /\ idx = Children /\ Move("promote", 0)
    \/ phase = "promote" /\ idx < Children /\ Move("promote", idx + 1)
    \/ phase = "promote" /\ idx = Children /\ Move("done", 0)

CommandOk ==
    /\ phase \in Steps
    /\ Perform(CurrentCommand)
    /\ Advance
    /\ UNCHANGED <<attempts, crashes, late, disturbed>>

\* Mutant of RecordFailure: the attempt is not counted.
RetryUncounted ==
    /\ phase' = "pending" /\ idx' = 0
    /\ UNCHANGED <<swapped, attempts, crashes>>

\* The queue records a failed attempt and gives the task up at the last one.
RecordFailure ==
    /\ attempts' = attempts + 1
    /\ phase' = IF attempts + 1 >= MaxAttempts THEN "failed" ELSE "pending"
    /\ idx' = 0
    /\ UNCHANGED <<swapped, crashes>>

\* A restarted control process returns running tasks to the queue uncounted.
RecoverRunning ==
    /\ crashes < MaxCrashes
    /\ crashes' = crashes + 1
    /\ phase' = "pending" /\ idx' = 0
    /\ UNCHANGED <<swapped, attempts>>

\* What has become of the outstanding command when the attempt ends: it failed,
\* it took effect and the answer was lost, or it is still running in hostd.
Outstanding ==
    \/ UNCHANGED <<zfs, late>>
    \/ Perform(CurrentCommand) /\ UNCHANGED late
    \/ /\ Cardinality(late) < MaxLate
       /\ late' = late \cup {CurrentCommand}
       /\ UNCHANGED zfs

CommandFails == phase \in Steps /\ Outstanding /\ RecordFailure /\ UNCHANGED disturbed

ListFails == phase = "pending" /\ RecordFailure /\ UNCHANGED <<zfs, late, disturbed>>

Crash == phase \in Steps /\ Outstanding /\ RecoverRunning /\ UNCHANGED disturbed

\* An abandoned command takes effect at last, or fails.
LateCommand(c) ==
    /\ c \in late
    /\ late' = late \ {c}
    /\ disturbed' = (disturbed \/ c.op \in {"mount", "unmount"})
    /\ Perform(c) \/ UNCHANGED zfs
    /\ UNCHANGED task

Next ==
    \/ ListDatasets
    \/ CommandOk
    \/ CommandFails
    \/ ListFails
    \/ Crash
    \/ \E c \in late : LateCommand(c)

Spec == Init /\ [][Next]_vars

\* The queue polls every five seconds and hostd answers or times out, so the
\* worker's own step is never postponed for ever.
FairSpec == Spec /\ WF_vars(ListDatasets \/ ListFails) /\ WF_vars(CommandOk \/ CommandFails)

--------------------------------------------------------------------------------
(* The inductive invariant.  The trees are in one of three stages; the     *)
(* rename that ends the first stage is issued only when the temporary tree *)
(* is complete, and stays harmless however late it takes effect.           *)

Before ==
    /\ Whole("root", "orig") /\ Whole("recov", "absent")
    /\ \A m \in Mounts : ds["temp"][m] \in {"absent", "clone"}
Between == Whole("root", "absent") /\ Whole("recov", "orig") /\ Whole("temp", "clone")
After ==
    /\ Whole("root", "clone") /\ Whole("recov", "orig")
    /\ \A m \in Mounts : ds["temp"][m] \in {"absent", "clone"}

Stage == Before \/ Between \/ After

RenameRootIssued ==
    \/ phase = "renameRoot"
    \/ \E c \in late : c.op = "rename" /\ c.tree = "root"

Progress ==
    /\ Before /\ phase = "clone" => \A m \in 0..(idx - 1) : ds["temp"][m] = "clone"
    /\ Before /\ RenameRootIssued => Whole("temp", "clone")
    /\ Before => phase \in {"pending", "clone", "renameRoot", "failed"}

\* A task that has used up its attempts is never run again.
AttemptsLeft == phase # "failed" => attempts < MaxAttempts

Inv == AttemptsLeft /\ Stage /\ Progress

--------------------------------------------------------------------------------
(* Properties. *)

\* The trees, the mountpoints and the worker's place in restoreDatasets stay in
\* their domains; the loop index never leaves the list of datasets.
TypeOK ==
    /\ ds \in [Trees -> [Mounts -> Contents]]
    /\ mnt \in [Trees -> [Mounts -> Places]]
    /\ promoted \subseteq Mounts
    /\ phase \in Steps \cup {"pending", "done", "failed"}
    /\ idx \in Mounts
    /\ swapped \in BOOLEAN
    /\ attempts \in 0..MaxAttempts
    /\ crashes \in 0..MaxCrashes
    /\ late \subseteq Command
    /\ disturbed \in BOOLEAN

\* The data the stack had before the operation is never lost, whatever is
\* interrupted, retried or late: all of it is the root tree or all of it is
\* the recovery tree (DOCKER_EXECUTION_PLAN.md:70, "Keep the recovery tree").
OriginalPreserved == Whole("root", "orig") \/ Whole("recov", "orig")

\* The stack's tree is never a mixture of the two states, and never partial.
RootHomogeneous == \E c \in Contents : Whole("root", c)

\* Between the two renames the root is missing; every state in which it is
\* missing can still be completed by the retry that lists the trees.
GapRecoverable ==
    ~Exists("root") => Whole("recov", "orig") /\ Whole("temp", "clone")

\* When restoreDatasets reports success the swap is complete: the snapshot is
\* the root tree, promoted, and both trees are mounted under their own names,
\* unless a late command has moved a mountpoint behind the worker's back.
SwapComplete ==
    phase = "done" =>
        /\ Whole("root", "clone") /\ Whole("recov", "orig")
        /\ promoted = Mounts
        /\ disturbed \/ \A t \in {"root", "recov"}, m \in Mounts : mnt[t][m] = t

\* The swap as its callers see it.
SwapActive == IF Whole("root", "orig") THEN "original"
              ELSE IF Whole("root", "clone") THEN "restored" ELSE "detached"
SwapKept == Whole("recov", "orig")

Swap == INSTANCE AtomicSwap WITH active <- SwapActive, kept <- SwapKept

\* The swap of three trees, eight loops and any number of interrupted attempts
\* is one change from the original to the restored data (restoreDatasets).
SwapsOnce == Swap!Spec

\* Every restore task ends: it succeeds or uses up its attempts.
TaskEnds == <>(phase \in {"done", "failed"})

\* The stack's data is safe at every step of restoreDatasets and hostd: nothing of the
\* original is lost, the root is never a mixture, and a missing root can be completed.
DataSafe == TypeOK /\ OriginalPreserved /\ RootHomogeneous /\ GapRecoverable
================================================================================

------------------------- MODULE BackupReplication -------------------------
(***************************************************************************)
(* Replication of one dataset of a stack to its backup nodes.              *)
(*                                                                         *)
(* The scheduler and the API put snapshot.create and repl.trigger rows in  *)
(* the tasks table.  One worker goroutine takes them in order and calls    *)
(* the source's hostd; a second goroutine keeps calling fs.repl.cleanup    *)
(* for targets that were removed.  A call is given up after 30 seconds,    *)
(* and what it started goes on in hostd, so several commands for the same  *)
(* dataset meet there and take turns on its lock file.  A replication      *)
(* holds that lock while it resumes or plans a stream, protects snapshots  *)
(* with ZFS holds (enforcement) and a property (description), sends,       *)
(* verifies what was received and moves the hold to the newest received    *)
(* snapshot.                                                               *)
(*                                                                         *)
(* A snapshot is its GUID, a number in the order of creation; its name is  *)
(* the tick at which it was asked for, so a name can be used again.        *)
(***************************************************************************)
EXTENDS Integers, Sequences, FiniteSets, SequencesExt

CONSTANTS
    Nodes,         \* the backup nodes
    MaxAttempts,   \* the worker's maxAttempts
    MaxHistory,    \* bound: snapshots taken before the behaviour begins
    MaxPoints,     \* bound: snapshots asked for by the scheduler and by users
    MaxRequests,   \* bound: changes of backup targets
    MaxFaults,     \* bound: lost answers, failed commands, crashes
    MaxOrphans     \* bound: commands in hostd whose caller gave up

ASSUME BackupAssumption ==
    /\ Nodes # {} /\ IsFiniteSet(Nodes)
    /\ MaxAttempts \in Nat \ {0} /\ MaxOrphans \in Nat \ {0}
    /\ MaxHistory \in Nat /\ MaxPoints \in Nat /\ MaxRequests \in Nat /\ MaxFaults \in Nat

VARIABLES
    clock,     \* the scheduler's tick, which names the automated snapshots
    target,    \* rows of backup_targets; generation 0: no row
    retired,   \* removed_backup_nodes
    tasks,     \* rows of tasks, in the order of created_at
    worker,    \* the worker goroutine: its task and the call it waits for
    sweep,     \* cleanupBackups of a client: targets left, an error seen
    jobs,      \* commands in hostd, by caller; the numbers are abandoned ones
    lock,      \* the job that holds the dataset's lock file
    nameOf,    \* the name of each snapshot ever taken, by GUID
    src,       \* snapshots on the source
    held,      \* per node, ZFS holds on source snapshots: <<kind, guid>>
    listed,    \* per node, what the protection properties list
    removed,   \* floatlab:removed-targets on the source dataset
    accepted,  \* floatlab:target-generations on the source dataset
    dst,       \* per node, snapshots of the backup dataset
    token,     \* per node, the interrupted receive, guid 0: none
    synced,    \* history: generation of the last verified replication
    points, requests, faults

client  == <<target, tasks, worker, sweep>>
control == <<clock, retired, client>>
fences  == <<removed, accepted>>
source  == <<nameOf, src, held, listed, fences>>
backup  == <<dst, token>>
counts  == <<points, requests, faults>>
rvars == <<control, jobs, lock, source, backup, synced, counts>>

\* Places of commands in hostd: one per goroutine that calls, the rest abandoned.
Nobody  == 0
Worker  == 1
Cleaner == 2
Clients == {Worker, Cleaner}
NoGen   == -1
NoToken == [guid |-> 0, base |-> 0, gen |-> 0]
Idle    == [task |-> 0, step |-> "idle"]
Swept   == [todo |-> {}, bad |-> FALSE]
SomeNode == CHOOSE n \in Nodes : TRUE
Orphans == 3 .. 2 + MaxOrphans
Slots   == Clients \cup Orphans

\* A command as hostd runs it; base, goal and resumed are its local state.
Job(cmd, n, name, gen) ==
    [cmd |-> cmd, node |-> n, name |-> name, gen |-> gen, step |-> "wait",
     cancelled |-> FALSE, base |-> 0, goal |-> 0, resumed |-> FALSE]
NoJob == Job("none", SomeNode, 0, 0)
Busy(j) == jobs[j].cmd # "none" /\ jobs[j].step # "lost"

Fault == faults < MaxFaults /\ faults' = faults + 1
Pairs(kind, S) == {<<kind, g>> : g \in S}

Row(type, name, n, t, after) ==
    [type |-> type, name |-> name, node |-> n, gen |-> t.generation,
     rev |-> t.revision, after |-> after, state |-> "pending", attempts |-> 0]
CreateRow(name) == Row("create", name, SomeNode, [generation |-> 0, revision |-> 0], 0)

FirstTarget == [generation |-> 1, revision |-> 1, enabled |-> TRUE, cleanup_pending |-> FALSE]

\* Some snapshots were taken and the first of them received; the replication of the
\* newest is due when it was not.
Init ==
    \E k \in 0 .. MaxHistory : \E r \in 0 .. k :
    /\ clock = k /\ retired = {}
    /\ target = [n \in Nodes |-> FirstTarget]
    /\ tasks = IF r = k THEN <<>>
               ELSE <<[CreateRow(k) EXCEPT !.state = "done"]>>
                    \o SetToSeq({Row("repl", k, n, FirstTarget, 1) : n \in Nodes})
    /\ worker = Idle /\ sweep = [c \in Clients |-> Swept]
    /\ jobs = [j \in Slots |-> NoJob] /\ lock = Nobody
    /\ nameOf = [g \in 1 .. k |-> g] /\ src = 1 .. k
    /\ held = [n \in Nodes |-> IF r = 0 THEN {} ELSE {<<"hold", r>>}] /\ listed = held
    /\ removed = [n \in Nodes |-> NoGen]
    /\ accepted = [n \in Nodes |-> IF r = 0 THEN NoGen ELSE 1]
    /\ dst = [n \in Nodes |-> 1 .. r] /\ token = [n \in Nodes |-> NoToken]
    /\ synced = [n \in Nodes |-> IF r = 0 THEN NoGen ELSE 1]
    /\ points = 0 /\ requests = 0 /\ faults = 0

-----------------------------------------------------------------------------
(* Requests and the scheduler.                                             *)

Request == requests < MaxRequests /\ requests' = requests + 1

\* A snapshot.create row and one repl.trigger row per node of S.
EnqueueTask(name, S) ==
    /\ points < MaxPoints /\ points' = points + 1
    /\ LET repl == SetToSeq({Row("repl", name, n, target[n], Len(tasks) + 1) : n \in S})
       IN tasks' = Append(tasks, CreateRow(name)) \o repl

\* Targets that are not due, or whose row could not be written, are left out.
scheduleTick ==
    /\ clock' = clock + 1
    /\ \E S \in SUBSET {n \in Nodes : target[n].enabled} : EnqueueTask(clock', S)
    /\ UNCHANGED <<target, retired, worker, sweep, jobs, lock, source, backup, synced, requests, faults>>

\* The manual trigger shares the name of the tick it falls in.
handleTriggerReplication ==
    /\ clock > 0
    /\ \E S \in SUBSET {n \in Nodes : target[n].enabled} : S # {} /\ EnqueueTask(clock, S)
    /\ UNCHANGED <<clock, target, retired, worker, sweep, jobs, lock, source, backup, synced, requests, faults>>

\* Mutant: a target can be put back while its removal is still being cleaned up.
PutWhilePending(n, changed) ==
    /\ Request
    /\ n \notin retired
    /\ target' = [target EXCEPT ![n].enabled = TRUE, ![n].revision = @ + 1,
                   ![n].generation = IF changed \/ ~target[n].enabled THEN @ + 1 ELSE @]
    /\ UNCHANGED <<clock, retired, tasks, worker, sweep, jobs, lock, source, backup, synced, points, faults>>

\* The same row again, with another schedule or after a removal.
PutBackupTarget(n, changed) ==
    /\ Request
    /\ n \notin retired /\ ~target[n].cleanup_pending
    /\ target' = [target EXCEPT ![n].enabled = TRUE, ![n].revision = @ + 1,
                   ![n].generation = IF changed \/ ~target[n].enabled THEN @ + 1 ELSE @]
    /\ UNCHANGED <<clock, retired, tasks, worker, sweep, jobs, lock, source, backup, synced, points, faults>>

Disabled(row) == [row EXCEPT !.enabled = FALSE, !.cleanup_pending = TRUE, !.generation = @ + 1]

RemoveBackupTarget(n) ==
    /\ Request
    /\ target[n].enabled
    /\ target' = [target EXCEPT ![n] = Disabled(@), ![n].revision = @ + 1]
    /\ UNCHANGED <<clock, retired, tasks, worker, sweep, jobs, lock, source, backup, synced, points, faults>>

\* Called when the membership of n is removed; the revision stays.
DisableBackupNode(n) ==
    /\ Request
    /\ n \notin retired
    /\ retired' = retired \cup {n}
    /\ target' = [target EXCEPT ![n] = IF @.enabled THEN Disabled(@) ELSE @]
    /\ UNCHANGED <<clock, tasks, worker, sweep, jobs, lock, source, backup, synced, points, faults>>

-----------------------------------------------------------------------------
(* The worker.  A handler continues when its call to hostd returns, with   *)
(* the other commands J then in hostd.                                     *)

Execute(c, cmd, n, name, gen) ==
    /\ jobs[c] = NoJob
    /\ jobs' = [jobs EXCEPT ![c] = Job(cmd, n, name, gen)]

Task == tasks[worker.task]

failTask(row) ==
    [row EXCEPT !.attempts = @ + 1,
                !.state = IF row.attempts + 1 >= MaxAttempts THEN "failed" ELSE "pending"]

Ended(row, ok) == IF ok THEN [row EXCEPT !.state = "done"] ELSE failTask(row)
Finish(ok) ==
    /\ tasks' = [tasks EXCEPT ![worker.task] = Ended(@, ok)]
    /\ worker' = Idle

\* The oldest row that is due; a row that failed before may still be backing off.
poll(i) ==
    /\ worker = Idle
    /\ tasks[i].state = "pending"
    /\ \A k \in 1 .. i - 1 : ~(tasks[k].state = "pending" /\ tasks[k].attempts = 0)

Running(i, step) ==
    /\ tasks' = [tasks EXCEPT ![i].state = "running"]
    /\ worker' = [task |-> i, step |-> step]

handleSnapshotCreate(i) ==
    /\ poll(i) /\ tasks[i].type = "create"
    /\ Execute(Worker, "create", SomeNode, tasks[i].name, 0)
    /\ Running(i, "creating")
    /\ UNCHANGED <<clock, target, retired, sweep, lock, source, backup, synced, counts>>

\* fs.snapshot.prune follows the creation of a snapshot and a replication.
PruneAfter(J) ==
    /\ jobs' = [J EXCEPT ![Worker] = Job("prune", SomeNode, 0, 0)]
    /\ worker' = [worker EXCEPT !.step = "pruning"]
    /\ UNCHANGED tasks

SnapshotCreated(ok, J) ==
    /\ worker.step = "creating"
    /\ IF ok THEN PruneAfter(J) ELSE Finish(FALSE) /\ jobs' = J
    /\ UNCHANGED <<target, sweep>>

\* A failed prune fails the creation; after a replication it only raises an alert.
SourcePruned(ok, J) ==
    /\ worker.step = "pruning"
    /\ Finish(ok \/ Task.type = "repl") /\ jobs' = J
    /\ UNCHANGED <<target, sweep>>

backupActive(row) ==
    LET t == target[row.node]
    IN t.enabled /\ row.gen = t.generation /\ row.rev = t.revision

\* Nothing is left to do for a target that was removed or changed since; a snapshot
\* that is not there yet is an error.
handleReplTrigger(i) ==
    /\ poll(i) /\ tasks[i].type = "repl"
    /\ LET row == tasks[i]
       IN IF backupActive(row) /\ tasks[row.after].state = "done"
          THEN Running(i, "checked")
          ELSE /\ tasks' = [tasks EXCEPT ![i] = Ended(@, ~backupActive(row))]
               /\ UNCHANGED worker
    /\ UNCHANGED <<clock, target, retired, sweep, jobs, lock, source, backup, synced, counts>>

\* The command reaches hostd some time after the target was found active.
SendReplication ==
    /\ worker.step = "checked"
    /\ Execute(Worker, "send", Task.node, Task.name, Task.gen)
    /\ worker' = [worker EXCEPT !.step = "sending"]
    /\ UNCHANGED <<clock, target, retired, tasks, sweep, lock, source, backup, synced, counts>>

Removals == {[node |-> n, gen |-> target[n].generation] :
               n \in {m \in Nodes : target[m].cleanup_pending /\ ~target[m].enabled}}

\* The target may have been removed meanwhile: then its protection has to go.
ReplReturned(ok, J) ==
    /\ worker.step = "sending"
    /\ IF ~backupActive(Task)
       THEN /\ sweep' = [sweep EXCEPT ![Worker] = [todo |-> Removals, bad |-> FALSE]]
            /\ worker' = [worker EXCEPT !.step = "sweeping"]
            /\ jobs' = J /\ UNCHANGED tasks
       ELSE /\ IF ok THEN PruneAfter(J) ELSE Finish(FALSE) /\ jobs' = J
            /\ UNCHANGED sweep
    /\ UNCHANGED target

WorkerSwept ==
    /\ worker.step = "sweeping" /\ sweep[Worker].todo = {}
    /\ Finish(~sweep[Worker].bad)
    /\ sweep' = [sweep EXCEPT ![Worker] = Swept]
    /\ UNCHANGED <<clock, target, retired, jobs, lock, source, backup, synced, counts>>

\* The cleanup goroutine reads the rows on every tick of its timer.
cleanupBackups ==
    /\ sweep[Cleaner].todo = {} /\ Removals # {}
    /\ sweep' = [sweep EXCEPT ![Cleaner] = [todo |-> Removals, bad |-> FALSE]]
    /\ UNCHANGED <<clock, target, retired, tasks, worker, jobs, lock, source, backup, synced, counts>>

cancelBackups(j, r) == jobs[j].cmd = "send" /\ jobs[j].node = r.node /\ jobs[j].gen <= r.gen

\* On arrival the command cancels older replications to its node.
cleanupBackupTarget(c) ==
    /\ jobs[c] = NoJob
    /\ \E r \in sweep[c].todo :
         jobs' = [j \in Slots |-> IF j = c THEN Job("cleanup", r.node, 0, r.gen)
                                 ELSE [jobs[j] EXCEPT !.cancelled = @ \/ cancelBackups(j, r)]]
    /\ UNCHANGED <<control, lock, source, backup, synced, counts>>

\* UPDATE ... WHERE enabled=0 AND generation=?: a row that changed since is left
\* alone.  The cleanup goroutine only logs an error.
CleanupReturned(c, ok, J) ==
    /\ jobs[c].cmd = "cleanup"
    /\ LET r == [node |-> jobs[c].node, gen |-> jobs[c].gen]
           t == target[r.node]
       IN /\ sweep' = [sweep EXCEPT ![c] = [todo |-> @.todo \ {r}, bad |-> c = Worker /\ (@.bad \/ ~ok)]]
          /\ target' = IF ~t.enabled /\ t.generation = r.gen
                       THEN [target EXCEPT ![r.node].cleanup_pending = ~ok]
                       ELSE target
    /\ jobs' = J
    /\ UNCHANGED <<tasks, worker>>

-----------------------------------------------------------------------------
(* The end of a call.                                                      *)

Returned(c, ok, J) ==
    \/ c = Worker /\ (SnapshotCreated(ok, J) \/ SourcePruned(ok, J) \/ ReplReturned(ok, J))
    \/ CleanupReturned(c, ok, J)

\* hostd ends job j: the lock is released and the caller, if one waits, goes on.
Answer(j, ok) ==
    LET J == [jobs EXCEPT ![j] = NoJob]
    IN /\ lock' = IF lock = j THEN Nobody ELSE lock
       /\ IF j \in Orphans THEN jobs' = J /\ UNCHANGED client ELSE Returned(j, ok, J)

\* The commands of the clients C stay in hostd without a caller, in the first free
\* places; they keep the lock and go on.
Placed(C) == {f \in [C -> Orphans] :
    /\ IsInjective(f)
    /\ \A c \in C : jobs[f[c]] = NoJob
    /\ \A k \in Orphans : jobs[k] = NoJob /\ k \notin Range(f) => \A c \in C : f[c] < k}
Moved(C, f) == [j \in Slots |-> IF j \in C THEN NoJob
                                 ELSE IF j \in Range(f) THEN jobs[CHOOSE c \in C : f[c] = j] ELSE jobs[j]]
KeepsLock(C, f) == lock' = IF lock \in C THEN f[lock] ELSE lock

\* The call has taken 30 seconds: the client goes on without an answer.
TimedOut(c) ==
    /\ Busy(c) /\ Fault
    /\ \E f \in Placed({c}) : Returned(c, FALSE, Moved({c}, f)) /\ KeepsLock({c}, f)
    /\ UNCHANGED <<clock, retired, source, backup, synced, points, requests>>

\* hostd went away during the call.
CallLost(c) ==
    /\ jobs[c].step = "lost"
    /\ Returned(c, FALSE, [jobs EXCEPT ![c] = NoJob])
    /\ UNCHANGED <<clock, retired, lock, source, backup, synced, counts>>

\* The control process dies; Run makes its running row pending again.
ControlRestart ==
    /\ Fault
    /\ worker # Idle \/ sweep # [c \in Clients |-> Swept]
    /\ worker' = Idle /\ sweep' = [c \in Clients |-> Swept]
    /\ tasks' = [i \in DOMAIN tasks |->
         IF tasks[i].state = "running" THEN [tasks[i] EXCEPT !.state = "pending"] ELSE tasks[i]]
    /\ LET C == {c \in Clients : Busy(c)}
       IN \E f \in Placed(C) : jobs' = [Moved(C, f) EXCEPT ![Worker] = NoJob, ![Cleaner] = NoJob] /\ KeepsLock(C, f)
    /\ UNCHANGED <<clock, target, retired, source, backup, synced, points, requests>>

-----------------------------------------------------------------------------
(* Protection and retention of snapshots.                                  *)

\* A and R are <<kind, guid>> pairs, added and then removed.  Adding writes the
\* hold before the property, removing the property before the hold; "half" is the
\* pair at which the command was interrupted between the two writes.
UpdateSnapshotProtection(n, A, R, half) ==
    /\ held'   = [held EXCEPT ![n] = (@ \cup A) \ (R \ half)]
    /\ listed' = [listed EXCEPT ![n] = (@ \cup (A \ half)) \ R]

\* How far a loop over the snapshots, hold before transfer, may have got with R.
Before(x, y) == x[2] < y[2] \/ (x[2] = y[2] /\ x[1] = "hold" /\ y[1] = "transfer")
InOrder(R) == {R} \cup {{x \in R : Before(x, y)} : y \in R}
Halves(D, Done) == {{}} \cup {{x} : x \in {y \in UNION Done \ D : D \cup {y} \in Done}}

\* Adding A, or removing after that as far as a member of Done, stops on the way.
ProtectionInterrupted(n, A, Done) ==
    \/ \E D \in InOrder(A) \ {A} : \E h \in Halves(D, InOrder(A)) :
          UpdateSnapshotProtection(n, D \cup h, {}, h)
    \/ \E D \in Done : \E h \in Halves(D, Done) :
          UpdateSnapshotProtection(n, A, D \cup h, h)

\* The policy keeps the newest snapshot and, with time, any others.
RetainedSnapshots(S) == {K \in SUBSET S : S # {} => Max(S) \in K}

\* With the holds H and the properties L.  Protected snapshots stay; one whose
\* holds and properties disagree stops the pruning when it gets there.
Unreconciled(H, L) == {g \in src : \E n \in Nodes : \E kind \in {"hold", "transfer"} :
                          (<<kind, g>> \in H[n]) # (<<kind, g>> \in L[n])}
pruneSnapshots(H, L) ==
    \E K \in RetainedSnapshots(src) :
       src' = {g \in src : \/ g \in K
                           \/ \E n \in Nodes : {<<"hold", g>>, <<"transfer", g>>} \cap (H[n] \cup L[n]) # {}
                           \/ \E u \in Unreconciled(H, L) : u <= g}

-----------------------------------------------------------------------------
(* Commands in hostd.                                                      *)

snapshotCreate(j) ==
    /\ jobs[j].cmd = "create" /\ jobs[j].step = "wait" /\ lock = Nobody
    /\ IF \E g \in src : nameOf[g] = jobs[j].name
       THEN UNCHANGED <<nameOf, src>>
       ELSE /\ nameOf' = Append(nameOf, jobs[j].name)
            /\ src' = src \cup {Len(nameOf')}
    /\ Answer(j, TRUE)
    /\ UNCHANGED <<clock, retired, held, listed, fences, backup, synced, counts>>

snapshotPrune(j) ==
    /\ jobs[j].cmd = "prune" /\ jobs[j].step = "wait" /\ lock = Nobody
    /\ pruneSnapshots(held, listed)
    /\ Answer(j, Unreconciled(held, listed) = {})
    /\ UNCHANGED <<clock, retired, nameOf, held, listed, fences, backup, synced, counts>>

Later(a, b) == IF a < b THEN b ELSE a
Everything == Pairs("hold", src) \cup Pairs("transfer", src)

\* The fence of removed targets is written first.  A newer generation already
\* accepted keeps its protection; else every snapshot is released and what nothing
\* keeps any more is pruned.
CleanupBackupGeneration(j) ==
    /\ jobs[j].cmd = "cleanup" /\ jobs[j].step = "wait" /\ lock = Nobody
    /\ removed' = [removed EXCEPT ![jobs[j].node] = Later(@, jobs[j].gen)]
    /\ IF accepted[jobs[j].node] > jobs[j].gen
       THEN Answer(j, TRUE) /\ UNCHANGED <<src, held, listed>>
       ELSE /\ UpdateSnapshotProtection(jobs[j].node, {}, Everything, {})
            /\ pruneSnapshots(held', listed')
            /\ Answer(j, Unreconciled(held', listed') = {})
    /\ UNCHANGED <<clock, retired, nameOf, accepted, backup, synced, counts>>

-----------------------------------------------------------------------------
(* fs.repl.send.                                                           *)

At(j, step) == jobs[j].cmd = "send" /\ jobs[j].step = step /\ ~jobs[j].cancelled
Common(n)   == src \cap dst[n]
newestCommonSnapshot(n) == IF Common(n) = {} THEN 0 ELSE Max(Common(n))
NoCommonPoint(n) == dst[n] # {} /\ Common(n) = {}

Requested(j) == {g \in src : nameOf[g] = jobs[j].name}

\* Mutant: the fence of removed targets is not looked at.
ReplicateUnfenced(j) ==
    /\ jobs[j].cmd = "send" /\ jobs[j].step = "wait" /\ lock = Nobody
    /\ LET n == jobs[j].node
       IN IF jobs[j].cancelled
          THEN Answer(j, FALSE) /\ UNCHANGED accepted
          ELSE /\ accepted' = [accepted EXCEPT ![n] = Later(@, jobs[j].gen)]
               /\ IF Requested(j) = {} THEN Answer(j, FALSE)
                  ELSE /\ jobs' = [jobs EXCEPT ![j].step = "inspect"]
                       /\ lock' = j /\ UNCHANGED client
    /\ UNCHANGED <<clock, retired, nameOf, src, held, listed, removed, backup, synced, counts>>

\* Registered, waiting for the lock; then the fence of removed targets, the
\* requested snapshot and the receiver's state.
Replicate(j) ==
    /\ jobs[j].cmd = "send" /\ jobs[j].step = "wait" /\ lock = Nobody
    /\ LET n == jobs[j].node
       IN IF jobs[j].cancelled \/ jobs[j].gen <= removed[n]
          THEN Answer(j, FALSE) /\ UNCHANGED accepted
          ELSE /\ accepted' = [accepted EXCEPT ![n] = Later(@, jobs[j].gen)]
               /\ IF Requested(j) = {} THEN Answer(j, FALSE)
                  ELSE /\ jobs' = [jobs EXCEPT ![j].step = "inspect"]
                       /\ lock' = j /\ UNCHANGED client
    /\ UNCHANGED <<clock, retired, nameOf, src, held, listed, removed, backup, synced, counts>>

\* A token whose snapshots are gone is aborted; the stream of a valid one is completed.
ValidToken(n) == token[n].guid \in src /\ token[n].base \in src \cup {0}
ResumeStream(j) ==
    /\ At(j, "inspect") /\ token[jobs[j].node] # NoToken
    /\ LET n == jobs[j].node
       IN /\ dst' = IF ValidToken(n) THEN [dst EXCEPT ![n] = @ \cup {token[n].guid}] ELSE dst
          /\ token' = [token EXCEPT ![n] = NoToken]
    /\ jobs' = [jobs EXCEPT ![j].resumed = TRUE]
    /\ UNCHANGED <<control, lock, source, synced, counts>>

\* The snapshots a stream from base to goal carries, base included.
Stream(base, goal) == {g \in src : base <= g /\ g <= goal}

\* A delayed retry never moves the backup backward: its goal becomes the common point.
PlannedGoal(j) ==
    LET base == newestCommonSnapshot(jobs[j].node)
        goal == CHOOSE g \in Requested(j) : TRUE
    IN Later(goal, base)

\* Mutant: the base is looked for only among the snapshots up to the requested one.
PlanBackward(j) ==
    /\ At(j, "inspect") /\ token[jobs[j].node] = NoToken
    /\ LET n == jobs[j].node
           goal == CHOOSE g \in Requested(j) : TRUE
           base == Max({0} \cup {g \in Common(n) : g <= goal})
       IN IF NoCommonPoint(n)
          THEN Answer(j, FALSE) /\ UNCHANGED <<held, listed>>
          ELSE /\ UpdateSnapshotProtection(n, Pairs("transfer", Stream(base, goal)), {}, {})
               /\ jobs' = [jobs EXCEPT ![j].step = IF base < goal THEN "stream" ELSE "verify",
                                       ![j].base = base, ![j].goal = goal]
               /\ UNCHANGED <<lock, client>>
    /\ UNCHANGED <<clock, retired, nameOf, src, fences, backup, synced, counts>>

Plan(j) ==
    /\ At(j, "inspect") /\ token[jobs[j].node] = NoToken
    /\ LET n == jobs[j].node
           base == newestCommonSnapshot(n)
           goal == PlannedGoal(j)
       IN IF NoCommonPoint(n)
          THEN Answer(j, FALSE) /\ UNCHANGED <<held, listed>>
          ELSE /\ UpdateSnapshotProtection(n, Pairs("transfer", Stream(base, goal)), {}, {})
               /\ jobs' = [jobs EXCEPT ![j].step = IF base < goal THEN "stream" ELSE "verify",
                                       ![j].base = base, ![j].goal = goal]
               /\ UNCHANGED <<lock, client>>
    /\ UNCHANGED <<clock, retired, nameOf, src, fences, backup, synced, counts>>

\* receive -F takes the stream at base: newer received snapshots are destroyed.
Received(n, base, S) == {g \in dst[n] : g <= base} \cup S
ToSend(j) == Stream(jobs[j].base + 1, jobs[j].goal)

Send(j) ==
    /\ At(j, "stream")
    /\ LET n == jobs[j].node
       IN /\ dst' = [dst EXCEPT ![n] = Received(n, jobs[j].base, ToSend(j))]
          /\ token' = [token EXCEPT ![n] = NoToken]
    /\ jobs' = [jobs EXCEPT ![j].step = "verify"]
    /\ UNCHANGED <<control, lock, source, synced, counts>>

\* Of a stream that breaks, some snapshots arrived whole, the next one in part or
\* not at all.
PartlySent(j) ==
    LET n == jobs[j].node
        whole(g) == Stream(jobs[j].base + 1, g - 1)
        from(g) == Max({jobs[j].base} \cup whole(g))
    IN \E g \in ToSend(j) :
         /\ dst' = IF whole(g) = {} THEN dst
                   ELSE [dst EXCEPT ![n] = Received(n, jobs[j].base, whole(g))]
         /\ token' \in {token, [token EXCEPT ![n] = [guid |-> g, base |-> from(g), gen |-> jobs[j].gen]]}

SendFails(j) ==
    /\ jobs[j].cmd = "send" /\ jobs[j].step = "stream"
    /\ IF jobs[j].cancelled THEN UNCHANGED faults ELSE Fault
    /\ PartlySent(j)
    /\ jobs' = [jobs EXCEPT ![j].step = "reconcile"]
    /\ UNCHANGED <<control, lock, source, synced, points, requests>>

\* The interrupted stream breaks again; its token stays.
ResumeFails(j) ==
    /\ At(j, "inspect") /\ token[jobs[j].node] # NoToken
    /\ ValidToken(jobs[j].node) /\ Fault
    /\ jobs' = [jobs EXCEPT ![j].step = "reconcile", ![j].resumed = TRUE]
    /\ UNCHANGED <<control, lock, source, backup, synced, points, requests>>

\* After a broken stream with nothing to resume, the hold moves to the common point.
ReconcileAdds(j) == LET b == newestCommonSnapshot(jobs[j].node)
                    IN IF b = 0 THEN {} ELSE {<<"hold", b>>}
ReconcileHolds(j) ==
    LET b == newestCommonSnapshot(jobs[j].node)
    IN IF b = 0 THEN {} ELSE Pairs("hold", (IF jobs[j].goal = 0 THEN src ELSE Stream(0, jobs[j].goal)) \ {b})
ReconcileTransfers(j) ==
    Pairs("transfer", IF jobs[j].resumed THEN src ELSE Stream(jobs[j].base, jobs[j].goal))
ReconcileStages(j) ==
    InOrder(ReconcileHolds(j)) \cup {ReconcileHolds(j) \cup T : T \in SUBSET ReconcileTransfers(j)}
Reconciles(j) == token[jobs[j].node] = NoToken /\ ~NoCommonPoint(jobs[j].node)

Reconcile(j) ==
    /\ At(j, "reconcile")
    /\ IF Reconciles(j)
       THEN UpdateSnapshotProtection(jobs[j].node, ReconcileAdds(j), ReconcileHolds(j) \cup ReconcileTransfers(j), {})
       ELSE UNCHANGED <<held, listed>>
    /\ Answer(j, FALSE)
    /\ UNCHANGED <<clock, retired, nameOf, src, fences, backup, synced, counts>>

\* Every snapshot of the stream must be there, by GUID, before the hold moves.
Verified(j) == token[jobs[j].node] = NoToken
               /\ Stream(jobs[j].base, jobs[j].goal) \subseteq dst[jobs[j].node]
SettleAdds(j)    == {<<"hold", jobs[j].goal>>}
\* Mutant: the hold of the goal is released with the older ones.
SettleRemovesAll(j) == Pairs("hold", Stream(0, jobs[j].goal)) \cup Pairs("transfer", Stream(0, jobs[j].goal))
SettleRemoves(j) == Pairs("hold", Stream(0, jobs[j].goal - 1)) \cup Pairs("transfer", Stream(0, jobs[j].goal))

\* The receiver prunes by the target's schedule, unless the requested snapshot was
\* older than the common point; a failure (nothing is pruned) is only reported.
PruneBackup(j) ==
    LET n == jobs[j].node
    IN \E K \in RetainedSnapshots(dst[n]) :
         /\ jobs[j].goal \in Requested(j) \/ K = dst[n]
         /\ dst' = [dst EXCEPT ![n] = K]

Settle(j) ==
    /\ At(j, "verify")
    /\ IF Verified(j)
       THEN /\ UpdateSnapshotProtection(jobs[j].node, SettleAdds(j), SettleRemoves(j), {})
            /\ synced' = [synced EXCEPT ![jobs[j].node] = jobs[j].gen]
            /\ PruneBackup(j)
       ELSE UNCHANGED <<held, listed, synced, dst>>
    /\ Answer(j, Verified(j))
    /\ UNCHANGED <<clock, retired, nameOf, src, fences, token, counts>>

-----------------------------------------------------------------------------
(* Failures in hostd.                                                      *)

\* What a replication would add and remove at its present step.
Adds(j) == CASE jobs[j].step = "inspect"   -> Pairs("transfer", Stream(newestCommonSnapshot(jobs[j].node), PlannedGoal(j)))
             [] jobs[j].step = "verify"    -> SettleAdds(j)
             [] jobs[j].step = "reconcile" -> ReconcileAdds(j)
Stages(j) == CASE jobs[j].step = "inspect"   -> {{}}
               [] jobs[j].step = "verify"    -> InOrder(SettleRemoves(j))
               [] jobs[j].step = "reconcile" -> ReconcileStages(j)
Protecting(j) ==
    \/ jobs[j].step = "inspect" /\ token[jobs[j].node] = NoToken /\ ~NoCommonPoint(jobs[j].node)
    \/ jobs[j].step = "verify" /\ Verified(j)
    \/ jobs[j].step = "reconcile" /\ Reconciles(j)

\* A replication fails, or finds its context cancelled.
ReplicationFails(j) ==
    /\ lock = j
    /\ IF jobs[j].cancelled THEN UNCHANGED faults ELSE Fault
    /\ \/ UNCHANGED <<held, listed>>
       \/ Protecting(j) /\ ProtectionInterrupted(jobs[j].node, Adds(j), Stages(j))
    /\ Answer(j, FALSE)
    /\ UNCHANGED <<clock, retired, nameOf, src, fences, backup, synced, points, requests>>

\* Another command fails; a cleanup may have got part of the way.
CommandFails(j) ==
    /\ jobs[j].cmd \in {"create", "prune", "cleanup"} /\ jobs[j].step = "wait" /\ lock = Nobody
    /\ Fault
    /\ \/ UNCHANGED <<removed, held, listed>>
       \/ /\ jobs[j].cmd = "cleanup"
          /\ removed' = [removed EXCEPT ![jobs[j].node] = Later(@, jobs[j].gen)]
          /\ \/ UNCHANGED <<held, listed>>
             \/ /\ accepted[jobs[j].node] <= jobs[j].gen
                /\ ProtectionInterrupted(jobs[j].node, {}, InOrder(Everything))
    /\ Answer(j, FALSE)
    /\ UNCHANGED <<clock, retired, nameOf, src, accepted, backup, synced, points, requests>>

\* hostd stops, in the middle of a stream or of a protection too; whoever waits for
\* an answer gets an error when its time is up.
HostdRestart ==
    /\ Fault
    /\ \E j \in Slots : Busy(j)
    /\ jobs' = [j \in Slots |-> IF j \in Orphans THEN NoJob
                                ELSE IF Busy(j) THEN [Job(jobs[j].cmd, jobs[j].node, 0, jobs[j].gen) EXCEPT !.step = "lost"]
                                ELSE jobs[j]]
    /\ lock' = Nobody
    /\ \/ UNCHANGED <<held, listed, backup>>
       \/ /\ lock # Nobody /\ Protecting(lock) /\ UNCHANGED backup
          /\ ProtectionInterrupted(jobs[lock].node, Adds(lock), Stages(lock))
       \/ /\ lock # Nobody /\ jobs[lock].step = "stream" /\ UNCHANGED <<held, listed>>
          /\ PartlySent(lock)
    /\ UNCHANGED <<control, nameOf, src, fences, synced, points, requests>>

-----------------------------------------------------------------------------
Requests ==
    \/ handleTriggerReplication
    \/ \E n \in Nodes : \/ \E changed \in BOOLEAN : PutBackupTarget(n, changed)
                        \/ RemoveBackupTarget(n)
                        \/ DisableBackupNode(n)

WorkerStep ==
    \/ \E i \in DOMAIN tasks : handleSnapshotCreate(i) \/ handleReplTrigger(i)
    \/ SendReplication \/ WorkerSwept \/ cleanupBackupTarget(Worker)
    \/ TimedOut(Worker) \/ CallLost(Worker)

CleanupStep ==
    \/ cleanupBackups \/ cleanupBackupTarget(Cleaner)
    \/ TimedOut(Cleaner) \/ CallLost(Cleaner)

HostdStep(j) ==
    \/ snapshotCreate(j) \/ snapshotPrune(j) \/ CleanupBackupGeneration(j)
    \/ Replicate(j) \/ ResumeStream(j) \/ ResumeFails(j) \/ Plan(j)
    \/ Send(j) \/ SendFails(j) \/ Reconcile(j) \/ Settle(j)
    \/ ReplicationFails(j) \/ CommandFails(j)

ReplicationNext ==
    \/ scheduleTick \/ Requests \/ WorkerStep \/ CleanupStep
    \/ \E j \in Slots : HostdStep(j)
    \/ ControlRestart \/ HostdRestart

\* The goroutines of the control process and the commands in hostd go on; nothing is
\* promised of requests, of the passing of time or of failures.
ReplicationFairness ==
    /\ WF_rvars(WorkerStep) /\ WF_rvars(CleanupStep)
    /\ \A j \in Slots : WF_rvars(HostdStep(j))

ReplicationSpec == Init /\ [][ReplicationNext]_rvars /\ ReplicationFairness

-----------------------------------------------------------------------------
(* Properties.                                                             *)

\* Targets, snapshots, holds and commands stay in their domains (store/backup.go).
TypeOK ==
    LET Guids == 1 .. Len(nameOf)
        Tags  == {"hold", "transfer"} \X Guids
    IN /\ clock \in Nat /\ retired \subseteq Nodes
       /\ target \in [Nodes -> [generation: Nat, revision: Nat, enabled: BOOLEAN, cleanup_pending: BOOLEAN]]
       /\ \A i \in DOMAIN tasks :
            /\ tasks[i].type \in {"create", "repl"} /\ tasks[i].attempts \in 0 .. MaxAttempts
            /\ tasks[i].state \in {"pending", "running", "done", "failed"}
       /\ worker \in [task: 0 .. Len(tasks), step: {"idle", "creating", "pruning", "checked", "sending", "sweeping"}]
       /\ \A j \in Slots :
            /\ jobs[j].cmd \in {"none", "create", "prune", "cleanup", "send"}
            /\ jobs[j].step \in {"wait", "inspect", "stream", "reconcile", "verify", "lost"}
       /\ lock \in {Nobody} \cup Slots
       /\ src \subseteq Guids
       /\ \A n \in Nodes : /\ held[n] \subseteq Tags /\ listed[n] \subseteq Tags
                            /\ dst[n] \subseteq Guids /\ token[n].guid \in {0} \cup Guids
                            /\ {removed[n], accepted[n]} \subseteq Nat \cup {NoGen}

\* "A crash always fails closed" (backup.go:283): whatever the order of commands and
\* wherever one is interrupted, a snapshot that is described as needed by a node is
\* really held for it, so nothing can destroy it.
FailsClosed == \A n \in Nodes : listed[n] \subseteq held[n]

\* Once a generation of a target has been replicated and verified, and until that
\* generation is removed, a snapshot that both sides have stays held at the source:
\* the next replication can always be incremental, whatever was pruned on either
\* side, interrupted, abandoned or run twice.
CommonPointKept ==
    \A n \in Nodes : synced[n] > removed[n] =>
       \E g \in Common(n) : <<"hold", g>> \in held[n]

\* When the removal of a target is recorded as cleaned up, no snapshot is held for its
\* node any more, and none will be by replications still running in hostd for it.
CleanedIsReleased ==
    \A n \in Nodes : ~target[n].enabled /\ ~target[n].cleanup_pending => held[n] = {}

\* An interrupted stream of a generation that was not removed can be resumed: the
\* snapshot it was sending and the one it builds on are still at the source.
InterruptedResumable ==
    \A n \in Nodes : token[n].gen > removed[n] /\ token[n] # NoToken => ValidToken(n)

\* "A delayed retry must never move a destination recovery point backward"
\* (backup.go:195): while a verified generation is current, the newest snapshot of the
\* backup is never replaced by an older one.
RecoveryPointForward ==
    [][\A n \in Nodes : synced[n] > removed[n] /\ dst[n] # {} =>
          dst'[n] # {} /\ Max(dst'[n]) >= Max(dst[n])]_rvars

\* "Disabled targets remain durable until their source acknowledges release and
\* pruning" (worker/backups.go:26), and that acknowledgement comes: a removal does not
\* wait for ever behind replications, restarts and lost answers.
RemovalCompletes ==
    \A n \in Nodes : target[n].cleanup_pending ~> ~target[n].cleanup_pending

\* The holds on a source dataset always cover what later replications need: the listed
\* points, the point both sides share, and the base of an interrupted stream (store/backup.go).
ProtectionSound == TypeOK /\ FailsClosed /\ CommonPointKept /\ InterruptedResumable
=============================================================================

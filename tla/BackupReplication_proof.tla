----------------------- MODULE BackupReplication_proof -----------------------
(***************************************************************************)
(* ProtectionSound, CleanedIsReleased and RecoveryPointForward for any set *)
(* of nodes, any history and any number of snapshots, requests, failures   *)
(* and abandoned commands.                                                 *)
(*                                                                         *)
(* The first invariant, Inv, needs no hypothesis.  Its parts: what is in   *)
(* the tables, in hostd and on the datasets has its type; a generation is  *)
(* given out once, so that what carries it can be dated against the        *)
(* present one (Dating); the fence of removed targets never passes a       *)
(* removal that was asked for (Removing); the holder of the lock works     *)
(* for a generation that the fence lets through and has protected what it  *)
(* sends (Locking, Planned); and everything listed, and every interrupted  *)
(* receive, is held (Holding).                                             *)
(*                                                                         *)
(* The second, AInv, is about how the two sides keep fitting together.     *)
(* Either the newest snapshot of a backup is protected at the source       *)
(* (Anchored), or whatever may still be asked for is at least as new as    *)
(* all the backup has (Untouched), so that the next stream leads to the    *)
(* first case; once a generation has been verified the first case holds    *)
(* and the hold is on a snapshot of both sides.  It rests on one           *)
(* assumption about behaviours, NewestWhenPutBack.                         *)
(*                                                                         *)
(* One lemma per action shows that it keeps Inv, and one that it keeps     *)
(* AInv and moves no verified backup backward.                             *)
(***************************************************************************)
EXTENDS BackupReplication, FiniteSetTheorems, WellFoundedInduction, TLAPS

-----------------------------------------------------------------------------
(* Types.                                                                  *)

\* Generations as the source dataset records them.
Gens == Nat \cup {NoGen}

\* Rows of backup_targets.
TargetRows == [generation : Nat, revision : Nat, enabled : BOOLEAN, cleanup_pending : BOOLEAN]

\* A removal to clean up after.
RemovalRecs == [node : Nodes, gen : Nat]

\* Rows of tasks.
TaskRows == [type : {"create", "repl"}, name : Nat, node : Nodes, gen : Nat, rev : Nat, after : Nat,
             state : {"pending", "running", "done", "failed"}, attempts : 0 .. MaxAttempts]

\* The removals a client still has to clean up after.
Sweeps == [todo : SUBSET RemovalRecs, bad : BOOLEAN]

\* Commands in hostd.
JobRecs == [cmd : {"none", "create", "prune", "cleanup", "send"}, node : Nodes, name : Nat, gen : Nat,
            step : {"wait", "inspect", "stream", "reconcile", "verify", "lost"},
            cancelled : BOOLEAN, base : Nat, goal : Nat, resumed : BOOLEAN]

\* Snapshots that were ever taken.
Guids == 1 .. Len(nameOf)

\* Interrupted receives.
TokenRecs == [guid : {0} \cup Guids, base : {0} \cup Guids, gen : Nat]

\* The two kinds of protection.
Kinds == {"hold", "transfer"}

\* Tables and goroutines of the control process.
ClientTyped ==
  /\ target \in [Nodes -> TargetRows]
  /\ tasks \in Seq(TaskRows)
  /\ worker \in [task : Nat, step : {"idle", "creating", "pruning", "checked", "sending", "sweeping"}]
  /\ sweep \in [Clients -> Sweeps]

\* The control process.
ControlTyped == clock \in Nat /\ retired \subseteq Nodes /\ ClientTyped

\* The commands in hostd.
JobsTyped == jobs \in [Slots -> JobRecs] /\ lock \in {Nobody} \cup Slots

\* The datasets.
StoreTyped ==
  /\ nameOf \in Seq(Nat) /\ src \subseteq Guids
  /\ held \in [Nodes -> SUBSET (Kinds \X src)]
  /\ listed \in [Nodes -> SUBSET (Kinds \X src)]
  /\ removed \in [Nodes -> Gens] /\ accepted \in [Nodes -> Gens] /\ synced \in [Nodes -> Gens]
  /\ dst \in [Nodes -> SUBSET Guids]
  /\ token \in [Nodes -> TokenRecs]

-----------------------------------------------------------------------------
(* The invariant of the protection.                                        *)

\* A row that can still be taken has attempts left; the worker's row is running.
Working ==
  /\ \A i \in DOMAIN tasks : tasks[i].state \in {"pending", "running"} => tasks[i].attempts < MaxAttempts
  /\ worker.step # "idle" => worker.task \in DOMAIN tasks /\ Task.state = "running"
  /\ worker.step = "idle" => worker.task = 0
  /\ worker.step \in {"checked", "sending", "sweeping"} => Task.type = "repl"

\* Generation g was given to a target of n that was enabled.
Dated(n, g) == g <= target[n].generation /\ (g = target[n].generation => target[n].enabled)

\* Rows and replications carry such generations.
RowDates ==
  /\ \A i \in DOMAIN tasks : Dated(tasks[i].node, tasks[i].gen)
  /\ \A j \in Slots : jobs[j].cmd = "send" => Dated(jobs[j].node, jobs[j].gen)

\* So do the datasets; the fence is at most the generation of a removal.
NodeDates(n) ==
  /\ target[n].generation >= 1 /\ Dated(n, 0) /\ Dated(n, accepted[n])
  /\ synced[n] <= accepted[n]
  /\ token[n] # NoToken => token[n].gen <= accepted[n]
  /\ removed[n] <= target[n].generation
  /\ removed[n] = target[n].generation => ~target[n].enabled

\* Every generation in use can be dated.
Dating == RowDates /\ \A n \in Nodes : NodeDates(n)

\* The removal of generation g has passed the fence, or is waiting for it.
Known(n, g) ==
  \/ g <= removed[n]
  \/ g = target[n].generation /\ ~target[n].enabled /\ target[n].cleanup_pending

\* Whoever cleans up does so for such a removal.
Removing ==
  /\ \A j \in Slots : jobs[j].cmd = "cleanup" => Known(jobs[j].node, jobs[j].gen)
  /\ \A c \in Clients : \A r \in sweep[c].todo : Known(r.node, r.gen)
  /\ \A n \in Nodes : target[n].enabled => ~target[n].cleanup_pending

\* The steps of a replication that holds the lock.
Locked == {"inspect", "stream", "reconcile", "verify"}

\* Only the holder of the lock is at one of them.
Locking ==
  /\ lock # Nobody => jobs[lock].cmd = "send" /\ jobs[lock].step \in Locked
  /\ \A j \in Slots : jobs[j].step \in Locked => lock = j

\* Command j works for a generation that was accepted and not removed.
Under(j) == jobs[j].gen > removed[jobs[j].node] /\ jobs[j].gen <= accepted[jobs[j].node]

\* What it sends is protected.
Sent(j) == Pairs("transfer", Stream(jobs[j].base, jobs[j].goal)) \subseteq held[jobs[j].node]

\* The holder of the lock has planned its stream from the newest common snapshot.
Planned ==
  lock # Nobody =>
    LET j == lock n == jobs[lock].node
    IN /\ Under(j)
       /\ jobs[j].step = "inspect" => Requested(j) # {}
       /\ jobs[j].step \in {"stream", "verify"} =>
            /\ token[n] = NoToken /\ jobs[j].goal \in src /\ Sent(j)
       /\ jobs[j].step = "stream" =>
            /\ jobs[j].base = newestCommonSnapshot(n)
            /\ jobs[j].base < jobs[j].goal

\* What is listed and what an interrupted receive needs is held for n; nothing is once
\* its removal was cleaned up, or its fence has passed all that was accepted.
Held(n) ==
  /\ listed[n] \subseteq held[n]
  /\ token[n] # NoToken /\ token[n].gen > removed[n] =>
       /\ <<"transfer", token[n].guid>> \in held[n]
       /\ token[n].base # 0 => <<"transfer", token[n].base>> \in held[n]
  /\ ~target[n].enabled /\ ~target[n].cleanup_pending =>
       removed[n] = target[n].generation /\ held[n] = {}
  /\ accepted[n] <= removed[n] /\ removed[n] < target[n].generation => held[n] = {}

\* That holds for every node.
Holding == \A n \in Nodes : Held(n)

\* The inductive invariant behind FailsClosed, InterruptedResumable and CleanedIsReleased.
Inv == /\ ControlTyped /\ JobsTyped /\ StoreTyped
       /\ Working /\ Dating /\ Removing /\ Locking /\ Planned /\ Holding

-----------------------------------------------------------------------------
(* The invariant of the common point.                                      *)

\* Snapshots that a replication to n may be asked for: by the next manual trigger, by a
\* row or by a command in hostd.
Named(n) ==
  {g \in src :
     \/ target[n].enabled /\ nameOf[g] = clock
     \/ \E i \in DOMAIN tasks :
          /\ tasks[i].type = "repl" /\ tasks[i].node = n /\ tasks[i].gen > removed[n]
          /\ nameOf[g] = tasks[i].name
     \/ \E j \in Slots :
          /\ jobs[j].cmd = "send" /\ jobs[j].node = n /\ jobs[j].gen > removed[n]
          /\ jobs[j].step # "lost" /\ nameOf[g] = jobs[j].name}

\* Snapshot g is held for n.
Protected(n, g) == <<"hold", g>> \in held[n] \/ <<"transfer", g>> \in held[n]

\* Snapshot t is the newest of the backup.
Top(n, t) == t \in dst[n] /\ \A m \in dst[n] : m <= t

\* The newest snapshot of the backup is protected at the source, and an interrupted
\* receive belongs to a generation that was not removed.
Anchored(n) ==
  /\ dst[n] # {} => \E t \in src : Top(n, t) /\ Protected(n, t)
  /\ token[n] # NoToken => token[n].gen > removed[n]

\* All that may be asked for is at least as new as what the backup has or may complete
\* from an earlier generation.
Untouched(n) ==
  \A g \in Named(n) : /\ \A m \in dst[n] : m <= g
                      /\ token[n].gen <= removed[n] => token[n].guid <= g

\* A verified generation that was not removed.
Live(n) == synced[n] > removed[n]

\* A snapshot of both sides is held.
Shared(n) == \E g \in Common(n) : <<"hold", g>> \in held[n]

\* No name is of a tick to come.
Naming == /\ \A g \in Guids : nameOf[g] <= clock
          /\ \A i \in DOMAIN tasks : tasks[i].name <= clock
          /\ \A j \in Slots : jobs[j].name <= clock

\* The next stream to n fits on what n has; a verified backup is anchored at a shared point.
AnchoredAt(n) == (Anchored(n) \/ Untouched(n)) /\ (Live(n) => Anchored(n) /\ Shared(n))

\* That holds for every node.
Anchoring == \A n \in Nodes : AnchoredAt(n)

\* A stream leads past all that its receiver has; what arrived is its newest snapshot.
Streaming ==
  lock # Nobody =>
    /\ jobs[lock].step = "stream" => \A m \in dst[jobs[lock].node] : m < jobs[lock].goal
    /\ jobs[lock].step = "verify" => Top(jobs[lock].node, jobs[lock].goal)

\* The inductive invariant behind CommonPointKept and RecoveryPointForward.
AInv == Naming /\ Anchoring /\ Streaming

\* An assumption on behaviours: when a removed target is put back, a snapshot with the name
\* of the present tick is the newest one taken.  It fails when the creation of an earlier
\* tick was retried after that of the present one; a manual trigger in the same tick can
\* then ask for a snapshot older than what the node has.
NewestWhenPutBack ==
  \A n \in Nodes : ~target[n].enabled /\ target'[n].enabled =>
     \A g \in src : nameOf[g] = clock => g = Len(nameOf)

\* No snapshot of a verified backup is lost without a newer one being there.
Forward == \A n \in Nodes : Live(n) => \A m \in dst[n] : \E x \in dst'[n] : m <= x

-----------------------------------------------------------------------------
(* Operators of the model.                                                 *)

\* A set of numbers that is not empty has a least one.
LEMMA LeastNat ==
  ASSUME NEW T \in SUBSET Nat, T # {}
  PROVE  \E x \in T : \A y \in T : x <= y
<1> DEFINE R == OpToRel(<, Nat)
<1>1. IsWellFoundedOn(R, Nat)
  BY NatLessThanWellFounded
<1>2. T \subseteq Nat
  OBVIOUS
<1> HIDE DEF R
<1>3. PICK x \in T : \A y \in T : ~(<<y, x>> \in R)
  BY <1>1, <1>2, WFMin, Zenon
<1>4. \A y \in T : y < x => <<y, x>> \in R
  BY DEF R, OpToRel
<1>5. \A y \in T : ~(y < x)
  BY <1>3, <1>4, Zenon
<1> QED BY <1>2, <1>3, <1>5

\* A bounded one has a greatest, which Max names.
LEMMA MaxIs ==
  ASSUME NEW k \in Nat, NEW S \in SUBSET (0 .. k), S # {}
  PROVE  Max(S) \in S /\ \A y \in S : y <= Max(S)
<1> DEFINE T == {x \in 0 .. k : k - x \in S}
<1>1. \A y \in S : k - y \in T
  <2> TAKE y \in S
  <2>1. y \in 0 .. k /\ k - y \in 0 .. k /\ k - (k - y) = y
    OBVIOUS
  <2> QED BY <2>1, Zenon
<1>2. T \in SUBSET Nat /\ T # {}
  <2>1. T \subseteq 0 .. k
    OBVIOUS
  <2>2. T # {}
    BY <1>1, Zenon
  <2> QED BY <2>1, <2>2
<1> HIDE DEF T
<1>3. PICK t \in T : \A u \in T : t <= u
  BY <1>2, LeastNat
<1>4. k - t \in S /\ t \in 0 .. k
  BY <1>3 DEF T
<1>5. \A y \in S : k - t >= y
  BY <1>1, <1>3, <1>4
<1> DEFINE P(x) == \A y \in S : x >= y
<1>6. \E x \in S : P(x)
  BY <1>4, <1>5
<1>7. Max(S) = CHOOSE x \in S : P(x)
  BY DEF Max
<1>8. Max(S) \in S /\ P(Max(S))
  BY <1>6, <1>7
<1> QED BY <1>8

\* The rows of a finite set, in some order.
LEMMA SetToSeqIs ==
  ASSUME NEW S, IsFiniteSet(S)
  PROVE  SetToSeq(S) \in Seq(S)
<1>1. Cardinality(S) \in Nat /\ ExistsBijection(1 .. Cardinality(S), S)
  BY FS_CardinalityType
<1>2. \E f \in [1 .. Cardinality(S) -> S] : IsInjective(f)
  BY <1>1 DEF ExistsBijection, Bijection, Injection
<1>3. SetToSeq(S) \in [1 .. Cardinality(S) -> S]
  BY <1>2 DEF SetToSeq
<1> QED BY <1>1, <1>3

\* The rows for a set of nodes are finitely many.
LEMMA RowsFinite ==
  ASSUME NEW S \in SUBSET Nodes, NEW f \in [Nodes -> TaskRows]
  PROVE  IsFiniteSet({f[n] : n \in S})
<1> DEFINE T == {f[n] : n \in S}
           g == [n \in S |-> f[n]]
<1>1. IsFiniteSet(S)
  BY BackupAssumption, FS_Subset
<1>2. g \in Surjection(S, T)
  BY DEF Surjection
<1> QED BY <1>1, <1>2, FS_Surjection, Zenon

\* The places of commands: two callers, and abandoned commands apart from them.
LEMMA SlotFacts ==
  /\ Worker \in Clients /\ Cleaner \in Clients /\ Worker # Cleaner
  /\ Slots = Clients \cup Orphans /\ Clients \cap Orphans = {}
  /\ \A c \in Clients : c = Worker \/ c = Cleaner
  /\ Nobody \notin Slots /\ Slots \subseteq Nat
  /\ Worker \in Slots /\ Cleaner \in Slots
BY BackupAssumption DEF Worker, Cleaner, Clients, Slots, Orphans, Nobody

\* The records that commands and requests start from.
LEMMA RecordFacts ==
  /\ SomeNode \in Nodes /\ NoJob \in JobRecs /\ Idle.step = "idle" /\ Idle.task = 0
  /\ Job("prune", SomeNode, 0, 0) \in JobRecs
  /\ NoJob.cmd = "none" /\ NoJob.step = "wait" /\ NoJob.name = 0
  /\ Job("prune", SomeNode, 0, 0).cmd = "prune" /\ Job("prune", SomeNode, 0, 0).step = "wait"
  /\ Job("prune", SomeNode, 0, 0).name = 0
  /\ Swept \in Sweeps /\ Swept.todo = {}
  /\ NoToken.guid = 0 /\ NoToken.base = 0 /\ NoToken.gen = 0
<1>1. SomeNode \in Nodes
  BY BackupAssumption DEF SomeNode
<1> QED BY <1>1 DEF NoJob, Job, JobRecs, Idle, Swept, Sweeps, NoToken

-----------------------------------------------------------------------------
(* The end of a call.                                                      *)

\* The rows of tasks keep what they ask for.
SameRows ==
  /\ DOMAIN tasks' = DOMAIN tasks
  /\ \A i \in DOMAIN tasks : /\ tasks'[i].type = tasks[i].type /\ tasks'[i].name = tasks[i].name
                             /\ tasks'[i].node = tasks[i].node /\ tasks'[i].gen = tasks[i].gen

\* The rows of backup_targets keep their generation.
SameDates ==
  \A n \in Nodes : /\ target'[n].generation = target[n].generation
                   /\ target'[n].enabled = target[n].enabled

\* A removal is recorded as cleaned up, or not, by the answer of client c.
Recorded(c, ok, n) ==
  /\ jobs[c].cmd = "cleanup" /\ jobs[c].node = n /\ jobs[c].gen = target[n].generation
  /\ ~target[n].enabled /\ target'[n].cleanup_pending = ~ok

\* The client c goes on with an answer.
Goes(c, ok) ==
  /\ ClientTyped' /\ Working' /\ SameRows /\ SameDates
  /\ \A n \in Nodes : \/ target'[n].cleanup_pending = target[n].cleanup_pending
                      \/ Recorded(c, ok, n)
  /\ \A d \in Clients : \A r \in sweep'[d].todo : r \in sweep[d].todo \/ r \in Removals

\* A row of the table is replaced by one that asks for the same.
LEMMA RowPut ==
  ASSUME ClientTyped, Working, NEW i \in DOMAIN tasks, NEW row \in TaskRows,
         tasks' = [tasks EXCEPT ![i] = row],
         row.type = tasks[i].type, row.name = tasks[i].name,
         row.node = tasks[i].node, row.gen = tasks[i].gen,
         row.state \in {"pending", "running"} => row.attempts < MaxAttempts
  PROVE  /\ tasks' \in Seq(TaskRows) /\ SameRows /\ tasks'[i] = row
         /\ \A k \in DOMAIN tasks' :
              tasks'[k].state \in {"pending", "running"} => tasks'[k].attempts < MaxAttempts
<1>1. tasks \in Seq(TaskRows)
  BY DEF ClientTyped
<1>2. tasks' \in Seq(TaskRows) /\ DOMAIN tasks' = DOMAIN tasks
  BY <1>1
<1>3. \A k \in DOMAIN tasks : tasks'[k] = IF k = i THEN row ELSE tasks[k]
  BY <1>1
<1> QED BY <1>2, <1>3 DEF SameRows, Working

\* What a row becomes when its attempt ends.
LEMMA EndedIs ==
  ASSUME NEW row \in TaskRows, NEW ok \in BOOLEAN, row.attempts < MaxAttempts
  PROVE  /\ Ended(row, ok) \in TaskRows
         /\ Ended(row, ok).type = row.type /\ Ended(row, ok).name = row.name
         /\ Ended(row, ok).node = row.node /\ Ended(row, ok).gen = row.gen
         /\ Ended(row, ok).state \in {"pending", "running"} => Ended(row, ok).attempts < MaxAttempts
<1> USE BackupAssumption
<1>1. CASE ok
  BY <1>1 DEF Ended, TaskRows
<1>2. CASE ~ok
  <2> DEFINE st == IF row.attempts + 1 >= MaxAttempts THEN "failed" ELSE "pending"
  <2>1. row.attempts + 1 \in 0 .. MaxAttempts
    BY DEF TaskRows
  <2>2. st \in {"pending", "failed"} /\ (st = "pending" => row.attempts + 1 < MaxAttempts)
    BY <2>1
  <2>3. Ended(row, ok) = [row EXCEPT !.attempts = row.attempts + 1, !.state = st]
    BY <1>2 DEF Ended, failTask
  <2> HIDE DEF st
  <2> QED BY <2>1, <2>2, <2>3 DEF TaskRows
<1> QED BY <1>1, <1>2

\* The worker ends its task.
LEMMA FinishIs ==
  ASSUME ClientTyped, Working, NEW ok \in BOOLEAN, worker.step # "idle", Finish(ok)
  PROVE  /\ tasks' \in Seq(TaskRows) /\ SameRows /\ Working'
         /\ worker' \in [task : Nat, step : {"idle", "creating", "pruning", "checked", "sending", "sweeping"}]
<1> DEFINE i == worker.task
<1>1. i \in DOMAIN tasks /\ tasks[i].state = "running" /\ tasks[i].attempts < MaxAttempts
  BY DEF Working, Task
<1>2. tasks[i] \in TaskRows
  BY <1>1 DEF ClientTyped
<1>3. tasks' = [tasks EXCEPT ![i] = Ended(tasks[i], ok)] /\ worker' = Idle
  BY DEF Finish
<1>4. /\ tasks' \in Seq(TaskRows) /\ SameRows
      /\ \A k \in DOMAIN tasks' :
           tasks'[k].state \in {"pending", "running"} => tasks'[k].attempts < MaxAttempts
  BY <1>1, <1>2, <1>3, EndedIs, RowPut
<1> QED BY <1>3, <1>4 DEF Idle, Working

\* The worker goes on to prune the source.
LEMMA PruneAfterIs ==
  ASSUME ClientTyped, Working, NEW J, worker.step # "idle", PruneAfter(J)
  PROVE  /\ tasks' \in Seq(TaskRows) /\ SameRows /\ Working'
         /\ worker' \in [task : Nat, step : {"idle", "creating", "pruning", "checked", "sending", "sweeping"}]
         /\ jobs' = [J EXCEPT ![Worker] = Job("prune", SomeNode, 0, 0)]
BY DEF ClientTyped, PruneAfter, Working, SameRows, Task

\* The answer of client c changes nothing else.
LEMMA ReturnedGoes ==
  ASSUME ClientTyped, Working, jobs \in [Slots -> JobRecs],
         NEW c \in Clients, NEW ok \in BOOLEAN, NEW J, Returned(c, ok, J)
  PROVE  /\ Goes(c, ok)
         /\ \/ jobs' = J
            \/ c = Worker /\ jobs' = [J EXCEPT ![Worker] = Job("prune", SomeNode, 0, 0)]
<1>1. CASE c = Worker /\ SnapshotCreated(ok, J)
  <2>1. worker.step # "idle" /\ UNCHANGED <<target, sweep>>
    BY <1>1 DEF SnapshotCreated
  <2>2. PruneAfter(J) \/ (Finish(FALSE) /\ jobs' = J)
    BY <1>1 DEF SnapshotCreated
  <2> QED BY <1>1, <2>1, <2>2, FinishIs, PruneAfterIs DEF Goes, ClientTyped, SameDates
<1>2. CASE c = Worker /\ SourcePruned(ok, J)
  <2>1. worker.step # "idle" /\ UNCHANGED <<target, sweep>>
    BY <1>2 DEF SourcePruned
  <2>2. \E e \in BOOLEAN : Finish(e) /\ jobs' = J
    BY <1>2 DEF SourcePruned
  <2> QED BY <2>1, <2>2, FinishIs DEF Goes, ClientTyped, SameDates
<1>3. CASE c = Worker /\ ReplReturned(ok, J)
  <2>1. worker.step = "sending" /\ UNCHANGED target
    BY <1>3 DEF ReplReturned
  <2>2. CASE ~backupActive(Task)
    <3>1. /\ sweep' = [sweep EXCEPT ![Worker] = [todo |-> Removals, bad |-> FALSE]]
          /\ worker' = [worker EXCEPT !.step = "sweeping"]
          /\ jobs' = J /\ UNCHANGED tasks
      BY <1>3, <2>2 DEF ReplReturned
    <3>2. Removals \subseteq RemovalRecs
      BY DEF Removals, RemovalRecs, ClientTyped, TargetRows
    <3>3. ClientTyped'
      BY <2>1, <3>1, <3>2, SlotFacts DEF ClientTyped, Sweeps
    <3>4. Working'
      BY <2>1, <3>1 DEF ClientTyped, Working, Task
    <3>5. \A d \in Clients : \A r \in sweep'[d].todo : r \in sweep[d].todo \/ r \in Removals
      BY <3>1 DEF ClientTyped, Sweeps
    <3> QED BY <2>1, <3>1, <3>3, <3>4, <3>5 DEF Goes, SameRows, SameDates
  <2>3. CASE backupActive(Task)
    <3>1. (PruneAfter(J) \/ (Finish(FALSE) /\ jobs' = J)) /\ UNCHANGED sweep
      BY <1>3, <2>3 DEF ReplReturned
    <3> QED BY <1>3, <2>1, <3>1, FinishIs, PruneAfterIs DEF Goes, ClientTyped, SameDates
  <2> QED BY <2>2, <2>3
<1>4. CASE CleanupReturned(c, ok, J)
  <2> DEFINE n == jobs[c].node
             r == [node |-> n, gen |-> jobs[c].gen]
  <2>1. /\ jobs[c].cmd = "cleanup" /\ jobs' = J /\ UNCHANGED <<tasks, worker>>
        /\ sweep' = [sweep EXCEPT ![c] = [todo |-> @.todo \ {r}, bad |-> c = Worker /\ (@.bad \/ ~ok)]]
        /\ target' = IF ~target[n].enabled /\ target[n].generation = jobs[c].gen
                     THEN [target EXCEPT ![n].cleanup_pending = ~ok] ELSE target
    BY <1>4 DEF CleanupReturned
  <2>2. n \in Nodes
    BY SlotFacts DEF JobRecs
  <2>3. target' \in [Nodes -> TargetRows]
    BY <2>1, <2>2 DEF ClientTyped, TargetRows
  <2>4. SameDates
    BY <2>1, <2>2 DEF ClientTyped, TargetRows, SameDates
  <2>5. \A m \in Nodes : target'[m].cleanup_pending = target[m].cleanup_pending \/ Recorded(c, ok, m)
    BY <2>1, <2>2 DEF ClientTyped, TargetRows, Recorded
  <2>6. sweep' \in [Clients -> Sweeps]
    BY <2>1 DEF ClientTyped, Sweeps
  <2>7. \A d \in Clients : \A x \in sweep'[d].todo : x \in sweep[d].todo
    BY <2>1 DEF ClientTyped, Sweeps
  <2>8. Working' /\ SameRows
    BY <2>1 DEF Working, Task, SameRows
  <2> QED BY <2>1, <2>3, <2>4, <2>5, <2>6, <2>7, <2>8 DEF Goes, ClientTyped
<1> QED BY <1>1, <1>2, <1>3, <1>4 DEF Returned

\* A place in hostd that a command has left: nothing is there, or the pruning that follows.
Left(job) == /\ job \in JobRecs /\ job.cmd \in {"none", "prune"} /\ job.step = "wait"
             /\ job.name = 0

\* A command asks for what another one or a row asks for, or for nothing.
Stems(new) ==
  \/ new.name = 0 /\ (new.cmd = "send" => new.step = "lost")
  \/ \E i \in Slots : /\ new.cmd = jobs[i].cmd /\ new.node = jobs[i].node /\ new.gen = jobs[i].gen
                      /\ new.name = jobs[i].name /\ (new.step # "lost" => jobs[i].step # "lost")
  \/ \E i \in DOMAIN tasks : /\ new.name = tasks[i].name
                             /\ new.cmd = "send" =>
                                  tasks[i].type = "repl" /\ new.node = tasks[i].node /\ new.gen = tasks[i].gen

\* Two records of the same command at the same point of its work.
SameJob(a, b) == /\ a.node = b.node /\ a.name = b.name /\ a.gen = b.gen /\ a.step = b.step
                 /\ a.base = b.base /\ a.goal = b.goal

\* A step of the control process that asks for nothing new and leaves the datasets alone.
Calm ==
  /\ SameRows /\ SameDates /\ clock' = clock /\ UNCHANGED <<source, backup, synced>>
  /\ \A j \in Slots : Stems(jobs'[j])
  /\ lock' # Nobody => lock # Nobody /\ SameJob(jobs'[lock'], jobs[lock])

\* Command j ends: its place and the lock are free, and its caller goes on.
Ends(j, ok) ==
  /\ Goes(j, ok)
  /\ jobs' \in [Slots -> JobRecs] /\ Left(jobs'[j])
  /\ \A i \in Slots : i # j => jobs'[i] = jobs[i]
  /\ lock' = IF lock = j THEN Nobody ELSE lock

\* That is what Answer does.
LEMMA AnswerEnds ==
  ASSUME ClientTyped, Working, jobs \in [Slots -> JobRecs],
         NEW j \in Slots, NEW ok \in BOOLEAN, Answer(j, ok)
  PROVE  Ends(j, ok)
<1> DEFINE J == [jobs EXCEPT ![j] = NoJob]
<1>1. J \in [Slots -> JobRecs] /\ J[j] = NoJob /\ \A i \in Slots : i # j => J[i] = jobs[i]
  BY RecordFacts
<1>2. Left(NoJob) /\ Left(Job("prune", SomeNode, 0, 0))
  BY RecordFacts DEF Left
<1>3. lock' = IF lock = j THEN Nobody ELSE lock
  BY DEF Answer
<1>4. CASE j \in Orphans
  <2>1. jobs' = J /\ UNCHANGED client
    BY <1>4 DEF Answer
  <2>2. Goes(j, ok)
    BY <2>1 DEF client, Goes, ClientTyped, Working, Task, SameRows, SameDates
  <2> QED BY <1>1, <1>2, <1>3, <2>1, <2>2 DEF Ends
<1>5. CASE j \notin Orphans
  <2>1. j \in Clients /\ Returned(j, ok, J)
    BY <1>5, SlotFacts DEF Answer
  <2>2. /\ Goes(j, ok)
        /\ jobs' = J \/ (j = Worker /\ jobs' = [J EXCEPT ![Worker] = Job("prune", SomeNode, 0, 0)])
    BY <2>1, ReturnedGoes
  <2>3. /\ jobs' \in [Slots -> JobRecs] /\ \A i \in Slots : i # j => jobs'[i] = jobs[i]
        /\ jobs'[j] = NoJob \/ jobs'[j] = Job("prune", SomeNode, 0, 0)
    BY <1>1, <2>2, SlotFacts, RecordFacts
  <2> QED BY <1>2, <1>3, <2>2, <2>3 DEF Ends
<1> QED BY <1>4, <1>5

-----------------------------------------------------------------------------
(* Parts of the invariant that most steps keep for the same reason.        *)

\* The rows and the commands ask for generations that were given out.
LEMMA RowDatesStay ==
  ASSUME Inv, SameRows, ClientTyped', SameDates, JobsTyped',
         \A j \in Slots : jobs'[j].cmd = "send" => 
            \E i \in Slots : jobs[i].cmd = "send" /\ jobs'[j].node = jobs[i].node /\ jobs'[j].gen = jobs[i].gen
  PROVE  RowDates'
<1>1. ASSUME NEW i \in DOMAIN tasks' PROVE Dated(tasks[i].node, tasks[i].gen)'
  <2> i \in DOMAIN tasks
    BY <1>1 DEF SameRows
  <2>1. tasks[i] \in TaskRows
    BY DEF Inv, ControlTyped, ClientTyped
  <2>4. tasks[i].node \in Nodes
    BY <2>1 DEF TaskRows
  <2>2. Dated(tasks[i].node, tasks[i].gen)
    BY DEF Inv, Dating, RowDates
  <2>3. tasks'[i].node = tasks[i].node /\ tasks'[i].gen = tasks[i].gen
    BY DEF SameRows
  <2> QED BY <2>4, <2>2, <2>3 DEF SameDates, Dated
<1>2. ASSUME NEW j \in Slots, jobs'[j].cmd = "send" PROVE Dated(jobs[j].node, jobs[j].gen)'
  <2>1. PICK i \in Slots : jobs[i].cmd = "send" /\ jobs'[j].node = jobs[i].node /\ jobs'[j].gen = jobs[i].gen
    BY <1>2
  <2>2. Dated(jobs[i].node, jobs[i].gen) /\ jobs[i].node \in Nodes
    BY <2>1 DEF Inv, Dating, RowDates, JobsTyped, JobRecs
  <2> QED BY <2>1, <2>2 DEF SameDates, Dated
<1> QED BY <1>1, <1>2 DEF RowDates

\* A removal stays known while fences only rise, and is recorded when the fence is up.
LEMMA KnownStays ==
  ASSUME Inv, NEW c \in Slots, NEW ok \in BOOLEAN, Goes(c, ok),
         removed' \in [Nodes -> Gens], \A n \in Nodes : removed[n] <= removed'[n],
         ok /\ jobs[c].cmd = "cleanup" => jobs[c].gen <= removed'[jobs[c].node],
         NEW m \in Nodes, NEW g \in Nat, Known(m, g)
  PROVE  \/ g <= removed'[m]
         \/ g = target'[m].generation /\ ~target'[m].enabled /\ target'[m].cleanup_pending
<1>1. CASE g <= removed[m]
  <2>1. removed[m] \in Int /\ removed'[m] \in Int /\ removed[m] <= removed'[m]
    BY DEF Inv, StoreTyped, Gens, NoGen
  <2> QED BY <1>1, <2>1
<1>2. CASE g = target[m].generation /\ ~target[m].enabled /\ target[m].cleanup_pending
  <2>1. g = target'[m].generation /\ ~target'[m].enabled
    BY <1>2 DEF Goes, SameDates
  <2>2. CASE target'[m].cleanup_pending = target[m].cleanup_pending
    BY <1>2, <2>1, <2>2 DEF Known
  <2>3. CASE Recorded(c, ok, m)
    BY <1>2, <2>1, <2>3 DEF Recorded, Known
  <2> QED BY <2>2, <2>3 DEF Goes
<1> QED BY <1>1, <1>2 DEF Known

\* So what is to be cleaned up was removed.
LEMMA RemovingStays ==
  ASSUME Inv, NEW c \in Slots, NEW ok \in BOOLEAN, Goes(c, ok), JobsTyped',
         removed' \in [Nodes -> Gens], \A n \in Nodes : removed[n] <= removed'[n],
         ok /\ jobs[c].cmd = "cleanup" => jobs[c].gen <= removed'[jobs[c].node],
         \A j \in Slots : jobs'[j].cmd = "cleanup" =>
            \E i \in Slots : jobs[i].cmd = "cleanup" /\ jobs'[j].node = jobs[i].node /\ jobs'[j].gen = jobs[i].gen
  PROVE  Removing'
<1>1. ASSUME NEW j \in Slots, jobs'[j].cmd = "cleanup" PROVE Known(jobs[j].node, jobs[j].gen)'
  <2>1. PICK i \in Slots : jobs[i].cmd = "cleanup" /\ jobs'[j].node = jobs[i].node /\ jobs'[j].gen = jobs[i].gen
    BY <1>1
  <2>2. Known(jobs[i].node, jobs[i].gen) /\ jobs[i].node \in Nodes /\ jobs[i].gen \in Nat
    BY <2>1 DEF Inv, Removing, JobsTyped, JobRecs
  <2> QED BY <2>1, <2>2, KnownStays DEF Known
<1>2. ASSUME NEW d \in Clients, NEW r \in sweep'[d].todo PROVE Known(r.node, r.gen)'
  <2>1. r \in RemovalRecs
    BY <1>2 DEF Goes, ClientTyped, Sweeps
  <2>2. r.node \in Nodes /\ r.gen \in Nat
    BY <2>1 DEF RemovalRecs
  <2>3. Known(r.node, r.gen)
    BY <1>2 DEF Goes, Inv, Removing, Removals, Known
  <2> QED BY <2>2, <2>3, KnownStays DEF Known
<1>3. ASSUME NEW n \in Nodes, target'[n].enabled PROVE ~target'[n].cleanup_pending
  BY <1>3 DEF Goes, SameDates, Recorded, Inv, Removing
<1> QED BY <1>1, <1>2, <1>3 DEF Removing

\* When a command ends, only the datasets it changed need a look.
LEMMA EndsFrame ==
  ASSUME Inv, NEW j \in Slots, NEW ok \in BOOLEAN, Ends(j, ok), lock \in {Nobody, j},
         clock' = clock, retired' = retired,
         removed' \in [Nodes -> Gens], \A n \in Nodes : removed[n] <= removed'[n],
         ok /\ jobs[j].cmd = "cleanup" => jobs[j].gen <= removed'[jobs[j].node]
  PROVE  /\ ControlTyped' /\ JobsTyped' /\ Working' /\ RowDates' /\ Removing' /\ Locking' /\ Planned'
         /\ SameDates /\ lock' = Nobody
<1>1. JobsTyped' /\ lock' = Nobody
  BY DEF Ends, JobsTyped, Inv
<1>2. ControlTyped' /\ Working' /\ SameRows /\ ClientTyped' /\ SameDates
  BY DEF Ends, Goes, Inv, ControlTyped
<1>3. \A i \in Slots : jobs'[i].cmd \in {"send", "cleanup"} => jobs'[i] = jobs[i]
  BY DEF Ends, Left
<1>4. RowDates'
  BY <1>1, <1>2, <1>3, RowDatesStay
<1>5. Removing'
  BY <1>1, <1>3, RemovingStays DEF Ends
<1>6. Locking'
  BY <1>1 DEF Ends, Left, Locking, Locked, Inv
<1>7. Planned'
  BY <1>1 DEF Planned
<1> QED BY <1>1, <1>2, <1>4, <1>5, <1>6, <1>7

\* When the command that holds the lock goes on, only its local state and the datasets change.
LEMMA GoesOnFrame ==
  ASSUME Inv, NEW j \in Slots, lock = j, UNCHANGED <<control, lock, fences>>,
         jobs' \in [Slots -> JobRecs], \A i \in Slots : i # j => jobs'[i] = jobs[i],
         jobs'[j].cmd = "send", jobs'[j].node = jobs[j].node, jobs'[j].gen = jobs[j].gen,
         jobs'[j].step \in Locked
  PROVE  ControlTyped' /\ JobsTyped' /\ Working' /\ RowDates' /\ Removing' /\ Locking' /\ SameDates
<1>1. UNCHANGED <<clock, retired, target, tasks, worker, sweep, lock, removed, accepted>>
  BY DEF control, client, fences
<1>2. ControlTyped' /\ JobsTyped' /\ Working' /\ SameDates /\ SameRows
  BY <1>1 DEF Inv, ControlTyped, ClientTyped, JobsTyped, Working, Task, SameDates, SameRows
<1>3. jobs[j].cmd = "send"
  BY SlotFacts DEF Inv, Locking
<1>4. RowDates'
  BY <1>2, <1>3, RowDatesStay DEF ControlTyped
<1>5. Removing'
  BY <1>1, <1>3 DEF Inv, Removing, Known
<1>6. Locking'
  BY <1>1, SlotFacts DEF Inv, Locking, Locked
<1> QED BY <1>2, <1>4, <1>5, <1>6

\* When only requests and tasks change, the datasets need no look.
LEMMA StoreStays ==
  ASSUME Inv, UNCHANGED <<source, backup, synced>>
  PROVE  StoreTyped'
BY DEF Inv, StoreTyped, source, fences, backup, Guids, TokenRecs

\* Nothing is recorded as cleaned up that was not.
LEMMA NodesStay ==
  ASSUME Inv, SameDates, UNCHANGED <<source, backup, synced>>,
         \A n \in Nodes : ~target'[n].enabled /\ ~target'[n].cleanup_pending => ~target[n].cleanup_pending
  PROVE  StoreTyped' /\ (\A n \in Nodes : NodeDates(n)') /\ Holding'
<1>1. UNCHANGED <<nameOf, src, held, listed, removed, accepted, dst, token, synced>>
  BY DEF source, fences, backup
<1>2. \A n \in Nodes : NodeDates(n)'
  BY <1>1 DEF Inv, Dating, NodeDates, SameDates, Dated
<1>3. Holding'
  BY <1>1 DEF Inv, Holding, Held, SameDates
<1> QED BY <1>2, <1>3, StoreStays

\* The plan of a replication stays when its command and the datasets do.
LEMMA PlannedStays ==
  ASSUME Inv, UNCHANGED <<source, backup>>,
         lock' # Nobody => lock # Nobody /\ SameJob(jobs'[lock'], jobs[lock])
  PROVE  Planned'
<1>1. UNCHANGED <<nameOf, src, held, removed, accepted, dst, token>>
  BY DEF source, fences, backup
<1>2. SUFFICES ASSUME lock' # Nobody PROVE Planned'
  BY DEF Planned
<1>3. lock # Nobody /\ SameJob(jobs'[lock'], jobs[lock])
  BY <1>2
<1> QED BY <1>1, <1>2, <1>3 DEF Inv, Planned, SameJob, Under, Sent, Pairs, Stream, Requested,
           newestCommonSnapshot, Common

\* The rows that a request adds.
LEMMA EnqueueIs ==
  ASSUME Inv, NEW name \in Nat, NEW S \in SUBSET Nodes, EnqueueTask(name, S)
  PROVE  /\ tasks' \in Seq(TaskRows)
         /\ \A i \in DOMAIN tasks : i \in DOMAIN tasks' /\ tasks'[i] = tasks[i]
         /\ \A i \in DOMAIN tasks' : i \notin DOMAIN tasks =>
              /\ tasks'[i].state = "pending" /\ tasks'[i].attempts = 0 /\ tasks'[i].name = name
              /\ \/ tasks'[i].type = "create" /\ tasks'[i].node = SomeNode /\ tasks'[i].gen = 0
                 \/ /\ tasks'[i].type = "repl" /\ tasks'[i].node \in S
                    /\ tasks'[i].gen = target[tasks'[i].node].generation
<1> DEFINE f == [n \in Nodes |-> Row("repl", name, n, target[n], Len(tasks) + 1)]
           T == {f[n] : n \in S}
           q == SetToSeq(T)
           p == Append(tasks, CreateRow(name))
<1>1. tasks \in Seq(TaskRows) /\ target \in [Nodes -> TargetRows]
  BY DEF Inv, ControlTyped, ClientTyped
<1>2. f \in [Nodes -> TaskRows]
  BY <1>1, BackupAssumption DEF Row, TaskRows, TargetRows
<1>3. CreateRow(name) \in TaskRows
  BY RecordFacts, BackupAssumption DEF CreateRow, Row, TaskRows
<1>4. IsFiniteSet(T)
  BY <1>2, RowsFinite
<1>5. q \in Seq(T) /\ T \subseteq TaskRows
  BY <1>2, <1>4, SetToSeqIs
<1>6. tasks' = p \o q
  <2>1. T = {Row("repl", name, n, target[n], Len(tasks) + 1) : n \in S}
    OBVIOUS
  <2> QED BY <2>1 DEF EnqueueTask
<1>7. \A x \in T : /\ x.state = "pending" /\ x.attempts = 0 /\ x.name = name /\ x.type = "repl"
                   /\ x.node \in S /\ x.gen = target[x.node].generation
  <2> TAKE x \in T
  <2>1. PICK n \in S : x = f[n]
    OBVIOUS
  <2>2. /\ f[n].state = "pending" /\ f[n].attempts = 0 /\ f[n].name = name
        /\ f[n].type = "repl" /\ f[n].node = n /\ f[n].gen = target[n].generation
    BY DEF Row
  <2> QED BY <2>1, <2>2, Zenon
<1>8. /\ CreateRow(name).state = "pending" /\ CreateRow(name).attempts = 0
      /\ CreateRow(name).name = name /\ CreateRow(name).type = "create"
      /\ CreateRow(name).node = SomeNode /\ CreateRow(name).gen = 0
  BY DEF CreateRow, Row
<1> HIDE DEF f, T, q
<1>9. p \in Seq(TaskRows) /\ Len(p) = Len(tasks) + 1 /\ p[Len(tasks) + 1] = CreateRow(name)
      /\ \A i \in 1 .. Len(tasks) : p[i] = tasks[i]
  BY <1>1, <1>3
<1> HIDE DEF p
<1>10. q \in Seq(TaskRows) /\ \A i \in 1 .. Len(q) : q[i] \in T
  BY <1>5
<1>11. /\ p \o q \in Seq(TaskRows) /\ Len(p \o q) = Len(p) + Len(q)
       /\ \A i \in 1 .. Len(p) : (p \o q)[i] = p[i]
       /\ \A i \in Len(p) + 1 .. Len(p) + Len(q) : (p \o q)[i] = q[i - Len(p)] /\ i - Len(p) \in 1 .. Len(q)
  BY <1>9, <1>10
<1>12. /\ DOMAIN tasks = 1 .. Len(tasks) /\ DOMAIN tasks' = 1 .. Len(tasks')
       /\ Len(tasks) \in Nat /\ Len(q) \in Nat
  BY <1>1, <1>6, <1>10, <1>11
<1>13. ASSUME NEW i \in DOMAIN tasks PROVE i \in DOMAIN tasks' /\ tasks'[i] = tasks[i]
  BY <1>6, <1>9, <1>11, <1>12, <1>13
<1>14. ASSUME NEW i \in DOMAIN tasks', i \notin DOMAIN tasks
       PROVE  tasks'[i] = CreateRow(name) \/ tasks'[i] \in T
  <2>1. i = Len(tasks) + 1 \/ i \in Len(p) + 1 .. Len(p) + Len(q)
    BY <1>6, <1>9, <1>11, <1>12, <1>14
  <2> QED BY <1>6, <1>9, <1>10, <1>11, <1>12, <2>1
<1> QED BY <1>6, <1>7, <1>8, <1>11, <1>13, <1>14

\* A request for a snapshot and its replications only adds rows.
LEMMA EnqueueKeeps ==
  ASSUME Inv, NEW S \in SUBSET {n \in Nodes : target[n].enabled}, clock' \in Nat, EnqueueTask(clock', S),
         UNCHANGED <<target, retired, worker, sweep, jobs, lock, source, backup, synced>>
  PROVE  Inv'
<1>1. /\ tasks' \in Seq(TaskRows)
      /\ \A i \in DOMAIN tasks : i \in DOMAIN tasks' /\ tasks'[i] = tasks[i]
  BY EnqueueIs
<1>2. \A i \in DOMAIN tasks' : i \notin DOMAIN tasks =>
        /\ tasks'[i].state = "pending" /\ tasks'[i].attempts = 0
        /\ \/ tasks'[i].node = SomeNode /\ tasks'[i].gen = 0
           \/ tasks'[i].node \in S /\ tasks'[i].gen = target[tasks'[i].node].generation
  BY EnqueueIs
<1>3. ControlTyped' /\ JobsTyped' /\ Locking'
  BY <1>1 DEF Inv, ControlTyped, ClientTyped, JobsTyped, Locking
<1>4. Working'
  BY <1>1, <1>2, BackupAssumption DEF Inv, Working, Task
<1>5. RowDates'
  <2>1. ASSUME NEW i \in DOMAIN tasks' PROVE Dated(tasks[i].node, tasks[i].gen)'
    <3>1. CASE i \in DOMAIN tasks
      BY <1>1, <3>1 DEF Inv, Dating, RowDates, Dated
    <3>2. CASE i \notin DOMAIN tasks
      <4>1. CASE tasks'[i].node = SomeNode /\ tasks'[i].gen = 0
        BY <4>1, RecordFacts DEF Inv, Dating, NodeDates, Dated
      <4>2. CASE tasks'[i].node \in S /\ tasks'[i].gen = target[tasks'[i].node].generation
        <5>1. /\ target[tasks'[i].node].enabled /\ target'[tasks'[i].node].enabled
              /\ target'[tasks'[i].node].generation = tasks'[i].gen /\ tasks'[i].gen \in Nat
          BY <4>2 DEF Inv, ControlTyped, ClientTyped, TargetRows
        <5> QED BY <5>1 DEF Dated
      <4> QED BY <1>2, <3>2, <4>1, <4>2
    <3> QED BY <3>1, <3>2
  <2> QED BY <2>1 DEF Inv, Dating, RowDates, Dated
<1>6. Removing'
  BY DEF Inv, Removing, Known, source, fences
<1>7. StoreTyped' /\ (\A n \in Nodes : NodeDates(n)') /\ Holding'
  BY NodesStay DEF SameDates
<1>8. Planned'
  BY PlannedStays DEF SameJob
<1> QED BY <1>3, <1>4, <1>5, <1>6, <1>7, <1>8 DEF Inv, Dating

\* The scheduler adds rows under the name of a new tick.
LEMMA ScheduleKeeps == Inv /\ scheduleTick => Inv'
<1> SUFFICES ASSUME Inv, scheduleTick PROVE Inv'
  OBVIOUS
<1>1. PICK S \in SUBSET {n \in Nodes : target[n].enabled} : EnqueueTask(clock', S)
  BY DEF scheduleTick
<1>2. clock' \in Nat
  BY DEF scheduleTick, Inv, ControlTyped
<1> QED BY <1>1, <1>2, EnqueueKeeps DEF scheduleTick

\* The trigger adds rows under the name of the present one.
LEMMA TriggerKeeps == Inv /\ handleTriggerReplication => Inv'
<1> SUFFICES ASSUME Inv, handleTriggerReplication PROVE Inv'
  OBVIOUS
<1>1. PICK S \in SUBSET {n \in Nodes : target[n].enabled} : EnqueueTask(clock, S)
  BY DEF handleTriggerReplication
<1>2. clock' = clock /\ clock' \in Nat
  BY DEF handleTriggerReplication, Inv, ControlTyped
<1>3. EnqueueTask(clock', S)
  BY <1>1, <1>2
<1> QED BY <1>2, <1>3, EnqueueKeeps DEF handleTriggerReplication

\* A target is put, possibly after a removal that was cleaned up.
Opened(n) ==
  /\ ~target[n].cleanup_pending /\ target'[n].enabled /\ ~target'[n].cleanup_pending
  /\ \/ target'[n].generation = target[n].generation + 1
     \/ target[n].enabled /\ target'[n].generation = target[n].generation

\* A target is removed.
Closed(n) ==
  /\ target[n].enabled /\ ~target'[n].enabled /\ target'[n].cleanup_pending
  /\ target'[n].generation = target[n].generation + 1

\* Numbers of generations compare.
LEMMA GenFacts ==
  ASSUME Inv, NEW n \in Nodes
  PROVE  /\ removed[n] \in Int /\ accepted[n] \in Int /\ synced[n] \in Int /\ token[n].gen \in Nat
         /\ target[n].generation \in Nat /\ target[n].enabled \in BOOLEAN
         /\ target[n].cleanup_pending \in BOOLEAN
BY DEF Inv, ControlTyped, ClientTyped, StoreTyped, Gens, NoGen, TargetRows, TokenRecs

\* Either way no date is given out twice, and what a removal left behind is gone.
LEMMA TargetsKeep ==
  ASSUME Inv, target' \in [Nodes -> TargetRows], retired' \subseteq Nodes,
         \A n \in Nodes : target'[n] = target[n] \/ Opened(n) \/ Closed(n),
         UNCHANGED <<clock, tasks, worker, sweep, jobs, lock, source, backup, synced>>
  PROVE  Inv'
<1> USE GenFacts
<1>1. UNCHANGED <<nameOf, src, held, listed, removed, accepted, dst, token, synced>>
  BY DEF source, fences, backup
<1>2. ControlTyped' /\ JobsTyped' /\ Locking' /\ Working'
  BY DEF Inv, ControlTyped, ClientTyped, JobsTyped, Locking, Working, Task
<1>3. ASSUME NEW n \in Nodes, NEW g \in Int, Dated(n, g)
      PROVE  g <= target'[n].generation /\ (g = target'[n].generation => target'[n].enabled)
  BY <1>3 DEF Dated, Opened, Closed
<1>4. RowDates'
  <2>1. \A i \in DOMAIN tasks : tasks[i].node \in Nodes /\ tasks[i].gen \in Int
    <3> TAKE i \in DOMAIN tasks
    <3>1. tasks[i] \in TaskRows
      BY DEF Inv, ControlTyped, ClientTyped
    <3> QED BY <3>1 DEF TaskRows
  <2>2. \A j \in Slots : jobs[j].node \in Nodes /\ jobs[j].gen \in Int
    BY DEF Inv, JobsTyped, JobRecs
  <2> QED BY <1>3, <2>1, <2>2 DEF Inv, Dating, RowDates, Dated
<1>5. ASSUME NEW n \in Nodes PROVE NodeDates(n)'
  <2>1. NodeDates(n)
    BY DEF Inv, Dating
  <2>2. Dated(n, 0)' /\ Dated(n, accepted[n])'
    BY <1>1, <1>3, <2>1 DEF NodeDates, Dated
  <2>3. target'[n].generation >= 1
    BY <2>1 DEF NodeDates, Opened, Closed
  <2>4. /\ removed[n] <= target'[n].generation
        /\ (removed[n] = target'[n].generation => ~target'[n].enabled)
    BY <2>1 DEF NodeDates, Opened, Closed
  <2> QED BY <1>1, <2>1, <2>2, <2>3, <2>4 DEF NodeDates
<1>6. Removing'
  <2>1. ASSUME NEW n \in Nodes, NEW g \in Nat, Known(n, g)
        PROVE  g <= removed'[n] \/ (g = target'[n].generation /\ ~target'[n].enabled /\ target'[n].cleanup_pending)
    BY <1>1, <2>1 DEF Known, Opened, Closed
  <2>2. \A j \in Slots : jobs[j].node \in Nodes /\ jobs[j].gen \in Nat
    BY DEF Inv, JobsTyped, JobRecs
  <2>3. \A c \in Clients : \A r \in sweep[c].todo : r.node \in Nodes /\ r.gen \in Nat
    BY DEF Inv, ControlTyped, ClientTyped, Sweeps, RemovalRecs
  <2>4. \A n \in Nodes : target'[n].enabled => ~target'[n].cleanup_pending
    BY DEF Opened, Closed, Inv, Removing
  <2> QED BY <2>1, <2>2, <2>3, <2>4 DEF Inv, Removing, Known
<1>7. Holding'
  <2> SUFFICES ASSUME NEW n \in Nodes PROVE Held(n)'
    BY DEF Holding
  <2>1. Held(n) /\ NodeDates(n)
    BY DEF Inv, Holding, Dating
  <2>2. ~target'[n].enabled /\ ~target'[n].cleanup_pending => target'[n] = target[n]
    BY DEF Opened, Closed
  <2>3. accepted[n] <= removed[n] /\ removed[n] < target'[n].generation => held[n] = {}
    BY <2>1 DEF Held, NodeDates, Opened, Closed
  <2> QED BY <1>1, <2>1, <2>2, <2>3 DEF Held
<1>8. Planned'
  BY PlannedStays DEF SameJob
<1> QED BY <1>2, <1>4, <1>5, <1>6, <1>7, <1>8, StoreStays DEF Inv, Dating

\* Put, with another schedule or after a removal.
LEMMA PutKeeps ==
  ASSUME Inv, NEW n \in Nodes, NEW changed \in BOOLEAN, PutBackupTarget(n, changed)
  PROVE  Inv' /\ Opened(n) /\ (\A m \in Nodes : m # n => target'[m] = target[m])
<1>1. target \in [Nodes -> TargetRows]
  BY DEF Inv, ControlTyped, ClientTyped
<1>2. /\ target' = [target EXCEPT ![n].enabled = TRUE, ![n].revision = @ + 1,
                     ![n].generation = IF changed \/ ~target[n].enabled THEN @ + 1 ELSE @]
      /\ ~target[n].cleanup_pending
  BY DEF PutBackupTarget
<1>3. target' \in [Nodes -> TargetRows] /\ \A m \in Nodes : m # n => target'[m] = target[m]
  BY <1>1, <1>2 DEF TargetRows
<1>4. /\ target'[n].enabled /\ target'[n].cleanup_pending = target[n].cleanup_pending
      /\ \/ target'[n].generation = target[n].generation + 1
         \/ target[n].enabled /\ target'[n].generation = target[n].generation
  BY <1>1, <1>2 DEF TargetRows
<1>5. Opened(n)
  BY <1>2, <1>4 DEF Opened
<1>6. retired' \subseteq Nodes
  BY DEF PutBackupTarget, Inv, ControlTyped
<1> QED BY <1>3, <1>5, <1>6, TargetsKeep DEF PutBackupTarget

\* What a removal makes of a row.
LEMMA DisabledIs ==
  ASSUME NEW row \in TargetRows
  PROVE  /\ Disabled(row) \in TargetRows /\ ~Disabled(row).enabled /\ Disabled(row).cleanup_pending
         /\ Disabled(row).generation = row.generation + 1
<1> DEFINE g == row.generation + 1
<1>1. Disabled(row) = [row EXCEPT !.enabled = FALSE, !.cleanup_pending = TRUE, !.generation = g]
  BY DEF Disabled
<1>2. g \in Nat
  BY DEF TargetRows
<1> HIDE DEF g
<1>3. Disabled(row) \in TargetRows
  BY <1>1, <1>2 DEF TargetRows
<1>4. /\ Disabled(row).enabled = FALSE /\ Disabled(row).cleanup_pending = TRUE
      /\ Disabled(row).generation = g
  BY <1>1 DEF TargetRows
<1> QED BY <1>3, <1>4 DEF g

\* Removed by a request.
LEMMA RemoveKeeps ==
  ASSUME Inv, NEW n \in Nodes, RemoveBackupTarget(n)
  PROVE  Inv' /\ \A m \in Nodes : target'[m] = target[m] \/ Closed(m)
<1> DEFINE row == Disabled(target[n])
<1>1. target \in [Nodes -> TargetRows] /\ target[n] \in TargetRows
  BY DEF Inv, ControlTyped, ClientTyped
<1>2. target' = [target EXCEPT ![n] = row, ![n].revision = @ + 1] /\ target[n].enabled
  BY DEF RemoveBackupTarget
<1>3. /\ row \in TargetRows /\ ~row.enabled /\ row.cleanup_pending
      /\ row.generation = target[n].generation + 1
  BY <1>1, DisabledIs
<1> HIDE DEF row
<1>4. target' \in [Nodes -> TargetRows] /\ \A m \in Nodes : target'[m] = target[m] \/ Closed(m)
  BY <1>1, <1>2, <1>3 DEF TargetRows, Closed
<1>5. retired' \subseteq Nodes
  BY DEF RemoveBackupTarget, Inv, ControlTyped
<1> QED BY <1>4, <1>5, TargetsKeep DEF RemoveBackupTarget

\* Removed with the membership of its node.
LEMMA DisableKeeps ==
  ASSUME Inv, NEW n \in Nodes, DisableBackupNode(n)
  PROVE  Inv' /\ \A m \in Nodes : target'[m] = target[m] \/ Closed(m)
<1> DEFINE row == IF target[n].enabled THEN Disabled(target[n]) ELSE target[n]
<1>1. target \in [Nodes -> TargetRows] /\ target[n] \in TargetRows
  BY DEF Inv, ControlTyped, ClientTyped
<1>2. target' = [target EXCEPT ![n] = row] 
  BY DEF DisableBackupNode
<1>3. /\ row \in TargetRows
      /\ \/ row = target[n]
         \/ target[n].enabled /\ ~row.enabled /\ row.cleanup_pending /\ row.generation = target[n].generation + 1
  BY <1>1, DisabledIs
<1> HIDE DEF row
<1>4. target' \in [Nodes -> TargetRows] /\ \A m \in Nodes : target'[m] = target[m] \/ Closed(m)
  BY <1>1, <1>2, <1>3 DEF Closed
<1>5. retired' \subseteq Nodes
  BY DEF DisableBackupNode, Inv, ControlTyped
<1> QED BY <1>4, <1>5, TargetsKeep DEF DisableBackupNode

\* The control process changes its tasks and sweeps, and hostd does nothing.
LEMMA ClientKeeps ==
  ASSUME Inv, ClientTyped', Working', SameRows,
         \A d \in Clients : \A r \in sweep'[d].todo : r \in sweep[d].todo \/ r \in Removals,
         UNCHANGED <<clock, target, retired, jobs, lock, source, backup, synced>>
  PROVE  Inv' /\ Calm
<1>1. ControlTyped' /\ JobsTyped' /\ Locking' /\ SameDates
  BY DEF Inv, ControlTyped, JobsTyped, Locking, SameDates
<1>2. RowDates'
  BY <1>1, RowDatesStay
<1>3. Removing'
  <2>1. ASSUME NEW d \in Clients, NEW r \in sweep'[d].todo PROVE Known(r.node, r.gen)
    BY <2>1 DEF Inv, Removing, Removals, Known
  <2> QED BY <2>1 DEF Inv, Removing, Known, source, fences
<1>4. StoreTyped' /\ (\A n \in Nodes : NodeDates(n)') /\ Holding'
  BY <1>1, NodesStay
<1>5. Planned'
  BY PlannedStays DEF SameJob
<1>6. Calm
  BY <1>1 DEF Calm, Stems, SameJob
<1> QED BY <1>1, <1>2, <1>3, <1>4, <1>5, <1>6 DEF Inv, Dating

\* A goroutine sends a command to hostd.
LEMMA StartKeeps ==
  ASSUME Inv, NEW new \in JobRecs, jobs[Worker] = NoJob, jobs' = [jobs EXCEPT ![Worker] = new],
         new.step = "wait", new.cmd # "cleanup", new.cmd = "send" => Dated(new.node, new.gen), Stems(new),
         ClientTyped', Working', SameRows,
         UNCHANGED <<clock, target, retired, sweep, lock, source, backup, synced>>
  PROVE  Inv' /\ Calm
<1>1. /\ jobs' \in [Slots -> JobRecs] /\ jobs'[Worker] = new
      /\ \A i \in Slots : i # Worker => jobs'[i] = jobs[i]
  BY SlotFacts DEF Inv, JobsTyped
<1>2. ControlTyped' /\ JobsTyped' /\ SameDates
  BY <1>1 DEF Inv, ControlTyped, JobsTyped, SameDates
<1>3. lock # Worker
  BY SlotFacts, RecordFacts DEF Inv, Locking, Locked, Nobody, Worker
<1>4. Locking'
  BY <1>1, <1>3, SlotFacts DEF Inv, Locking, Locked, JobsTyped
<1>5. RowDates'
  <2>1. ASSUME NEW i \in DOMAIN tasks' PROVE Dated(tasks[i].node, tasks[i].gen)'
    BY <2>1 DEF Inv, Dating, RowDates, Dated, SameRows
  <2>2. ASSUME NEW j \in Slots, jobs'[j].cmd = "send" PROVE Dated(jobs[j].node, jobs[j].gen)'
    BY <1>1, <2>2 DEF Inv, Dating, RowDates, Dated
  <2> QED BY <2>1, <2>2 DEF RowDates
<1>6. Removing'
  BY <1>1 DEF Inv, Removing, Known, source, fences
<1>7. StoreTyped' /\ (\A n \in Nodes : NodeDates(n)') /\ Holding'
  BY <1>2, NodesStay
<1>8. Planned'
  BY <1>1, <1>3, PlannedStays DEF SameJob, Inv, JobsTyped
<1>9. Calm
  BY <1>1, <1>2, <1>3 DEF Calm, Stems, SameJob, Inv, JobsTyped
<1> QED BY <1>2, <1>4, <1>5, <1>6, <1>7, <1>8, <1>9 DEF Inv, Dating

\* The worker takes a row.
LEMMA RunningIs ==
  ASSUME Inv, NEW i \in DOMAIN tasks, poll(i), NEW step \in {"creating", "checked"}, Running(i, step),
         step = "checked" => tasks[i].type = "repl", UNCHANGED <<target, sweep>>
  PROVE  ClientTyped' /\ Working' /\ SameRows
<1> DEFINE row == [tasks[i] EXCEPT !.state = "running"]
<1>1. ClientTyped /\ Working
  BY DEF Inv, ControlTyped
<1>2. tasks[i] \in TaskRows /\ tasks[i].attempts < MaxAttempts /\ i \in Nat
  BY <1>1 DEF ClientTyped, Working, poll
<1>3. /\ row \in TaskRows /\ row.state = "running" /\ row.attempts < MaxAttempts
      /\ row.type = tasks[i].type /\ row.name = tasks[i].name
      /\ row.node = tasks[i].node /\ row.gen = tasks[i].gen
  BY <1>2 DEF TaskRows
<1>4. tasks' = [tasks EXCEPT ![i] = row] /\ worker' = [task |-> i, step |-> step]
  BY DEF Running
<1> HIDE DEF row
<1>5. /\ tasks' \in Seq(TaskRows) /\ SameRows /\ tasks'[i] = row
      /\ \A k \in DOMAIN tasks' : tasks'[k].state \in {"pending", "running"} => tasks'[k].attempts < MaxAttempts
  BY <1>1, <1>3, <1>4, RowPut
<1>6. ClientTyped'
  BY <1>1, <1>2, <1>4, <1>5 DEF ClientTyped
<1>7. Working'
  BY <1>3, <1>4, <1>5 DEF Working, Task, SameRows
<1> QED BY <1>5, <1>6, <1>7

\* snapshot.create.
LEMMA CreateKeeps ==
  ASSUME Inv, NEW i \in DOMAIN tasks, handleSnapshotCreate(i)
  PROVE  Inv' /\ Calm
<1> DEFINE new == Job("create", SomeNode, tasks[i].name, 0)
<1>1. tasks[i] \in TaskRows
  BY DEF Inv, ControlTyped, ClientTyped
<1>2. new \in JobRecs /\ new.step = "wait" /\ new.cmd = "create" /\ new.name = tasks[i].name
  BY <1>1, RecordFacts DEF Job, JobRecs, TaskRows
<1>3. jobs[Worker] = NoJob /\ jobs' = [jobs EXCEPT ![Worker] = new]
  BY DEF handleSnapshotCreate, Execute
<1>4. /\ poll(i) /\ Running(i, "creating")
      /\ UNCHANGED <<clock, target, retired, sweep, lock, source, backup, synced>>
  BY DEF handleSnapshotCreate
<1> HIDE DEF new
<1>5. ClientTyped' /\ Working' /\ SameRows /\ Stems(new)
  BY <1>2, <1>4, RunningIs DEF Stems
<1> QED BY <1>2, <1>3, <1>4, <1>5, StartKeeps

\* repl.trigger, up to the call.
LEMMA TriggeredKeeps ==
  ASSUME Inv, NEW i \in DOMAIN tasks, handleReplTrigger(i)
  PROVE  Inv' /\ Calm
<1>1. /\ poll(i) /\ tasks[i].type = "repl"
      /\ UNCHANGED <<clock, target, retired, sweep, jobs, lock, source, backup, synced>>
  BY DEF handleReplTrigger
<1>2. CASE Running(i, "checked")
  BY <1>1, <1>2, RunningIs, ClientKeeps
<1>3. CASE \E ok \in BOOLEAN : tasks' = [tasks EXCEPT ![i] = Ended(tasks[i], ok)] /\ UNCHANGED worker
  <2>1. PICK ok \in BOOLEAN : tasks' = [tasks EXCEPT ![i] = Ended(tasks[i], ok)] /\ UNCHANGED worker
    BY <1>3
  <2>2. ClientTyped /\ Working
    BY DEF Inv, ControlTyped
  <2>3. tasks[i] \in TaskRows /\ tasks[i].attempts < MaxAttempts
    BY <1>1, <2>2 DEF ClientTyped, Working, poll
  <2>4. /\ tasks' \in Seq(TaskRows) /\ SameRows
        /\ \A k \in DOMAIN tasks' : tasks'[k].state \in {"pending", "running"} => tasks'[k].attempts < MaxAttempts
    BY <2>1, <2>2, <2>3, EndedIs, RowPut
  <2>5. ClientTyped' /\ Working'
    BY <1>1, <2>1, <2>2, <2>4, RecordFacts DEF ClientTyped, Working, poll
  <2> QED BY <1>1, <2>1, <2>4, <2>5, ClientKeeps
<1>4. backupActive(tasks[i]) \in BOOLEAN
  BY DEF backupActive
<1> QED BY <1>2, <1>3, <1>4 DEF handleReplTrigger

\* The call of repl.trigger.
LEMMA SendKeeps == Inv /\ SendReplication => Inv' /\ Calm
<1> SUFFICES ASSUME Inv, SendReplication PROVE Inv' /\ Calm
  OBVIOUS
<1> DEFINE new == Job("send", Task.node, Task.name, Task.gen)
<1>1. worker.step = "checked" /\ worker' = [worker EXCEPT !.step = "sending"]
      /\ UNCHANGED <<clock, target, retired, tasks, sweep, lock, source, backup, synced>>
  BY DEF SendReplication
<1>2. worker.task \in DOMAIN tasks
  BY <1>1 DEF Inv, Working
<1>3. Task \in TaskRows /\ Dated(Task.node, Task.gen)
  BY <1>2 DEF Inv, ControlTyped, ClientTyped, Dating, RowDates, Task
<1>4. /\ new \in JobRecs /\ new.step = "wait" /\ new.cmd = "send"
      /\ new.node = Task.node /\ new.gen = Task.gen /\ new.name = Task.name
  BY <1>3 DEF Job, JobRecs, TaskRows
<1>5. jobs[Worker] = NoJob /\ jobs' = [jobs EXCEPT ![Worker] = new]
  BY DEF SendReplication, Execute
<1> HIDE DEF new
<1>6. ClientTyped' /\ Working' /\ SameRows
  BY <1>1 DEF Inv, ControlTyped, ClientTyped, Working, Task, SameRows
<1>7. Stems(new)
  BY <1>1, <1>2, <1>4 DEF Stems, Inv, Working, Task
<1> QED BY <1>1, <1>3, <1>4, <1>5, <1>6, <1>7, StartKeeps

\* A sweep ends, or begins.
LEMMA SweptKeeps == Inv /\ (WorkerSwept \/ cleanupBackups) => Inv' /\ Calm
<1>1. ASSUME Inv, WorkerSwept PROVE Inv' /\ Calm
  <2>1. worker.step = "sweeping" /\ UNCHANGED <<clock, target, retired, jobs, lock, source, backup, synced>>
        /\ sweep' = [sweep EXCEPT ![Worker] = Swept]
    BY <1>1 DEF WorkerSwept
  <2>2. \E ok \in BOOLEAN : Finish(ok)
    BY <1>1 DEF WorkerSwept
  <2>3. /\ tasks' \in Seq(TaskRows) /\ SameRows /\ Working'
        /\ worker' \in [task : Nat, step : {"idle", "creating", "pruning", "checked", "sending", "sweeping"}]
    BY <1>1, <2>1, <2>2, FinishIs DEF Inv, ControlTyped
  <2>4. /\ sweep' \in [Clients -> Sweeps]
        /\ \A d \in Clients : \A r \in sweep'[d].todo : r \in sweep[d].todo
    BY <1>1, <2>1, RecordFacts DEF Inv, ControlTyped, ClientTyped
  <2>5. ClientTyped'
    BY <1>1, <2>1, <2>3, <2>4 DEF Inv, ControlTyped, ClientTyped
  <2> QED BY <1>1, <2>1, <2>3, <2>4, <2>5, ClientKeeps
<1>2. ASSUME Inv, cleanupBackups PROVE Inv' /\ Calm
  <2>1. UNCHANGED <<clock, target, retired, tasks, worker, jobs, lock, source, backup, synced>>
        /\ sweep' = [sweep EXCEPT ![Cleaner] = [todo |-> Removals, bad |-> FALSE]]
    BY <1>2 DEF cleanupBackups
  <2>2. Removals \subseteq RemovalRecs
    BY <1>2 DEF Inv, ControlTyped, Removals, RemovalRecs, ClientTyped, TargetRows
  <2>3. /\ sweep' \in [Clients -> Sweeps]
        /\ \A d \in Clients : \A r \in sweep'[d].todo : r \in sweep[d].todo \/ r \in Removals
    BY <1>2, <2>1, <2>2, SlotFacts DEF Inv, ControlTyped, ClientTyped, Sweeps
  <2>4. ClientTyped' /\ Working' /\ SameRows
    BY <1>2, <2>1, <2>3 DEF Inv, ControlTyped, ClientTyped, Working, Task, SameRows
  <2> QED BY <1>2, <2>1, <2>3, <2>4, ClientKeeps
<1> QED BY <1>1, <1>2

\* A cleanup arrives and cancels older replications.
LEMMA CleanupArrivesKeeps ==
  ASSUME Inv, NEW c \in Clients, cleanupBackupTarget(c)
  PROVE  Inv' /\ Calm
<1>1. jobs[c] = NoJob /\ UNCHANGED <<control, lock, source, backup, synced>>
  BY DEF cleanupBackupTarget
<1>2. PICK r \in sweep[c].todo :
        jobs' = [j \in Slots |-> IF j = c THEN Job("cleanup", r.node, 0, r.gen)
                                 ELSE [jobs[j] EXCEPT !.cancelled = @ \/ cancelBackups(j, r)]]
  BY DEF cleanupBackupTarget
<1>3. r.node \in Nodes /\ r.gen \in Nat /\ Known(r.node, r.gen)
  BY DEF Inv, ControlTyped, ClientTyped, Sweeps, RemovalRecs, Removing
<1>4. c \in Slots /\ lock # c
  BY <1>1, SlotFacts, RecordFacts DEF Inv, Locking, Locked
<1>5. \A j \in Slots : j # c =>
        /\ jobs'[j] \in JobRecs /\ jobs'[j].cmd = jobs[j].cmd /\ SameJob(jobs'[j], jobs[j])
  <2> TAKE j \in Slots
  <2> HAVE j # c
  <2>1. jobs'[j] = [jobs[j] EXCEPT !.cancelled = jobs[j].cancelled \/ cancelBackups(j, r)]
    BY <1>2
  <2>2. (jobs[j].cancelled \/ cancelBackups(j, r)) \in BOOLEAN /\ jobs[j] \in JobRecs
    BY DEF Inv, JobsTyped, JobRecs, cancelBackups
  <2> QED BY <2>1, <2>2 DEF JobRecs, SameJob
<1>6. jobs'[c] = Job("cleanup", r.node, 0, r.gen)
  BY <1>2, <1>4
<1>7. jobs'[c] \in JobRecs /\ jobs'[c].cmd = "cleanup" /\ jobs'[c].step = "wait"
      /\ jobs'[c].node = r.node /\ jobs'[c].gen = r.gen /\ jobs'[c].name = 0
  BY <1>3, <1>6 DEF Job, JobRecs
<1>8. jobs' \in [Slots -> JobRecs]
  <2>1. DOMAIN jobs' = Slots /\ jobs' = [j \in Slots |-> jobs'[j]]
    BY <1>2
  <2>2. \A j \in Slots : jobs'[j] \in JobRecs
    BY <1>5, <1>7
  <2> QED BY <2>1, <2>2
<1>9. /\ UNCHANGED <<clock, retired, target, tasks, worker, sweep, lock>>
      /\ ControlTyped' /\ JobsTyped' /\ Working' /\ SameDates /\ SameRows
  BY <1>1, <1>8
     DEF Inv, control, client, ControlTyped, ClientTyped, JobsTyped, Working, Task, SameDates,
         SameRows
<1>10. Locking'
  BY <1>4, <1>5, <1>7, <1>9, SlotFacts DEF Inv, Locking, Locked, SameJob, JobsTyped
<1>11. RowDates'
  <2>1. \A j \in Slots : jobs'[j].cmd = "send" =>
           jobs[j].cmd = "send" /\ jobs'[j].node = jobs[j].node /\ jobs'[j].gen = jobs[j].gen
    BY <1>5, <1>7 DEF SameJob
  <2> QED BY <1>9, <2>1, RowDatesStay DEF ControlTyped
<1>12. Removing'
  <2>1. ASSUME NEW j \in Slots, jobs'[j].cmd = "cleanup" PROVE Known(jobs'[j].node, jobs'[j].gen)
    BY <1>3, <1>5, <1>7, <2>1 DEF SameJob, Inv, Removing
  <2>2. UNCHANGED removed
    BY <1>1 DEF source, fences
  <2> QED BY <1>9, <2>1, <2>2 DEF Inv, Removing, Known
<1>13. StoreTyped' /\ (\A n \in Nodes : NodeDates(n)') /\ Holding'
  BY <1>1, <1>9, NodesStay
<1>14. Planned'
  BY <1>1, <1>4, <1>5, <1>9, PlannedStays DEF Inv, JobsTyped
<1>15. Calm
  <2>1. \A j \in Slots : Stems(jobs'[j])
    BY <1>5, <1>7 DEF Stems, SameJob
  <2> QED BY <1>1, <1>4, <1>5, <1>9, <2>1 DEF Calm, Inv, JobsTyped
<1> QED BY <1>9, <1>10, <1>11, <1>12, <1>13, <1>14, <1>15 DEF Inv, Dating

\* Where the commands of clients that gave up are.
LEMMA MovedIs ==
  ASSUME Inv, NEW C \in SUBSET Clients, NEW f \in Placed(C)
  PROVE  /\ Moved(C, f) \in [Slots -> JobRecs]
         /\ \A i \in Slots : \/ i \in C /\ Moved(C, f)[i] = NoJob
                             \/ i \notin C /\ Moved(C, f)[i] = jobs[i] /\ (\A c \in C : f[c] # i)
                             \/ \E c \in C : f[c] = i /\ Moved(C, f)[i] = jobs[c]
         /\ \A c \in C : f[c] \in Orphans /\ f[c] \in Slots /\ jobs[f[c]] = NoJob /\ Moved(C, f)[f[c]] = jobs[c]
         /\ \A c, d \in C : f[c] = f[d] => c = d
<1> DEFINE M == Moved(C, f)
<1>1. /\ f \in [C -> Orphans] /\ (\A c, d \in C : f[c] = f[d] => c = d)
      /\ \A c \in C : jobs[f[c]] = NoJob
  BY DEF Placed, IsInjective
<1>2. \A i \in Slots : i \in Range(f) <=> \E c \in C : f[c] = i
  BY <1>1 DEF Range
<1>3. \A c \in C : f[c] \in Orphans /\ f[c] \in Slots /\ f[c] \notin C
  BY <1>1, SlotFacts
<1>4. \A c \in C : (CHOOSE d \in C : f[d] = f[c]) = c
  BY <1>1
<1>5. \A c \in C : M[f[c]] = jobs[c]
  BY <1>2, <1>3, <1>4 DEF Moved
<1>6. \A i \in Slots : i \in C => M[i] = NoJob
  BY DEF Moved
<1>7. \A i \in Slots : i \notin C /\ (\A c \in C : f[c] # i) => M[i] = jobs[i]
  BY <1>2 DEF Moved
<1>8. \A i \in Slots : M[i] \in JobRecs
  BY <1>5, <1>6, <1>7, RecordFacts, SlotFacts DEF Inv, JobsTyped
<1>9. M \in [Slots -> JobRecs]
  <2>1. M = [i \in Slots |-> M[i]]
    BY DEF Moved
  <2> QED BY <1>8, <2>1
<1> QED BY <1>1, <1>3, <1>5, <1>6, <1>7, <1>9

\* They keep the lock and their plan; their clients' places are free.
LEMMA MovedKeeps ==
  ASSUME Inv, NEW C \in SUBSET Clients, NEW f \in Placed(C), KeepsLock(C, f),
         jobs' \in [Slots -> JobRecs], lock \in Clients => lock \in C \/ jobs'[lock] = jobs[lock],
         \A i \in Slots : jobs'[i] = Moved(C, f)[i] \/ (i \in Clients /\ Left(jobs'[i])),
         UNCHANGED <<source, backup>>
  PROVE  /\ JobsTyped' /\ Locking' /\ Planned'
         /\ lock' # Nobody => lock # Nobody /\ jobs'[lock'] = jobs[lock]
         /\ \A i \in Slots : Stems(jobs'[i])
         /\ \A i \in Slots : jobs'[i].cmd \in {"send", "cleanup"} => \E k \in Slots : jobs'[i] = jobs[k]
<1> DEFINE M == Moved(C, f)
<1>1. lock' = IF lock \in C THEN f[lock] ELSE lock
  BY DEF KeepsLock
<1>2. \A i \in Slots : \/ i \in C /\ M[i] = NoJob
                       \/ i \notin C /\ M[i] = jobs[i] /\ (\A c \in C : f[c] # i)
                       \/ \E c \in C : f[c] = i /\ M[i] = jobs[c]
  BY MovedIs
<1>3. \A c \in C : f[c] \in Orphans /\ f[c] \in Slots /\ jobs[f[c]] = NoJob /\ M[f[c]] = jobs[c]
  BY MovedIs
<1> HIDE DEF M
<1>4. /\ C \subseteq Slots /\ Clients \subseteq Slots /\ Orphans \subseteq Slots
      /\ Clients \cap Orphans = {} /\ Nobody \notin Slots
  BY SlotFacts
<1>5. /\ lock # Nobody => lock \in Slots /\ jobs[lock].cmd = "send" /\ jobs[lock].step \in Locked
      /\ \A j \in Slots : jobs[j].step \in Locked => lock = j
  BY DEF Inv, Locking, JobsTyped
<1>6. \A i \in Slots : jobs'[i] = M[i] \/ (i \in Clients /\ Left(jobs'[i]))
  BY DEF M
<1>7. /\ NoJob.step \notin Locked /\ NoJob.cmd \notin {"send", "cleanup"}
      /\ \A x : Left(x) => x.step \notin Locked /\ x.cmd \notin {"send", "cleanup"}
  BY RecordFacts DEF Left, Locked
<1>8. JobsTyped'
  BY <1>1, <1>3, <1>4 DEF JobsTyped, Inv
<1>9. \A i \in Slots : jobs'[i].cmd \in {"send", "cleanup"} \/ jobs'[i].step \in Locked =>
          \/ i \notin C /\ jobs'[i] = jobs[i]
          \/ \E c \in C : f[c] = i /\ jobs'[i] = jobs[c]
  BY <1>2, <1>6, <1>7
<1>10. lock' # Nobody => lock # Nobody /\ jobs'[lock'] = jobs[lock]
  <2> SUFFICES ASSUME lock' # Nobody PROVE lock # Nobody /\ jobs'[lock'] = jobs[lock]
    OBVIOUS
  <2>1. CASE lock \in C
    BY <1>1, <1>3, <1>4, <1>6, <2>1
  <2>2. CASE lock \notin C
    <3>1. lock' = lock /\ lock \in Slots /\ lock # Nobody
      BY <1>1, <1>5, <2>2
    <3>2. \A c \in C : f[c] # lock
      BY <1>3, <1>5, <1>7, <3>1
    <3>3. M[lock] = jobs[lock]
      BY <1>2, <2>2, <3>1, <3>2
    <3>4. CASE lock \in Clients
      BY <2>2, <3>1, <3>4
    <3>5. CASE lock \notin Clients
      BY <1>6, <3>1, <3>3, <3>5
    <3> QED BY <3>4, <3>5
  <2> QED BY <2>1, <2>2
<1>11. Locking'
  <2>1. ASSUME NEW i \in Slots, jobs'[i].step \in Locked PROVE lock' = i
    <3>1. CASE i \notin C /\ jobs'[i] = jobs[i]
      BY <1>1, <1>5, <2>1, <3>1
    <3>2. CASE \E c \in C : f[c] = i /\ jobs'[i] = jobs[c]
      BY <1>1, <1>4, <1>5, <2>1, <3>2
    <3> QED BY <1>9, <2>1, <3>1, <3>2
  <2>2. lock' # Nobody => jobs'[lock'].cmd = "send" /\ jobs'[lock'].step \in Locked
    BY <1>5, <1>10
  <2> QED BY <2>1, <2>2 DEF Locking
<1>12. Planned'
  BY <1>10, PlannedStays DEF SameJob
<1>13. \A i \in Slots : jobs'[i].cmd \in {"send", "cleanup"} => \E k \in Slots : jobs'[i] = jobs[k]
  BY <1>4, <1>9
<1>14. \A i \in Slots : Stems(jobs'[i])
  <2> TAKE i \in Slots
  <2>1. jobs'[i] = NoJob \/ Left(jobs'[i]) \/ \E k \in Slots : jobs'[i] = jobs[k]
    BY <1>2, <1>4, <1>6
  <2> QED BY <2>1, RecordFacts DEF Stems, Left
<1> QED BY <1>8, <1>10, <1>11, <1>12, <1>13, <1>14

\* An answer that is an error changes nothing in the datasets.
LEMMA ErrorKeeps ==
  ASSUME Inv, NEW c \in Clients, Goes(c, FALSE), JobsTyped', Locking', Planned',
         \A i \in Slots : jobs'[i].cmd \in {"send", "cleanup"} => \E k \in Slots : jobs'[i] = jobs[k],
         UNCHANGED <<clock, retired, source, backup, synced>>
  PROVE  Inv'
<1>1. ControlTyped' /\ ClientTyped' /\ Working' /\ SameDates /\ SameRows
  BY DEF Goes, Inv, ControlTyped
<1>2. RowDates'
  BY <1>1, RowDatesStay
<1>3. /\ removed' = removed /\ removed' \in [Nodes -> Gens]
      /\ \A n \in Nodes : removed[n] <= removed'[n]
  BY GenFacts DEF source, fences, Inv, StoreTyped
<1>4. Removing'
  <2>1. \A j \in Slots : jobs'[j].cmd = "cleanup" =>
          \E i \in Slots : jobs[i].cmd = "cleanup" /\ jobs'[j].node = jobs[i].node /\ jobs'[j].gen = jobs[i].gen
    OBVIOUS
  <2>2. c \in Slots
    BY SlotFacts
  <2> QED BY <1>3, <2>1, <2>2, RemovingStays
<1>5. StoreTyped' /\ (\A n \in Nodes : NodeDates(n)') /\ Holding'
  <2>1. \A n \in Nodes : ~target'[n].enabled /\ ~target'[n].cleanup_pending => ~target[n].cleanup_pending
    BY DEF Goes, Recorded
  <2> QED BY <1>1, <2>1, NodesStay
<1> QED BY <1>1, <1>2, <1>4, <1>5 DEF Inv, Dating

\* A call is given up; its command goes on.
LEMMA TimedOutKeeps ==
  ASSUME Inv, NEW c \in Clients, TimedOut(c)
  PROVE  Inv' /\ Calm
<1>1. PICK f \in Placed({c}) : Returned(c, FALSE, Moved({c}, f)) /\ KeepsLock({c}, f)
  BY DEF TimedOut
<1>2. UNCHANGED <<clock, retired, source, backup, synced>>
  BY DEF TimedOut
<1> DEFINE M == Moved({c}, f)
<1>3. /\ Goes(c, FALSE)
      /\ (jobs' = M \/ (c = Worker /\ jobs' = [M EXCEPT ![Worker] = Job("prune", SomeNode, 0, 0)]))
  <2>1. ClientTyped /\ Working /\ jobs \in [Slots -> JobRecs] /\ Returned(c, FALSE, M)
    BY <1>1 DEF Inv, ControlTyped, JobsTyped
  <2> HIDE DEF M
  <2> QED BY <2>1, ReturnedGoes
<1>4. {c} \in SUBSET Clients /\ M \in [Slots -> JobRecs]
  <2>1. {c} \in SUBSET Clients
    OBVIOUS
  <2> QED BY <2>1, MovedIs, Zenon
<1>5. Left(Job("prune", SomeNode, 0, 0))
  BY RecordFacts DEF Left
<1>6. /\ jobs' \in [Slots -> JobRecs]
      /\ \A i \in Slots : jobs'[i] = M[i] \/ (i = c /\ Left(jobs'[i]))
  BY <1>3, <1>4, <1>5, RecordFacts, SlotFacts
<1>7. lock \in Clients => lock = c \/ jobs'[lock] = jobs[lock]
  <2> SUFFICES ASSUME lock \in Clients, lock # c PROVE jobs'[lock] = jobs[lock]
    OBVIOUS
  <2>1. lock \in Slots /\ lock \notin Orphans
    BY SlotFacts
  <2>2. M[lock] = jobs[lock]
    BY <2>1, MovedIs
  <2> QED BY <1>6, <2>1, <2>2
<1> HIDE DEF M
<1>8. /\ JobsTyped' /\ Locking' /\ Planned'
      /\ lock' # Nobody => lock # Nobody /\ jobs'[lock'] = jobs[lock]
      /\ \A i \in Slots : Stems(jobs'[i])
      /\ \A i \in Slots : jobs'[i].cmd \in {"send", "cleanup"} => \E k \in Slots : jobs'[i] = jobs[k]
  BY <1>1, <1>2, <1>6, <1>7, MovedKeeps DEF M
<1>9. Calm
  BY <1>2, <1>3, <1>8 DEF Calm, Goes, SameJob
<1> QED BY <1>2, <1>3, <1>8, <1>9, ErrorKeeps

\* The error reaches a caller whose hostd went away.
LEMMA CallLostKeeps ==
  ASSUME Inv, NEW c \in Clients, CallLost(c)
  PROVE  Inv' /\ Calm
<1> DEFINE J == [jobs EXCEPT ![c] = NoJob]
<1>1. /\ jobs[c].step = "lost" /\ Returned(c, FALSE, J)
      /\ UNCHANGED <<clock, retired, lock, source, backup, synced>>
  BY DEF CallLost
<1>2. /\ Goes(c, FALSE)
      /\ (jobs' = J \/ (c = Worker /\ jobs' = [J EXCEPT ![Worker] = Job("prune", SomeNode, 0, 0)]))
  BY <1>1, ReturnedGoes DEF Inv, ControlTyped, JobsTyped
<1>3. /\ jobs' \in [Slots -> JobRecs] /\ Left(jobs'[c])
      /\ \A i \in Slots : i # c => jobs'[i] = jobs[i]
  BY <1>2, RecordFacts, SlotFacts DEF Inv, JobsTyped, Left
<1>4. lock # c /\ lock' = lock
  BY <1>1, SlotFacts DEF Inv, Locking, Locked
<1>5. JobsTyped' /\ Locking'
  BY <1>3, <1>4 DEF Inv, JobsTyped, Locking, Left, Locked
<1>6. Planned'
  BY <1>1, <1>3, <1>4, PlannedStays DEF Inv, JobsTyped, SameJob
<1>7. \A i \in Slots : jobs'[i].cmd \in {"send", "cleanup"} => \E k \in Slots : jobs'[i] = jobs[k]
  BY <1>3 DEF Left
<1>8. Calm
  <2>1. \A i \in Slots : Stems(jobs'[i])
    BY <1>3 DEF Stems, Left
  <2> QED BY <1>1, <1>2, <1>3, <1>4, <2>1 DEF Calm, Goes, SameJob, Inv, JobsTyped
<1> QED BY <1>1, <1>2, <1>5, <1>6, <1>7, <1>8, ErrorKeeps

\* The control process starts again without what it was doing.
LEMMA ControlRestartKeeps == Inv /\ ControlRestart => Inv' /\ Calm
<1> SUFFICES ASSUME Inv, ControlRestart PROVE Inv' /\ Calm
  OBVIOUS
<1> DEFINE C == {c \in Clients : Busy(c)}
<1>1. PICK f \in Placed(C) : jobs' = [Moved(C, f) EXCEPT ![Worker] = NoJob, ![Cleaner] = NoJob] /\ KeepsLock(C, f)
  BY DEF ControlRestart
<1>2. /\ worker' = Idle /\ sweep' = [c \in Clients |-> Swept]
      /\ tasks' = [i \in DOMAIN tasks |->
           IF tasks[i].state = "running" THEN [tasks[i] EXCEPT !.state = "pending"] ELSE tasks[i]]
      /\ UNCHANGED <<clock, target, retired, source, backup, synced>>
  BY DEF ControlRestart
<1>3. lock \in Clients => lock \in C
  BY SlotFacts DEF Inv, Locking, Locked, Busy
<1> HIDE DEF C
<1>4. C \in SUBSET Clients
  BY DEF C
<1>5. Moved(C, f) \in [Slots -> JobRecs]
  BY <1>4, MovedIs
<1>6. /\ jobs' \in [Slots -> JobRecs]
      /\ \A i \in Slots : jobs'[i] = Moved(C, f)[i] \/ (i \in Clients /\ Left(jobs'[i]))
  BY <1>1, <1>5, RecordFacts, SlotFacts DEF Left
<1>7. /\ JobsTyped' /\ Locking' /\ Planned'
      /\ lock' # Nobody => lock # Nobody /\ jobs'[lock'] = jobs[lock]
      /\ \A i \in Slots : Stems(jobs'[i])
      /\ \A i \in Slots : jobs'[i].cmd \in {"send", "cleanup"} => \E k \in Slots : jobs'[i] = jobs[k]
  BY <1>1, <1>2, <1>3, <1>4, <1>6, MovedKeeps
<1>8. /\ tasks' \in Seq(TaskRows) /\ SameRows
      /\ \A i \in DOMAIN tasks' : tasks'[i].state \in {"pending", "running"} => tasks'[i].attempts < MaxAttempts
  <2>1. tasks \in Seq(TaskRows) /\ \A i \in DOMAIN tasks : tasks[i] \in TaskRows
    BY DEF Inv, ControlTyped, ClientTyped
  <2>2. DOMAIN tasks' = DOMAIN tasks /\ \A i \in DOMAIN tasks :
          /\ tasks'[i] \in TaskRows /\ tasks'[i].attempts = tasks[i].attempts
          /\ tasks'[i].type = tasks[i].type /\ tasks'[i].name = tasks[i].name
          /\ tasks'[i].node = tasks[i].node /\ tasks'[i].gen = tasks[i].gen
          /\ tasks'[i].state = tasks[i].state \/ tasks[i].state = "running"
    <3>1. ASSUME NEW i \in DOMAIN tasks, tasks[i].state = "running"
          PROVE  tasks'[i] = [tasks[i] EXCEPT !.state = "pending"]
      BY <1>2, <3>1
    <3>2. ASSUME NEW i \in DOMAIN tasks, tasks[i].state # "running" PROVE tasks'[i] = tasks[i]
      BY <1>2, <3>2
    <3>3. DOMAIN tasks' = DOMAIN tasks
      BY <1>2
    <3>4. ASSUME NEW i \in DOMAIN tasks
          PROVE  /\ tasks'[i] \in TaskRows /\ tasks'[i].attempts = tasks[i].attempts
                 /\ tasks'[i].type = tasks[i].type /\ tasks'[i].name = tasks[i].name
                 /\ tasks'[i].node = tasks[i].node /\ tasks'[i].gen = tasks[i].gen
                 /\ tasks'[i].state = tasks[i].state \/ tasks[i].state = "running"
      <4>1. tasks[i] \in TaskRows
        BY <2>1
      <4>2. CASE tasks[i].state = "running"
        BY <3>1, <4>1, <4>2 DEF TaskRows
      <4>3. CASE tasks[i].state # "running"
        BY <3>2, <4>1, <4>3
      <4> QED BY <4>2, <4>3
    <3> QED BY <3>3, <3>4
  <2>3. tasks' \in Seq(TaskRows)
    <3>1. /\ tasks' = [i \in 1 .. Len(tasks) |-> tasks'[i]] /\ Len(tasks) \in Nat
          /\ DOMAIN tasks = 1 .. Len(tasks)
      BY <1>2, <2>1
    <3> QED BY <2>2, <3>1
  <2> QED BY <2>2, <2>3 DEF SameRows, Inv, Working
<1>9. /\ ClientTyped' /\ Working' /\ SameDates
      /\ \A d \in Clients : \A r \in sweep'[d].todo : r \in sweep[d].todo
  BY <1>2, <1>8, RecordFacts DEF Inv, ControlTyped, ClientTyped, Working, Idle, SameDates
<1>10. Goes(Worker, FALSE)
  BY <1>2, <1>8, <1>9 DEF Goes
<1>11. Calm
  BY <1>2, <1>7, <1>8, <1>9 DEF Calm, SameJob
<1> QED BY <1>2, <1>7, <1>10, <1>11, SlotFacts, ErrorKeeps

-----------------------------------------------------------------------------
(* Commands in hostd.                                                      *)

\* Nothing is recorded as cleaned up in this step.
Quiet == \A n \in Nodes : ~target'[n].enabled /\ ~target'[n].cleanup_pending => ~target[n].cleanup_pending

\* That takes the answer of a cleanup.
LEMMA EndsQuiet ==
  ASSUME NEW j \in Slots, NEW ok \in BOOLEAN, Ends(j, ok), jobs[j].cmd # "cleanup" \/ ~ok
  PROVE  Quiet
BY DEF Ends, Goes, Recorded, Quiet

\* A change of protection touches one node, and leaves nothing described and not held.
LEMMA ProtectionIs ==
  ASSUME Inv, NEW n \in Nodes, NEW A \in SUBSET (Kinds \X src), NEW R, NEW half,
         UpdateSnapshotProtection(n, A, R, half)
  PROVE  /\ held' \in [Nodes -> SUBSET (Kinds \X src)] /\ listed' \in [Nodes -> SUBSET (Kinds \X src)]
         /\ held'[n] = (held[n] \cup A) \ (R \ half)
         /\ listed'[n] = (listed[n] \cup (A \ half)) \ R
         /\ listed'[n] \subseteq held'[n]
         /\ \A m \in Nodes : m # n => held'[m] = held[m] /\ listed'[m] = listed[m]
<1>1. /\ held \in [Nodes -> SUBSET (Kinds \X src)]
      /\ listed \in [Nodes -> SUBSET (Kinds \X src)]
      /\ listed[n] \subseteq held[n]
  BY DEF Inv, StoreTyped, Holding, Held
<1>2. /\ held' = [held EXCEPT ![n] = (held[n] \cup A) \ (R \ half)]
      /\ listed' = [listed EXCEPT ![n] = (listed[n] \cup (A \ half)) \ R]
  BY DEF UpdateSnapshotProtection
<1> QED BY <1>1, <1>2

\* The command that holds the lock is a replication of a generation that was not removed.
LEMMA LockFacts ==
  ASSUME Inv, lock # Nobody
  PROVE  /\ lock \in Slots /\ jobs[lock] \in JobRecs /\ jobs[lock].cmd = "send"
         /\ jobs[lock].node \in Nodes /\ jobs[lock].gen \in Nat /\ Under(lock)
         /\ removed[jobs[lock].node] < accepted[jobs[lock].node]
<1>1. lock \in Slots /\ jobs[lock] \in JobRecs /\ jobs[lock].cmd = "send" /\ Under(lock)
  BY DEF Inv, JobsTyped, Locking, Planned
<1>2. jobs[lock].node \in Nodes /\ jobs[lock].gen \in Nat
  BY <1>1 DEF JobRecs
<1> QED BY <1>1, <1>2, GenFacts DEF Under

\* While it works on its node, nothing of that node can have been cleaned up.
LEMMA LockHolding ==
  ASSUME Inv, lock # Nobody, SameDates, Quiet, UNCHANGED fences,
         \A m \in Nodes : m # jobs[lock].node =>
            held'[m] = held[m] /\ listed'[m] = listed[m] /\ token'[m] = token[m],
         listed'[jobs[lock].node] \subseteq held'[jobs[lock].node],
         LET n == jobs[lock].node
         IN token'[n] # NoToken /\ token'[n].gen > removed[n] =>
              /\ <<"transfer", token'[n].guid>> \in held'[n]
              /\ token'[n].base # 0 => <<"transfer", token'[n].base>> \in held'[n]
  PROVE  Holding'
<1> SUFFICES ASSUME NEW m \in Nodes PROVE Held(m)'
  BY DEF Holding
<1>1. removed' = removed /\ accepted' = accepted
  BY DEF fences
<1>2. Held(m) /\ NodeDates(m)
  BY DEF Inv, Holding, Dating
<1>3. CASE m # jobs[lock].node
  BY <1>1, <1>2, <1>3 DEF Held, SameDates, Quiet
<1>4. CASE m = jobs[lock].node
  <2>1. removed[m] < accepted[m] /\ accepted[m] <= target[m].generation
    BY <1>2, <1>4, LockFacts DEF NodeDates, Dated
  <2>2. ~(~target'[m].enabled /\ ~target'[m].cleanup_pending)
    BY <1>2, <2>1, GenFacts DEF Held, SameDates, Quiet
  <2>3. ~(accepted[m] <= removed[m])
    BY <2>1, GenFacts
  <2> QED BY <1>1, <1>4, <2>2, <2>3 DEF Held
<1> QED BY <1>3, <1>4

\* And its dates are in order when what it synchronizes is its own generation.
LEMMA LockDates ==
  ASSUME Inv, lock # Nobody, SameDates, UNCHANGED fences,
         \A m \in Nodes : m # jobs[lock].node => synced'[m] = synced[m] /\ token'[m] = token[m],
         synced'[jobs[lock].node] \in {synced[jobs[lock].node], jobs[lock].gen},
         token'[jobs[lock].node] \in {token[jobs[lock].node], NoToken}
           \/ token'[jobs[lock].node].gen = jobs[lock].gen
  PROVE  \A m \in Nodes : NodeDates(m)'
<1> TAKE m \in Nodes
<1>1. removed' = removed /\ accepted' = accepted
  BY DEF fences
<1>2. NodeDates(m)
  BY DEF Inv, Dating
<1>3. jobs[lock].gen <= accepted[jobs[lock].node]
  BY LockFacts DEF Under
<1> QED BY <1>1, <1>2, <1>3 DEF NodeDates, Dated, SameDates

\* A command ends with an error and changed nothing.
LEMMA NothingDone ==
  ASSUME Inv, NEW j \in Slots, Ends(j, FALSE), lock \in {Nobody, j},
         UNCHANGED <<clock, retired, source, backup, synced>>
  PROVE  Inv'
<1>1. /\ removed' = removed /\ removed' \in [Nodes -> Gens]
      /\ \A n \in Nodes : removed[n] <= removed'[n]
  BY GenFacts DEF source, fences, Inv, StoreTyped
<1>2. /\ ControlTyped' /\ JobsTyped' /\ Working' /\ RowDates' /\ Removing' /\ Locking'
      /\ Planned'
      /\ SameDates
  BY <1>1, EndsFrame
<1>3. StoreTyped' /\ (\A n \in Nodes : NodeDates(n)') /\ Holding'
  BY <1>2, EndsQuiet, NodesStay DEF Quiet
<1> QED BY <1>2, <1>3 DEF Inv, Dating

\* fs.snapshot.create.
LEMMA SnapshotCreateKeeps ==
  ASSUME Inv, NEW j \in Slots, snapshotCreate(j)
  PROVE  Inv'
<1>1. /\ jobs[j].cmd = "create" /\ lock = Nobody /\ Answer(j, TRUE)
      /\ UNCHANGED <<clock, retired, held, listed, fences, backup, synced>>
  BY DEF snapshotCreate
<1>2. Ends(j, TRUE)
  BY <1>1, AnswerEnds DEF Inv, ControlTyped, JobsTyped
<1>3. /\ removed' = removed /\ removed' \in [Nodes -> Gens]
      /\ \A n \in Nodes : removed[n] <= removed'[n]
  BY <1>1, GenFacts DEF fences, Inv, StoreTyped
<1>4. /\ ControlTyped' /\ JobsTyped' /\ Working' /\ RowDates' /\ Removing' /\ Locking'
      /\ Planned'
      /\ SameDates
  BY <1>1, <1>2, <1>3, EndsFrame
<1>5. Quiet
  BY <1>1, <1>2, EndsQuiet
<1>6. UNCHANGED <<held, listed, removed, accepted, dst, token, synced>>
  BY <1>1 DEF fences, backup
<1>7. (\A n \in Nodes : NodeDates(n)') /\ Holding'
  BY <1>4, <1>5, <1>6 DEF Inv, Dating, NodeDates, Dated, SameDates, Holding, Held, Quiet
<1>8. /\ nameOf' \in Seq(Nat) /\ Guids \subseteq Guids' /\ src \subseteq src'
      /\ src' \subseteq Guids'
  <2>1. /\ nameOf \in Seq(Nat) /\ jobs[j].name \in Nat /\ src \subseteq 1 .. Len(nameOf)
        /\ Len(nameOf) \in Nat
    BY DEF Inv, StoreTyped, JobsTyped, JobRecs, Guids
  <2>2. CASE UNCHANGED <<nameOf, src>>
    BY <2>1, <2>2 DEF Guids
  <2>3. CASE nameOf' = Append(nameOf, jobs[j].name) /\ src' = src \cup {Len(nameOf')}
    <3>1. nameOf' \in Seq(Nat) /\ Len(nameOf') = Len(nameOf) + 1
      BY <2>1, <2>3
    <3>2. 1 .. Len(nameOf) \subseteq 1 .. Len(nameOf') /\ Len(nameOf') \in 1 .. Len(nameOf')
      BY <2>1, <3>1
    <3> QED BY <2>1, <2>3, <3>1, <3>2 DEF Guids
  <2> QED BY <2>2, <2>3 DEF snapshotCreate
<1>9. StoreTyped'
  BY <1>6, <1>8 DEF Inv, StoreTyped, TokenRecs
<1> QED BY <1>4, <1>7, <1>9 DEF Inv, Dating

\* A pruning keeps what is held or described.
LEMMA PruneIs ==
  ASSUME NEW H \in [Nodes -> SUBSET (Kinds \X src)], NEW L \in [Nodes -> SUBSET (Kinds \X src)],
         pruneSnapshots(H, L)
  PROVE  /\ src' \subseteq src
         /\ H \in [Nodes -> SUBSET (Kinds \X src')] /\ L \in [Nodes -> SUBSET (Kinds \X src')]
<1>1. PICK K \in RetainedSnapshots(src) :
        src' = {g \in src : \/ g \in K
                            \/ \E n \in Nodes : {<<"hold", g>>, <<"transfer", g>>} \cap (H[n] \cup L[n]) # {}
                            \/ \E u \in Unreconciled(H, L) : u <= g}
  BY DEF pruneSnapshots
<1>2. \A n \in Nodes : \A x \in H[n] \cup L[n] : x \in Kinds \X src'
  <2> TAKE n \in Nodes
  <2> TAKE x \in H[n] \cup L[n]
  <2>1. PICK k \in Kinds, g \in src : x = <<k, g>>
    OBVIOUS
  <2>2. x \in {<<"hold", g>>, <<"transfer", g>>}
    BY <2>1 DEF Kinds
  <2>3. g \in src'
    BY <1>1, <2>2
  <2> QED BY <2>1, <2>3
<1> QED BY <1>1, <1>2

\* fs.snapshot.prune.
LEMMA SnapshotPruneKeeps ==
  ASSUME Inv, NEW j \in Slots, snapshotPrune(j)
  PROVE  Inv'
<1> DEFINE ok == Unreconciled(held, listed) = {}
<1>1. /\ jobs[j].cmd = "prune" /\ lock = Nobody /\ Answer(j, ok) /\ pruneSnapshots(held, listed)
      /\ UNCHANGED <<clock, retired, nameOf, held, listed, fences, backup, synced>>
  BY DEF snapshotPrune
<1>2. ok \in BOOLEAN
  OBVIOUS
<1> HIDE DEF ok
<1>3. Ends(j, ok)
  BY <1>1, <1>2, AnswerEnds DEF Inv, ControlTyped, JobsTyped
<1>4. /\ removed' = removed /\ removed' \in [Nodes -> Gens]
      /\ \A n \in Nodes : removed[n] <= removed'[n]
  BY <1>1, GenFacts DEF fences, Inv, StoreTyped
<1>5. /\ ControlTyped' /\ JobsTyped' /\ Working' /\ RowDates' /\ Removing' /\ Locking'
      /\ Planned'
      /\ SameDates
  BY <1>1, <1>2, <1>3, <1>4, EndsFrame
<1>6. Quiet
  BY <1>1, <1>2, <1>3, EndsQuiet
<1>7. UNCHANGED <<nameOf, held, listed, removed, accepted, dst, token, synced>>
  BY <1>1 DEF fences, backup
<1>8. (\A n \in Nodes : NodeDates(n)') /\ Holding'
  BY <1>5, <1>6, <1>7 DEF Inv, Dating, NodeDates, Dated, SameDates, Holding, Held, Quiet
<1>9. StoreTyped'
  BY <1>1, <1>7, PruneIs DEF Inv, StoreTyped, TokenRecs, Guids
<1> QED BY <1>5, <1>8, <1>9 DEF Inv, Dating

\* How far the fence goes.
LEMMA LaterIs ==
  ASSUME NEW a \in Int, NEW b \in Int
  PROVE  Later(a, b) \in {a, b} /\ a <= Later(a, b) /\ b <= Later(a, b)
BY DEF Later

\* The fence of a removal is raised: it stays behind the generation of the target.
LEMMA FenceIs ==
  ASSUME Inv, NEW j \in Slots, jobs[j].cmd = "cleanup",
         removed' = [removed EXCEPT ![jobs[j].node] = Later(@, jobs[j].gen)]
  PROVE  LET n == jobs[j].node
         IN /\ n \in Nodes /\ jobs[j].gen \in Nat /\ Known(n, jobs[j].gen)
            /\ removed' \in [Nodes -> Gens]
            /\ removed'[n] \in {removed[n], jobs[j].gen}
            /\ removed[n] <= removed'[n] /\ jobs[j].gen <= removed'[n]
            /\ \A m \in Nodes : m # n => removed'[m] = removed[m]
            /\ \A m \in Nodes : removed'[m] \in Int /\ removed[m] <= removed'[m] /\ removed'[m] <= target[m].generation
                                /\ (removed'[m] = target[m].generation => ~target[m].enabled)
<1> DEFINE n == jobs[j].node
           g == jobs[j].gen
<1>1. n \in Nodes /\ g \in Nat /\ Known(n, g)
  BY DEF Inv, JobsTyped, JobRecs, Removing
<1>2. removed \in [Nodes -> Gens] /\ removed[n] \in Int /\ target[n].generation \in Nat
  BY <1>1, GenFacts DEF Inv, StoreTyped
<1>3. /\ Later(removed[n], g) \in {removed[n], g} /\ removed[n] <= Later(removed[n], g)
      /\ g <= Later(removed[n], g)
  BY <1>1, <1>2, LaterIs
<1>4. removed' = [removed EXCEPT ![n] = Later(removed[n], g)]
  OBVIOUS
<1>5. /\ removed'[n] = Later(removed[n], g)
      /\ \A m \in Nodes : m # n => removed'[m] = removed[m]
      /\ removed' \in [Nodes -> Gens]
  BY <1>1, <1>2, <1>3, <1>4 DEF Gens
<1>6. \A m \in Nodes : removed[m] <= target[m].generation /\ (removed[m] = target[m].generation => ~target[m].enabled)
  BY DEF Inv, Dating, NodeDates
<1>7. /\ removed'[n] <= target[n].generation
      /\ (removed'[n] = target[n].generation => ~target[n].enabled)
  BY <1>1, <1>2, <1>3, <1>5, <1>6 DEF Known
<1>8. \A m \in Nodes : removed'[m] \in Int /\ removed[m] <= removed'[m]
  BY <1>1, <1>3, <1>5, GenFacts
<1> QED BY <1>1, <1>3, <1>5, <1>6, <1>7, <1>8

\* The dates of the nodes, with the fence raised.
LEMMA FenceDates ==
  ASSUME Inv, NEW j \in Slots, jobs[j].cmd = "cleanup",
         removed' = [removed EXCEPT ![jobs[j].node] = Later(@, jobs[j].gen)],
         SameDates, UNCHANGED <<accepted, token, synced>>
  PROVE  \A m \in Nodes : NodeDates(m)'
<1> TAKE m \in Nodes
<1>1. /\ removed'[m] <= target[m].generation
      /\ (removed'[m] = target[m].generation => ~target[m].enabled)
  BY FenceIs
<1>2. NodeDates(m)
  BY DEF Inv, Dating
<1> QED BY <1>1, <1>2 DEF NodeDates, Dated, SameDates

\* The holds of a node whose fence is raised and whose holds stay, or go.
LEMMA FenceHeld ==
  ASSUME Inv, NEW j \in Slots, jobs[j].cmd = "cleanup",
         removed' = [removed EXCEPT ![jobs[j].node] = Later(@, jobs[j].gen)],
         SameDates, UNCHANGED <<accepted, token>>, NEW m \in Nodes,
         listed'[m] \subseteq held'[m],
         \/ held'[m] = held[m] /\ (m = jobs[j].node => accepted[m] > jobs[j].gen \/ removed'[m] = target[m].generation)
         \/ m = jobs[j].node /\ held'[m] \subseteq held[m] /\ accepted[m] <= jobs[j].gen,
         ~target'[m].enabled /\ ~target'[m].cleanup_pending =>
            ~target[m].cleanup_pending \/ (held'[m] = {} /\ removed'[m] = target[m].generation)
  PROVE  Held(m)'
<1>1. /\ removed[m] <= removed'[m] /\ removed'[m] <= target[m].generation
      /\ m # jobs[j].node => removed'[m] = removed[m]
      /\ m = jobs[j].node => removed'[m] \in {removed[m], jobs[j].gen} /\ jobs[j].gen <= removed'[m]
      /\ jobs[j].node \in Nodes /\ jobs[j].gen \in Nat /\ removed'[m] \in Int
  BY FenceIs
<1>2. Held(m) /\ NodeDates(m)
  BY DEF Inv, Holding, Dating
<1>3. held'[m] \subseteq held[m]
  OBVIOUS
<1>4. /\ removed[m] \in Int /\ accepted[m] \in Int /\ token[m].gen \in Nat
      /\ target[m].generation \in Nat
  BY GenFacts
<1>5. token'[m] # NoToken /\ token'[m].gen > removed'[m] =>
        /\ <<"transfer", token'[m].guid>> \in held'[m]
        /\ token'[m].base # 0 => <<"transfer", token'[m].base>> \in held'[m]
  <2> SUFFICES ASSUME token[m] # NoToken, token[m].gen > removed'[m]
               PROVE  held'[m] = held[m] /\ token[m].gen > removed[m]
    BY <1>2 DEF Held
  <2> QED BY <1>1, <1>2, <1>4 DEF NodeDates
<1>6. ~target'[m].enabled /\ ~target'[m].cleanup_pending => removed'[m] = target'[m].generation /\ held'[m] = {}
  <2> SUFFICES ASSUME ~target[m].enabled, ~target[m].cleanup_pending
               PROVE  removed'[m] = target[m].generation /\ held'[m] = {}
    BY DEF SameDates
  <2> QED BY <1>1, <1>2, <1>3, <1>4 DEF Held
<1>7. accepted[m] <= removed'[m] /\ removed'[m] < target[m].generation => held'[m] = {}
  <2> SUFFICES ASSUME accepted[m] <= removed'[m], removed'[m] < target[m].generation PROVE held'[m] = {}
    OBVIOUS
  <2>1. CASE removed'[m] = removed[m]
    BY <1>2, <1>3, <2>1 DEF Held
  <2>2. CASE removed'[m] # removed[m]
    <3>1. m = jobs[j].node /\ removed'[m] = jobs[j].gen /\ removed[m] < jobs[j].gen
      BY <1>1, <1>4, <2>2
    <3>2. Known(m, jobs[j].gen)
      BY <3>1 DEF Inv, Removing
    <3> QED BY <1>1, <1>4, <3>1, <3>2 DEF Known
  <2> QED BY <2>1, <2>2
<1> QED BY <1>5, <1>6, <1>7 DEF Held, SameDates

\* fs.repl.cleanup.
LEMMA CleanupKeeps ==
  ASSUME Inv, NEW j \in Slots, CleanupBackupGeneration(j)
  PROVE  Inv'
<1> DEFINE n == jobs[j].node
           g == jobs[j].gen
<1>1. /\ jobs[j].cmd = "cleanup" /\ lock = Nobody
      /\ removed' = [removed EXCEPT ![n] = Later(@, g)]
      /\ UNCHANGED <<clock, retired, nameOf, accepted, backup, synced>>
  BY DEF CleanupBackupGeneration
<1>2. /\ n \in Nodes /\ g \in Nat /\ Known(n, g) /\ removed' \in [Nodes -> Gens]
      /\ \A m \in Nodes : removed[m] <= removed'[m]
      /\ g <= removed'[n]
  BY <1>1, FenceIs
<1>3. UNCHANGED <<dst, token>>
  BY <1>1 DEF backup
<1>4. CASE accepted[n] > g
  <2>1. Answer(j, TRUE) /\ UNCHANGED <<src, held, listed>>
    BY <1>4 DEF CleanupBackupGeneration
  <2>2. Ends(j, TRUE)
    BY <2>1, AnswerEnds DEF Inv, ControlTyped, JobsTyped
  <2>3. /\ ControlTyped' /\ JobsTyped' /\ Working' /\ RowDates' /\ Removing' /\ Locking'
        /\ Planned'
        /\ SameDates
    BY <1>1, <1>2, <2>2, EndsFrame
  <2>4. \A m \in Nodes : target'[m].cleanup_pending = target[m].cleanup_pending
    <3>1. \A m \in Nodes : ~Recorded(j, TRUE, m)
      <4> SUFFICES ASSUME NEW m \in Nodes, Recorded(j, TRUE, m) PROVE FALSE
        OBVIOUS
      <4>1. Dated(m, accepted[m]) /\ m = n /\ g = target[m].generation
        BY DEF Recorded, Inv, Dating, NodeDates
      <4> QED BY <1>4, <4>1, GenFacts DEF Dated
    <3> QED BY <2>2, <3>1 DEF Ends, Goes
  <2>5. \A m \in Nodes : NodeDates(m)'
    BY <1>1, <1>3, <2>3, FenceDates
  <2>6. ASSUME NEW m \in Nodes PROVE Held(m)'
    <3>1. listed'[m] \subseteq held'[m] /\ held'[m] = held[m]
      BY <2>1 DEF Inv, Holding, Held
    <3> QED BY <1>1, <1>3, <1>4, <2>3, <2>4, <3>1, FenceHeld
  <2>7. StoreTyped'
    BY <1>1, <1>2, <1>3, <2>1 DEF Inv, StoreTyped, Guids, TokenRecs
  <2> QED BY <2>3, <2>5, <2>6, <2>7 DEF Inv, Dating, Holding
<1>5. CASE ~(accepted[n] > g)
  <2> DEFINE ok == Unreconciled(held', listed') = {}
  <2>1. /\ Answer(j, ok) /\ UpdateSnapshotProtection(n, {}, Everything, {})
        /\ pruneSnapshots(held', listed')
    BY <1>5 DEF CleanupBackupGeneration
  <2>2. ok \in BOOLEAN
    OBVIOUS
  <2> HIDE DEF ok
  <2>3. Ends(j, ok)
    BY <2>1, <2>2, AnswerEnds DEF Inv, ControlTyped, JobsTyped
  <2>4. /\ ControlTyped' /\ JobsTyped' /\ Working' /\ RowDates' /\ Removing' /\ Locking'
        /\ Planned'
        /\ SameDates
    BY <1>1, <1>2, <2>2, <2>3, EndsFrame
  <2>5. /\ held' \in [Nodes -> SUBSET (Kinds \X src)]
        /\ listed' \in [Nodes -> SUBSET (Kinds \X src)]
        /\ held'[n] = held[n] \ Everything /\ listed'[n] \subseteq held'[n]
        /\ \A m \in Nodes : m # n => held'[m] = held[m] /\ listed'[m] = listed[m]
    <3>1. /\ held \in [Nodes -> SUBSET (Kinds \X src)]
          /\ listed \in [Nodes -> SUBSET (Kinds \X src)]
          /\ listed[n] \subseteq held[n]
      BY <1>2 DEF Inv, StoreTyped, Holding, Held
    <3>2. /\ held' = [held EXCEPT ![n] = held[n] \ Everything]
          /\ listed' = [listed EXCEPT ![n] = listed[n] \ Everything]
      BY <2>1 DEF UpdateSnapshotProtection
    <3> QED BY <1>2, <3>1, <3>2
  <2>6. held'[n] = {} /\ listed'[n] = {}
    <3>1. held[n] \subseteq Kinds \X src
      BY <1>2 DEF Inv, StoreTyped
    <3>2. \A k \in Kinds : \A x \in src : <<k, x>> \in Everything
      BY DEF Kinds, Everything, Pairs
    <3>3. held[n] \subseteq Everything
      BY <3>1, <3>2
    <3> QED BY <2>5, <3>3
  <2>7. \A m \in Nodes : NodeDates(m)'
    BY <1>1, <1>3, <2>4, FenceDates
  <2>8. ASSUME NEW m \in Nodes PROVE Held(m)'
    <3>1. listed'[m] \subseteq held'[m]
      BY <2>5 DEF Inv, Holding, Held
    <3>2. (held'[m] = held[m] /\ m # n) \/ (m = n /\ held'[m] \subseteq held[m] /\ accepted[m] <= g)
      <4>1. accepted[n] <= g
        BY <1>2, <1>5, GenFacts
      <4>2. CASE m = n
        BY <2>6, <4>1, <4>2
      <4>3. CASE m # n
        BY <2>5, <4>3
      <4> QED BY <4>2, <4>3
    <3>3. ~target'[m].enabled /\ ~target'[m].cleanup_pending =>
            ~target[m].cleanup_pending \/ (held'[m] = {} /\ removed'[m] = target[m].generation)
      <4> SUFFICES ASSUME Recorded(j, ok, m) PROVE held'[m] = {} /\ removed'[m] = target[m].generation
        BY <2>3 DEF Ends, Goes
      <4>1. m = n /\ g = target[m].generation
        BY DEF Recorded
      <4>2. removed'[n] <= target[n].generation /\ removed'[n] \in Int
        BY <1>1, <1>2, FenceIs
      <4> QED BY <1>2, <2>6, <4>1, <4>2
    <3> QED BY <1>1, <1>3, <2>4, <3>1, <3>2, <3>3, FenceHeld
  <2>9. StoreTyped'
    <3>1. /\ src' \subseteq src
          /\ held' \in [Nodes -> SUBSET (Kinds \X src')]
          /\ listed' \in [Nodes -> SUBSET (Kinds \X src')]
      BY <2>1, <2>5, PruneIs
    <3> QED BY <1>1, <1>2, <1>3, <3>1 DEF Inv, StoreTyped, Guids, TokenRecs
  <2> QED BY <2>4, <2>7, <2>8, <2>9 DEF Inv, Dating, Holding
<1> QED BY <1>4, <1>5

-----------------------------------------------------------------------------
(* fs.repl.send.                                                           *)

\* The newest snapshot of both sides, when there is one.
LEMMA CommonIs ==
  ASSUME Inv, NEW n \in Nodes
  PROVE  LET b == newestCommonSnapshot(n)
         IN /\ b \in Nat /\ b \in {0} \cup src
            /\ Common(n) = {} => b = 0
            /\ Common(n) # {} => b \in src /\ b \in dst[n] /\ b \in Guids
            /\ \A y \in Common(n) : y <= b
<1> DEFINE b == newestCommonSnapshot(n)
<1>1. src \subseteq Guids /\ Len(nameOf) \in Nat
  BY DEF Inv, StoreTyped
<1>2. CASE Common(n) = {}
  BY <1>2 DEF newestCommonSnapshot
<1>3. CASE Common(n) # {}
  <2>1. Common(n) \in SUBSET (0 .. Len(nameOf)) /\ Len(nameOf) \in Nat
    BY <1>1 DEF Common, Guids
  <2>2. b = Max(Common(n))
    BY <1>3 DEF newestCommonSnapshot
  <2>3. b \in Common(n) /\ \A y \in Common(n) : y <= b
    BY <1>3, <2>1, <2>2, MaxIs
  <2>4. Common(n) \subseteq src /\ Common(n) \subseteq dst[n]
    BY DEF Common
  <2>5. b \in src /\ b \in dst[n] /\ b \in Guids
    BY <1>1, <2>3, <2>4
  <2>6. b \in Nat
    BY <1>1, <2>5 DEF Guids
  <2> QED BY <1>3, <2>3, <2>5, <2>6
<1> QED BY <1>2, <1>3

\* A replication is accepted: the generation it belongs to was given out and not removed.
LEMMA AcceptedKeeps ==
  ASSUME Inv, NEW j \in Slots, jobs[j].cmd = "send", ~(jobs[j].gen <= removed[jobs[j].node]),
         accepted' = [accepted EXCEPT ![jobs[j].node] = Later(@, jobs[j].gen)],
         SameDates, Quiet, UNCHANGED <<nameOf, src, held, listed, removed, backup, synced>>
  PROVE  /\ StoreTyped' /\ (\A m \in Nodes : NodeDates(m)') /\ Holding'
         /\ jobs[j].gen <= accepted'[jobs[j].node] /\ jobs[j].gen > removed[jobs[j].node]
<1> DEFINE n == jobs[j].node
           g == jobs[j].gen
<1>1. n \in Nodes /\ g \in Nat /\ Dated(n, g)
  BY DEF Inv, JobsTyped, JobRecs, Dating, RowDates
<1>2. accepted \in [Nodes -> Gens] /\ accepted[n] \in Int /\ removed[n] \in Int
  BY <1>1, GenFacts DEF Inv, StoreTyped
<1>3. /\ Later(accepted[n], g) \in {accepted[n], g} /\ accepted[n] <= Later(accepted[n], g)
      /\ g <= Later(accepted[n], g)
  BY <1>1, <1>2, LaterIs
<1>4. /\ accepted'[n] = Later(accepted[n], g)
      /\ \A m \in Nodes : m # n => accepted'[m] = accepted[m]
      /\ accepted' \in [Nodes -> Gens]
  BY <1>1, <1>2, <1>3 DEF Gens
<1>5. /\ accepted'[n] \in {accepted[n], g} /\ accepted[n] <= accepted'[n] /\ g <= accepted'[n]
      /\ g > removed[n]
  BY <1>1, <1>2, <1>3, <1>4
<1>6. UNCHANGED <<dst, token>>
  BY DEF backup
<1>7. StoreTyped'
  BY <1>4, <1>6 DEF Inv, StoreTyped, Guids, TokenRecs
<1>8. ASSUME NEW m \in Nodes PROVE NodeDates(m)' /\ Held(m)'
  <2>1. NodeDates(m) /\ Held(m)
    BY DEF Inv, Dating, Holding
  <2>2. CASE m # n
    <3>1. accepted'[m] = accepted[m]
      BY <1>4, <2>2
    <3> QED BY <1>6, <2>1, <3>1 DEF NodeDates, Dated, Held, SameDates, Quiet
  <2>3. CASE m = n
    <3>1. Dated(m, accepted[m]) /\ Dated(m, g)
      BY <1>1, <2>1, <2>3 DEF NodeDates
    <3>2. Dated(m, accepted[m])'
      BY <1>5, <2>3, <3>1 DEF Dated, SameDates
    <3>3. synced[m] <= accepted'[m] /\ (token[m] # NoToken => token[m].gen <= accepted'[m])
      <4>1. /\ synced[m] \in Int /\ token[m].gen \in Int /\ accepted[m] \in Int
            /\ accepted'[m] \in Int
        BY <1>1, <1>2, <1>5, <2>3, GenFacts
      <4>2. synced[m] <= accepted[m] /\ (token[m] # NoToken => token[m].gen <= accepted[m])
        BY <2>1 DEF NodeDates
      <4> QED BY <1>5, <2>3, <4>1, <4>2
    <3>4. NodeDates(m)'
      BY <1>6, <2>1, <3>2, <3>3 DEF NodeDates, SameDates, Dated
    <3>5. ~(accepted'[m] <= removed[m])
      BY <1>1, <1>2, <1>4, <1>5, <2>3
    <3>6. Held(m)'
      BY <1>6, <2>1, <3>5 DEF Held, SameDates, Quiet
    <3> QED BY <3>4, <3>6
  <2> QED BY <2>2, <2>3
<1> QED BY <1>5, <1>7, <1>8 DEF Holding

\* The replication gets the lock, or is refused.
LEMMA ReplicateKeeps ==
  ASSUME Inv, NEW j \in Slots, Replicate(j)
  PROVE  Inv'
<1> DEFINE n == jobs[j].node
<1>1. /\ jobs[j].cmd = "send" /\ jobs[j].step = "wait" /\ lock = Nobody
      /\ UNCHANGED <<clock, retired, nameOf, src, held, listed, removed, backup, synced>>
  BY DEF Replicate
<1>2. ASSUME NEW ok \in BOOLEAN, Answer(j, ok) PROVE Ends(j, ok)
  BY <1>2, AnswerEnds DEF Inv, ControlTyped, JobsTyped
<1>3. removed' \in [Nodes -> Gens] /\ \A m \in Nodes : removed[m] <= removed'[m]
  BY <1>1, GenFacts DEF Inv, StoreTyped
<1>4. CASE jobs[j].cancelled \/ jobs[j].gen <= removed[n]
  <2>1. Answer(j, FALSE) /\ UNCHANGED accepted
    BY <1>4 DEF Replicate
  <2> QED BY <1>1, <1>2, <2>1, NothingDone DEF source, fences
<1>5. CASE ~(jobs[j].cancelled \/ jobs[j].gen <= removed[n])
  <2>1. /\ accepted' = [accepted EXCEPT ![n] = Later(@, jobs[j].gen)]
        /\ \/ Answer(j, FALSE)
           \/ Requested(j) # {} /\ jobs' = [jobs EXCEPT ![j].step = "inspect"] /\ lock' = j /\ UNCHANGED client
    BY <1>5 DEF Replicate
  <2>2. CASE Answer(j, FALSE)
    <3>1. Ends(j, FALSE) /\ Quiet
      BY <1>2, <2>2, EndsQuiet
    <3>2. /\ ControlTyped' /\ JobsTyped' /\ Working' /\ RowDates' /\ Removing' /\ Locking'
          /\ Planned'
          /\ SameDates
      BY <1>1, <1>3, <3>1, EndsFrame
    <3>3. StoreTyped' /\ (\A m \in Nodes : NodeDates(m)') /\ Holding'
      BY <1>1, <1>5, <2>1, <3>1, <3>2, AcceptedKeeps
    <3> QED BY <3>2, <3>3 DEF Inv, Dating
  <2>3. CASE Requested(j) # {} /\ jobs' = [jobs EXCEPT ![j].step = "inspect"] /\ lock' = j /\ UNCHANGED client
    <3>1. UNCHANGED <<clock, retired, target, tasks, worker, sweep>>
      BY <1>1, <2>3 DEF client
    <3>2. /\ jobs' \in [Slots -> JobRecs] /\ \A i \in Slots : i # j => jobs'[i] = jobs[i]
          /\ jobs'[j].cmd = "send" /\ jobs'[j].node = n /\ jobs'[j].gen = jobs[j].gen
          /\ jobs'[j].name = jobs[j].name /\ jobs'[j].step = "inspect"
      BY <1>1, <2>3 DEF Inv, JobsTyped, JobRecs
    <3>3. /\ ControlTyped' /\ JobsTyped' /\ Working' /\ SameDates /\ SameRows /\ Quiet
      BY <2>3, <3>1, <3>2
         DEF Inv, ControlTyped, ClientTyped, JobsTyped, Working, Task, SameDates, SameRows,
             Quiet
    <3>4. RowDates'
      BY <1>1, <3>2, <3>3, RowDatesStay DEF ControlTyped
    <3>5. Removing'
      BY <1>1, <3>1, <3>2 DEF Inv, Removing, Known
    <3>6. Locking'
      BY <1>1, <2>3, <3>2, SlotFacts DEF Inv, Locking, Locked
    <3>7. /\ StoreTyped' /\ (\A m \in Nodes : NodeDates(m)') /\ Holding'
          /\ jobs[j].gen <= accepted'[n] /\ jobs[j].gen > removed[n]
      BY <1>1, <1>5, <2>1, <3>3, AcceptedKeeps
    <3>8. Planned'
      BY <1>1, <2>3, <3>2, <3>7 DEF Planned, Under, Requested
    <3> QED BY <3>3, <3>4, <3>5, <3>6, <3>7, <3>8 DEF Inv, Dating
  <2> QED BY <2>1, <2>2, <2>3
<1> QED BY <1>4, <1>5

\* A replication that goes on under the lock.
LEMMA GoesOnKeeps ==
  ASSUME Inv, NEW j \in Slots, lock = j, UNCHANGED <<control, lock, fences, nameOf, src, synced>>,
         jobs' \in [Slots -> JobRecs], \A i \in Slots : i # j => jobs'[i] = jobs[i],
         jobs'[j].cmd = "send", jobs'[j].node = jobs[j].node, jobs'[j].gen = jobs[j].gen,
         jobs'[j].step \in Locked,
         held' \in [Nodes -> SUBSET (Kinds \X src)], listed' \in [Nodes -> SUBSET (Kinds \X src)],
         dst' \in [Nodes -> SUBSET Guids], token' \in [Nodes -> TokenRecs],
         \A m \in Nodes : m # jobs[j].node =>
            held'[m] = held[m] /\ listed'[m] = listed[m] /\ token'[m] = token[m],
         listed'[jobs[j].node] \subseteq held'[jobs[j].node],
         LET n == jobs[j].node
         IN /\ token'[n] \in {token[n], NoToken} \/ token'[n].gen = jobs[j].gen
            /\ token'[n] # NoToken /\ token'[n].gen > removed[n] =>
                /\ <<"transfer", token'[n].guid>> \in held'[n]
                /\ token'[n].base # 0 => <<"transfer", token'[n].base>> \in held'[n],
         Under(j)' => Planned'
  PROVE  Inv'
<1>1. /\ ControlTyped' /\ JobsTyped' /\ Working' /\ RowDates' /\ Removing' /\ Locking'
      /\ SameDates
  BY GoesOnFrame
<1>2. lock # Nobody
  BY SlotFacts
<1>3. Quiet
  BY DEF Quiet, control, client
<1>4. Holding'
  BY <1>1, <1>2, <1>3, LockHolding
<1>5. \A m \in Nodes : NodeDates(m)'
  BY <1>1, <1>2, LockDates
<1>6. Planned'
  BY <1>2, LockFacts DEF Under, fences
<1>7. StoreTyped'
  BY DEF Inv, StoreTyped, fences, Guids, TokenRecs
<1> QED BY <1>1, <1>4, <1>5, <1>6, <1>7 DEF Inv, Dating

\* A command at a step of a replication holds the lock.
LEMMA StepLocked ==
  ASSUME Inv, NEW j \in Slots, jobs[j].step \in Locked
  PROVE  lock = j /\ lock # Nobody
BY SlotFacts DEF Inv, Locking

\* An interrupted receive is completed, or aborted.
LEMMA ResumeKeeps ==
  ASSUME Inv, NEW j \in Slots, ResumeStream(j)
  PROVE  Inv'
<1> DEFINE n == jobs[j].node
<1>1. /\ jobs[j].cmd = "send" /\ jobs[j].step = "inspect"
      /\ token' = [token EXCEPT ![n] = NoToken]
      /\ dst' = IF ValidToken(n) THEN [dst EXCEPT ![n] = @ \cup {token[n].guid}] ELSE dst
      /\ jobs' = [jobs EXCEPT ![j].resumed = TRUE]
      /\ UNCHANGED <<control, lock, source, synced>>
  BY DEF ResumeStream, At
<1>2. lock = j /\ lock # Nobody
  BY <1>1, StepLocked DEF Locked
<1>3. n \in Nodes /\ jobs[j] \in JobRecs
  BY DEF Inv, JobsTyped, JobRecs
<1>4. /\ jobs' \in [Slots -> JobRecs] /\ \A i \in Slots : i # j => jobs'[i] = jobs[i]
      /\ jobs'[j].cmd = "send" /\ jobs'[j].node = n /\ jobs'[j].gen = jobs[j].gen
      /\ jobs'[j].name = jobs[j].name /\ jobs'[j].step = "inspect"
  BY <1>1 DEF Inv, JobsTyped, JobRecs
<1>5. UNCHANGED <<nameOf, src, held, listed, fences>>
  BY <1>1 DEF source
<1>6. /\ NoToken \in TokenRecs /\ token \in [Nodes -> TokenRecs]
      /\ dst \in [Nodes -> SUBSET Guids] /\ src \subseteq Guids
  BY DEF NoToken, TokenRecs, Inv, StoreTyped
<1>7. /\ token' \in [Nodes -> TokenRecs] /\ token'[n] = NoToken
      /\ \A m \in Nodes : m # n => token'[m] = token[m]
  BY <1>1, <1>3, <1>6
<1>8. dst' \in [Nodes -> SUBSET Guids]
  <2>1. CASE ValidToken(n)
    <3>1. token[n].guid \in Guids /\ dst[n] \cup {token[n].guid} \in SUBSET Guids
      BY <1>3, <1>6, <2>1 DEF ValidToken
    <3>2. dst' = [dst EXCEPT ![n] = dst[n] \cup {token[n].guid}]
      BY <1>1, <2>1
    <3> QED BY <1>3, <1>6, <3>1, <3>2
  <2>2. CASE ~ValidToken(n)
    BY <1>1, <1>6, <2>2
  <2> QED BY <2>1, <2>2
<1>9. Under(j)' => Planned'
  BY <1>1, <1>2, <1>4, <1>5 DEF Planned, Requested, Inv
<1>10. /\ held' \in [Nodes -> SUBSET (Kinds \X src)]
       /\ listed' \in [Nodes -> SUBSET (Kinds \X src)]
       /\ listed'[n] \subseteq held'[n]
  BY <1>3, <1>5 DEF Inv, StoreTyped, Holding, Held
<1> QED BY <1>1, <1>2, <1>4, <1>5, <1>7, <1>8, <1>9, <1>10, GoesOnKeeps DEF Locked

\* It breaks again.
LEMMA ResumeFailsKeeps ==
  ASSUME Inv, NEW j \in Slots, ResumeFails(j)
  PROVE  Inv'
<1> DEFINE n == jobs[j].node
<1>1. /\ jobs[j].cmd = "send" /\ jobs[j].step = "inspect"
      /\ jobs' = [jobs EXCEPT ![j].step = "reconcile", ![j].resumed = TRUE]
      /\ UNCHANGED <<control, lock, source, backup, synced>>
  BY DEF ResumeFails, At
<1>2. lock = j /\ lock # Nobody
  BY <1>1, StepLocked DEF Locked
<1>3. n \in Nodes /\ jobs[j] \in JobRecs
  BY DEF Inv, JobsTyped, JobRecs
<1>4. /\ jobs' \in [Slots -> JobRecs] /\ \A i \in Slots : i # j => jobs'[i] = jobs[i]
      /\ jobs'[j].cmd = "send" /\ jobs'[j].node = n /\ jobs'[j].gen = jobs[j].gen
      /\ jobs'[j].step = "reconcile"
  BY <1>1 DEF Inv, JobsTyped, JobRecs
<1>5. UNCHANGED <<nameOf, src, held, listed, fences, dst, token>>
  BY <1>1 DEF source, backup
<1>6. Under(j)' => Planned'
  BY <1>1, <1>2, <1>4 DEF Planned
<1>7. /\ held' \in [Nodes -> SUBSET (Kinds \X src)]
      /\ listed' \in [Nodes -> SUBSET (Kinds \X src)]
      /\ listed'[n] \subseteq held'[n] /\ dst' \in [Nodes -> SUBSET Guids]
      /\ token' \in [Nodes -> TokenRecs]
  BY <1>3, <1>5 DEF Inv, StoreTyped, Holding, Held
<1>8. token'[n] # NoToken /\ token'[n].gen > removed[n] =>
        /\ <<"transfer", token'[n].guid>> \in held'[n]
        /\ token'[n].base # 0 => <<"transfer", token'[n].base>> \in held'[n]
  BY <1>3, <1>5 DEF Inv, Holding, Held
<1> QED BY <1>1, <1>2, <1>4, <1>5, <1>6, <1>7, <1>8, GoesOnKeeps DEF Locked

\* What a replication will send: up to a snapshot of the source, the requested one or newer.
LEMMA PlannedGoalIs ==
  ASSUME Inv, NEW j \in Slots, jobs[j].step = "inspect"
  PROVE  LET n == jobs[j].node
             b == newestCommonSnapshot(n)
         IN /\ n \in Nodes /\ b \in Nat /\ b \in {0} \cup src
            /\ PlannedGoal(j) \in src /\ PlannedGoal(j) \in Nat /\ b <= PlannedGoal(j)
            /\ \/ PlannedGoal(j) \in Requested(j)
               \/ PlannedGoal(j) = b /\ \E g \in Requested(j) : g < b
<1> DEFINE n == jobs[j].node
           b == newestCommonSnapshot(n)
           r == CHOOSE g \in Requested(j) : TRUE
<1>1. lock = j /\ lock # Nobody
  BY StepLocked DEF Locked
<1>2. Requested(j) # {}
  BY <1>1 DEF Inv, Planned
<1>3. r \in Requested(j) /\ Requested(j) \subseteq src
  BY <1>2 DEF Requested
<1>4. src \subseteq Guids /\ n \in Nodes
  BY DEF Inv, StoreTyped, JobsTyped, JobRecs
<1>5. b \in Nat /\ b \in {0} \cup src
  BY <1>4, CommonIs
<1>6. r \in src /\ r \in Nat /\ r >= 1
  BY <1>3, <1>4 DEF Guids
<1>7. PlannedGoal(j) = Later(r, b)
  BY DEF PlannedGoal
<1>8. CASE r < b
  BY <1>3, <1>4, <1>5, <1>6, <1>7, <1>8 DEF Later
<1>9. CASE ~(r < b)
  BY <1>3, <1>4, <1>5, <1>6, <1>7, <1>9 DEF Later
<1> QED BY <1>8, <1>9

\* The transfer holds of a stream are on snapshots of the source.
LEMMA StreamTags ==
  ASSUME NEW a, NEW b
  PROVE  /\ Pairs("transfer", Stream(a, b)) \in SUBSET (Kinds \X src)
         /\ Pairs("hold", Stream(a, b)) \in SUBSET (Kinds \X src)
BY DEF Pairs, Stream, Kinds

\* The stream is planned: what it carries is protected, and the command goes on with it.
LEMMA PlanIs ==
  ASSUME Inv, NEW j \in Slots, Plan(j), NEW n \in Nodes, n = jobs[j].node, ~NoCommonPoint(n),
         NEW base, base = newestCommonSnapshot(n), NEW goal, goal = PlannedGoal(j)
  PROVE  LET A == Pairs("transfer", Stream(base, goal))
         IN /\ UNCHANGED <<lock, control>>
            /\ held' \in [Nodes -> SUBSET (Kinds \X src)]
            /\ listed' \in [Nodes -> SUBSET (Kinds \X src)]
            /\ held[n] \subseteq held'[n] /\ A \subseteq held'[n]
            /\ listed'[n] \subseteq held'[n]
            /\ \A m \in Nodes : m # n => held'[m] = held[m] /\ listed'[m] = listed[m]
            /\ jobs' \in [Slots -> JobRecs] /\ \A i \in Slots : i # j => jobs'[i] = jobs[i]
            /\ jobs'[j].cmd = "send" /\ jobs'[j].node = n /\ jobs'[j].gen = jobs[j].gen
            /\ jobs'[j].name = jobs[j].name
            /\ jobs'[j].base = base /\ jobs'[j].goal = goal
            /\ jobs'[j].step = IF base < goal THEN "stream" ELSE "verify"
<1> DEFINE A == Pairs("transfer", Stream(base, goal))
           st == IF base < goal THEN "stream" ELSE "verify"
<1>1. /\ jobs[j].cmd = "send" /\ jobs[j].step = "inspect"
      /\ UNCHANGED <<clock, retired, lock, client>>
      /\ UpdateSnapshotProtection(n, A, {}, {})
      /\ jobs' = [jobs EXCEPT ![j].step = st, ![j].base = base, ![j].goal = goal]
  BY DEF Plan, At
<1>2. base \in Nat /\ goal \in src /\ goal \in Nat
  BY <1>1, PlannedGoalIs
<1>3. A \in SUBSET (Kinds \X src)
  BY StreamTags
<1>4. /\ held' \in [Nodes -> SUBSET (Kinds \X src)]
      /\ listed' \in [Nodes -> SUBSET (Kinds \X src)]
      /\ held[n] \subseteq held'[n] /\ A \subseteq held'[n] /\ listed'[n] \subseteq held'[n]
      /\ \A m \in Nodes : m # n => held'[m] = held[m] /\ listed'[m] = listed[m]
  <2>1. /\ held \in [Nodes -> SUBSET (Kinds \X src)]
        /\ listed \in [Nodes -> SUBSET (Kinds \X src)]
        /\ listed[n] \subseteq held[n]
    BY DEF Inv, StoreTyped, Holding, Held
  <2> HIDE DEF A
  <2>2. /\ held' = [held EXCEPT ![n] = held[n] \cup A]
        /\ listed' = [listed EXCEPT ![n] = listed[n] \cup A]
    BY <1>1 DEF UpdateSnapshotProtection
  <2> QED BY <1>3, <2>1, <2>2
<1>5. st \in {"stream", "verify"}
  OBVIOUS
<1> HIDE DEF st
<1>6. /\ jobs' \in [Slots -> JobRecs] /\ \A i \in Slots : i # j => jobs'[i] = jobs[i]
      /\ jobs'[j].cmd = "send" /\ jobs'[j].node = n /\ jobs'[j].gen = jobs[j].gen
      /\ jobs'[j].name = jobs[j].name
      /\ jobs'[j].base = base /\ jobs'[j].goal = goal /\ jobs'[j].step = st
  <2> DEFINE new == [jobs[j] EXCEPT !.step = st, !.base = base, !.goal = goal]
  <2>1. jobs \in [Slots -> JobRecs] /\ jobs[j] \in JobRecs
    BY DEF Inv, JobsTyped
  <2>2. new \in JobRecs
    BY <1>2, <1>5, <2>1 DEF JobRecs
  <2>3. /\ new.cmd = jobs[j].cmd /\ new.node = n /\ new.gen = jobs[j].gen
        /\ new.name = jobs[j].name
        /\ new.base = base /\ new.goal = goal /\ new.step = st
    BY <2>1 DEF JobRecs
  <2>4. jobs' = [jobs EXCEPT ![j] = new]
    BY <1>1, <2>1
  <2> HIDE DEF new
  <2>5. /\ jobs' \in [Slots -> JobRecs] /\ jobs'[j] = new
        /\ \A i \in Slots : i # j => jobs'[i] = jobs[i]
    BY <2>1, <2>2, <2>4
  <2> QED BY <1>1, <2>3, <2>5
<1> QED BY <1>1, <1>4, <1>6 DEF control, st

\* The command that plans a stream keeps the invariant.
LEMMA PlanKeeps ==
  ASSUME Inv, NEW j \in Slots, Plan(j)
  PROVE  Inv'
<1>0. jobs[j].node \in Nodes
  BY DEF Inv, JobsTyped, JobRecs
<1> PICK n \in Nodes : n = jobs[j].node
  BY <1>0
<1> PICK base : base = newestCommonSnapshot(n)
  OBVIOUS
<1> PICK goal : goal = PlannedGoal(j)
  OBVIOUS
<1>1. /\ jobs[j].cmd = "send" /\ jobs[j].step = "inspect" /\ token[n] = NoToken
      /\ UNCHANGED <<clock, retired, nameOf, src, fences, backup, synced>>
  BY DEF Plan, At
<1>2. lock = j /\ lock # Nobody
  BY <1>1, StepLocked DEF Locked
<1>3. CASE NoCommonPoint(n)
  <2>1. Answer(j, FALSE) /\ UNCHANGED <<held, listed>>
    BY <1>3 DEF Plan
  <2>2. Ends(j, FALSE)
    BY <2>1, AnswerEnds DEF Inv, ControlTyped, JobsTyped
  <2> QED BY <1>1, <1>2, <2>1, <2>2, NothingDone DEF source
<1>4. CASE ~NoCommonPoint(n)
  <2> PICK A : A = Pairs("transfer", Stream(base, goal))
    OBVIOUS
  <2>0. /\ UNCHANGED <<lock, control>>
        /\ held' \in [Nodes -> SUBSET (Kinds \X src)]
        /\ listed' \in [Nodes -> SUBSET (Kinds \X src)]
        /\ A \subseteq held'[n] /\ listed'[n] \subseteq held'[n]
        /\ \A m \in Nodes : m # n => held'[m] = held[m] /\ listed'[m] = listed[m]
    BY <1>4, PlanIs
  <2>1. /\ jobs' \in [Slots -> JobRecs] /\ \A i \in Slots : i # j => jobs'[i] = jobs[i]
        /\ jobs'[j].cmd = "send" /\ jobs'[j].node = n /\ jobs'[j].gen = jobs[j].gen
        /\ jobs'[j].base = base /\ jobs'[j].goal = goal
        /\ jobs'[j].step = IF base < goal THEN "stream" ELSE "verify"
    BY <1>4, PlanIs
  <2>2. goal \in src
    BY <1>1, PlannedGoalIs
  <2>3. UNCHANGED <<src, dst, token, nameOf, fences>>
    BY <1>1 DEF backup
  <2>4. Sent(j)'
    <3>1. Pairs("transfer", Stream(jobs[j].base, jobs[j].goal))' = A
      BY <2>1, <2>3 DEF Pairs, Stream
    <3> QED BY <2>0, <2>1, <3>1 DEF Sent
  <2>5. base = newestCommonSnapshot(jobs[j].node)'
    <3>1. Common(jobs[j].node)' = Common(n)
      BY <2>1, <2>3 DEF Common
    <3> QED BY <3>1 DEF newestCommonSnapshot
  <2>6. jobs'[j].step \in {"stream", "verify"} /\ (jobs'[j].step = "stream" => base < goal)
    BY <2>1
  <2>7. Under(j)' => Planned'
    BY <1>1, <1>2, <2>0, <2>1, <2>2, <2>3, <2>4, <2>5, <2>6 DEF Planned
  <2>8. dst' \in [Nodes -> SUBSET Guids] /\ token' \in [Nodes -> TokenRecs]
    BY <2>3 DEF Inv, StoreTyped
  <2> QED BY <1>1, <1>2, <2>0, <2>1, <2>3, <2>6, <2>7, <2>8, GoesOnKeeps DEF Locked
<1> QED BY <1>3, <1>4

\* What the command that streams has planned.
LEMMA StreamFacts ==
  ASSUME Inv, NEW j \in Slots, jobs[j].step \in {"stream", "verify"}
  PROVE  LET n == jobs[j].node
         IN /\ lock = j /\ lock # Nobody /\ jobs[j].cmd = "send" /\ n \in Nodes
            /\ jobs[j].base \in Nat /\ jobs[j].goal \in src /\ jobs[j].goal \in Nat
            /\ jobs[j].gen \in Nat
            /\ token[n] = NoToken /\ Sent(j)
            /\ jobs[j].step = "stream" =>
                 /\ jobs[j].base = newestCommonSnapshot(n) /\ jobs[j].base < jobs[j].goal
                 /\ jobs[j].base \in {0} \cup src
<1>1. lock = j /\ lock # Nobody
  BY StepLocked DEF Locked
<1>2. /\ jobs[j].cmd = "send" /\ jobs[j].node \in Nodes /\ jobs[j].base \in Nat
      /\ jobs[j].goal \in Nat /\ jobs[j].gen \in Nat
  BY <1>1 DEF Inv, Locking, JobsTyped, JobRecs
<1>3. /\ token[jobs[j].node] = NoToken /\ jobs[j].goal \in src /\ Sent(j)
      /\ jobs[j].step = "stream" => jobs[j].base = newestCommonSnapshot(jobs[j].node) /\ jobs[j].base < jobs[j].goal
  BY <1>1 DEF Inv, Planned
<1>4. newestCommonSnapshot(jobs[j].node) \in {0} \cup src
  BY <1>2, CommonIs
<1> QED BY <1>1, <1>2, <1>3, <1>4

\* A member of a stream is protected while it is sent.
LEMMA SentHeld ==
  ASSUME NEW j, Sent(j), NEW g \in src, jobs[j].base <= g, g <= jobs[j].goal
  PROVE  <<"transfer", g>> \in held[jobs[j].node]
BY DEF Sent, Pairs, Stream

\* The stream arrives whole.
LEMMA StreamKeeps ==
  ASSUME Inv, NEW j \in Slots, Send(j)
  PROVE  Inv'
<1> DEFINE n == jobs[j].node
<1>1. /\ jobs[j].step = "stream" /\ token' = [token EXCEPT ![n] = NoToken]
      /\ dst' = [dst EXCEPT ![n] = Received(n, jobs[j].base, ToSend(j))]
      /\ jobs' = [jobs EXCEPT ![j].step = "verify"]
      /\ UNCHANGED <<control, lock, source, synced>>
  BY DEF Send, At
<1>2. /\ lock = j /\ lock # Nobody /\ jobs[j].cmd = "send" /\ n \in Nodes
      /\ jobs[j].goal \in src
      /\ Sent(j)
  BY <1>1, StreamFacts
<1>3. /\ jobs' \in [Slots -> JobRecs] /\ \A i \in Slots : i # j => jobs'[i] = jobs[i]
      /\ jobs'[j].cmd = "send" /\ jobs'[j].node = n /\ jobs'[j].gen = jobs[j].gen
      /\ jobs'[j].base = jobs[j].base /\ jobs'[j].goal = jobs[j].goal
      /\ jobs'[j].step = "verify"
  BY <1>1, <1>2 DEF Inv, JobsTyped, JobRecs
<1>4. UNCHANGED <<nameOf, src, held, listed, fences>>
  BY <1>1 DEF source
<1>5. /\ NoToken \in TokenRecs /\ token \in [Nodes -> TokenRecs]
      /\ dst \in [Nodes -> SUBSET Guids] /\ src \subseteq Guids
  BY DEF NoToken, TokenRecs, Inv, StoreTyped
<1>6. /\ token' \in [Nodes -> TokenRecs] /\ token'[n] = NoToken
      /\ \A m \in Nodes : m # n => token'[m] = token[m]
  BY <1>1, <1>2, <1>5
<1>7. Received(n, jobs[j].base, ToSend(j)) \subseteq Guids
  BY <1>2, <1>5 DEF Received, ToSend, Stream
<1>8. dst' \in [Nodes -> SUBSET Guids]
  BY <1>1, <1>5, <1>7
<1>9. Sent(j)'
  BY <1>2, <1>3, <1>4 DEF Sent, Pairs, Stream
<1>10. Under(j)' => Planned'
  BY <1>1, <1>2, <1>3, <1>4, <1>6, <1>9 DEF Planned
<1>11. /\ held' \in [Nodes -> SUBSET (Kinds \X src)]
       /\ listed' \in [Nodes -> SUBSET (Kinds \X src)]
       /\ listed'[n] \subseteq held'[n]
  BY <1>2, <1>4 DEF Inv, StoreTyped, Holding, Held
<1> QED BY <1>1, <1>2, <1>3, <1>4, <1>6, <1>8, <1>10, <1>11, GoesOnKeeps DEF Locked

\* What a broken stream leaves behind: some snapshots, and a token that can be resumed.
LEMMA PartlySentIs ==
  ASSUME Inv, NEW j \in Slots, jobs[j].step = "stream", PartlySent(j)
  PROVE  LET n == jobs[j].node
         IN /\ dst' \in [Nodes -> SUBSET Guids] /\ token' \in [Nodes -> TokenRecs]
            /\ \A m \in Nodes : m # n => dst'[m] = dst[m] /\ token'[m] = token[m]
            /\ \/ dst'[n] = dst[n]
               \/ \E g \in src : /\ g <= jobs[j].goal /\ Stream(jobs[j].base + 1, g - 1) # {}
                                 /\ dst'[n] = Received(n, jobs[j].base, Stream(jobs[j].base + 1, g - 1))
            /\ \/ token'[n] = NoToken
               \/ /\ token'[n].gen = jobs[j].gen /\ <<"transfer", token'[n].guid>> \in held[n]
                  /\ token'[n].base # 0 => <<"transfer", token'[n].base>> \in held[n]
<1> DEFINE n == jobs[j].node
           b == jobs[j].base
           whole(g) == Stream(b + 1, g - 1)
           from(g) == Max({b} \cup whole(g))
<1>1. /\ n \in Nodes /\ b \in Nat /\ b \in {0} \cup src /\ b < jobs[j].goal
      /\ jobs[j].goal \in Nat
      /\ token[n] = NoToken /\ Sent(j) /\ jobs[j].gen \in Nat
  BY StreamFacts
<1>2. PICK g \in ToSend(j) :
         /\ dst' = IF whole(g) = {} THEN dst ELSE [dst EXCEPT ![n] = Received(n, b, whole(g))]
         /\ token' \in {token, [token EXCEPT ![n] = [guid |-> g, base |-> from(g), gen |-> jobs[j].gen]]}
  BY DEF PartlySent
<1>3. /\ src \subseteq Guids /\ dst \in [Nodes -> SUBSET Guids]
      /\ token \in [Nodes -> TokenRecs] /\ Len(nameOf) \in Nat
  BY DEF Inv, StoreTyped
<1>4. g \in src /\ g \in Nat /\ g >= 1 /\ b + 1 <= g /\ g <= jobs[j].goal /\ g \in Guids
  BY <1>3 DEF ToSend, Stream, Guids
<1>5. \A x \in whole(g) : x \in src /\ x \in Nat /\ b <= x /\ x <= jobs[j].goal
  BY <1>1, <1>3, <1>4 DEF Stream, Guids
<1>6. {b} \cup whole(g) \in SUBSET (0 .. Len(nameOf))
  BY <1>1, <1>3, <1>5 DEF Guids
<1>7. from(g) \in {b} \cup whole(g)
  <2> DEFINE S == {b} \cup whole(g)
  <2>1. S # {} /\ S \in SUBSET (0 .. Len(nameOf))
    BY <1>6
  <2> HIDE DEF S
  <2>2. Max(S) \in S
    BY <1>3, <2>1, MaxIs
  <2> QED BY <2>2 DEF S
<1>8. from(g) \in {0} \cup src /\ (from(g) # 0 => <<"transfer", from(g)>> \in held[n])
  <2>1. from(g) \in {0} \cup src /\ b <= from(g) /\ from(g) <= jobs[j].goal
    BY <1>1, <1>5, <1>7
  <2> QED BY <1>1, <2>1, SentHeld
<1>9. <<"transfer", g>> \in held[n]
  BY <1>1, <1>4, SentHeld
<1>10. Received(n, b, whole(g)) \subseteq Guids
  BY <1>1, <1>3 DEF Received, Stream
<1> HIDE DEF whole, from
<1>11. /\ dst' \in [Nodes -> SUBSET Guids] /\ \A m \in Nodes : m # n => dst'[m] = dst[m]
       /\ dst'[n] = dst[n] \/ (whole(g) # {} /\ dst'[n] = Received(n, b, whole(g)))
  BY <1>1, <1>2, <1>3, <1>10
<1> DEFINE t == [guid |-> g, base |-> from(g), gen |-> jobs[j].gen]
<1>12. t \in TokenRecs /\ t.guid = g /\ t.base = from(g) /\ t.gen = jobs[j].gen
  BY <1>1, <1>3, <1>4, <1>8 DEF TokenRecs
<1>13. token' = token \/ token' = [token EXCEPT ![n] = t]
  BY <1>2
<1> HIDE DEF t
<1>14. /\ token' \in [Nodes -> TokenRecs] /\ \A m \in Nodes : m # n => token'[m] = token[m]
       /\ token'[n] = NoToken \/ token'[n] = t
  BY <1>1, <1>3, <1>12, <1>13
<1> QED BY <1>4, <1>8, <1>9, <1>11, <1>12, <1>14 DEF whole

\* The stream breaks.
LEMMA SendFailsKeeps ==
  ASSUME Inv, NEW j \in Slots, SendFails(j)
  PROVE  Inv'
<1> DEFINE n == jobs[j].node
<1>1. /\ jobs[j].step = "stream" /\ PartlySent(j)
      /\ jobs' = [jobs EXCEPT ![j].step = "reconcile"]
      /\ UNCHANGED <<control, lock, source, synced>>
  BY DEF SendFails
<1>2. lock = j /\ lock # Nobody /\ jobs[j].cmd = "send" /\ n \in Nodes
  BY <1>1, StreamFacts
<1>3. /\ jobs' \in [Slots -> JobRecs] /\ \A i \in Slots : i # j => jobs'[i] = jobs[i]
      /\ jobs'[j].cmd = "send" /\ jobs'[j].node = n /\ jobs'[j].gen = jobs[j].gen
      /\ jobs'[j].step = "reconcile"
  BY <1>1, <1>2 DEF Inv, JobsTyped, JobRecs
<1>4. UNCHANGED <<nameOf, src, held, listed, fences>>
  BY <1>1 DEF source
<1>5. /\ dst' \in [Nodes -> SUBSET Guids] /\ token' \in [Nodes -> TokenRecs]
      /\ \A m \in Nodes : m # n => token'[m] = token[m]
      /\ \/ token'[n] = NoToken
         \/ /\ token'[n].gen = jobs[j].gen /\ <<"transfer", token'[n].guid>> \in held[n]
            /\ token'[n].base # 0 => <<"transfer", token'[n].base>> \in held[n]
  BY <1>1, PartlySentIs
<1>6. Under(j)' => Planned'
  BY <1>1, <1>2, <1>3 DEF Planned
<1>7. /\ held' \in [Nodes -> SUBSET (Kinds \X src)]
      /\ listed' \in [Nodes -> SUBSET (Kinds \X src)]
      /\ listed'[n] \subseteq held'[n]
  BY <1>2, <1>4 DEF Inv, StoreTyped, Holding, Held
<1> QED BY <1>1, <1>2, <1>3, <1>4, <1>5, <1>6, <1>7, GoesOnKeeps DEF Locked

\* A protection is changed, in full or in part: some of A is added, the rest removed.
Changed(n, A) == \E B \in SUBSET A : \E R, half : UpdateSnapshotProtection(n, B, R, half)

\* The replication ends, with the protection of its node as it is or changed.
LEMMA ReplicationEnds ==
  ASSUME Inv, NEW j \in Slots, lock = j, lock # Nobody, NEW ok \in BOOLEAN, Answer(j, ok),
         UNCHANGED <<clock, retired, nameOf, src, fences, token>>,
         \/ UNCHANGED <<held, listed>>
         \/ token[jobs[j].node] = NoToken /\ Changed(jobs[j].node, Kinds \X src),
         dst' \in [Nodes -> SUBSET Guids], synced' \in [Nodes -> Gens],
         \A m \in Nodes : m # jobs[j].node => synced'[m] = synced[m],
         synced'[jobs[j].node] \in {synced[jobs[j].node], jobs[j].gen}
  PROVE  Inv'
<1> DEFINE n == jobs[j].node
<1>1. Ends(j, ok)
  BY AnswerEnds DEF Inv, ControlTyped, JobsTyped
<1>2. jobs[j].cmd = "send" /\ n \in Nodes
  BY LockFacts
<1>3. /\ removed' = removed /\ removed' \in [Nodes -> Gens]
      /\ \A m \in Nodes : removed[m] <= removed'[m]
  BY GenFacts DEF fences, Inv, StoreTyped
<1>4. /\ ControlTyped' /\ JobsTyped' /\ Working' /\ RowDates' /\ Removing' /\ Locking'
      /\ Planned'
      /\ SameDates
  BY <1>1, <1>2, <1>3, EndsFrame
<1>5. Quiet
  BY <1>1, <1>2, EndsQuiet
<1>6. /\ held' \in [Nodes -> SUBSET (Kinds \X src)]
      /\ listed' \in [Nodes -> SUBSET (Kinds \X src)]
      /\ listed'[n] \subseteq held'[n]
      /\ \A m \in Nodes : m # n => held'[m] = held[m] /\ listed'[m] = listed[m]
  <2>1. CASE UNCHANGED <<held, listed>>
    BY <1>2, <2>1 DEF Inv, StoreTyped, Holding, Held
  <2>2. CASE Changed(n, Kinds \X src)
    BY <1>2, <2>2, ProtectionIs DEF Changed
  <2> QED BY <2>1, <2>2
<1>7. token'[n] # NoToken /\ token'[n].gen > removed[n] =>
        /\ <<"transfer", token'[n].guid>> \in held'[n]
        /\ token'[n].base # 0 => <<"transfer", token'[n].base>> \in held'[n]
  BY <1>2 DEF Inv, Holding, Held
<1>8. Holding'
  BY <1>4, <1>5, <1>6, <1>7, LockHolding
<1>9. \A m \in Nodes : NodeDates(m)'
  BY <1>4, LockDates
<1>10. StoreTyped'
  BY <1>3, <1>6 DEF Inv, StoreTyped, fences, Guids, TokenRecs
<1> QED BY <1>4, <1>8, <1>9, <1>10 DEF Inv, Dating

\* What is added belongs to the source.
LEMMA AddsAreTags ==
  ASSUME Inv, NEW j \in Slots, lock = j, lock # Nobody
  PROVE  /\ ReconcileAdds(j) \in SUBSET (Kinds \X src)
         /\ jobs[j].step = "verify" => SettleAdds(j) \in SUBSET (Kinds \X src)
         /\ Protecting(j) => Adds(j) \in SUBSET (Kinds \X src) /\ token[jobs[j].node] = NoToken
<1>1. newestCommonSnapshot(jobs[j].node) \in {0} \cup src
  BY LockFacts, CommonIs
<1>2. ReconcileAdds(j) \in SUBSET (Kinds \X src)
  BY <1>1 DEF ReconcileAdds, Kinds
<1>3. jobs[j].step = "verify" => SettleAdds(j) \in SUBSET (Kinds \X src)
  BY StreamFacts DEF SettleAdds, Kinds
<1>4. ASSUME Protecting(j) PROVE Adds(j) \in SUBSET (Kinds \X src) /\ token[jobs[j].node] = NoToken
  <2>1. CASE jobs[j].step = "inspect"
    BY <1>4, <2>1, StreamTags DEF Protecting, Adds
  <2>2. CASE jobs[j].step = "verify"
    BY <1>3, <1>4, <2>2 DEF Protecting, Adds, Verified
  <2>3. CASE jobs[j].step = "reconcile"
    BY <1>2, <1>4, <2>3 DEF Protecting, Adds, Reconciles
  <2> QED BY <1>4, <2>1, <2>2, <2>3 DEF Protecting
<1> QED BY <1>2, <1>3, <1>4

\* After a broken stream.
LEMMA ReconcileKeeps ==
  ASSUME Inv, NEW j \in Slots, Reconcile(j)
  PROVE  Inv'
<1>1. /\ jobs[j].step = "reconcile" /\ Answer(j, FALSE)
      /\ UNCHANGED <<clock, retired, nameOf, src, fences, token, dst, synced>>
  BY DEF Reconcile, At, backup
<1>2. lock = j /\ lock # Nobody /\ jobs[j].node \in Nodes
  BY <1>1, StepLocked, LockFacts DEF Locked
<1>3. \/ UNCHANGED <<held, listed>>
      \/ token[jobs[j].node] = NoToken /\ Changed(jobs[j].node, Kinds \X src)
  BY <1>2, AddsAreTags DEF Reconcile, Reconciles, Changed
<1>4. dst' \in [Nodes -> SUBSET Guids] /\ synced' \in [Nodes -> Gens]
  BY <1>1 DEF Inv, StoreTyped
<1> QED BY <1>1, <1>2, <1>3, <1>4, ReplicationEnds

\* After a stream that arrived.
LEMMA SettleKeeps ==
  ASSUME Inv, NEW j \in Slots, Settle(j)
  PROVE  Inv'
<1> DEFINE n == jobs[j].node
           ok == Verified(j)
<1>1. /\ jobs[j].step = "verify" /\ Answer(j, ok) /\ ok \in BOOLEAN
      /\ UNCHANGED <<clock, retired, nameOf, src, fences, token>>
  BY DEF Settle, At, Verified
<1>2. lock = j /\ lock # Nobody /\ n \in Nodes /\ jobs[j].gen \in Nat /\ token[n] = NoToken
  BY <1>1, StreamFacts
<1>3. dst \in [Nodes -> SUBSET Guids] /\ synced \in [Nodes -> Gens]
  BY DEF Inv, StoreTyped
<1>4. CASE ok
  <2>1. /\ UpdateSnapshotProtection(n, SettleAdds(j), SettleRemoves(j), {})
        /\ synced' = [synced EXCEPT ![n] = jobs[j].gen] /\ PruneBackup(j)
    BY <1>4 DEF Settle
  <2>2. Changed(n, Kinds \X src)
    BY <1>1, <1>2, <2>1, AddsAreTags DEF Changed
  <2>3. PICK K \in RetainedSnapshots(dst[n]) : dst' = [dst EXCEPT ![n] = K]
    BY <2>1 DEF PruneBackup
  <2>4. K \subseteq dst[n]
    BY DEF RetainedSnapshots
  <2>5. dst' \in [Nodes -> SUBSET Guids]
    BY <1>2, <1>3, <2>3, <2>4
  <2>6. /\ synced' \in [Nodes -> Gens] /\ synced'[n] = jobs[j].gen
        /\ \A m \in Nodes : m # n => synced'[m] = synced[m]
    BY <1>2, <1>3, <2>1 DEF Gens
  <2> HIDE DEF ok
  <2> QED BY <1>1, <1>2, <2>2, <2>5, <2>6, ReplicationEnds
<1>5. CASE ~ok
  <2>1. UNCHANGED <<held, listed, synced, dst>>
    BY <1>5 DEF Settle
  <2> HIDE DEF ok
  <2> QED BY <1>1, <1>2, <1>3, <2>1, ReplicationEnds
<1> QED BY <1>4, <1>5

\* An interrupted change has added part of A, or all of it and removed part of the rest.
LEMMA InterruptedIs ==
  ASSUME NEW n, NEW A, NEW Done, ProtectionInterrupted(n, A, Done)
  PROVE  \E B \in SUBSET A : \E R \in SUBSET (UNION Done) : \E half :
            UpdateSnapshotProtection(n, B, R, half) /\ (R = {} \/ B = A)
<1>1. CASE \E D \in InOrder(A) \ {A} : \E h \in Halves(D, InOrder(A)) :
             UpdateSnapshotProtection(n, D \cup h, {}, h)
  <2>0. PICK D \in InOrder(A) : \E h \in Halves(D, InOrder(A)) : UpdateSnapshotProtection(n, D \cup h, {}, h)
    BY <1>1
  <2>1. PICK h \in Halves(D, InOrder(A)) : UpdateSnapshotProtection(n, D \cup h, {}, h)
    BY <2>0
  <2>2. \A X \in InOrder(A) : X \subseteq A
    BY DEF InOrder
  <2>3. h \subseteq UNION InOrder(A)
    BY DEF Halves
  <2>4. D \cup h \in SUBSET A /\ {} \in SUBSET (UNION Done)
    BY <2>2, <2>3
  <2> QED BY <2>1, <2>4
<1>2. CASE \E D \in Done : \E h \in Halves(D, Done) : UpdateSnapshotProtection(n, A, D \cup h, h)
  <2>0. PICK D \in Done : \E h \in Halves(D, Done) : UpdateSnapshotProtection(n, A, D \cup h, h)
    BY <1>2
  <2>1. PICK h \in Halves(D, Done) : UpdateSnapshotProtection(n, A, D \cup h, h)
    BY <2>0
  <2>2. h \subseteq UNION Done
    BY DEF Halves
  <2>3. D \cup h \in SUBSET (UNION Done) /\ A \in SUBSET A
    BY <2>2
  <2> QED BY <2>1, <2>3
<1> QED BY <1>1, <1>2 DEF ProtectionInterrupted

\* A replication fails.
LEMMA ReplicationFailsKeeps ==
  ASSUME Inv, NEW j \in Slots, ReplicationFails(j)
  PROVE  Inv'
<1>1. /\ lock = j /\ lock # Nobody /\ Answer(j, FALSE)
      /\ UNCHANGED <<clock, retired, nameOf, src, fences, token, dst, synced>>
  BY SlotFacts DEF ReplicationFails, backup
<1>2. \/ UNCHANGED <<held, listed>>
      \/ token[jobs[j].node] = NoToken /\ Changed(jobs[j].node, Kinds \X src)
  <2> SUFFICES ASSUME Protecting(j), ProtectionInterrupted(jobs[j].node, Adds(j), Stages(j))
               PROVE  token[jobs[j].node] = NoToken /\ Changed(jobs[j].node, Kinds \X src)
    BY DEF ReplicationFails
  <2>1. Adds(j) \in SUBSET (Kinds \X src) /\ token[jobs[j].node] = NoToken
    BY <1>1, AddsAreTags
  <2>2. PICK B \in SUBSET Adds(j) : \E R, half : UpdateSnapshotProtection(jobs[j].node, B, R, half)
    BY InterruptedIs
  <2> QED BY <2>1, <2>2 DEF Changed
<1>3. jobs[j].node \in Nodes /\ dst' \in [Nodes -> SUBSET Guids] /\ synced' \in [Nodes -> Gens]
  BY <1>1, LockFacts DEF Inv, StoreTyped
<1> QED BY <1>1, <1>2, <1>3, ReplicationEnds

\* Another command fails.
LEMMA CommandFailsKeeps ==
  ASSUME Inv, NEW j \in Slots, CommandFails(j)
  PROVE  Inv'
<1> DEFINE n == jobs[j].node
<1>1. /\ lock = Nobody /\ Answer(j, FALSE) /\ n \in Nodes /\ jobs[j].gen \in Nat
      /\ UNCHANGED <<clock, retired, nameOf, src, accepted, dst, token, synced>>
  BY DEF CommandFails, backup, Inv, JobsTyped, JobRecs
<1>2. Ends(j, FALSE) /\ Quiet
  BY <1>1, AnswerEnds, EndsQuiet DEF Inv, ControlTyped, JobsTyped
<1>3. CASE UNCHANGED <<removed, held, listed>>
  BY <1>1, <1>2, <1>3, NothingDone DEF source, fences, backup
<1>4. CASE /\ jobs[j].cmd = "cleanup" /\ removed' = [removed EXCEPT ![n] = Later(@, jobs[j].gen)]
           /\ \/ UNCHANGED <<held, listed>>
              \/ accepted[n] <= jobs[j].gen /\ ProtectionInterrupted(n, {}, InOrder(Everything))
  <2>1. removed' \in [Nodes -> Gens] /\ \A m \in Nodes : removed[m] <= removed'[m]
    BY <1>4, FenceIs
  <2>2. /\ ControlTyped' /\ JobsTyped' /\ Working' /\ RowDates' /\ Removing' /\ Locking'
        /\ Planned'
        /\ SameDates
    BY <1>1, <1>2, <2>1, EndsFrame
  <2>3. \A m \in Nodes : NodeDates(m)'
    BY <1>1, <1>4, <2>2, FenceDates
  <2>4. /\ held' \in [Nodes -> SUBSET (Kinds \X src)]
        /\ listed' \in [Nodes -> SUBSET (Kinds \X src)]
        /\ \A m \in Nodes : listed'[m] \subseteq held'[m] /\ (m # n => held'[m] = held[m])
        /\ held'[n] = held[n] \/ (held'[n] \subseteq held[n] /\ accepted[n] <= jobs[j].gen)
    <3>1. CASE UNCHANGED <<held, listed>>
      BY <3>1 DEF Inv, StoreTyped, Holding, Held
    <3>2. CASE accepted[n] <= jobs[j].gen /\ ProtectionInterrupted(n, {}, InOrder(Everything))
      <4>0. PICK B \in SUBSET {} : \E R, half : UpdateSnapshotProtection(n, B, R, half)
        BY <3>2, InterruptedIs
      <4>1. PICK R, half : UpdateSnapshotProtection(n, B, R, half)
        BY <4>0
      <4>2. /\ held \in [Nodes -> SUBSET (Kinds \X src)]
            /\ listed \in [Nodes -> SUBSET (Kinds \X src)]
        BY DEF Inv, StoreTyped
      <4>3. /\ held' = [held EXCEPT ![n] = held[n] \ (R \ half)]
            /\ listed' = [listed EXCEPT ![n] = listed[n] \ R]
        BY <4>1 DEF UpdateSnapshotProtection
      <4>4. \A m \in Nodes : listed[m] \subseteq held[m]
        BY DEF Inv, Holding, Held
      <4> QED BY <1>1, <3>2, <4>2, <4>3, <4>4
    <3> QED BY <1>4, <3>1, <3>2
  <2>5. ASSUME NEW m \in Nodes PROVE Held(m)'
    <3>1. ~target'[m].enabled /\ ~target'[m].cleanup_pending => ~target[m].cleanup_pending
      BY <1>2 DEF Quiet
    <3>2. accepted[m] \in Int
      BY GenFacts
    <3>3. \/ held'[m] = held[m] /\ (m = n => accepted[m] > jobs[j].gen)
          \/ m = n /\ held'[m] \subseteq held[m] /\ accepted[m] <= jobs[j].gen
      BY <1>1, <2>4, <3>2
    <3>4. listed'[m] \subseteq held'[m]
      BY <2>4
    <3> QED BY <1>1, <1>4, <2>2, <3>1, <3>3, <3>4, FenceHeld
  <2>6. StoreTyped'
    BY <1>1, <2>1, <2>4 DEF Inv, StoreTyped, Guids, TokenRecs
  <2> QED BY <2>2, <2>3, <2>5, <2>6 DEF Inv, Dating, Holding
<1> QED BY <1>3, <1>4 DEF CommandFails

\* hostd stops.
LEMMA HostdRestartKeeps == Inv /\ HostdRestart => Inv'
<1> SUFFICES ASSUME Inv, HostdRestart PROVE Inv'
  OBVIOUS
<1>1. /\ lock' = Nobody /\ UNCHANGED <<control, nameOf, src, fences, synced>>
      /\ jobs' = [j \in Slots |-> IF j \in Orphans THEN NoJob
                     ELSE IF Busy(j) THEN [Job(jobs[j].cmd, jobs[j].node, 0, jobs[j].gen) EXCEPT !.step = "lost"]
                     ELSE jobs[j]]
  BY DEF HostdRestart
<1>2. \A j \in Slots : /\ jobs'[j] \in JobRecs /\ jobs'[j].step \notin Locked
                       /\ jobs'[j].cmd # "none" =>
                            jobs'[j].cmd = jobs[j].cmd /\ jobs'[j].node = jobs[j].node /\ jobs'[j].gen = jobs[j].gen
  <2> TAKE j \in Slots
  <2>1. jobs[j] \in JobRecs
    BY DEF Inv, JobsTyped
  <2>2. CASE j \in Orphans
    BY <1>1, <2>2, RecordFacts DEF Locked
  <2>3. CASE j \notin Orphans /\ Busy(j)
    <3>1. jobs'[j] = [Job(jobs[j].cmd, jobs[j].node, 0, jobs[j].gen) EXCEPT !.step = "lost"]
      BY <1>1, <2>3
    <3>2. jobs'[j] = [cmd |-> jobs[j].cmd, node |-> jobs[j].node, name |-> 0, gen |-> jobs[j].gen, step |-> "lost",
                      cancelled |-> FALSE, base |-> 0, goal |-> 0, resumed |-> FALSE]
      BY <3>1 DEF Job
    <3> QED BY <2>1, <3>2 DEF JobRecs, Locked
  <2>4. CASE j \notin Orphans /\ ~Busy(j)
    <3>1. jobs'[j] = jobs[j]
      BY <1>1, <2>4
    <3>2. jobs[j].step \notin Locked
      BY <2>4, SlotFacts DEF Busy, Inv, Locking, Locked
    <3> QED BY <2>1, <3>1, <3>2
  <2> QED BY <2>2, <2>3, <2>4
<1>3. JobsTyped'
  <2>1. jobs' = [j \in Slots |-> jobs'[j]]
    BY <1>1
  <2> QED BY <1>1, <1>2, <2>1 DEF JobsTyped
<1>4. /\ UNCHANGED <<clock, retired, target, tasks, worker, sweep, removed, accepted>>
      /\ ControlTyped' /\ Working' /\ SameDates /\ SameRows /\ Quiet
  BY <1>1
     DEF Inv, control, client, fences, ControlTyped, ClientTyped, Working, Task, SameDates,
         SameRows, Quiet
<1>5. Locking' /\ Planned'
  BY <1>1, <1>2 DEF Locking, Planned
<1>6. RowDates'
  BY <1>2, <1>3, <1>4, RowDatesStay DEF ControlTyped
<1>7. Removing'
  BY <1>2, <1>4 DEF Inv, Removing, Known
<1>8. StoreTyped' /\ (\A m \in Nodes : NodeDates(m)') /\ Holding'
  <2>1. CASE UNCHANGED <<held, listed, backup>>
    BY <1>1, <1>4, <2>1, NodesStay DEF source, Quiet
  <2> DEFINE n == jobs[lock].node
  <2>2. CASE /\ lock # Nobody /\ Protecting(lock) /\ UNCHANGED backup
             /\ ProtectionInterrupted(n, Adds(lock), Stages(lock))
    <3>1. UNCHANGED <<dst, token>> /\ n \in Nodes /\ lock \in Slots
      BY <2>2, LockFacts DEF backup
    <3>2. Adds(lock) \in SUBSET (Kinds \X src) /\ token[n] = NoToken
      BY <2>2, <3>1, AddsAreTags
    <3>0. PICK B \in SUBSET Adds(lock) : \E R, half : UpdateSnapshotProtection(n, B, R, half)
      BY <2>2, InterruptedIs
    <3>3. PICK R, half : UpdateSnapshotProtection(n, B, R, half)
      BY <3>0
    <3>4. /\ held' \in [Nodes -> SUBSET (Kinds \X src)]
          /\ listed' \in [Nodes -> SUBSET (Kinds \X src)]
          /\ listed'[n] \subseteq held'[n]
          /\ \A m \in Nodes : m # n => held'[m] = held[m] /\ listed'[m] = listed[m]
      BY <3>1, <3>2, <3>3, ProtectionIs
    <3>5. Holding' /\ \A m \in Nodes : NodeDates(m)'
      BY <1>1, <1>4, <2>2, <3>1, <3>2, <3>4, LockHolding, LockDates
    <3> QED BY <1>1, <1>4, <3>1, <3>4, <3>5 DEF Inv, StoreTyped, Guids, TokenRecs
  <2>3. CASE /\ lock # Nobody /\ jobs[lock].step = "stream" /\ UNCHANGED <<held, listed>>
             /\ PartlySent(lock)
    <3>1. n \in Nodes /\ lock \in Slots
      BY <2>3, LockFacts
    <3>2. /\ dst' \in [Nodes -> SUBSET Guids] /\ token' \in [Nodes -> TokenRecs]
          /\ \A m \in Nodes : m # n => token'[m] = token[m]
          /\ \/ token'[n] = NoToken
             \/ /\ token'[n].gen = jobs[lock].gen /\ <<"transfer", token'[n].guid>> \in held[n]
                /\ token'[n].base # 0 => <<"transfer", token'[n].base>> \in held[n]
      BY <2>3, <3>1, PartlySentIs
    <3>3. listed'[n] \subseteq held'[n]
      BY <2>3, <3>1 DEF Inv, Holding, Held
    <3>4. Holding' /\ \A m \in Nodes : NodeDates(m)'
      BY <1>1, <1>4, <2>3, <3>2, <3>3, LockHolding, LockDates
    <3> QED BY <1>1, <1>4, <2>3, <3>2, <3>4 DEF Inv, StoreTyped, Guids, TokenRecs
  <2> QED BY <2>1, <2>2, <2>3 DEF HostdRestart
<1> QED BY <1>3, <1>4, <1>5, <1>6, <1>7, <1>8 DEF Inv, Dating

-----------------------------------------------------------------------------
(* The invariant.                                                          *)

\* The rows of tasks at the beginning: none, or the last snapshot's.
LEMMA InitRows ==
  ASSUME Init
  PROVE  /\ tasks \in Seq(TaskRows) /\ clock \in Nat
         /\ \A i \in DOMAIN tasks :
              /\ tasks[i].state \in {"done", "pending"} /\ tasks[i].attempts = 0
              /\ tasks[i].name = clock /\ tasks[i].gen \in {0, 1}
<1>1. PICK k \in 0 .. MaxHistory : \E r \in 0 .. k :
         /\ clock = k
         /\ tasks = IF r = k THEN <<>>
                    ELSE <<[CreateRow(k) EXCEPT !.state = "done"]>>
                         \o SetToSeq({Row("repl", k, n, FirstTarget, 1) : n \in Nodes})
  BY DEF Init
<1> DEFINE first == [CreateRow(k) EXCEPT !.state = "done"]
           f == [n \in Nodes |-> Row("repl", k, n, FirstTarget, 1)]
           T == {f[n] : n \in Nodes}
           q == SetToSeq(T)
<1>2. k \in Nat
  BY BackupAssumption
<1>3. CASE tasks = <<>>
  <2>1. <<>> \in Seq(TaskRows) /\ DOMAIN <<>> = {}
    OBVIOUS
  <2> QED BY <1>1, <1>2, <1>3, <2>1
<1>4. CASE tasks = <<first>> \o q
  <2>1. first = [type |-> "create", name |-> k, node |-> SomeNode, gen |-> 0, rev |-> 0, after |-> 0,
                 state |-> "done", attempts |-> 0]
    BY DEF CreateRow, Row
  <2>2. /\ first \in TaskRows /\ first.state = "done" /\ first.attempts = 0 /\ first.name = k
        /\ first.gen = 0
    BY <1>2, <2>1, RecordFacts, BackupAssumption DEF TaskRows
  <2>3. \A n \in Nodes : /\ f[n] \in TaskRows /\ f[n].state = "pending" /\ f[n].attempts = 0
                         /\ f[n].name = k /\ f[n].gen = 1
    BY <1>2, BackupAssumption DEF Row, FirstTarget, TaskRows
  <2>4. f \in [Nodes -> TaskRows]
    BY <2>3
  <2>5. IsFiniteSet(T)
    BY <2>4, RowsFinite
  <2>6. q \in Seq(T)
    BY <2>5, SetToSeqIs
  <2>7. \A x \in T : x \in TaskRows /\ x.state = "pending" /\ x.attempts = 0 /\ x.name = k /\ x.gen = 1
    BY <2>3
  <2> HIDE DEF first, T, q
  <2>8. <<first>> \in Seq(TaskRows) /\ Len(<<first>>) = 1 /\ <<first>>[1] = first
    BY <2>2
  <2>9. q \in Seq(TaskRows) /\ \A i \in 1 .. Len(q) : q[i] \in T
    BY <2>6, <2>7
  <2>10. /\ tasks \in Seq(TaskRows) /\ DOMAIN tasks = 1 .. 1 + Len(q) /\ Len(q) \in Nat
         /\ tasks[1] = first
         /\ \A i \in 2 .. 1 + Len(q) : tasks[i] = q[i - 1] /\ i - 1 \in 1 .. Len(q)
    BY <1>4, <2>8, <2>9
  <2>11. ASSUME NEW i \in DOMAIN tasks PROVE tasks[i] = first \/ tasks[i] \in T
    BY <2>9, <2>10, <2>11
  <2> QED BY <1>1, <1>2, <2>2, <2>7, <2>10, <2>11
<1>5. T = {Row("repl", k, n, FirstTarget, 1) : n \in Nodes}
  OBVIOUS
<1> QED BY <1>1, <1>3, <1>4, <1>5

\* The invariant holds at the beginning.
LEMMA InitInv == Init => Inv
<1> SUFFICES ASSUME Init PROVE Inv
  OBVIOUS
<1>1. PICK k \in 0 .. MaxHistory : \E r \in 0 .. k :
    /\ retired = {} /\ target = [n \in Nodes |-> FirstTarget]
    /\ worker = Idle /\ sweep = [c \in Clients |-> Swept]
    /\ jobs = [j \in Slots |-> NoJob] /\ lock = Nobody
    /\ nameOf = [g \in 1 .. k |-> g] /\ src = 1 .. k
    /\ held = [n \in Nodes |-> IF r = 0 THEN {} ELSE {<<"hold", r>>}] /\ listed = held
    /\ removed = [n \in Nodes |-> NoGen]
    /\ accepted = [n \in Nodes |-> IF r = 0 THEN NoGen ELSE 1]
    /\ dst = [n \in Nodes |-> 1 .. r] /\ token = [n \in Nodes |-> NoToken]
    /\ synced = [n \in Nodes |-> IF r = 0 THEN NoGen ELSE 1]
  BY DEF Init
<1>2. PICK r \in 0 .. k :
    /\ retired = {} /\ target = [n \in Nodes |-> FirstTarget]
    /\ worker = Idle /\ sweep = [c \in Clients |-> Swept]
    /\ jobs = [j \in Slots |-> NoJob] /\ lock = Nobody
    /\ nameOf = [g \in 1 .. k |-> g] /\ src = 1 .. k
    /\ held = [n \in Nodes |-> IF r = 0 THEN {} ELSE {<<"hold", r>>}] /\ listed = held
    /\ removed = [n \in Nodes |-> NoGen]
    /\ accepted = [n \in Nodes |-> IF r = 0 THEN NoGen ELSE 1]
    /\ dst = [n \in Nodes |-> 1 .. r] /\ token = [n \in Nodes |-> NoToken]
    /\ synced = [n \in Nodes |-> IF r = 0 THEN NoGen ELSE 1]
  BY <1>1
<1>3. k \in Nat /\ r \in Nat /\ r <= k /\ (r # 0 => r \in 1 .. k)
  BY BackupAssumption
<1>4. /\ tasks \in Seq(TaskRows) /\ clock \in Nat
      /\ \A i \in DOMAIN tasks : /\ tasks[i].state \in {"done", "pending"} /\ tasks[i].attempts = 0
                                 /\ tasks[i].gen \in {0, 1}
  BY InitRows
<1>5. /\ FirstTarget \in TargetRows /\ FirstTarget.generation = 1 /\ FirstTarget.enabled
      /\ ~FirstTarget.cleanup_pending
  BY DEF FirstTarget, TargetRows
<1>6. ControlTyped
  BY <1>2, <1>4, <1>5, RecordFacts DEF ControlTyped, ClientTyped, Idle
<1>7. JobsTyped /\ Locking /\ Planned
  BY <1>2, RecordFacts DEF JobsTyped, Locking, Locked, Planned
<1>8. nameOf \in Seq(Nat) /\ Len(nameOf) = k /\ Guids = 1 .. k
  BY <1>2, <1>3 DEF Guids
<1>9. StoreTyped
  <2>1. NoToken \in TokenRecs
    BY DEF NoToken, TokenRecs
  <2>2. held \in [Nodes -> SUBSET (Kinds \X src)]
    <3>1. {} \in SUBSET (Kinds \X src) /\ (r # 0 => {<<"hold", r>>} \in SUBSET (Kinds \X src))
      BY <1>2, <1>3 DEF Kinds
    <3>2. \A n \in Nodes : held[n] \in SUBSET (Kinds \X src)
      BY <1>2, <3>1
    <3> QED BY <1>2, <3>2
  <2>3. dst \in [Nodes -> SUBSET Guids]
    BY <1>2, <1>3, <1>8
  <2>4. /\ removed \in [Nodes -> Gens] /\ accepted \in [Nodes -> Gens]
        /\ synced \in [Nodes -> Gens]
    BY <1>2 DEF Gens
  <2> QED BY <1>2, <1>8, <2>1, <2>2, <2>3, <2>4 DEF StoreTyped
<1>10. Working
  BY <1>2, <1>4, BackupAssumption DEF Working, Idle
<1>11. RowDates
  <2>1. ASSUME NEW i \in DOMAIN tasks PROVE Dated(tasks[i].node, tasks[i].gen)
    <3>1. tasks[i] \in TaskRows
      BY <1>4
    <3>2. tasks[i].node \in Nodes
      BY <3>1 DEF TaskRows
    <3>3. tasks[i].gen = 0 \/ tasks[i].gen = 1
      BY <1>4
    <3>4. target[tasks[i].node].generation = 1 /\ target[tasks[i].node].enabled
      BY <1>2, <1>5, <3>2
    <3> QED BY <3>3, <3>4 DEF Dated
  <2> QED BY <1>2, <2>1, RecordFacts DEF RowDates
<1>12. \A n \in Nodes : NodeDates(n)
  BY <1>2, <1>5 DEF NodeDates, Dated, NoGen
<1>13. Removing
  BY <1>2, <1>5, RecordFacts DEF Removing
<1>14. Holding
  BY <1>2, <1>5 DEF Holding, Held, NoGen
<1> QED BY <1>6, <1>7, <1>9, <1>10, <1>11, <1>12, <1>13, <1>14 DEF Inv, Dating

\* Every command of hostd keeps it.
LEMMA HostdKeeps ==
  ASSUME Inv, NEW j \in Slots, HostdStep(j)
  PROVE  Inv'
BY SnapshotCreateKeeps, SnapshotPruneKeeps, CleanupKeeps, ReplicateKeeps, ResumeKeeps,
   ResumeFailsKeeps,
   PlanKeeps, StreamKeeps, SendFailsKeeps, ReconcileKeeps, SettleKeeps, ReplicationFailsKeeps, CommandFailsKeeps
   DEF HostdStep

\* So does a step of something else.
LEMMA StutterKeeps == Inv /\ UNCHANGED rvars => Inv' /\ Calm
<1> SUFFICES ASSUME Inv, UNCHANGED rvars PROVE Inv' /\ Calm
  OBVIOUS
<1>1. UNCHANGED <<clock, target, retired, tasks, worker, sweep, jobs, lock, source, backup, synced>>
  BY DEF rvars, control, client
<1>2. ClientTyped' /\ Working' /\ SameRows
  BY <1>1 DEF Inv, ControlTyped, ClientTyped, Working, Task, SameRows
<1> QED BY <1>1, <1>2, ClientKeeps

\* Every step keeps it.
LEMMA InvStep == Inv /\ [ReplicationNext]_rvars => Inv'
<1> SUFFICES ASSUME Inv, [ReplicationNext]_rvars PROVE Inv'
  OBVIOUS
<1>1. CASE Requests
  BY <1>1, TriggerKeeps, PutKeeps, RemoveKeeps, DisableKeeps DEF Requests
<1>2. CASE WorkerStep
  BY <1>2, SlotFacts, CreateKeeps, TriggeredKeeps, SendKeeps, SweptKeeps, CleanupArrivesKeeps,
     TimedOutKeeps, CallLostKeeps
     DEF WorkerStep
<1>3. CASE CleanupStep
  BY <1>3, SlotFacts, SweptKeeps, CleanupArrivesKeeps, TimedOutKeeps, CallLostKeeps
     DEF CleanupStep
<1> QED BY <1>1, <1>2, <1>3, StutterKeeps, ScheduleKeeps, HostdKeeps, ControlRestartKeeps,
           HostdRestartKeeps
       DEF ReplicationNext

-----------------------------------------------------------------------------
(* The common point.                                                       *)

\* A node whose holds, backup and fence stay, or whose holds grow, stays anchored; the
\* snapshots it may be asked for are the same, or the newest.
LEMMA AnchorStays ==
  ASSUME Inv, Inv', NEW n \in Nodes, AnchoredAt(n),
         \A g \in Named(n)' : g \in Named(n) \/ g = Len(nameOf'),
         held[n] \subseteq held'[n], removed'[n] = removed[n], dst'[n] = dst[n],
         token'[n] \in {token[n], NoToken} \/ token'[n].gen > removed[n],
         synced'[n] = synced[n]
  PROVE  AnchoredAt(n)'
<1>1. held'[n] \subseteq Kinds \X src' /\ dst'[n] \subseteq 1 .. Len(nameOf') /\ token'[n] \in TokenRecs'
      /\ Len(nameOf') \in Nat /\ src' \subseteq 1 .. Len(nameOf')
  BY DEF Inv, StoreTyped, Guids
<1>2. \A g \in 1 .. Len(nameOf') : Protected(n, g) => g \in src'
  BY <1>1 DEF Protected
<1>3. Anchored(n) => Anchored(n)'
  <2> SUFFICES ASSUME Anchored(n) PROVE Anchored(n)'
    OBVIOUS
  <2>1. ASSUME dst'[n] # {} PROVE \E t \in src' : Top(n, t)' /\ Protected(n, t)'
    <3>1. PICK t \in src : Top(n, t) /\ Protected(n, t)
      BY <2>1 DEF Anchored
    <3>2. Top(n, t)' /\ Protected(n, t)'
      BY <3>1 DEF Top, Protected
    <3>3. t \in src'
      BY <1>1, <1>2, <3>1, <3>2 DEF Top
    <3> QED BY <3>2, <3>3
  <2>2. token'[n] # NoToken => token'[n].gen > removed'[n]
    BY DEF Anchored
  <2> QED BY <2>1, <2>2 DEF Anchored
<1>4. Untouched(n) => Untouched(n)'
  <2> SUFFICES ASSUME Untouched(n), NEW g \in Named(n)'
               PROVE  /\ \A m \in dst'[n] : m <= g
                      /\ token'[n].gen <= removed'[n] => token'[n].guid <= g
    BY DEF Untouched
  <2>1. g \in Nat
    BY <1>1 DEF Named
  <2>2. CASE g = Len(nameOf')
    <3>1. token'[n].guid \in {0} \cup 1 .. Len(nameOf')
      BY <1>1 DEF TokenRecs, Guids
    <3> QED BY <1>1, <2>2, <3>1
  <2>3. CASE g \in Named(n)
    <3>1. \A m \in dst'[n] : m <= g
      BY <2>3 DEF Untouched
    <3>2. removed[n] \in Int /\ token'[n].gen \in Nat
      BY <1>1, GenFacts DEF TokenRecs
    <3>3. token'[n].gen <= removed'[n] => token'[n].guid <= g
      BY <2>1, <2>3, <3>2, RecordFacts DEF Untouched
    <3> QED BY <3>1, <3>3
  <2> QED BY <2>2, <2>3
<1>5. Live(n)' = Live(n)
  BY DEF Live
<1>6. Shared(n) => Shared(n)'
  <2> SUFFICES ASSUME Shared(n) PROVE Shared(n)'
    OBVIOUS
  <2>1. PICK g \in Common(n) : <<"hold", g>> \in held[n]
    BY DEF Shared
  <2>2. g \in src'
    BY <1>1, <2>1
  <2> QED BY <2>1, <2>2 DEF Shared, Common
<1> QED BY <1>3, <1>4, <1>5, <1>6 DEF AnchoredAt

\* What may be asked for when the rows, the targets and the fence are the same and no command is new.
LEMMA NamedStays ==
  ASSUME Inv, Inv', Naming, clock' = clock, nameOf' = nameOf, src' \subseteq src,
         SameRows, \A n \in Nodes : target'[n].enabled => target[n].enabled,
         \A n \in Nodes : removed[n] <= removed'[n], \A j \in Slots : Stems(jobs'[j])
  PROVE  Naming' /\ \A n \in Nodes : Named(n)' \subseteq Named(n)
<1>1. ASSUME NEW n \in Nodes, NEW g \in Named(n)' PROVE g \in Named(n)
  <2>1. removed[n] \in Int /\ removed'[n] \in Int /\ removed[n] <= removed'[n]
    BY GenFacts DEF Inv, StoreTyped, Gens, NoGen
  <2>2. g \in src /\ g \in src' /\ nameOf[g] = nameOf'[g] /\ clock' = clock
    BY DEF Named
  <2>3. CASE target'[n].enabled /\ nameOf'[g] = clock'
    BY <2>2, <2>3 DEF Named
  <2>4. CASE \E i \in DOMAIN tasks' : /\ tasks'[i].type = "repl" /\ tasks'[i].node = n
                                      /\ tasks'[i].gen > removed'[n]
                                      /\ nameOf'[g] = tasks'[i].name
    <3>1. PICK i \in DOMAIN tasks' : /\ tasks'[i].type = "repl" /\ tasks'[i].node = n
                                     /\ tasks'[i].gen > removed'[n]
                                     /\ nameOf'[g] = tasks'[i].name
      BY <2>4
    <3>2. /\ i \in DOMAIN tasks /\ tasks[i].type = "repl" /\ tasks[i].node = n
          /\ tasks[i].gen > removed'[n] /\ nameOf[g] = tasks[i].name
      BY <2>2, <3>1 DEF SameRows
    <3>3. tasks[i] \in TaskRows
      BY <3>2 DEF Inv, ControlTyped, ClientTyped
    <3>4. tasks[i].gen \in Nat
      BY <3>3 DEF TaskRows
    <3>5. tasks[i].gen > removed[n]
      BY <2>1, <3>2, <3>4
    <3> QED BY <2>2, <3>2, <3>5 DEF Named
  <2>5. CASE \E j \in Slots : /\ jobs'[j].cmd = "send" /\ jobs'[j].node = n /\ jobs'[j].gen > removed'[n]
                              /\ jobs'[j].step # "lost" /\ nameOf'[g] = jobs'[j].name
    <3>1. PICK j \in Slots : /\ jobs'[j].cmd = "send" /\ jobs'[j].node = n /\ jobs'[j].gen > removed'[n]
                             /\ jobs'[j].step # "lost" /\ nameOf'[g] = jobs'[j].name
      BY <2>5
    <3>2. jobs'[j].gen \in Nat
      BY DEF Inv, JobsTyped, JobRecs
    <3>3. jobs'[j].gen > removed[n] /\ nameOf[g] = jobs'[j].name
      BY <2>1, <2>2, <3>1, <3>2
    <3> QED BY <2>2, <3>1, <3>3 DEF Named, Stems
  <2> QED BY <2>3, <2>4, <2>5 DEF Named
<1>2. Naming'
  <2>1. clock \in Nat
    BY DEF Inv, ControlTyped
  <2>2. \A j \in Slots : jobs'[j].name <= clock
    BY <2>1 DEF Naming, Stems
  <2> QED BY <2>2 DEF Naming, SameRows, Guids
<1> QED BY <1>1, <1>2

\* A backup that does not change does not go back.
LEMMA SameForward ==
  ASSUME Inv, \A n \in Nodes : dst[n] \subseteq dst'[n]
  PROVE  Forward
<1>1. \A n \in Nodes : \A m \in dst[n] : m <= m
  BY DEF Inv, StoreTyped, Guids
<1> QED BY <1>1 DEF Forward

\* A step of the control process leaves everything as it was.
LEMMA CalmAnchors ==
  ASSUME Inv, Inv', AInv, Calm
  PROVE  AInv' /\ Forward
<1>1. UNCHANGED <<clock, nameOf, src, held, removed, dst, token, synced>>
  BY DEF Calm, source, fences, backup
<1>2. \A n \in Nodes : removed[n] <= removed'[n]
  BY <1>1, GenFacts
<1>3. Naming' /\ \A n \in Nodes : Named(n)' \subseteq Named(n)
  BY <1>1, <1>2, NamedStays DEF AInv, Calm, SameDates
<1>4. Anchoring'
  BY <1>1, <1>3, AnchorStays DEF AInv, Anchoring
<1>5. Streaming'
  BY <1>1 DEF AInv, Streaming, SameJob, Top, Calm
<1> QED BY <1>1, <1>3, <1>4, <1>5, SameForward DEF AInv

\* Requests for snapshots: under the name of a new tick there is none yet, and the
\* snapshots of the present one are asked for already.
LEMMA EnqueueAnchors ==
  ASSUME Inv, Inv', AInv, NEW S \in SUBSET {n \in Nodes : target[n].enabled}, EnqueueTask(clock', S),
         clock' = clock \/ clock' = clock + 1,
         UNCHANGED <<target, retired, worker, sweep, jobs, lock, source, backup, synced>>
  PROVE  AInv' /\ Forward
<1>1. UNCHANGED <<nameOf, src, held, removed, dst, token, synced>>
  BY DEF source, fences, backup
<1>2. clock \in Nat /\ clock' \in Nat /\ clock <= clock'
  BY DEF Inv, ControlTyped
<1>3. /\ \A i \in DOMAIN tasks : i \in DOMAIN tasks' /\ tasks'[i] = tasks[i]
      /\ \A i \in DOMAIN tasks' : i \notin DOMAIN tasks =>
           /\ tasks'[i].name = clock'
           /\ tasks'[i].type = "create" \/ tasks'[i].node \in S
  <2>1. S \in SUBSET Nodes
    OBVIOUS
  <2> QED BY <1>2, <2>1, EnqueueIs
<1>4. \A g \in src : nameOf[g] \in Nat /\ nameOf[g] <= clock
  BY DEF AInv, Naming, Inv, StoreTyped, Guids
<1>5. ASSUME NEW n \in Nodes, NEW g \in Named(n)' PROVE g \in Named(n)
  <2>1. g \in src /\ (nameOf[g] = clock' => clock' = clock)
    BY <1>1, <1>2, <1>4 DEF Named
  <2>2. CASE target'[n].enabled /\ nameOf'[g] = clock'
    BY <1>1, <2>1, <2>2 DEF Named
  <2>3. CASE \E i \in DOMAIN tasks' : /\ tasks'[i].type = "repl" /\ tasks'[i].node = n
                                      /\ tasks'[i].gen > removed'[n]
                                      /\ nameOf'[g] = tasks'[i].name
    <3>1. PICK i \in DOMAIN tasks' : /\ tasks'[i].type = "repl" /\ tasks'[i].node = n
                                     /\ tasks'[i].gen > removed'[n]
                                     /\ nameOf'[g] = tasks'[i].name
      BY <2>3
    <3>2. CASE i \in DOMAIN tasks
      BY <1>1, <1>3, <2>1, <3>1, <3>2 DEF Named
    <3>3. CASE i \notin DOMAIN tasks
      <4>1. nameOf[g] = clock /\ n \in S
        BY <1>1, <1>3, <2>1, <3>1, <3>3
      <4> QED BY <2>1, <4>1 DEF Named
    <3> QED BY <3>2, <3>3
  <2>4. CASE \E j \in Slots : /\ jobs'[j].cmd = "send" /\ jobs'[j].node = n /\ jobs'[j].gen > removed'[n]
                              /\ jobs'[j].step # "lost" /\ nameOf'[g] = jobs'[j].name
    BY <1>1, <2>1, <2>4 DEF Named
  <2> QED BY <2>2, <2>3, <2>4 DEF Named
<1>6. Anchoring'
  BY <1>1, <1>5, AnchorStays DEF AInv, Anchoring
<1>7. Naming'
  <2>1. \A g \in Guids' : nameOf'[g] <= clock'
    <3>1. \A g \in Guids : nameOf[g] \in Nat /\ nameOf[g] <= clock
      BY DEF AInv, Naming, Inv, StoreTyped, Guids
    <3> QED BY <1>1, <1>2, <3>1 DEF Guids
  <2>2. \A i \in DOMAIN tasks' : tasks'[i].name <= clock'
    <3> TAKE i \in DOMAIN tasks'
    <3>1. CASE i \in DOMAIN tasks
      <4>1. tasks[i] \in TaskRows
        BY <3>1 DEF Inv, ControlTyped, ClientTyped
      <4>2. tasks[i].name \in Nat /\ tasks[i].name <= clock
        BY <3>1, <4>1 DEF TaskRows, AInv, Naming
      <4> QED BY <1>2, <1>3, <3>1, <4>2
    <3>2. CASE i \notin DOMAIN tasks
      BY <1>2, <1>3, <3>2
    <3> QED BY <3>1, <3>2
  <2>3. \A j \in Slots : jobs'[j].name <= clock'
    <3>1. \A j \in Slots : jobs[j].name \in Nat /\ jobs[j].name <= clock
      BY DEF AInv, Naming, Inv, JobsTyped, JobRecs
    <3> QED BY <1>2, <3>1
  <2> QED BY <2>1, <2>2, <2>3 DEF Naming
<1>8. Streaming'
  BY <1>1 DEF AInv, Streaming, Top
<1> QED BY <1>1, <1>6, <1>7, <1>8, SameForward DEF AInv

\* The tick and the manual trigger.
LEMMA SchedulesAnchor ==
  ASSUME Inv, Inv', AInv, scheduleTick \/ handleTriggerReplication
  PROVE  AInv' /\ Forward
<1>1. CASE scheduleTick
  <2>1. PICK S \in SUBSET {n \in Nodes : target[n].enabled} : EnqueueTask(clock', S)
    BY <1>1 DEF scheduleTick
  <2> QED BY <1>1, <2>1, EnqueueAnchors DEF scheduleTick
<1>2. CASE handleTriggerReplication
  <2>1. PICK S \in SUBSET {n \in Nodes : target[n].enabled} : EnqueueTask(clock, S)
    BY <1>2 DEF handleTriggerReplication
  <2>2. clock' = clock /\ EnqueueTask(clock', S)
    BY <1>2, <2>1 DEF handleTriggerReplication
  <2> QED BY <1>2, <2>2, EnqueueAnchors DEF handleTriggerReplication
<1> QED BY <1>1, <1>2

\* Targets are put and removed.  What a target that is put back may be asked for next is
\* not older than what its node has.
LEMMA TargetsAnchor ==
  ASSUME Inv, Inv', AInv, NewestWhenPutBack,
         UNCHANGED <<clock, tasks, worker, sweep, jobs, lock, source, backup, synced>>
  PROVE  AInv' /\ Forward
<1>1. UNCHANGED <<nameOf, src, held, removed, dst, token, synced>>
  BY DEF source, fences, backup
<1>2. ASSUME NEW n \in Nodes, NEW g \in Named(n)' PROVE g \in Named(n) \/ g = Len(nameOf')
  <2>1. CASE target[n].enabled \/ ~target'[n].enabled
    BY <1>1, <2>1 DEF Named
  <2>2. CASE ~target[n].enabled /\ target'[n].enabled
    BY <1>1, <2>2 DEF Named, NewestWhenPutBack
  <2> QED BY <2>1, <2>2
<1>3. Anchoring'
  BY <1>1, <1>2, AnchorStays DEF AInv, Anchoring
<1>4. Naming' /\ Streaming'
  BY <1>1 DEF AInv, Naming, Guids, Streaming, Top
<1> QED BY <1>1, <1>3, <1>4, SameForward DEF AInv

\* A command ends, and nothing new is asked for.
LEMMA EndsCalm ==
  ASSUME Inv, NEW j \in Slots, NEW ok \in BOOLEAN, Ends(j, ok), lock \in {Nobody, j}
  PROVE  SameRows /\ SameDates /\ (\A i \in Slots : Stems(jobs'[i])) /\ lock' = Nobody
<1>1. SameRows /\ SameDates /\ lock' = Nobody
  BY DEF Ends, Goes
<1>2. \A i \in Slots : Stems(jobs'[i])
  BY DEF Ends, Left, Stems
<1> QED BY <1>1, <1>2

\* A command of hostd ends; nodes whose holds and backup it left alone stay anchored.
LEMMA EndsAnchor ==
  ASSUME Inv, Inv', AInv, NEW j \in Slots, NEW ok \in BOOLEAN, Ends(j, ok), lock \in {Nobody, j},
         clock' = clock, nameOf' = nameOf, src' \subseteq src, \A m \in Nodes : removed[m] <= removed'[m]
  PROVE  /\ Naming' /\ Streaming'
         /\ \A m \in Nodes : /\ Named(m)' \subseteq Named(m)
                             /\ /\ held'[m] = held[m] /\ removed'[m] = removed[m] /\ dst'[m] = dst[m]
                                /\ token'[m] = token[m] /\ synced'[m] = synced[m]
                                => AnchoredAt(m)'
<1>1. SameRows /\ SameDates /\ (\A i \in Slots : Stems(jobs'[i])) /\ lock' = Nobody
  BY EndsCalm
<1>2. Naming' /\ \A m \in Nodes : Named(m)' \subseteq Named(m)
  BY <1>1, NamedStays DEF AInv, SameDates
<1>3. Streaming'
  BY <1>1 DEF Streaming
<1> QED BY <1>2, <1>3, AnchorStays DEF AInv, Anchoring

\* A new snapshot is newer than everything.
LEMMA CreateAnchors ==
  ASSUME Inv, Inv', AInv, NEW j \in Slots, snapshotCreate(j)
  PROVE  AInv' /\ Forward
<1>1. /\ lock = Nobody /\ Answer(j, TRUE)
      /\ UNCHANGED <<clock, retired, held, listed, fences, backup, synced>>
  BY DEF snapshotCreate
<1>2. Ends(j, TRUE)
  BY <1>1, AnswerEnds DEF Inv, ControlTyped, JobsTyped
<1>3. UNCHANGED <<held, removed, dst, token, synced>> /\ \A m \in Nodes : removed[m] <= removed'[m]
  BY <1>1, GenFacts DEF fences, backup
<1>4. CASE UNCHANGED <<nameOf, src>>
  BY <1>1, <1>2, <1>3, <1>4, EndsAnchor, SameForward DEF AInv, Anchoring
<1>5. CASE nameOf' = Append(nameOf, jobs[j].name) /\ src' = src \cup {Len(nameOf')}
  <2>1. SameRows /\ SameDates /\ (\A i \in Slots : Stems(jobs'[i])) /\ lock' = Nobody
    BY <1>1, <1>2, EndsCalm
  <2>2. /\ nameOf \in Seq(Nat) /\ jobs[j].name \in Nat /\ jobs[j].name <= clock /\ clock \in Nat
        /\ src \subseteq 1 .. Len(nameOf)
    BY DEF Inv, StoreTyped, JobsTyped, JobRecs, AInv, Naming, ControlTyped, Guids
  <2>3. /\ Len(nameOf') = Len(nameOf) + 1 /\ nameOf'[Len(nameOf')] = jobs[j].name
        /\ Len(nameOf) \in Nat
        /\ \A g \in 1 .. Len(nameOf) : nameOf'[g] = nameOf[g]
    BY <1>5, <2>2
  <2>4. Naming'
    <3>1. \A g \in 1 .. Len(nameOf') : nameOf'[g] <= clock
      <4>1. \A g \in 1 .. Len(nameOf) : nameOf[g] <= clock
        BY DEF AInv, Naming, Guids
      <4> QED BY <2>2, <2>3, <4>1
    <3>2. \A i \in Slots : jobs'[i].name <= clock
      BY <2>1, <2>2 DEF AInv, Naming, Stems
    <3> QED BY <1>1, <2>1, <3>1, <3>2 DEF AInv, Naming, SameRows, Guids
  <2>5. ASSUME NEW n \in Nodes, NEW g \in Named(n)' PROVE g \in Named(n) \/ g = Len(nameOf')
    <3>1. g \in src \/ g = Len(nameOf')
      BY <1>5 DEF Named
    <3>2. CASE g \in src
      <4>1. nameOf'[g] = nameOf[g] /\ clock' = clock
        BY <1>1, <2>2, <2>3, <3>2
      <4>2. CASE target'[n].enabled /\ nameOf'[g] = clock'
        BY <2>1, <3>2, <4>1, <4>2 DEF Named, SameDates
      <4>3. CASE \E i \in DOMAIN tasks' : /\ tasks'[i].type = "repl" /\ tasks'[i].node = n
                                          /\ tasks'[i].gen > removed'[n]
                                          /\ nameOf'[g] = tasks'[i].name
        BY <1>3, <2>1, <3>2, <4>1, <4>3 DEF Named, SameRows
      <4>4. CASE \E i \in Slots : /\ jobs'[i].cmd = "send" /\ jobs'[i].node = n /\ jobs'[i].gen > removed'[n]
                                  /\ jobs'[i].step # "lost" /\ nameOf'[g] = jobs'[i].name
        <5>1. PICK i \in Slots : /\ jobs'[i].cmd = "send" /\ jobs'[i].node = n /\ jobs'[i].gen > removed[n]
                                /\ jobs'[i].step # "lost" /\ nameOf[g] = jobs'[i].name
          BY <1>3, <4>1, <4>4
        <5>2. Stems(jobs'[i])
          BY <2>1
        <5> QED BY <3>2, <5>1, <5>2 DEF Named, Stems
      <4> QED BY <4>2, <4>3, <4>4 DEF Named
    <3> QED BY <3>1, <3>2
  <2>6. Anchoring'
    BY <1>3, <2>5, AnchorStays DEF AInv, Anchoring
  <2>7. Streaming'
    BY <2>1 DEF Streaming
  <2> QED BY <1>3, <2>4, <2>6, <2>7, SameForward DEF AInv
<1> QED BY <1>4, <1>5 DEF snapshotCreate

\* A pruning keeps what is held.
LEMMA PruneAnchors ==
  ASSUME Inv, Inv', AInv, NEW j \in Slots, snapshotPrune(j)
  PROVE  AInv' /\ Forward
<1> DEFINE ok == Unreconciled(held, listed) = {}
<1>1. /\ lock = Nobody /\ Answer(j, ok) /\ pruneSnapshots(held, listed)
      /\ UNCHANGED <<clock, nameOf, held, fences, backup, synced>>
  BY DEF snapshotPrune
<1>2. ok \in BOOLEAN
  OBVIOUS
<1> HIDE DEF ok
<1>3. Ends(j, ok)
  BY <1>1, <1>2, AnswerEnds DEF Inv, ControlTyped, JobsTyped
<1>4. src' \subseteq src
  BY <1>1, PruneIs DEF Inv, StoreTyped
<1>5. UNCHANGED <<removed, dst, token>> /\ \A m \in Nodes : removed[m] <= removed'[m]
  BY <1>1, GenFacts DEF fences, backup
<1> QED BY <1>1, <1>2, <1>3, <1>4, <1>5, EndsAnchor, SameForward DEF AInv, Anchoring

\* When a fence reaches the generation of its target, nothing is asked for any more.
LEMMA FencedIsUntouched ==
  ASSUME Inv', NEW n \in Nodes, removed'[n] = target'[n].generation
  PROVE  AnchoredAt(n)'
<1>1. ~target'[n].enabled /\ target'[n].generation \in Nat
  BY DEF Inv, Dating, NodeDates, ControlTyped, ClientTyped, TargetRows
<1>2. \A i \in DOMAIN tasks' : tasks'[i].node = n => ~(tasks'[i].gen > removed'[n])
  <2> TAKE i \in DOMAIN tasks'
  <2>1. tasks'[i] \in TaskRows
    BY DEF Inv, ControlTyped, ClientTyped
  <2>2. tasks'[i].gen \in Nat
    BY <2>1 DEF TaskRows
  <2>3. tasks'[i].node = n => tasks'[i].gen <= target'[n].generation
    BY DEF Inv, Dating, RowDates, Dated
  <2> QED BY <1>1, <2>2, <2>3
<1>3. \A j \in Slots : jobs'[j].cmd = "send" /\ jobs'[j].node = n => ~(jobs'[j].gen > removed'[n])
  <2> TAKE j \in Slots
  <2>1. jobs'[j].gen \in Nat
    BY DEF Inv, JobsTyped, JobRecs
  <2>2. jobs'[j].cmd = "send" /\ jobs'[j].node = n => jobs'[j].gen <= target'[n].generation
    BY DEF Inv, Dating, RowDates, Dated
  <2> QED BY <1>1, <2>1, <2>2
<1>4. Named(n)' = {}
  BY <1>1, <1>2, <1>3 DEF Named
<1>5. ~Live(n)'
  <2>1. synced'[n] <= accepted'[n] /\ accepted'[n] <= target'[n].generation
    BY DEF Inv, Dating, NodeDates, Dated
  <2>2. synced'[n] \in Int /\ accepted'[n] \in Int
    BY DEF Inv, StoreTyped, Gens, NoGen
  <2> QED BY <1>1, <2>1, <2>2 DEF Live
<1> QED BY <1>4, <1>5 DEF AnchoredAt, Untouched

\* A cleanup, or one that got part of the way: the fence is raised to the target's
\* generation, or what it releases was released before.
LEMMA FenceAnchors ==
  ASSUME Inv, Inv', AInv, NEW j \in Slots, jobs[j].cmd = "cleanup", NEW ok \in BOOLEAN, Ends(j, ok), lock = Nobody,
         removed' = [removed EXCEPT ![jobs[j].node] = Later(@, jobs[j].gen)],
         clock' = clock, nameOf' = nameOf, src' \subseteq src, UNCHANGED <<accepted, dst, token, synced>>,
         \A m \in Nodes : \/ held'[m] = held[m]
                          \/ m = jobs[j].node /\ held'[m] \subseteq held[m] /\ accepted[m] <= jobs[j].gen
  PROVE  AInv' /\ Forward
<1> DEFINE n == jobs[j].node
           g == jobs[j].gen
<1>1. /\ n \in Nodes /\ g \in Nat /\ Known(n, g) /\ removed'[n] \in {removed[n], g}
      /\ g <= removed'[n] /\ removed'[n] <= target[n].generation
      /\ \A m \in Nodes : removed[m] <= removed'[m] /\ (m # n => removed'[m] = removed[m])
  BY FenceIs
<1>2. /\ Naming' /\ Streaming'
      /\ \A m \in Nodes : held'[m] = held[m] /\ removed'[m] = removed[m] => AnchoredAt(m)'
  BY <1>1, EndsAnchor
<1>3. ASSUME NEW m \in Nodes PROVE AnchoredAt(m)'
  <2>1. /\ target'[m].generation = target[m].generation /\ target[m].generation \in Nat
        /\ removed[m] \in Int /\ accepted[m] \in Int
    BY GenFacts DEF Ends, Goes, SameDates
  <2>2. CASE m # n
    BY <1>1, <1>2, <2>2
  <2>3. CASE m = n /\ removed'[m] = target[m].generation
    BY <2>1, <2>3, FencedIsUntouched
  <2>4. CASE m = n /\ removed'[m] # target[m].generation
    <3>1. removed'[m] = removed[m] /\ removed[m] < target[m].generation /\ g <= removed[m]
      BY <1>1, <2>1, <2>4 DEF Known
    <3>2. held'[m] = held[m]
      <4> SUFFICES ASSUME held'[m] \subseteq held[m], accepted[m] <= g PROVE held'[m] = held[m]
        OBVIOUS
      <4>1. accepted[m] <= removed[m]
        BY <1>1, <2>1, <3>1
      <4>2. held[m] = {}
        BY <3>1, <4>1 DEF Inv, Holding, Held
      <4> QED BY <4>2
    <3> QED BY <1>2, <3>1, <3>2
  <2> QED BY <2>2, <2>3, <2>4
<1> QED BY <1>2, <1>3, SameForward DEF AInv, Anchoring

\* fs.repl.cleanup.
LEMMA CleanupAnchors ==
  ASSUME Inv, Inv', AInv, NEW j \in Slots, CleanupBackupGeneration(j)
  PROVE  AInv' /\ Forward
<1> DEFINE n == jobs[j].node
<1>1. /\ jobs[j].cmd = "cleanup" /\ lock = Nobody
      /\ removed' = [removed EXCEPT ![n] = Later(@, jobs[j].gen)]
      /\ UNCHANGED <<clock, nameOf, accepted, dst, token, synced>>
  BY DEF CleanupBackupGeneration, backup
<1>2. n \in Nodes /\ accepted[n] \in Int /\ jobs[j].gen \in Nat
  BY GenFacts DEF Inv, JobsTyped, JobRecs
<1>3. CASE accepted[n] > jobs[j].gen
  <2>1. Answer(j, TRUE) /\ UNCHANGED <<src, held>>
    BY <1>3 DEF CleanupBackupGeneration
  <2>2. Ends(j, TRUE)
    BY <2>1, AnswerEnds DEF Inv, ControlTyped, JobsTyped
  <2> QED BY <1>1, <2>1, <2>2, FenceAnchors
<1>4. CASE ~(accepted[n] > jobs[j].gen)
  <2> DEFINE ok == Unreconciled(held', listed') = {}
  <2>1. /\ Answer(j, ok) /\ UpdateSnapshotProtection(n, {}, Everything, {})
        /\ pruneSnapshots(held', listed')
    BY <1>4 DEF CleanupBackupGeneration
  <2>2. ok \in BOOLEAN
    OBVIOUS
  <2> HIDE DEF ok
  <2>3. Ends(j, ok)
    BY <2>1, <2>2, AnswerEnds DEF Inv, ControlTyped, JobsTyped
  <2>4. src' \subseteq src
    BY <2>1 DEF pruneSnapshots
  <2>5. accepted[n] <= jobs[j].gen
    BY <1>2, <1>4
  <2>6. \A m \in Nodes : held'[m] = held[m] \/ (m = n /\ held'[m] \subseteq held[m])
    <3>1. /\ held' = [held EXCEPT ![n] = held[n] \ Everything]
          /\ held \in [Nodes -> SUBSET (Kinds \X src)]
      BY <2>1 DEF UpdateSnapshotProtection, Inv, StoreTyped
    <3> QED BY <1>2, <3>1
  <2> QED BY <1>1, <2>2, <2>3, <2>4, <2>5, <2>6, FenceAnchors
<1> QED BY <1>3, <1>4

\* A command other than a replication fails.
LEMMA CommandFailsAnchors ==
  ASSUME Inv, Inv', AInv, NEW j \in Slots, CommandFails(j)
  PROVE  AInv' /\ Forward
<1> DEFINE n == jobs[j].node
<1>1. /\ lock = Nobody /\ Answer(j, FALSE) /\ n \in Nodes
      /\ UNCHANGED <<clock, nameOf, src, accepted, dst, token, synced>>
  BY DEF CommandFails, backup, Inv, JobsTyped, JobRecs
<1>2. Ends(j, FALSE)
  BY <1>1, AnswerEnds DEF Inv, ControlTyped, JobsTyped
<1>3. CASE UNCHANGED <<removed, held, listed>>
  <2>1. \A m \in Nodes : removed[m] <= removed'[m]
    BY <1>3, GenFacts
  <2> QED BY <1>1, <1>2, <1>3, <2>1, EndsAnchor, SameForward DEF AInv, Anchoring
<1>4. CASE /\ jobs[j].cmd = "cleanup" /\ removed' = [removed EXCEPT ![n] = Later(@, jobs[j].gen)]
           /\ \/ UNCHANGED <<held, listed>>
              \/ accepted[n] <= jobs[j].gen /\ ProtectionInterrupted(n, {}, InOrder(Everything))
  <2>1. CASE UNCHANGED <<held, listed>>
    BY <1>1, <1>2, <1>4, <2>1, FenceAnchors
  <2>2. CASE accepted[n] <= jobs[j].gen /\ ProtectionInterrupted(n, {}, InOrder(Everything))
    <3>1. PICK B \in SUBSET {} : \E R, half : UpdateSnapshotProtection(n, B, R, half)
      BY <2>2, InterruptedIs
    <3>2. PICK R, half : UpdateSnapshotProtection(n, B, R, half)
      BY <3>1
    <3>3. /\ held' = [held EXCEPT ![n] = held[n] \ (R \ half)]
          /\ held \in [Nodes -> SUBSET (Kinds \X src)]
      BY <3>2 DEF UpdateSnapshotProtection, Inv, StoreTyped
    <3>4. \A m \in Nodes : held'[m] = held[m] \/ (m = n /\ held'[m] \subseteq held[m])
      BY <1>1, <3>3
    <3> QED BY <1>1, <1>2, <1>4, <2>2, <3>4, FenceAnchors
  <2> QED BY <1>4, <2>1, <2>2
<1> QED BY <1>3, <1>4 DEF CommandFails

\* The command that has or gets the lock goes on; nothing new is asked for.
LEMMA GoesOnNamed ==
  ASSUME Inv, Inv', AInv, NEW j \in Slots, \A i \in Slots : i # j => jobs'[i] = jobs[i],
         jobs[j].cmd = "send", jobs[j].step # "lost",
         jobs'[j].cmd = "send", jobs'[j].node = jobs[j].node, jobs'[j].gen = jobs[j].gen, jobs'[j].name = jobs[j].name,
         UNCHANGED <<control, nameOf, src, removed>>
  PROVE  Naming' /\ \A n \in Nodes : Named(n)' \subseteq Named(n)
<1>1. SameRows /\ SameDates /\ clock' = clock
  BY DEF SameRows, SameDates, control, client
<1>2. \A i \in Slots : Stems(jobs'[i])
  BY DEF Stems
<1>3. \A n \in Nodes : removed[n] <= removed'[n]
  BY GenFacts
<1> QED BY <1>1, <1>2, <1>3, NamedStays DEF AInv, SameDates

\* A replication is accepted, or refused.
LEMMA ReplicateAnchors ==
  ASSUME Inv, Inv', AInv, NEW j \in Slots, Replicate(j)
  PROVE  AInv' /\ Forward
<1>1. /\ jobs[j].cmd = "send" /\ jobs[j].step = "wait" /\ lock = Nobody
      /\ UNCHANGED <<clock, retired, nameOf, src, held, removed, dst, token, synced>>
  BY DEF Replicate, backup
<1>2. CASE Answer(j, FALSE)
  <2>1. Ends(j, FALSE)
    BY <1>2, AnswerEnds DEF Inv, ControlTyped, JobsTyped
  <2>2. \A m \in Nodes : removed[m] <= removed'[m]
    BY <1>1, GenFacts
  <2> QED BY <1>1, <2>1, <2>2, EndsAnchor, SameForward DEF AInv, Anchoring
<1>3. CASE jobs' = [jobs EXCEPT ![j].step = "inspect"] /\ lock' = j /\ UNCHANGED client
  <2>1. /\ \A i \in Slots : i # j => jobs'[i] = jobs[i]
        /\ jobs'[j].cmd = "send" /\ jobs'[j].node = jobs[j].node /\ jobs'[j].gen = jobs[j].gen
        /\ jobs'[j].name = jobs[j].name /\ jobs'[j].step = "inspect"
    BY <1>1, <1>3 DEF Inv, JobsTyped, JobRecs
  <2>2. Naming' /\ \A n \in Nodes : Named(n)' \subseteq Named(n)
    BY <1>1, <1>3, <2>1, GoesOnNamed DEF control
  <2>3. Anchoring'
    BY <1>1, <2>2, AnchorStays DEF AInv, Anchoring
  <2>4. Streaming'
    BY <1>3, <2>1 DEF Streaming
  <2> QED BY <1>1, <2>2, <2>3, <2>4, SameForward DEF AInv
<1> QED BY <1>2, <1>3 DEF Replicate

\* The newest snapshot of an anchored backup is the newest of both sides.
LEMMA AnchorIsCommon ==
  ASSUME Inv, NEW n \in Nodes, Anchored(n), dst[n] # {}
  PROVE  LET b == newestCommonSnapshot(n)
         IN b \in src /\ Top(n, b) /\ Protected(n, b) /\ Common(n) # {}
<1> DEFINE b == newestCommonSnapshot(n)
<1>1. PICK t \in src : Top(n, t) /\ Protected(n, t)
  BY DEF Anchored
<1>2. t \in Common(n)
  BY <1>1 DEF Top, Common
<1>3. b \in src /\ b \in dst[n] /\ t <= b /\ b \in Nat
  BY <1>2, CommonIs
<1>4. t \in Nat /\ b <= t
  BY <1>1, <1>3 DEF Top, Inv, StoreTyped, Guids
<1>5. t = b
  BY <1>3, <1>4
<1> QED BY <1>1, <1>2, <1>5

\* The command with the lock goes on, and its node is still anchored.
LEMMA GoesOnAnchors ==
  ASSUME Inv, Inv', AInv, NEW j \in Slots, lock = j, lock' = j, NEW n \in Nodes, n = jobs[j].node,
         UNCHANGED <<control, nameOf, src, fences, synced>>,
         \A i \in Slots : i # j => jobs'[i] = jobs[i],
         jobs'[j].cmd = "send", jobs'[j].node = n, jobs'[j].gen = jobs[j].gen, jobs'[j].name = jobs[j].name,
         \A m \in Nodes : m # n => held'[m] = held[m] /\ dst'[m] = dst[m] /\ token'[m] = token[m],
         Named(n)' \subseteq Named(n) => AnchoredAt(n)',
         Live(n) => \A m \in dst[n] : \E x \in dst'[n] : m <= x,
         Streaming'
  PROVE  AInv' /\ Forward
<1>1. lock # Nobody /\ jobs[j].cmd = "send" /\ jobs[j].step # "lost"
  BY SlotFacts DEF Inv, Locking, Locked
<1>2. removed' = removed
  BY DEF fences
<1>3. Naming' /\ \A m \in Nodes : Named(m)' \subseteq Named(m)
  BY <1>1, <1>2, GoesOnNamed
<1>4. ASSUME NEW m \in Nodes PROVE AnchoredAt(m)'
  <2>1. CASE m = n
    BY <1>3, <2>1
  <2>2. CASE m # n
    BY <1>2, <1>3, <2>2, AnchorStays DEF AInv, Anchoring
  <2> QED BY <2>1, <2>2
<1>5. \A i \in Nodes : \A m \in dst[i] : m <= m
  BY DEF Inv, StoreTyped, Guids
<1>6. Forward
  BY <1>5 DEF Forward
<1> QED BY <1>3, <1>4, <1>6 DEF AInv, Anchoring

\* An interrupted receive that is completed makes a snapshot the newest that is protected,
\* or is not newer than what may be asked for.
LEMMA ResumeAnchors ==
  ASSUME Inv, Inv', AInv, NEW j \in Slots, ResumeStream(j)
  PROVE  AInv' /\ Forward
<1>0. jobs[j].node \in Nodes
  BY DEF Inv, JobsTyped, JobRecs
<1> PICK n \in Nodes : n = jobs[j].node
  BY <1>0
<1> PICK t : t = token[n].guid
  OBVIOUS
<1>1. /\ jobs[j].cmd = "send" /\ jobs[j].step = "inspect"
      /\ token' = [token EXCEPT ![n] = NoToken]
      /\ token[n] # NoToken
      /\ dst' = IF ValidToken(n) THEN [dst EXCEPT ![n] = @ \cup {token[n].guid}] ELSE dst
      /\ jobs' = [jobs EXCEPT ![j].resumed = TRUE]
      /\ UNCHANGED <<control, lock, source, synced>>
  BY DEF ResumeStream, At
<1>2. lock = j /\ lock # Nobody
  BY <1>1, StepLocked DEF Locked
<1>3. /\ \A i \in Slots : i # j => jobs'[i] = jobs[i]
      /\ jobs'[j].cmd = "send" /\ jobs'[j].node = n /\ jobs'[j].gen = jobs[j].gen
      /\ jobs'[j].name = jobs[j].name /\ jobs'[j].step = "inspect"
  BY <1>1 DEF Inv, JobsTyped, JobRecs
<1>4. UNCHANGED <<nameOf, src, held, listed, fences, removed>>
  BY <1>1 DEF source, fences
<1>5. /\ token'[n] = NoToken
      /\ \A m \in Nodes : m # n => token'[m] = token[m] /\ dst'[m] = dst[m]
      /\ dst'[n] = IF ValidToken(n) THEN dst[n] \cup {t} ELSE dst[n]
  BY <1>1, <1>2 DEF Inv, StoreTyped
<1>6. Streaming'
  BY <1>1, <1>2, <1>3 DEF Streaming
<1>7. ASSUME Named(n)' \subseteq Named(n) PROVE AnchoredAt(n)'
  <2>1. /\ AnchoredAt(n) /\ dst[n] \subseteq Nat /\ t \in Nat /\ src \subseteq Nat
        /\ removed[n] \in Int /\ token[n].gen \in Nat
    <3>1. AnchoredAt(n)
      BY DEF AInv, Anchoring
    <3>2. /\ Len(nameOf) \in Nat /\ token[n] \in TokenRecs /\ src \subseteq Guids
          /\ dst[n] \subseteq Guids
      BY DEF Inv, StoreTyped
    <3>3. Guids \subseteq Nat
      BY <3>2 DEF Guids
    <3>4. token[n].guid \in {0} \cup Guids /\ token[n].gen \in Nat
      BY <3>2 DEF TokenRecs
    <3>5. removed[n] \in Int
      BY GenFacts
    <3>6. t \in Nat
      BY <3>2, <3>4 DEF Guids
    <3>7. src \subseteq Nat /\ dst[n] \subseteq Nat
      BY <3>2, <3>3
    <3> QED BY <3>1, <3>4, <3>5, <3>6, <3>7
  <2>2. token[n].gen > removed[n] => <<"transfer", t>> \in held[n]
    BY <1>1, <1>2 DEF Inv, Holding, Held
  <2>3. Shared(n) => Shared(n)'
    BY <1>4, <1>5 DEF Shared, Common
  <2>4. Live(n)' = Live(n)
    BY <1>1, <1>4 DEF Live
  <2>5. CASE ~ValidToken(n)
    <3>1. dst'[n] = dst[n]
      BY <1>5, <2>5
    <3> QED BY <1>1, <1>2, <1>4, <1>5, <1>7, <2>1, <3>1, AnchorStays
  <2>6. CASE ValidToken(n)
    <3>1. dst'[n] = dst[n] \cup {t} /\ t \in src
      BY <1>5, <2>6 DEF ValidToken
    <3>2. CASE Anchored(n)
      <4>1. <<"transfer", t>> \in held[n]
        BY <1>1, <2>2, <3>2 DEF Anchored
      <4>2. \E x \in src : Top(n, x)' /\ Protected(n, x)'
        <5>1. CASE dst[n] = {}
          BY <1>4, <2>1, <3>1, <4>1, <5>1 DEF Top, Protected
        <5>2. CASE dst[n] # {}
          <6>1. PICK x \in src : Top(n, x) /\ Protected(n, x)
            BY <3>2, <5>2 DEF Anchored
          <6>2. CASE x <= t
            BY <1>4, <2>1, <3>1, <4>1, <6>1, <6>2 DEF Top, Protected
          <6>3. CASE ~(x <= t)
            BY <1>4, <2>1, <3>1, <6>1, <6>3 DEF Top, Protected
          <6> QED BY <6>2, <6>3
        <5> QED BY <5>1, <5>2
      <4>3. Anchored(n)'
        BY <1>4, <1>5, <4>2 DEF Anchored
      <4> QED BY <2>1, <2>3, <2>4, <4>3 DEF AnchoredAt
    <3>3. CASE ~Anchored(n)
      <4>1. Untouched(n) /\ ~Live(n)
        BY <2>1, <3>3 DEF AnchoredAt
      <4>2. CASE \A g \in Named(n) : t <= g
        <5>1. Untouched(n)'
          <6> SUFFICES ASSUME NEW g \in Named(n)'
                       PROVE  (\A m \in dst'[n] : m <= g) /\ (token'[n].gen <= removed'[n] => token'[n].guid <= g)
            BY DEF Untouched
          <6>1. g \in Named(n)
            BY <1>7
          <6>2. g \in src
            BY <6>1 DEF Named
          <6>3. \A m \in dst[n] : m <= g
            BY <4>1, <6>1 DEF Untouched
          <6>4. token'[n].guid = 0
            BY <1>5 DEF NoToken
          <6>5. t <= g
            BY <4>2, <6>1
          <6>6. \A m \in dst'[n] : m <= g
            BY <3>1, <6>3, <6>5
          <6>7. g \in Nat
            BY <6>2 DEF Inv, StoreTyped, Guids
          <6> QED BY <6>4, <6>6, <6>7
        <5> QED BY <2>4, <4>1, <5>1 DEF AnchoredAt
      <4>3. CASE \E g \in Named(n) : ~(t <= g)
        <5>1. PICK g \in Named(n) : ~(t <= g)
          BY <4>3
        <5>2. g \in Nat /\ (\A m \in dst[n] : m <= g) /\ token[n].gen > removed[n]
          <6>1. g \in Nat
            BY <2>1, <5>1 DEF Named
          <6>2. (\A m \in dst[n] : m <= g) /\ (token[n].gen <= removed[n] => token[n].guid <= g)
            BY <4>1, <5>1 DEF Untouched
          <6> QED BY <2>1, <5>1, <6>1, <6>2
        <5>3. <<"transfer", t>> \in held[n] /\ \A m \in dst[n] : m <= t
          BY <2>1, <2>2, <5>1, <5>2
        <5>4. Top(n, t)' /\ Protected(n, t)'
          BY <1>4, <2>1, <3>1, <5>3 DEF Top, Protected
        <5>5. Anchored(n)'
          BY <1>4, <1>5, <3>1, <5>4 DEF Anchored
        <5> QED BY <2>4, <4>1, <5>5 DEF AnchoredAt
      <4> QED BY <4>2, <4>3
    <3> QED BY <3>2, <3>3
  <2> QED BY <2>5, <2>6
<1>8. \A m \in dst[n] : \E x \in dst'[n] : m <= x
  <2>1. \A m \in dst[n] : m \in dst'[n] /\ m <= m
    BY <1>2, <1>5 DEF Inv, StoreTyped, Guids
  <2> QED BY <2>1
<1> QED BY <1>1, <1>2, <1>3, <1>4, <1>5, <1>6, <1>7, <1>8, GoesOnAnchors

\* It breaks again.
LEMMA ResumeFailsAnchors ==
  ASSUME Inv, Inv', AInv, NEW j \in Slots, ResumeFails(j)
  PROVE  AInv' /\ Forward
<1>0. jobs[j].node \in Nodes
  BY DEF Inv, JobsTyped, JobRecs
<1> PICK n \in Nodes : n = jobs[j].node
  BY <1>0
<1>1. /\ jobs[j].cmd = "send" /\ jobs[j].step = "inspect"
      /\ jobs' = [jobs EXCEPT ![j].step = "reconcile", ![j].resumed = TRUE]
      /\ UNCHANGED <<control, lock, source, backup, synced>>
  BY DEF ResumeFails, At
<1>2. lock = j /\ lock # Nobody
  BY <1>1, StepLocked DEF Locked
<1>3. /\ \A i \in Slots : i # j => jobs'[i] = jobs[i]
      /\ jobs'[j].cmd = "send" /\ jobs'[j].node = n /\ jobs'[j].gen = jobs[j].gen
      /\ jobs'[j].name = jobs[j].name /\ jobs'[j].step = "reconcile"
  BY <1>1 DEF Inv, JobsTyped, JobRecs
<1>4. UNCHANGED <<nameOf, src, held, fences, removed, dst, token>>
  BY <1>1 DEF source, fences, backup
<1>5. Streaming'
  BY <1>1, <1>2, <1>3 DEF Streaming
<1>6. ASSUME Named(n)' \subseteq Named(n) PROVE AnchoredAt(n)'
  BY <1>1, <1>2, <1>4, <1>6, AnchorStays DEF AInv, Anchoring
<1>7. \A m \in dst[n] : m \in dst'[n] /\ m <= m
  BY <1>2, <1>4 DEF Inv, StoreTyped, Guids
<1> QED BY <1>1, <1>2, <1>3, <1>4, <1>5, <1>6, <1>7, GoesOnAnchors

\* What the command with the lock was asked for may be asked for.
LEMMA RequestedNamed ==
  ASSUME Inv, NEW j \in Slots, lock = j, NEW n \in Nodes, n = jobs[j].node
  PROVE  Requested(j) \subseteq Named(n)
<1>1. lock # Nobody
  BY SlotFacts
<1>2. jobs[j].cmd = "send" /\ jobs[j].gen > removed[n] /\ jobs[j].step # "lost"
  BY <1>1, LockFacts DEF Inv, Locking, Locked, Under
<1> QED BY <1>2 DEF Requested, Named

\* A stream leads past everything its receiver has; with nothing to send, the receiver's
\* newest snapshot is the goal.
LEMMA PlanLeads ==
  ASSUME Inv, NEW j \in Slots, jobs[j].step = "inspect", NEW n \in Nodes, n = jobs[j].node,
         AnchoredAt(n), ~NoCommonPoint(n),
         NEW base, base = newestCommonSnapshot(n), NEW goal, goal = PlannedGoal(j)
  PROVE  /\ base < goal => \A m \in dst[n] : m < goal
         /\ ~(base < goal) => Top(n, goal)
<1>1. lock = j
  BY StepLocked DEF Locked
<1>2. /\ base \in Nat /\ goal \in src /\ goal \in Nat /\ goal >= 1 /\ base <= goal
      /\ goal \in Requested(j) \/ (goal = base /\ \E g \in Requested(j) : g < base)
  <2>1. /\ base \in Nat /\ goal \in src /\ goal \in Nat /\ base <= goal
        /\ goal \in Requested(j) \/ (goal = base /\ \E g \in Requested(j) : g < base)
    BY PlannedGoalIs
  <2>2. goal >= 1
    BY <2>1 DEF Inv, StoreTyped, Guids
  <2> QED BY <2>1, <2>2
<1>3. dst[n] \subseteq Nat /\ src \subseteq Nat
  BY DEF Inv, StoreTyped, Guids
<1>4. /\ Common(n) = {} => base = 0 /\ dst[n] = {}
      /\ Common(n) # {} => base \in dst[n]
      /\ \A y \in Common(n) : y <= base
  BY CommonIs DEF NoCommonPoint
<1>5. CASE Anchored(n)
  <2>1. CASE dst[n] = {}
    <3>1. Common(n) = {}
      BY <2>1 DEF Common
    <3> QED BY <1>2, <1>4, <2>1, <3>1
  <2>2. CASE dst[n] # {}
    <3>1. Top(n, base)
      BY <1>5, <2>2, AnchorIsCommon
    <3>2. \A m \in dst[n] : m <= base
      BY <3>1 DEF Top
    <3>3. base < goal => \A m \in dst[n] : m < goal
      BY <1>2, <1>3, <3>2
    <3>4. ~(base < goal) => goal = base
      BY <1>2
    <3> QED BY <3>1, <3>3, <3>4
  <2> QED BY <2>1, <2>2
<1>6. CASE Untouched(n)
  <2>1. \A g \in Requested(j) : g \in src /\ \A m \in dst[n] : m <= g
    BY <1>1, <1>6, RequestedNamed DEF Untouched, Requested
  <2>2. CASE goal \in Requested(j)
    <3>1. \A m \in dst[n] : m <= goal
      BY <2>1, <2>2
    <3>2. ASSUME base < goal, NEW m \in dst[n] PROVE m < goal
      <4>1. m # goal
        <5>1. m = goal => goal \in Common(n)
          BY <1>2 DEF Common
        <5> QED BY <1>2, <1>4, <3>2, <5>1
      <4> QED BY <1>2, <1>3, <3>1, <4>1
    <3>3. ~(base < goal) => Top(n, goal)
      <4>1. ~(base < goal) => goal = base /\ base # 0
        BY <1>2
      <4> QED BY <1>4, <3>1, <4>1 DEF Top
    <3> QED BY <3>2, <3>3
  <2>3. CASE goal = base /\ \E g \in Requested(j) : g < base
    <3>1. PICK g \in Requested(j) : g < base
      BY <2>3
    <3>2. base \in dst[n]
      BY <1>2, <1>4, <2>3
    <3>3. base <= g /\ g \in Nat
      BY <1>3, <2>1, <3>2
    <3> QED BY <1>2, <3>1, <3>3
  <2> QED BY <1>2, <2>2, <2>3
<1> QED BY <1>5, <1>6 DEF AnchoredAt

\* The stream is planned.
LEMMA PlanAnchors ==
  ASSUME Inv, Inv', AInv, NEW j \in Slots, Plan(j)
  PROVE  AInv' /\ Forward
<1>0. jobs[j].node \in Nodes
  BY DEF Inv, JobsTyped, JobRecs
<1> PICK n \in Nodes : n = jobs[j].node
  BY <1>0
<1> PICK base : base = newestCommonSnapshot(n)
  OBVIOUS
<1> PICK goal : goal = PlannedGoal(j)
  OBVIOUS
<1>1. /\ jobs[j].cmd = "send" /\ jobs[j].step = "inspect"
      /\ UNCHANGED <<clock, retired, nameOf, src, fences, removed, dst, token, synced>>
  BY DEF Plan, At, backup, fences
<1>2. lock = j /\ lock # Nobody
  BY <1>1, StepLocked DEF Locked
<1>3. CASE NoCommonPoint(n)
  <2>1. Answer(j, FALSE) /\ UNCHANGED <<held, listed>>
    BY <1>3 DEF Plan
  <2>2. Ends(j, FALSE)
    BY <2>1, AnswerEnds DEF Inv, ControlTyped, JobsTyped
  <2>3. \A m \in Nodes : removed[m] <= removed'[m]
    BY <1>1, GenFacts
  <2> QED BY <1>1, <1>2, <2>1, <2>2, <2>3, EndsAnchor, SameForward DEF AInv, Anchoring
<1>4. CASE ~NoCommonPoint(n)
  <2>1. /\ UNCHANGED <<lock, control>> /\ held[n] \subseteq held'[n]
        /\ \A m \in Nodes : m # n => held'[m] = held[m]
        /\ \A i \in Slots : i # j => jobs'[i] = jobs[i]
        /\ jobs'[j].cmd = "send" /\ jobs'[j].node = n /\ jobs'[j].gen = jobs[j].gen
        /\ jobs'[j].name = jobs[j].name /\ jobs'[j].goal = goal
        /\ jobs'[j].step = IF base < goal THEN "stream" ELSE "verify"
    BY <1>4, PlanIs
  <2>2. AnchoredAt(n)
    BY DEF AInv, Anchoring
  <2>3. /\ base < goal => \A m \in dst[n] : m < goal
        /\ ~(base < goal) => Top(n, goal)
    BY <1>1, <1>4, <2>2, PlanLeads
  <2>4. Streaming'
    BY <1>1, <1>2, <2>1, <2>3 DEF Streaming, Top
  <2>5. ASSUME Named(n)' \subseteq Named(n) PROVE AnchoredAt(n)'
    BY <1>1, <2>1, <2>2, <2>5, AnchorStays
  <2>6. \A m \in dst[n] : m \in dst'[n] /\ m <= m
    BY <1>1 DEF Inv, StoreTyped, Guids
  <2> QED BY <1>1, <1>2, <2>1, <2>4, <2>5, <2>6, GoesOnAnchors
<1> QED BY <1>3, <1>4

\* What arrives of a stream is newer than what its receiver keeps, and is protected.
LEMMA ReceivedAnchors ==
  ASSUME Inv, AInv, NEW j \in Slots, jobs[j].step = "stream", NEW n \in Nodes, n = jobs[j].node,
         NEW W \in SUBSET src, W # {}, \A g \in W : jobs[j].base < g /\ g <= jobs[j].goal,
         dst'[n] = {g \in dst[n] : g <= jobs[j].base} \cup W,
         UNCHANGED <<src, held, removed, synced>>,
         token'[n] = NoToken \/ token'[n].gen > removed[n]
  PROVE  AnchoredAt(n)' /\ (Live(n) => \A m \in dst[n] : \E x \in dst'[n] : m <= x)
<1> PICK b : b = jobs[j].base
  OBVIOUS
<1>1. /\ b \in Nat /\ b = newestCommonSnapshot(n) /\ Sent(j) /\ AnchoredAt(n)
      /\ src \subseteq 1 .. Len(nameOf) /\ dst[n] \subseteq Nat /\ Len(nameOf) \in Nat
  BY StreamFacts DEF AInv, Anchoring, Inv, StoreTyped, Guids
<1>2. PICK t \in W : \A g \in W : g <= t
  <2>1. W \in SUBSET (0 .. Len(nameOf))
    BY <1>1
  <2> QED BY <1>1, <2>1, MaxIs
<1>3. t \in src /\ t \in Nat /\ b < t /\ t <= jobs[j].goal
  BY <1>1
<1>4. Protected(n, t)
  <2>1. b <= t
    BY <1>1, <1>3
  <2> QED BY <1>1, <1>3, <2>1, SentHeld DEF Protected
<1>5. Top(n, t)'
  <2>1. \A g \in dst[n] : g <= b => g <= t
    BY <1>1, <1>3
  <2> QED BY <1>2, <2>1 DEF Top
<1>6. Anchored(n)'
  BY <1>3, <1>4, <1>5 DEF Anchored, Protected
<1>7. Shared(n) => Shared(n)'
  <2> SUFFICES ASSUME NEW g \in Common(n), <<"hold", g>> \in held[n] PROVE g \in Common(n)'
    BY DEF Shared
  <2>1. g <= b
    BY <1>1, CommonIs
  <2> QED BY <2>1 DEF Common
<1>8. Live(n)' = Live(n)
  BY DEF Live
<1>9. ASSUME Live(n), NEW m \in dst[n] PROVE m <= t /\ t \in dst'[n]
  <2>1. Top(n, b)
    BY <1>1, <1>9, AnchorIsCommon DEF AnchoredAt
  <2> QED BY <1>1, <1>3, <2>1 DEF Top
<1> QED BY <1>1, <1>6, <1>7, <1>8, <1>9 DEF AnchoredAt

\* The stream arrives whole.
LEMMA SendAnchors ==
  ASSUME Inv, Inv', AInv, NEW j \in Slots, Send(j)
  PROVE  AInv' /\ Forward
<1>0. jobs[j].node \in Nodes
  BY DEF Inv, JobsTyped, JobRecs
<1> PICK n \in Nodes : n = jobs[j].node
  BY <1>0
<1>1. /\ jobs[j].step = "stream" /\ token' = [token EXCEPT ![n] = NoToken]
      /\ dst' = [dst EXCEPT ![n] = Received(n, jobs[j].base, ToSend(j))]
      /\ jobs' = [jobs EXCEPT ![j].step = "verify"]
      /\ UNCHANGED <<control, lock, source, synced>>
  BY DEF Send, At
<1>2. /\ lock = j /\ lock # Nobody /\ jobs[j].cmd = "send" /\ jobs[j].goal \in src
      /\ jobs[j].goal \in Nat
      /\ jobs[j].base \in Nat /\ jobs[j].base < jobs[j].goal
  BY <1>1, StreamFacts
<1>3. /\ \A i \in Slots : i # j => jobs'[i] = jobs[i]
      /\ jobs'[j].cmd = "send" /\ jobs'[j].node = n /\ jobs'[j].gen = jobs[j].gen
      /\ jobs'[j].name = jobs[j].name /\ jobs'[j].goal = jobs[j].goal
      /\ jobs'[j].step = "verify"
  BY <1>1, <1>2 DEF Inv, JobsTyped, JobRecs
<1>4. UNCHANGED <<nameOf, src, held, fences, removed>>
  BY <1>1 DEF source, fences
<1>5. /\ token'[n] = NoToken /\ dst'[n] = {g \in dst[n] : g <= jobs[j].base} \cup ToSend(j)
      /\ \A m \in Nodes : m # n => token'[m] = token[m] /\ dst'[m] = dst[m]
  BY <1>1 DEF Received, Inv, StoreTyped
<1>6. src \subseteq Nat /\ dst[n] \subseteq Nat
  BY DEF Inv, StoreTyped, Guids
<1>7. /\ ToSend(j) \in SUBSET src /\ jobs[j].goal \in ToSend(j)
      /\ \A g \in ToSend(j) : jobs[j].base < g /\ g <= jobs[j].goal
  <2>1. ToSend(j) = {g \in src : jobs[j].base + 1 <= g /\ g <= jobs[j].goal}
    BY DEF ToSend, Stream
  <2>2. \A g \in src : g \in Nat
    BY <1>6
  <2> QED BY <1>2, <2>1, <2>2
<1>8. AnchoredAt(n)' /\ (Live(n) => \A m \in dst[n] : \E x \in dst'[n] : m <= x)
  <2> PICK W : W = ToSend(j)
    OBVIOUS
  <2>1. W \in SUBSET src /\ W # {} /\ \A g \in W : jobs[j].base < g /\ g <= jobs[j].goal
    BY <1>7
  <2>2. dst'[n] = {g \in dst[n] : g <= jobs[j].base} \cup W
    BY <1>5
  <2> QED BY <1>1, <1>4, <1>5, <2>1, <2>2, ReceivedAnchors
<1>9. Streaming'
  <2>1. \A m \in dst'[n] : m <= jobs[j].goal
    BY <1>2, <1>5, <1>6, <1>7
  <2>2. jobs[j].goal \in dst'[n]
    BY <1>5, <1>7
  <2> QED BY <1>1, <1>2, <1>3, <2>1, <2>2 DEF Streaming, Top
<1> QED BY <1>1, <1>2, <1>3, <1>4, <1>5, <1>8, <1>9, GoesOnAnchors

\* A stream breaks.
LEMMA PartlyAnchors ==
  ASSUME Inv, Inv', AInv, NEW j \in Slots, jobs[j].step = "stream", NEW n \in Nodes, n = jobs[j].node,
         PartlySent(j), UNCHANGED <<nameOf, src, held, removed, synced>>, Named(n)' \subseteq Named(n)
  PROVE  AnchoredAt(n)' /\ (Live(n) => \A m \in dst[n] : \E x \in dst'[n] : m <= x)
<1>1. /\ \/ dst'[n] = dst[n]
         \/ \E g \in src : /\ g <= jobs[j].goal /\ Stream(jobs[j].base + 1, g - 1) # {}
                           /\ dst'[n] = Received(n, jobs[j].base, Stream(jobs[j].base + 1, g - 1))
      /\ token'[n] = NoToken \/ token'[n].gen = jobs[j].gen
  BY PartlySentIs
<1>2. /\ lock = j /\ lock # Nobody /\ jobs[j].base \in Nat /\ jobs[j].goal \in Nat
  BY StreamFacts
<1>3. token'[n] = NoToken \/ token'[n].gen > removed[n]
  BY <1>1, <1>2, LockFacts DEF Under
<1>4. src \subseteq Nat /\ dst[n] \subseteq Nat /\ AnchoredAt(n)
  BY DEF Inv, StoreTyped, Guids, AInv, Anchoring
<1>5. CASE dst'[n] = dst[n]
  <2>1. AnchoredAt(n)'
    BY <1>3, <1>4, <1>5, AnchorStays
  <2>2. \A m \in dst[n] : m \in dst'[n] /\ m <= m
    BY <1>4, <1>5
  <2> QED BY <2>1, <2>2
<1>6. CASE \E g \in src : /\ g <= jobs[j].goal /\ Stream(jobs[j].base + 1, g - 1) # {}
                          /\ dst'[n] = Received(n, jobs[j].base, Stream(jobs[j].base + 1, g - 1))
  <2>1. PICK g \in src : /\ g <= jobs[j].goal /\ Stream(jobs[j].base + 1, g - 1) # {}
                         /\ dst'[n] = Received(n, jobs[j].base, Stream(jobs[j].base + 1, g - 1))
    BY <1>6
  <2> DEFINE W == Stream(jobs[j].base + 1, g - 1)
  <2>2. W \in SUBSET src /\ W # {} /\ \A x \in W : jobs[j].base < x /\ x <= jobs[j].goal
    BY <1>2, <1>4, <2>1 DEF Stream
  <2>3. dst'[n] = {x \in dst[n] : x <= jobs[j].base} \cup W
    BY <2>1 DEF Received
  <2> HIDE DEF W
  <2> QED BY <1>3, <2>2, <2>3, ReceivedAnchors
<1> QED BY <1>1, <1>5, <1>6

\* The command goes on with what is left to reconcile.
LEMMA SendFailsAnchors ==
  ASSUME Inv, Inv', AInv, NEW j \in Slots, SendFails(j)
  PROVE  AInv' /\ Forward
<1>0. jobs[j].node \in Nodes
  BY DEF Inv, JobsTyped, JobRecs
<1> PICK n \in Nodes : n = jobs[j].node
  BY <1>0
<1>1. /\ jobs[j].cmd = "send" /\ jobs[j].step = "stream" /\ PartlySent(j)
      /\ jobs' = [jobs EXCEPT ![j].step = "reconcile"]
      /\ UNCHANGED <<control, lock, source, synced>>
  BY DEF SendFails
<1>2. lock = j /\ lock # Nobody
  BY <1>1, StepLocked DEF Locked
<1>3. /\ \A i \in Slots : i # j => jobs'[i] = jobs[i]
      /\ jobs'[j].cmd = "send" /\ jobs'[j].node = n /\ jobs'[j].gen = jobs[j].gen
      /\ jobs'[j].name = jobs[j].name /\ jobs'[j].step = "reconcile"
  BY <1>1 DEF Inv, JobsTyped, JobRecs
<1>4. UNCHANGED <<nameOf, src, held, fences, removed>>
  BY <1>1 DEF source, fences
<1>5. Streaming'
  BY <1>1, <1>2, <1>3 DEF Streaming
<1>6. lock' = j /\ Named(n)' \subseteq Named(n)
  BY <1>1, <1>2, <1>3, <1>4, GoesOnNamed
<1>7. AnchoredAt(n)' /\ (Live(n) => \A m \in dst[n] : \E x \in dst'[n] : m <= x)
  BY <1>1, <1>4, <1>6, PartlyAnchors
<1>8. \A m \in Nodes : m # n => dst'[m] = dst[m] /\ token'[m] = token[m]
  BY <1>1, PartlySentIs
<1> QED BY <1>1, <1>2, <1>3, <1>4, <1>5, <1>6, <1>7, <1>8, GoesOnAnchors

\* Holds are released, but not that of a snapshot which is the newest of an anchored backup.
LEMMA ReleaseAnchors ==
  ASSUME Inv, NEW n \in Nodes, AnchoredAt(n), Named(n)' \subseteq Named(n),
         UNCHANGED <<src, removed, synced>>, dst'[n] = dst[n], token'[n] = token[n], NEW keep,
         dst[n] # {} => /\ keep \in Common(n) /\ <<"hold", keep>> \in held'[n]
                        /\ Anchored(n) => Top(n, keep)
  PROVE  AnchoredAt(n)'
<1>1. CASE dst[n] = {}
  <2>1. ~Shared(n) /\ (Anchored(n) => Anchored(n)') /\ (Untouched(n) => Untouched(n)')
    BY <1>1 DEF Shared, Common, Anchored, Untouched
  <2> QED BY <2>1 DEF AnchoredAt, Live
<1>2. CASE dst[n] # {}
  <2>1. keep \in src /\ Shared(n)'
    BY <1>2 DEF Common, Shared
  <2>2. Anchored(n) => Anchored(n)'
    BY <1>2, <2>1 DEF Anchored, Top, Protected
  <2>3. Untouched(n) => Untouched(n)'
    BY DEF Untouched
  <2> QED BY <2>1, <2>2, <2>3 DEF AnchoredAt, Live
<1> QED BY <1>1, <1>2

\* What is removed along an order is part of the whole.
LEMMA InOrderIs ==
  ASSUME NEW R
  PROVE  UNION InOrder(R) \subseteq R
BY DEF InOrder

\* After a broken stream the hold of the common point is not among the ones released.
LEMMA ReconcileKeepsCommon ==
  ASSUME NEW j, NEW b, b = newestCommonSnapshot(jobs[j].node), b # 0
  PROVE  /\ <<"hold", b>> \in ReconcileAdds(j)
         /\ <<"hold", b>> \notin ReconcileHolds(j) \cup ReconcileTransfers(j)
         /\ UNION ReconcileStages(j) \subseteq ReconcileHolds(j) \cup ReconcileTransfers(j)
<1>1. <<"hold", b>> \in ReconcileAdds(j)
  BY DEF ReconcileAdds
<1>2. ReconcileHolds(j) = Pairs("hold", (IF jobs[j].goal = 0 THEN src ELSE Stream(0, jobs[j].goal)) \ {b})
  BY DEF ReconcileHolds
<1>3. <<"hold", b>> \notin ReconcileHolds(j)
  BY <1>2 DEF Pairs
<1>4. <<"hold", b>> \notin ReconcileTransfers(j)
  BY DEF ReconcileTransfers, Pairs
<1>5. UNION ReconcileStages(j) \subseteq ReconcileHolds(j) \cup ReconcileTransfers(j)
  <2>1. UNION InOrder(ReconcileHolds(j)) \subseteq ReconcileHolds(j)
    BY InOrderIs
  <2> QED BY <2>1 DEF ReconcileStages
<1> QED BY <1>1, <1>3, <1>4, <1>5

\* After a stream that arrived, that of the goal is not.
LEMMA SettleKeepsGoal ==
  ASSUME NEW j, jobs[j].goal \in Nat
  PROVE  <<"hold", jobs[j].goal>> \in SettleAdds(j) /\ <<"hold", jobs[j].goal>> \notin SettleRemoves(j)
<1>1. jobs[j].goal \notin Stream(0, jobs[j].goal - 1)
  BY DEF Stream
<1> QED BY <1>1 DEF SettleAdds, SettleRemoves, Pairs

\* The common point of a node that is reconciled.
LEMMA ReconcilePoint ==
  ASSUME Inv, NEW n \in Nodes, ~NoCommonPoint(n), dst[n] # {}
  PROVE  LET b == newestCommonSnapshot(n)
         IN b # 0 /\ b \in Common(n) /\ (Anchored(n) => Top(n, b))
<1> PICK b : b = newestCommonSnapshot(n)
  OBVIOUS
<1>1. Common(n) # {}
  BY DEF NoCommonPoint
<1>2. b \in src /\ b \in dst[n] /\ b \in Guids
  BY <1>1, CommonIs
<1>3. b # 0 /\ b \in Common(n)
  BY <1>2 DEF Guids, Common
<1> QED BY <1>3, AnchorIsCommon

\* A change of protection is interrupted: holds are added only, or the one that matters is
\* there before others are released.
LEMMA InterruptedAnchors ==
  ASSUME Inv, Inv', AInv, NEW j \in Slots, lock = j, NEW n \in Nodes, n = jobs[j].node,
         Protecting(j), ProtectionInterrupted(n, Adds(j), Stages(j)),
         UNCHANGED <<src, removed, dst, token, synced>>, Named(n)' \subseteq Named(n)
  PROVE  AnchoredAt(n)'
<1>1. AnchoredAt(n) /\ lock # Nobody
  BY SlotFacts DEF AInv, Anchoring
<1>2. PICK B \in SUBSET Adds(j) : \E R \in SUBSET (UNION Stages(j)) : \E half :
            UpdateSnapshotProtection(n, B, R, half) /\ (R = {} \/ B = Adds(j))
  BY InterruptedIs
<1>3. PICK R \in SUBSET (UNION Stages(j)) : \E half :
            UpdateSnapshotProtection(n, B, R, half) /\ (R = {} \/ B = Adds(j))
  BY <1>2
<1>4. PICK half : UpdateSnapshotProtection(n, B, R, half) /\ (R = {} \/ B = Adds(j))
  BY <1>3
<1>5. held'[n] = (held[n] \cup B) \ (R \ half)
  BY <1>4 DEF UpdateSnapshotProtection, Inv, StoreTyped
<1>6. CASE R = {}
  BY <1>1, <1>5, <1>6, AnchorStays
<1>7. CASE R # {}
  <2>1. B = Adds(j)
    BY <1>4, <1>7
  <2>2. CASE jobs[j].step = "inspect"
    BY <1>7, <2>2 DEF Stages
  <2>3. CASE jobs[j].step = "verify"
    <3> PICK g : g = jobs[j].goal
      OBVIOUS
    <3>1. g \in Nat /\ g \in src /\ Top(n, g)
      BY <1>1, <2>3, StreamFacts DEF AInv, Streaming
    <3>2. Adds(j) = SettleAdds(j) /\ Stages(j) = InOrder(SettleRemoves(j))
      BY <2>3 DEF Adds, Stages
    <3>3. R \subseteq SettleRemoves(j)
      BY <3>2, InOrderIs
    <3>4. <<"hold", g>> \in held'[n]
      BY <1>5, <2>1, <3>1, <3>2, <3>3, SettleKeepsGoal
    <3>5. g \in Common(n)
      BY <3>1 DEF Common, Top
    <3> QED BY <1>1, <3>1, <3>4, <3>5, ReleaseAnchors
  <2>4. CASE jobs[j].step = "reconcile"
    <3> PICK b : b = newestCommonSnapshot(n)
      OBVIOUS
    <3>1. ~NoCommonPoint(n)
      BY <2>4 DEF Protecting, Reconciles
    <3>2. Adds(j) = ReconcileAdds(j) /\ Stages(j) = ReconcileStages(j)
      BY <2>4 DEF Adds, Stages
    <3>3. ASSUME dst[n] # {}
          PROVE  b \in Common(n) /\ <<"hold", b>> \in held'[n] /\ (Anchored(n) => Top(n, b))
      <4>1. b # 0 /\ b \in Common(n) /\ (Anchored(n) => Top(n, b))
        BY <3>1, <3>3, ReconcilePoint
      <4>2. <<"hold", b>> \in B /\ <<"hold", b>> \notin R
        BY <2>1, <3>2, <4>1, ReconcileKeepsCommon
      <4> QED BY <1>5, <4>1, <4>2
    <3> QED BY <1>1, <3>3, ReleaseAnchors
  <2> QED BY <2>2, <2>3, <2>4 DEF Protecting
<1> QED BY <1>6, <1>7

\* The holds of the node of a command that ends have changed; other nodes are as they were.
LEMMA ReleaseEnds ==
  ASSUME Inv, Inv', AInv, NEW j \in Slots, lock = j, NEW ok \in BOOLEAN, Answer(j, ok),
         NEW n \in Nodes, n = jobs[j].node, UNCHANGED <<clock, nameOf, src, fences, token>>,
         \A m \in Nodes : m # n => held'[m] = held[m] /\ dst'[m] = dst[m] /\ synced'[m] = synced[m],
         Named(n)' \subseteq Named(n) => AnchoredAt(n)',
         \A m \in dst[n] : \E x \in dst'[n] : m <= x
  PROVE  AInv' /\ Forward
<1>1. Ends(j, ok)
  BY AnswerEnds DEF Inv, ControlTyped, JobsTyped
<1>2. removed' = removed /\ \A m \in Nodes : removed[m] <= removed'[m]
  BY GenFacts DEF fences
<1>3. /\ Naming' /\ Streaming'
      /\ \A m \in Nodes : /\ Named(m)' \subseteq Named(m)
                          /\ m # n => AnchoredAt(m)'
  BY <1>1, <1>2, EndsAnchor
<1>4. Anchoring'
  BY <1>3 DEF Anchoring
<1>5. \A i \in Nodes : \A m \in dst[i] : m <= m
  BY DEF Inv, StoreTyped, Guids
<1>6. Forward
  BY <1>5 DEF Forward
<1> QED BY <1>3, <1>4, <1>6 DEF AInv

\* After a broken stream.
LEMMA ReconcileAnchors ==
  ASSUME Inv, Inv', AInv, NEW j \in Slots, Reconcile(j)
  PROVE  AInv' /\ Forward
<1>0. jobs[j].node \in Nodes
  BY DEF Inv, JobsTyped, JobRecs
<1> PICK n \in Nodes : n = jobs[j].node
  BY <1>0
<1>1. /\ jobs[j].step = "reconcile" /\ Answer(j, FALSE)
      /\ UNCHANGED <<clock, nameOf, src, fences, removed, token, dst, synced>>
  BY DEF Reconcile, At, backup, fences
<1>2. lock = j /\ AnchoredAt(n)
  BY <1>1, StepLocked DEF Locked, AInv, Anchoring
<1>3. \A m \in dst[n] : m \in dst'[n] /\ m <= m
  BY <1>1 DEF Inv, StoreTyped, Guids
<1>4. CASE Reconciles(j)
  <2> PICK A : A = ReconcileAdds(j)
    OBVIOUS
  <2> PICK R : R = ReconcileHolds(j) \cup ReconcileTransfers(j)
    OBVIOUS
  <2> PICK b : b = newestCommonSnapshot(n)
    OBVIOUS
  <2>1. held' = [held EXCEPT ![n] = (held[n] \cup A) \ R]
    BY <1>4 DEF Reconcile, UpdateSnapshotProtection
  <2>2. held'[n] = (held[n] \cup A) \ R /\ \A m \in Nodes : m # n => held'[m] = held[m]
    BY <2>1 DEF Inv, StoreTyped
  <2>3. ASSUME dst[n] # {}
        PROVE  b \in Common(n) /\ <<"hold", b>> \in held'[n] /\ (Anchored(n) => Top(n, b))
    <3>1. b # 0 /\ b \in Common(n) /\ (Anchored(n) => Top(n, b))
      BY <1>4, <2>3, ReconcilePoint DEF Reconciles
    <3>2. <<"hold", b>> \in A /\ <<"hold", b>> \notin R
      BY <3>1, ReconcileKeepsCommon
    <3> QED BY <2>2, <3>1, <3>2
  <2>4. ASSUME Named(n)' \subseteq Named(n) PROVE AnchoredAt(n)'
    BY <1>1, <1>2, <2>3, <2>4, ReleaseAnchors
  <2> QED BY <1>1, <1>2, <1>3, <2>2, <2>4, ReleaseEnds
<1>5. CASE ~Reconciles(j)
  <2>1. held' = held
    BY <1>5 DEF Reconcile
  <2>2. ASSUME Named(n)' \subseteq Named(n) PROVE AnchoredAt(n)'
    BY <1>1, <1>2, <2>1, <2>2, AnchorStays
  <2> QED BY <1>1, <1>2, <1>3, <2>1, <2>2, ReleaseEnds
<1> QED BY <1>4, <1>5

\* After a stream that arrived: the goal is held, and is what the receiver's pruning keeps.
LEMMA SettleAnchors ==
  ASSUME Inv, Inv', AInv, NEW j \in Slots, Settle(j)
  PROVE  AInv' /\ Forward
<1>0. jobs[j].node \in Nodes
  BY DEF Inv, JobsTyped, JobRecs
<1> PICK n \in Nodes : n = jobs[j].node
  BY <1>0
<1> PICK ok \in BOOLEAN : ok = Verified(j)
  BY DEF Verified
<1>1. /\ jobs[j].step = "verify" /\ Answer(j, ok)
      /\ UNCHANGED <<clock, nameOf, src, fences, removed, token>>
  BY DEF Settle, At, fences
<1>2. /\ lock = j /\ lock # Nobody /\ jobs[j].goal \in Nat /\ jobs[j].goal \in src
      /\ token[n] = NoToken /\ AnchoredAt(n) /\ Top(n, jobs[j].goal)
  BY <1>1, StreamFacts DEF AInv, Anchoring, Streaming
<1>3. CASE ok
  <2> PICK g : g = jobs[j].goal
    OBVIOUS
  <2>1. /\ held' = [held EXCEPT ![n] = (held[n] \cup SettleAdds(j)) \ SettleRemoves(j)]
        /\ synced' = [synced EXCEPT ![n] = jobs[j].gen] /\ PruneBackup(j)
    BY <1>3 DEF Settle, UpdateSnapshotProtection
  <2>2. PICK K \in RetainedSnapshots(dst[n]) : dst' = [dst EXCEPT ![n] = K]
    BY <2>1 DEF PruneBackup
  <2>3. /\ held'[n] = (held[n] \cup SettleAdds(j)) \ SettleRemoves(j) /\ dst'[n] = K
        /\ \A m \in Nodes : m # n => held'[m] = held[m] /\ dst'[m] = dst[m] /\ synced'[m] = synced[m]
    BY <2>1, <2>2 DEF Inv, StoreTyped
  <2>4. <<"hold", g>> \in held'[n]
    BY <1>2, <2>3, SettleKeepsGoal
  <2>5. g \in K /\ \A m \in K : m <= g
    <3>1. dst[n] \in SUBSET (0 .. Len(nameOf)) /\ Len(nameOf) \in Nat /\ dst[n] # {}
      BY <1>2 DEF Inv, StoreTyped, Guids, Top
    <3>2. Max(dst[n]) \in dst[n] /\ \A y \in dst[n] : y <= Max(dst[n])
      BY <3>1, MaxIs
    <3>3. g \in dst[n] /\ \A m \in dst[n] : m <= g
      BY <1>2 DEF Top
    <3>4. Max(dst[n]) = g
      BY <3>1, <3>2, <3>3
    <3> QED BY <3>1, <3>3, <3>4 DEF RetainedSnapshots
  <2>6. AnchoredAt(n)'
    <3>1. Top(n, g)' /\ Protected(n, g)' /\ Shared(n)'
      BY <1>1, <1>2, <2>3, <2>4, <2>5 DEF Top, Protected, Shared, Common
    <3>2. Anchored(n)'
      BY <1>1, <1>2, <3>1 DEF Anchored
    <3> QED BY <3>1, <3>2 DEF AnchoredAt
  <2>7. \A m \in dst[n] : \E x \in dst'[n] : m <= x
    BY <1>2, <2>3, <2>5 DEF Top
  <2> QED BY <1>1, <1>2, <2>3, <2>6, <2>7, ReleaseEnds
<1>4. CASE ~ok
  <2>1. UNCHANGED <<held, synced, dst>>
    BY <1>4 DEF Settle
  <2>2. ASSUME Named(n)' \subseteq Named(n) PROVE AnchoredAt(n)'
    BY <1>1, <1>2, <2>1, <2>2, AnchorStays
  <2>3. \A m \in dst[n] : m \in dst'[n] /\ m <= m
    BY <2>1 DEF Inv, StoreTyped, Guids
  <2> QED BY <1>1, <1>2, <2>1, <2>2, <2>3, ReleaseEnds
<1> QED BY <1>3, <1>4

\* A replication fails.
LEMMA ReplicationFailsAnchors ==
  ASSUME Inv, Inv', AInv, NEW j \in Slots, ReplicationFails(j)
  PROVE  AInv' /\ Forward
<1>0. jobs[j].node \in Nodes
  BY DEF Inv, JobsTyped, JobRecs
<1> PICK n \in Nodes : n = jobs[j].node
  BY <1>0
<1>1. /\ lock = j /\ Answer(j, FALSE) /\ AnchoredAt(n)
      /\ UNCHANGED <<clock, nameOf, src, fences, removed, token, dst, synced>>
  BY DEF ReplicationFails, backup, fences, AInv, Anchoring
<1>2. \A m \in dst[n] : m \in dst'[n] /\ m <= m
  BY <1>1 DEF Inv, StoreTyped, Guids
<1>3. CASE UNCHANGED <<held, listed>>
  <2>1. ASSUME Named(n)' \subseteq Named(n) PROVE AnchoredAt(n)'
    BY <1>1, <1>3, <2>1, AnchorStays
  <2> QED BY <1>1, <1>2, <1>3, <2>1, ReleaseEnds
<1>4. CASE Protecting(j) /\ ProtectionInterrupted(n, Adds(j), Stages(j))
  <2>1. ASSUME Named(n)' \subseteq Named(n) PROVE AnchoredAt(n)'
    BY <1>1, <1>4, <2>1, InterruptedAnchors
  <2>2. \A m \in Nodes : m # n => held'[m] = held[m]
    BY <1>4 DEF ProtectionInterrupted, UpdateSnapshotProtection, Inv, StoreTyped
  <2> QED BY <1>1, <1>2, <2>1, <2>2, ReleaseEnds
<1> QED BY <1>3, <1>4 DEF ReplicationFails

\* hostd stops: no replication is left, and a broken stream or change of protection is as
\* good as one that failed.
LEMMA HostdRestartAnchors ==
  ASSUME Inv, Inv', AInv, HostdRestart
  PROVE  AInv' /\ Forward
<1>1. /\ lock' = Nobody
      /\ UNCHANGED <<clock, target, tasks, nameOf, src, fences, removed, synced>>
      /\ jobs' = [j \in Slots |-> IF j \in Orphans THEN NoJob
                     ELSE IF Busy(j) THEN [Job(jobs[j].cmd, jobs[j].node, 0, jobs[j].gen) EXCEPT !.step = "lost"]
                     ELSE jobs[j]]
  BY DEF HostdRestart, control, client, fences
<1>2. ASSUME NEW j \in Slots PROVE Stems(jobs'[j])
  <2>1. CASE j \in Orphans
    BY <1>1, <2>1 DEF NoJob, Job, Stems
  <2>2. CASE j \notin Orphans /\ Busy(j)
    BY <1>1, <2>2 DEF Job, Stems
  <2>3. CASE j \notin Orphans /\ ~Busy(j)
    BY <1>1, <2>3 DEF Stems
  <2> QED BY <2>1, <2>2, <2>3
<1>3. Naming' /\ \A n \in Nodes : Named(n)' \subseteq Named(n)
  <2>1. SameRows /\ \A n \in Nodes : removed[n] <= removed'[n]
    BY <1>1, GenFacts DEF SameRows
  <2> QED BY <1>1, <1>2, <2>1, NamedStays DEF AInv
<1>4. Streaming'
  BY <1>1 DEF Streaming
<1>5. ASSUME NEW m \in Nodes, held'[m] = held[m], dst'[m] = dst[m], token'[m] = token[m]
      PROVE  AnchoredAt(m)'
  BY <1>1, <1>3, <1>5, AnchorStays DEF AInv, Anchoring
<1>6. CASE UNCHANGED <<held, listed, backup>>
  BY <1>3, <1>4, <1>5, <1>6, SameForward DEF AInv, Anchoring, backup
<1>7. CASE lock # Nobody
  <2>0. lock \in Slots /\ jobs[lock].node \in Nodes
    BY <1>7, LockFacts
  <2> PICK j \in Slots : j = lock
    BY <2>0
  <2> PICK n \in Nodes : n = jobs[j].node
    BY <2>0
  <2>1. CASE Protecting(j) /\ UNCHANGED backup /\ ProtectionInterrupted(n, Adds(j), Stages(j))
    <3>1. UNCHANGED <<dst, token>>
      BY <2>1 DEF backup
    <3>2. AnchoredAt(n)'
      BY <1>1, <1>3, <2>1, <3>1, InterruptedAnchors
    <3>3. \A m \in Nodes : m # n => held'[m] = held[m]
      BY <2>1 DEF ProtectionInterrupted, UpdateSnapshotProtection, Inv, StoreTyped
    <3>4. Anchoring'
      BY <1>5, <3>1, <3>2, <3>3 DEF Anchoring
    <3> QED BY <1>3, <1>4, <3>1, <3>4, SameForward DEF AInv
  <2>2. CASE jobs[j].step = "stream" /\ UNCHANGED <<held, listed>> /\ PartlySent(j)
    <3>1. AnchoredAt(n)' /\ (Live(n) => \A m \in dst[n] : \E x \in dst'[n] : m <= x)
      BY <1>1, <1>3, <2>2, PartlyAnchors
    <3>2. \A m \in Nodes : m # n => dst'[m] = dst[m] /\ token'[m] = token[m]
      BY <2>2, PartlySentIs
    <3>3. Anchoring'
      BY <1>5, <2>2, <3>1, <3>2 DEF Anchoring
    <3>4. \A i \in Nodes : \A m \in dst[i] : m <= m
      BY DEF Inv, StoreTyped, Guids
    <3>5. Forward
      BY <3>1, <3>2, <3>4 DEF Forward
    <3> QED BY <1>3, <1>4, <3>3, <3>5 DEF AInv
  <2> QED BY <1>6, <1>7, <2>1, <2>2 DEF HostdRestart
<1> QED BY <1>6, <1>7 DEF HostdRestart

\* The backups are anchored at the beginning.
LEMMA InitAInv == Init => AInv
<1> SUFFICES ASSUME Init PROVE AInv
  OBVIOUS
<1>1. PICK k \in 0 .. MaxHistory : \E r \in 0 .. k :
    /\ clock = k /\ jobs = [j \in Slots |-> NoJob] /\ lock = Nobody
    /\ nameOf = [g \in 1 .. k |-> g] /\ src = 1 .. k
    /\ held = [n \in Nodes |-> IF r = 0 THEN {} ELSE {<<"hold", r>>}]
    /\ dst = [n \in Nodes |-> 1 .. r] /\ token = [n \in Nodes |-> NoToken]
    /\ synced = [n \in Nodes |-> IF r = 0 THEN NoGen ELSE 1]
    /\ removed = [n \in Nodes |-> NoGen]
  BY DEF Init
<1>2. PICK r \in 0 .. k :
    /\ clock = k /\ jobs = [j \in Slots |-> NoJob] /\ lock = Nobody
    /\ nameOf = [g \in 1 .. k |-> g] /\ src = 1 .. k
    /\ held = [n \in Nodes |-> IF r = 0 THEN {} ELSE {<<"hold", r>>}]
    /\ dst = [n \in Nodes |-> 1 .. r] /\ token = [n \in Nodes |-> NoToken]
    /\ synced = [n \in Nodes |-> IF r = 0 THEN NoGen ELSE 1]
    /\ removed = [n \in Nodes |-> NoGen]
  BY <1>1
<1>3. k \in Nat /\ r \in Nat /\ r <= k /\ (r # 0 => r \in 1 .. k)
  BY BackupAssumption
<1>4. Naming
  <2>1. Guids = 1 .. k
    BY <1>2, <1>3 DEF Guids
  <2>2. \A i \in DOMAIN tasks : tasks[i].name <= clock
    BY InitRows
  <2>3. \A j \in Slots : jobs[j].name <= clock
    BY <1>2, <1>3 DEF NoJob, Job
  <2> QED BY <1>2, <1>3, <2>1, <2>2, <2>3 DEF Naming
<1>5. ASSUME NEW n \in Nodes PROVE AnchoredAt(n)
  <2>1. token[n] = NoToken /\ dst[n] = 1 .. r /\ removed[n] = NoGen
    BY <1>2
  <2>2. CASE r = 0
    <3>1. dst[n] = {} /\ synced[n] = NoGen
      BY <1>2, <2>1, <2>2
    <3>2. ~Live(n)
      BY <2>1, <3>1 DEF Live, NoGen
    <3> QED BY <2>1, <3>1, <3>2 DEF AnchoredAt, Anchored
  <2>3. CASE r # 0
    <3>1. <<"hold", r>> \in held[n] /\ r \in src /\ r \in dst[n] /\ \A m \in dst[n] : m <= r
      BY <1>2, <1>3, <2>1, <2>3
    <3> QED BY <2>1, <3>1 DEF AnchoredAt, Anchored, Top, Protected, Shared, Common
  <2> QED BY <2>2, <2>3
<1>6. Streaming
  BY <1>2 DEF Streaming
<1> QED BY <1>4, <1>5, <1>6 DEF AInv, Anchoring

\* Every command of hostd keeps them anchored.
LEMMA HostdAnchors ==
  ASSUME Inv, Inv', AInv, NEW j \in Slots, HostdStep(j)
  PROVE  AInv' /\ Forward
BY CreateAnchors, PruneAnchors, CleanupAnchors, ReplicateAnchors, ResumeAnchors,
   ResumeFailsAnchors,
   PlanAnchors, SendAnchors, SendFailsAnchors, ReconcileAnchors, SettleAnchors,
   ReplicationFailsAnchors, CommandFailsAnchors DEF HostdStep

\* Every step does.
LEMMA AnchorStep ==
  ASSUME Inv, AInv, [ReplicationNext]_rvars, [NewestWhenPutBack]_rvars
  PROVE  AInv' /\ Forward
<1>0. Inv'
  BY InvStep
<1>1. CASE UNCHANGED rvars
  BY <1>0, <1>1, StutterKeeps, CalmAnchors
<1>2. CASE ReplicationNext /\ NewestWhenPutBack
  <2>1. CASE Requests
    <3>1. CASE handleTriggerReplication
      BY <1>0, <3>1, SchedulesAnchor
    <3>2. CASE UNCHANGED <<clock, tasks, worker, sweep, jobs, lock, source, backup, synced>>
      BY <1>0, <1>2, <3>2, TargetsAnchor
    <3> QED BY <2>1, <3>1, <3>2
               DEF Requests, PutBackupTarget, RemoveBackupTarget, DisableBackupNode
  <2>2. CASE WorkerStep
    <3>1. Calm
      BY <2>2, SlotFacts, CreateKeeps, TriggeredKeeps, SendKeeps, SweptKeeps,
         CleanupArrivesKeeps,
         TimedOutKeeps, CallLostKeeps DEF WorkerStep
    <3> QED BY <1>0, <3>1, CalmAnchors
  <2>3. CASE CleanupStep
    <3>1. Calm
      BY <2>3, SlotFacts, SweptKeeps, CleanupArrivesKeeps, TimedOutKeeps, CallLostKeeps
         DEF CleanupStep
    <3> QED BY <1>0, <3>1, CalmAnchors
  <2>4. CASE ControlRestart
    BY <1>0, <2>4, ControlRestartKeeps, CalmAnchors
  <2> QED BY <1>0, <1>2, <2>1, <2>2, <2>3, <2>4, SchedulesAnchor, HostdAnchors,
             HostdRestartAnchors
         DEF ReplicationNext
<1> QED BY <1>1, <1>2

-----------------------------------------------------------------------------
(* Theorems.                                                               *)

\* The invariant of the protection holds in every behaviour.
LEMMA InvHolds == ReplicationSpec => []Inv
BY InitInv, InvStep, PTL DEF ReplicationSpec

\* It gives every variable its type.
LEMMA InvTypes == Inv => TypeOK
<1> SUFFICES ASSUME Inv PROVE TypeOK
  OBVIOUS
<1>1. /\ clock \in Nat /\ retired \subseteq Nodes /\ target \in [Nodes -> TargetRows]
      /\ tasks \in Seq(TaskRows)
  BY DEF Inv, ControlTyped, ClientTyped
<1>2. \A i \in DOMAIN tasks :
        /\ tasks[i].type \in {"create", "repl"} /\ tasks[i].attempts \in 0 .. MaxAttempts
        /\ tasks[i].state \in {"pending", "running", "done", "failed"}
  <2> TAKE i \in DOMAIN tasks
  <2>1. tasks[i] \in TaskRows
    BY <1>1
  <2> QED BY <2>1 DEF TaskRows
<1>3. worker \in [task: 0 .. Len(tasks), step: {"idle", "creating", "pruning", "checked", "sending", "sweeping"}]
  <2>1. worker \in [task: Nat, step: {"idle", "creating", "pruning", "checked", "sending", "sweeping"}]
    BY DEF Inv, ControlTyped, ClientTyped
  <2>2. Len(tasks) \in Nat /\ DOMAIN tasks = 1 .. Len(tasks)
    BY <1>1
  <2>3. worker.task = 0 \/ worker.task \in DOMAIN tasks
    BY DEF Inv, Working
  <2>4. worker.task \in 0 .. Len(tasks)
    BY <2>2, <2>3
  <2> QED BY <2>1, <2>4
<1>4. \A j \in Slots :
        /\ jobs[j].cmd \in {"none", "create", "prune", "cleanup", "send"}
        /\ jobs[j].step \in {"wait", "inspect", "stream", "reconcile", "verify", "lost"}
  BY DEF Inv, JobsTyped, JobRecs
<1>5. lock \in {Nobody} \cup Slots /\ src \subseteq 1 .. Len(nameOf)
  BY DEF Inv, JobsTyped, StoreTyped, Guids
<1>6. ASSUME NEW n \in Nodes
      PROVE  /\ held[n] \subseteq {"hold", "transfer"} \X (1 .. Len(nameOf))
             /\ listed[n] \subseteq {"hold", "transfer"} \X (1 .. Len(nameOf))
             /\ dst[n] \subseteq 1 .. Len(nameOf)
             /\ token[n].guid \in {0} \cup (1 .. Len(nameOf))
             /\ {removed[n], accepted[n]} \subseteq Nat \cup {NoGen}
  <2>1. held[n] \subseteq Kinds \X src /\ listed[n] \subseteq Kinds \X src
    BY DEF Inv, StoreTyped
  <2>2. /\ held[n] \subseteq Kinds \X (1 .. Len(nameOf))
        /\ listed[n] \subseteq Kinds \X (1 .. Len(nameOf))
    BY <1>5, <2>1
  <2>3. dst[n] \subseteq 1 .. Len(nameOf) /\ token[n] \in TokenRecs
    BY DEF Inv, StoreTyped, Guids
  <2>4. token[n].guid \in {0} \cup (1 .. Len(nameOf))
    BY <2>3 DEF TokenRecs, Guids
  <2>5. removed[n] \in Gens /\ accepted[n] \in Gens
    BY DEF Inv, StoreTyped
  <2> QED BY <2>2, <2>3, <2>4, <2>5 DEF Kinds, Gens
<1> QED BY <1>1, <1>2, <1>3, <1>4, <1>5, <1>6 DEF TypeOK, TargetRows

\* It protects what is listed and what can be resumed, and nothing of a cleaned-up removal.
LEMMA InvProtects == Inv => FailsClosed /\ InterruptedResumable /\ CleanedIsReleased
<1> SUFFICES ASSUME Inv, NEW n \in Nodes
             PROVE  /\ listed[n] \subseteq held[n]
                    /\ token[n].gen > removed[n] /\ token[n] # NoToken => ValidToken(n)
                    /\ ~target[n].enabled /\ ~target[n].cleanup_pending => held[n] = {}
  BY DEF FailsClosed, InterruptedResumable, CleanedIsReleased
<1>1. Held(n) /\ held[n] \subseteq Kinds \X src
  BY DEF Inv, Holding, StoreTyped
<1>2. token[n].gen > removed[n] /\ token[n] # NoToken => ValidToken(n)
  BY <1>1 DEF Held, ValidToken
<1> QED BY <1>1, <1>2 DEF Held

\* Whatever the order of commands, and wherever one is interrupted, abandoned or run twice:
\* every snapshot described as needed is held, and an interrupted receive of a generation
\* that was not removed can be resumed (UpdateSnapshotProtection, ResumeStream).
THEOREM FailsClosedAlways == ReplicationSpec => [](TypeOK /\ FailsClosed /\ InterruptedResumable)
BY InvHolds, InvTypes, InvProtects, PTL

\* A removal recorded as cleaned up has left no hold for its node, and replications still
\* running in hostd for it can place none (CleanupBackupGeneration, the fence in Replicate).
THEOREM CleanedIsReleasedAlways == ReplicationSpec => []CleanedIsReleased
BY InvHolds, InvProtects, PTL

\* Once a generation was verified and until it is removed, a snapshot of both sides stays
\* held, when every target that is put back finds the present tick's snapshot the newest
\* (Settle, Reconcile, PruneBackup).
THEOREM ProtectionSoundAlways == ReplicationSpec /\ [][NewestWhenPutBack]_rvars => []ProtectionSound
<1>1. Inv /\ AInv => ProtectionSound
  <2> SUFFICES ASSUME Inv, AInv PROVE ProtectionSound
    OBVIOUS
  <2>1. CommonPointKept
    BY DEF AInv, Anchoring, AnchoredAt, Live, Shared, CommonPointKept
  <2> QED BY <2>1, InvTypes, InvProtects DEF ProtectionSound
<1>2. Inv /\ AInv /\ [ReplicationNext]_rvars /\ [NewestWhenPutBack]_rvars => AInv'
  BY AnchorStep
<1> QED BY <1>1, <1>2, InitAInv, InvHolds, PTL DEF ReplicationSpec

\* Under the same assumption no step, of a delayed retry or of anything else, replaces the
\* newest snapshot of a verified backup by an older one (PlannedGoal, Send, PruneBackup).
THEOREM RecoveryPointMovesForward == ReplicationSpec /\ [][NewestWhenPutBack]_rvars => RecoveryPointForward
<1> DEFINE Step == \A n \in Nodes : synced[n] > removed[n] /\ dst[n] # {} =>
                      dst'[n] # {} /\ Max(dst'[n]) >= Max(dst[n])
<1>1. Inv /\ Inv' /\ Forward => Step
  <2> SUFFICES ASSUME Inv, Inv', Forward, NEW n \in Nodes, Live(n), dst[n] # {}
               PROVE  dst'[n] # {} /\ Max(dst'[n]) >= Max(dst[n])
    BY DEF Live
  <2>1. /\ dst[n] \in SUBSET (0 .. Len(nameOf)) /\ Len(nameOf) \in Nat
        /\ dst'[n] \in SUBSET (0 .. Len(nameOf')) /\ Len(nameOf') \in Nat
    BY DEF Inv, StoreTyped, Guids
  <2>2. Max(dst[n]) \in dst[n]
    BY <2>1, MaxIs
  <2>3. PICK x \in dst'[n] : Max(dst[n]) <= x
    BY <2>2 DEF Forward
  <2>4. Max(dst'[n]) \in dst'[n] /\ x <= Max(dst'[n])
    BY <2>1, MaxIs
  <2> QED BY <2>1, <2>2, <2>3, <2>4
<1>2. Inv /\ AInv /\ [ReplicationNext]_rvars /\ [NewestWhenPutBack]_rvars => AInv' /\ Forward
  BY AnchorStep
<1>3. Inv /\ Inv' /\ AInv /\ [ReplicationNext]_rvars /\ [NewestWhenPutBack]_rvars => [Step]_rvars
  BY <1>1, <1>2
<1> HIDE DEF Step
<1>4. ReplicationSpec /\ [][NewestWhenPutBack]_rvars => [][Step]_rvars
  BY <1>2, <1>3, InitAInv, InvHolds, PTL DEF ReplicationSpec
<1> QED BY <1>4 DEF RecoveryPointForward, Step
=============================================================================

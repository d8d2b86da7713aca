--------------------------- MODULE DatasetSwap_proof ---------------------------
(* Proofs about DatasetSwap for any number of mounts, attempts, crashes and *)
(* late commands.                                                          *)
EXTENDS DatasetSwap, TLAPS

\* The stack root is a dataset of the tree.
LEMMA RootMount == 0 \in Mounts /\ Children \in Mounts
BY ChildrenAssumption DEF Mounts

\* The command the worker issues is one of hostd's commands.
LEMMA CurrentCommandType ==
    ASSUME TypeOK
    PROVE  CurrentCommand \in Command
BY RootMount DEF TypeOK, CurrentCommand, Command, Trees

\* No ZFS command, in whatever order they take effect, leaves the types.
LEMMA PerformType ==
    ASSUME TypeOK, NEW c \in Command, Perform(c)
    PROVE  /\ ds' \in [Trees -> [Mounts -> Contents]]
           /\ mnt' \in [Trees -> [Mounts -> Places]]
           /\ promoted' \subseteq Mounts
<1>1. CASE c.op = "clone" /\ datasetClone(c.m)
    BY <1>1 DEF TypeOK, Command, datasetClone, zfs, Trees, Contents, Places
<1>2. CASE c.op = "rename" /\ c.tree = "root" /\ datasetRename("root", "recov")
    BY <1>2 DEF TypeOK, datasetRename, zfs, Trees, Contents, Places
<1>3. CASE c.op = "rename" /\ c.tree = "temp" /\ datasetRename("temp", "root")
    BY <1>3 DEF TypeOK, datasetRename, zfs, Trees, Contents, Places
<1>4. CASE c.op = "unmount" /\ datasetSet(c.tree, c.m, "none")
    BY <1>4 DEF TypeOK, Command, datasetSet, Trees, Places
<1>5. CASE c.op = "mount" /\ datasetSet(c.tree, c.m, c.tree)
    BY <1>5 DEF TypeOK, Command, datasetSet, Trees, Places
<1>6. CASE c.op = "promote" /\ datasetPromote(c.m)
    BY <1>6 DEF TypeOK, Command, datasetPromote
<1>. QED BY <1>1, <1>2, <1>3, <1>4, <1>5, <1>6 DEF Perform

\* The type invariant is inductive together with the attempt bound.
LEMMA TypeInit == Init => TypeOK /\ AttemptsLeft
<1>. SUFFICES ASSUME Init PROVE TypeOK /\ AttemptsLeft
    OBVIOUS
<1>1. ds \in [Trees -> [Mounts -> Contents]]
    BY DEF Init, Contents
<1>2. mnt \in [Trees -> [Mounts -> Places]]
    BY DEF Init, Places, Trees
<1>3. attempts \in 0..MaxAttempts /\ crashes \in 0..MaxCrashes /\ attempts < MaxAttempts
    BY BoundsAssumption DEF Init
<1>. QED BY <1>1, <1>2, <1>3, RootMount DEF Init, TypeOK, AttemptsLeft

\* Every step of the worker, of hostd or of a late command keeps the types.
LEMMA TypeStep == TypeOK /\ AttemptsLeft /\ [Next]_vars => TypeOK' /\ AttemptsLeft'
<1>. SUFFICES ASSUME TypeOK, AttemptsLeft, [Next]_vars PROVE TypeOK' /\ AttemptsLeft'
    OBVIOUS
<1>0. ASSUME RecordFailure, phase # "failed"
      PROVE  /\ attempts' \in 0..MaxAttempts /\ AttemptsLeft'
             /\ phase' \in {"pending", "failed"}
    BY <1>0, BoundsAssumption DEF RecordFailure, TypeOK, AttemptsLeft
<1>1. CASE ListDatasets
    BY <1>1, RootMount DEF ListDatasets, TypeOK, AttemptsLeft, Steps
<1>2. CASE CommandOk
    <2>1. phase' \in Steps \cup {"done"} /\ idx' \in Mounts /\ swapped' \in BOOLEAN
        BY <1>2, ChildrenAssumption
        DEF CommandOk, Advance, Move, TypeOK, Steps, Mounts
    <2>2. Perform(CurrentCommand) /\ phase # "failed"
        BY <1>2 DEF CommandOk, Steps
    <2>. QED BY <1>2, <2>1, <2>2, CurrentCommandType, PerformType
             DEF CommandOk, TypeOK, AttemptsLeft
<1>3. CASE CommandFails
    <2>1. /\ ds' \in [Trees -> [Mounts -> Contents]]
          /\ mnt' \in [Trees -> [Mounts -> Places]]
          /\ promoted' \subseteq Mounts
          /\ late' \subseteq Command
        BY <1>3, CurrentCommandType, PerformType
        DEF CommandFails, Outstanding, TypeOK, zfs
    <2>2. RecordFailure /\ phase # "failed" /\ disturbed' \in BOOLEAN
        BY <1>3 DEF CommandFails, Steps, TypeOK
    <2>. QED BY <1>0, <2>1, <2>2, RootMount DEF RecordFailure, TypeOK
<1>4. CASE ListFails
    BY <1>0, <1>4, RootMount DEF ListFails, RecordFailure, TypeOK, zfs
<1>5. CASE Crash
    <2>1. /\ ds' \in [Trees -> [Mounts -> Contents]]
          /\ mnt' \in [Trees -> [Mounts -> Places]]
          /\ promoted' \subseteq Mounts
          /\ late' \subseteq Command
        BY <1>5, CurrentCommandType, PerformType
        DEF Crash, Outstanding, TypeOK, zfs
    <2>. QED BY <1>5, <2>1, RootMount, BoundsAssumption
             DEF Crash, RecoverRunning, TypeOK, AttemptsLeft, Steps
<1>6. ASSUME NEW c \in late, LateCommand(c) PROVE TypeOK' /\ AttemptsLeft'
    <2>1. /\ ds' \in [Trees -> [Mounts -> Contents]]
          /\ mnt' \in [Trees -> [Mounts -> Places]]
          /\ promoted' \subseteq Mounts
        BY <1>6, PerformType DEF LateCommand, TypeOK, zfs
    <2>. QED BY <1>6, <2>1 DEF LateCommand, TypeOK, AttemptsLeft, task
<1>7. CASE UNCHANGED vars
    BY <1>7 DEF vars, TypeOK, AttemptsLeft
<1>. QED BY <1>1, <1>2, <1>3, <1>4, <1>5, <1>6, <1>7 DEF Next

\* The type invariant: restoreDatasets and hostd stay within their states.
THEOREM TypeCorrect == Spec => []TypeOK
BY TypeInit, TypeStep, PTL DEF Spec

--------------------------------------------------------------------------------
(* The stages. *)

\* The temporary tree only grows as long as the original is in place, and the
\* stages are passed in order.
Forward ==
    /\ Before' => Before /\ \A m \in Mounts : ds["temp"][m] = "clone" => ds'["temp"][m] = "clone"
    /\ Before => Before' \/ Between'
    /\ Between => Between' \/ After'
    /\ After => After'

\* Any ZFS command keeps the trees in a stage and moves forward, provided the
\* first rename is not performed before the temporary tree is complete.
LEMMA PerformStage ==
    ASSUME TypeOK, Stage, NEW c \in Command, Perform(c),
           Before /\ c.op = "rename" /\ c.tree = "root" => Whole("temp", "clone")
    PROVE  Stage' /\ Forward
<1>. USE RootMount DEF TypeOK, Trees, Stage, Forward, Before, Between, After, Whole
<1>1. CASE c.op = "clone" /\ datasetClone(c.m)
    BY <1>1 DEF datasetClone, Command, zfs
<1>2. CASE c.op = "rename" /\ c.tree = "root" /\ datasetRename("root", "recov")
    BY <1>2 DEF datasetRename, Exists, zfs
<1>3. CASE c.op = "rename" /\ c.tree = "temp" /\ datasetRename("temp", "root")
    BY <1>3 DEF datasetRename, Exists, zfs
<1>4. CASE ds' = ds
    BY <1>4
<1>5. ds' = ds \/ c.op \in {"clone", "rename"}
    BY DEF Perform, datasetSet, datasetPromote
<1>. QED BY <1>1, <1>2, <1>3, <1>4, <1>5 DEF Perform, datasetSet, datasetPromote

\* A step that touches no dataset stays in its stage.
LEMMA SameStage ==
    ASSUME Stage, UNCHANGED ds
    PROVE  Stage' /\ Forward
BY DEF Stage, Forward, Before, Between, After, Whole

\* The rename of the root is performed only when it is safe.
LEMMA CurrentRenameSafe ==
    ASSUME TypeOK, Inv, Before, phase \in Steps,
           CurrentCommand.op = "rename", CurrentCommand.tree = "root"
    PROVE  Whole("temp", "clone")
<1>1. phase = "renameRoot"
    BY DEF CurrentCommand, Steps
<1>. QED BY <1>1 DEF Inv, Progress, RenameRootIssued

\* Progress survives a step that goes forward, issues the root rename only when
\* the temporary tree is complete, and resumes a loop only after a listing.
LEMMA ProgressKept ==
    ASSUME TypeOK, Inv, Stage', Forward, idx' \in Mounts,
           Before' /\ phase' = "clone" =>
               \A m \in 0..(idx' - 1) : ds'["temp"][m] = "clone",
           Before' /\ RenameRootIssued' => Whole("temp", "clone"),
           Before' => phase' \in {"pending", "clone", "renameRoot", "failed"}
    PROVE  Progress'
<1>1. Before' /\ RenameRootIssued' => Whole("temp", "clone")'
    BY DEF Forward, Whole
<1>. QED BY <1>1 DEF Progress

\* Before the first command the original tree is whole and nothing is cloned.
LEMMA InvInit == Init => Stage /\ Progress
BY RootMount DEF Init, Stage, Progress, Before, Whole, Trees, RenameRootIssued

\* A command that succeeds keeps the invariant.
LEMMA CommandOkKeeps ==
    ASSUME TypeOK, Inv, CommandOk, TypeOK'
    PROVE  Stage' /\ Progress' /\ Forward
<1>. DEFINE c == CurrentCommand
<1>1. c \in Command /\ Perform(c) /\ phase \in Steps
    BY CurrentCommandType DEF CommandOk
<1>2. Before /\ c.op = "rename" /\ c.tree = "root" => Whole("temp", "clone")
    BY <1>1, CurrentRenameSafe
<1>3. Stage' /\ Forward
    BY <1>1, <1>2, PerformStage DEF Inv
<1>4. Before' => phase \in {"clone", "renameRoot"}
    BY <1>1, <1>3 DEF Forward, Inv, Progress, Steps
<1>5. ASSUME Before', phase = "clone"
      PROVE  \A m \in 0..idx : ds'["temp"][m] = "clone"
    <2>1. Before /\ \A m \in Mounts : ds["temp"][m] = "clone" => ds'["temp"][m] = "clone"
        BY <1>3, <1>5 DEF Forward
    <2>2. \A m \in 0..(idx - 1) : ds["temp"][m] = "clone"
        BY <1>5, <2>1 DEF Inv, Progress
    <2>3. datasetClone(idx)
        BY <1>1, <1>5 DEF Perform, CurrentCommand
    <2>4. ds'["temp"][idx] = "clone"
        BY <2>1, <2>3 DEF datasetClone, TypeOK, Before, Trees, zfs
    <2>. QED BY <2>1, <2>2, <2>4, ChildrenAssumption DEF TypeOK, Mounts
<1>6. ASSUME Before', phase = "renameRoot" PROVE FALSE
    <2>1. datasetRename("root", "recov")
        BY <1>1, <1>6 DEF Perform, CurrentCommand
    <2>2. Before
        BY <1>3, <1>6 DEF Forward
    <2>3. ds'["root"][0] = "absent"
        BY <2>1, <2>2, RootMount
        DEF datasetRename, Exists, Before, Whole, TypeOK, Trees
    <2>. QED BY <1>6, <2>3, RootMount DEF Before, Whole
<1>7. Before' /\ phase' = "clone" => \A m \in 0..(idx' - 1) : ds'["temp"][m] = "clone"
    BY <1>4, <1>5, <1>6, ChildrenAssumption DEF CommandOk, Advance, Move, TypeOK, Mounts
<1>8. Before' /\ phase' = "renameRoot" => Whole("temp", "clone")'
    BY <1>4, <1>5, <1>6, ChildrenAssumption
    DEF CommandOk, Advance, Move, TypeOK, Mounts, Whole
<1>9. Before' => phase' \in {"pending", "clone", "renameRoot", "failed"}
    BY <1>4, <1>6 DEF CommandOk, Advance, Move
<1>10. Before' /\ RenameRootIssued' => Whole("temp", "clone")'
    BY <1>3, <1>8 DEF CommandOk, Forward, Whole, RenameRootIssued, Inv, Progress
<1>. QED BY <1>3, <1>7, <1>9, <1>10 DEF Progress

\* So does an attempt that ends, whatever became of its outstanding command.
LEMMA OutstandingKeeps ==
    ASSUME TypeOK, Inv, phase \in Steps, Outstanding, idx' \in Mounts,
           phase' \in {"pending", "failed"}
    PROVE  Stage' /\ Progress' /\ Forward
<1>1. CASE UNCHANGED <<zfs, late>>
    <2>1. Stage' /\ Forward
        BY <1>1, SameStage DEF Inv, zfs
    <2>. QED BY <1>1, <2>1, ProgressKept DEF Inv, Progress, Forward, RenameRootIssued
<1>2. CASE Perform(CurrentCommand) /\ UNCHANGED late
    <2>1. Stage' /\ Forward
        BY <1>2, CurrentCommandType, CurrentRenameSafe, PerformStage DEF Inv
    <2>. QED BY <1>2, <2>1, ProgressKept DEF Inv, Progress, Forward, RenameRootIssued
<1>3. CASE late' = late \cup {CurrentCommand} /\ UNCHANGED zfs
    <2>1. Stage' /\ Forward
        BY <1>3, SameStage DEF Inv, zfs
    <2>2. Before' /\ RenameRootIssued' => Whole("temp", "clone")
        BY <1>3, <2>1, CurrentRenameSafe DEF Inv, Progress, Forward, RenameRootIssued
    <2>. QED BY <2>1, <2>2, ProgressKept
<1>. QED BY <1>1, <1>2, <1>3 DEF Outstanding

\* Every step keeps the trees in one of the three stages of the swap.
LEMMA InvStep ==
    TypeOK /\ Inv /\ [Next]_vars => Inv' /\ (Forward \/ UNCHANGED ds)
<1>. SUFFICES ASSUME TypeOK, Inv, [Next]_vars
              PROVE  Inv' /\ (Forward \/ UNCHANGED ds)
    OBVIOUS
<1>0. TypeOK' /\ AttemptsLeft'
    BY TypeStep DEF Inv
<1>1. CASE ListDatasets
    <2>1. Stage' /\ Forward
        BY <1>1, SameStage DEF ListDatasets, Inv
    <2>2. Before' => phase' = "clone" /\ idx' = 0
        BY <1>1, <2>1, RootMount DEF ListDatasets, Forward, Before, Whole, Exists
    <2>. QED BY <1>0, <1>1, <2>1, <2>2, ProgressKept
             DEF ListDatasets, Inv, TypeOK, Progress, Forward, RenameRootIssued
<1>2. CASE CommandOk
    BY <1>0, <1>2, CommandOkKeeps DEF Inv
<1>3. CASE CommandFails
    BY <1>0, <1>3, OutstandingKeeps DEF CommandFails, RecordFailure, Inv, TypeOK
<1>4. CASE ListFails
    <2>1. Stage' /\ Forward
        BY <1>4, SameStage DEF ListFails, zfs, Inv
    <2>2. phase' \in {"pending", "failed"}
        BY <1>4 DEF ListFails, RecordFailure
    <2>. QED BY <1>0, <1>4, <2>1, <2>2, ProgressKept
             DEF ListFails, Inv, TypeOK, Progress, Forward, RenameRootIssued
<1>5. CASE Crash
    BY <1>0, <1>5, OutstandingKeeps DEF Crash, RecoverRunning, Inv, TypeOK
<1>6. ASSUME NEW c \in late, LateCommand(c)
      PROVE  Inv' /\ (Forward \/ UNCHANGED ds)
    <2>1. Before /\ c.op = "rename" /\ c.tree = "root" => Whole("temp", "clone")
        BY DEF Inv, Progress, RenameRootIssued
    <2>2. Stage' /\ Forward
        BY <1>6, <2>1, PerformStage, SameStage DEF LateCommand, Inv, TypeOK, zfs
    <2>3. Before' /\ phase' = "clone" =>
              \A m \in 0..(idx' - 1) : ds'["temp"][m] = "clone"
        BY <1>6, <2>2, ChildrenAssumption
        DEF LateCommand, task, Inv, Progress, Forward, TypeOK, Mounts
    <2>. QED BY <1>0, <1>6, <2>2, <2>3, ProgressKept
             DEF LateCommand, task, Inv, TypeOK, Progress, Forward, RenameRootIssued
<1>7. CASE UNCHANGED vars
    BY <1>7 DEF vars, Inv, AttemptsLeft, Stage, Progress, Before, Between, After,
                Whole, RenameRootIssued
<1>. QED BY <1>1, <1>2, <1>3, <1>4, <1>5, <1>6, <1>7 DEF Next

\* The inductive invariant holds throughout.
LEMMA InvAlways == Spec => [](TypeOK /\ Inv)
<1>1. Init => TypeOK /\ Inv
    BY TypeInit, InvInit DEF Inv
<1>2. TypeOK /\ Inv /\ [Next]_vars => (TypeOK /\ Inv)'
    BY TypeStep, InvStep DEF Inv
<1>. QED BY <1>1, <1>2, PTL DEF Spec

\* The data a stack had before a restore or an upgrade's rollback is whole in
\* the root tree or whole in the recovery tree, after any interruption of
\* restoreDatasets and any late hostd command.
THEOREM PreservesOriginal == Spec => []OriginalPreserved
<1>1. Inv => OriginalPreserved
    BY DEF Inv, Stage, Before, Between, After, OriginalPreserved
<1>. QED BY <1>1, InvAlways, PTL

\* The stack's dataset tree is never a mixture of original and restored data.
THEOREM NeverMixed == Spec => []RootHomogeneous
<1>1. Inv => RootHomogeneous
    BY DEF Inv, Stage, Before, Between, After, RootHomogeneous, Contents
<1>. QED BY <1>1, InvAlways, PTL

\* Whenever the root tree is missing, both trees the retry needs are complete.
THEOREM GapClosable == Spec => []GapRecoverable
<1>1. Inv => GapRecoverable
    BY RootMount DEF Inv, Stage, Before, Between, After, Whole, Exists, GapRecoverable
<1>. QED BY <1>1, InvAlways, PTL

\* The stack's data is safe in every state of restoreDatasets and hostd: whole in
\* one of two trees, never mixed, and completable when the root is missing.
THEOREM SafeSwap == Spec => []DataSafe
BY TypeCorrect, PreservesOriginal, NeverMixed, GapClosable, PTL DEF DataSafe

\* restoreDatasets implements the abstract swap: the initial states agree and
\* every step of the worker, of hostd or of a late command is a step of it or
\* leaves it unchanged.
THEOREM Refinement == Spec => SwapsOnce
<1>1. Init => Swap!Init
    BY RootMount DEF Init, Swap!Init, SwapActive, SwapKept, Whole, Trees
<1>2. TypeOK /\ Inv /\ [Next]_vars => [Swap!Next]_<<SwapActive, SwapKept>>
    <2>. SUFFICES ASSUME TypeOK, Inv, [Next]_vars
                  PROVE  [Swap!Next]_<<SwapActive, SwapKept>>
        OBVIOUS
    <2>1. Stage /\ Stage' /\ (Forward \/ UNCHANGED ds)
        BY InvStep DEF Inv
    <2>2. CASE UNCHANGED ds
        BY <2>2 DEF SwapActive, SwapKept, Whole
    <2>3. /\ Before => SwapActive = "original" /\ SwapKept = FALSE
          /\ Between => SwapActive = "detached" /\ SwapKept = TRUE
          /\ After => SwapActive = "restored" /\ SwapKept = TRUE
        BY RootMount DEF Before, Between, After, SwapActive, SwapKept, Whole
    <2>4. /\ Before' => SwapActive' = "original" /\ SwapKept' = FALSE
          /\ Between' => SwapActive' = "detached" /\ SwapKept' = TRUE
          /\ After' => SwapActive' = "restored" /\ SwapKept' = TRUE
        BY RootMount DEF Before, Between, After, SwapActive, SwapKept, Whole
    <2>. QED BY <2>1, <2>2, <2>3, <2>4 DEF Forward, Stage, Swap!Next, Swap!Detach, Swap!Activate
<1>. QED BY <1>1, <1>2, InvAlways, PTL DEF Spec, Swap!Spec, SwapsOnce

--------------------------------------------------------------------------------
(* Success means completion. *)

\* The first n + 1 datasets of a tree are mounted under its own name.
MountedUpTo(t, n) == disturbed \/ \A m \in 0..n : mnt[t][m] = t

\* What the later loops of an attempt know: from "unmountRoot" on the swap is done, and
\* each loop has settled the datasets below its index, the finished ones all.
Completing ==
    /\ phase \in {"clone", "renameRoot"} => ~swapped
    /\ phase \in {"unmountRecov", "mountRecov"} /\ swapped => After
    /\ phase \in {"unmountRoot", "mountRoot", "promote", "done"} => After
    /\ phase = "mountRecov" => MountedUpTo("recov", idx - 1)
    /\ phase \in {"renameTemp", "unmountRoot", "mountRoot", "promote", "done"} =>
           MountedUpTo("recov", Children)
    /\ phase = "mountRoot" => MountedUpTo("root", idx - 1)
    /\ phase \in {"promote", "done"} => MountedUpTo("root", Children)
    /\ phase = "promote" => 0..(idx - 1) \subseteq promoted
    /\ phase = "done" => Mounts \subseteq promoted

\* Once the original is in the recovery tree, no rename or clone moves a mountpoint of
\* that tree, nor, after the swap, one of the root; and no promotion is taken back.
LEMMA MountsStay ==
    ASSUME TypeOK, Stage, ~Before, NEW c \in Command, Perform(c)
    PROVE  /\ c.op \notin {"mount", "unmount"} =>
                  /\ mnt'["recov"] = mnt["recov"]
                  /\ After => mnt'["root"] = mnt["root"]
           /\ promoted \subseteq promoted'
<1>1. Exists("recov") /\ (After => Exists("root"))
    BY RootMount DEF Stage, Between, After, Whole, Exists
<1>2. CASE c.op = "clone" /\ datasetClone(c.m)
    BY <1>2 DEF datasetClone, zfs, TypeOK, Trees
<1>3. CASE c.op = "rename" /\ c.tree = "root" /\ datasetRename("root", "recov")
    BY <1>1, <1>3 DEF datasetRename, zfs
<1>4. CASE c.op = "rename" /\ c.tree = "temp" /\ datasetRename("temp", "root")
    BY <1>1, <1>4 DEF datasetRename, zfs, TypeOK, Trees
<1>5. CASE c.op \in {"mount", "unmount"}
    BY <1>5 DEF Perform, datasetSet
<1>6. CASE c.op = "promote" /\ datasetPromote(c.m)
    BY <1>6 DEF datasetPromote
<1>. QED BY <1>2, <1>3, <1>4, <1>5, <1>6 DEF Perform

\* The loops that mount a tree settle one dataset after the other.
LEMMA MountSettles ==
    ASSUME TypeOK, NEW t \in {"root", "recov"}, datasetSet(t, idx, t),
           MountedUpTo(t, idx - 1), disturbed' = disturbed
    PROVE  disturbed' \/ \A m \in 0..idx : mnt'[t][m] = t
<1>1. mnt' = [mnt EXCEPT ![t][idx] = t] /\ mnt \in [Trees -> [Mounts -> Places]]
    BY DEF datasetSet, TypeOK
<1>2. \A m \in 0..idx : m \in Mounts /\ (m = idx \/ m \in 0..(idx - 1))
    BY ChildrenAssumption DEF TypeOK, Mounts
<1>3. \A m \in 0..idx : mnt'[t][m] = IF m = idx THEN t ELSE mnt[t][m]
    BY <1>1, <1>2 DEF Trees, TypeOK
<1>. QED BY <1>2, <1>3 DEF MountedUpTo

\* A command that succeeds completes its part.
LEMMA CommandOkCompletes ==
    ASSUME TypeOK, Inv, Completing, CommandOk, TypeOK', Stage', Progress', Forward
    PROVE  Completing'
<1>. DEFINE c == CurrentCommand
<1>1. c \in Command /\ Perform(c) /\ phase \in Steps /\ UNCHANGED disturbed
    BY CurrentCommandType DEF CommandOk
<1>2. After => After'
    BY DEF Forward
<1>3. idx \in Mounts /\ idx' \in Mounts /\ Advance
    BY DEF TypeOK, CommandOk
<1>4. CASE phase = "clone"
    BY <1>3, <1>4 DEF Completing, Advance, Move
<1>5. CASE phase = "renameRoot"
    BY <1>3, <1>5 DEF Completing, Advance, Move
<1>6. CASE phase = "unmountRecov"
    <2>1. \/ phase' = "unmountRecov"
          \/ phase' = "mountRecov" /\ idx' = 0
        BY <1>3, <1>6 DEF Advance, Move
    <2>2. swapped' = swapped
        BY <1>3, <1>6 DEF Advance, Move
    <2>. QED BY <1>2, <1>6, <2>1, <2>2 DEF Completing, MountedUpTo
<1>7. CASE phase = "mountRecov"
    <2>1. datasetSet("recov", idx, "recov")
        BY <1>1, <1>7 DEF Perform, CurrentCommand
    <2>2. disturbed' \/ \A m \in 0..idx : mnt'["recov"][m] = "recov"
        BY <1>1, <1>7, <2>1, MountSettles DEF Completing
    <2>3. \/ phase' = "mountRecov" /\ idx' = idx + 1 /\ swapped' = swapped
          \/ phase' = "unmountRoot" /\ idx = Children /\ swapped
          \/ phase' = "renameTemp" /\ idx = Children
        BY <1>3, <1>7 DEF Advance, Move
    <2>4. idx' = idx + 1 => idx' - 1 = idx
        BY <1>3, ChildrenAssumption DEF Mounts
    <2>. QED BY <1>2, <1>7, <2>2, <2>3, <2>4 DEF Completing, MountedUpTo
<1>8. CASE phase = "renameTemp"
    <2>1. c.op = "rename" /\ c.tree = "temp" /\ datasetRename("temp", "root")
        BY <1>1, <1>8 DEF Perform, CurrentCommand
    <2>2. ~Before
        BY <1>8 DEF Inv, Progress
    <2>3. mnt'["recov"] = mnt["recov"]
        BY <1>1, <2>1, <2>2, MountsStay DEF Inv
    <2>4. After'
        BY <2>1, <2>2, RootMount
        DEF Inv, Stage, Between, After, Whole, datasetRename, Exists, zfs, TypeOK, Trees
    <2>5. phase' = "unmountRoot"
        BY <1>3, <1>8 DEF Advance, Move
    <2>. QED BY <1>1, <1>8, <2>3, <2>4, <2>5 DEF Completing, MountedUpTo
<1>9. CASE phase = "unmountRoot"
    <2>1. datasetSet("root", idx, "none")
        BY <1>1, <1>9 DEF Perform, CurrentCommand
    <2>2. mnt'["recov"] = mnt["recov"]
        BY <2>1 DEF datasetSet, TypeOK, Trees
    <2>3. \/ phase' = "unmountRoot"
          \/ phase' = "mountRoot" /\ idx' = 0
        BY <1>3, <1>9 DEF Advance, Move
    <2>. QED BY <1>1, <1>2, <1>9, <2>2, <2>3 DEF Completing, MountedUpTo
<1>10. CASE phase = "mountRoot"
    <2>1. datasetSet("root", idx, "root")
        BY <1>1, <1>10 DEF Perform, CurrentCommand
    <2>2. disturbed' \/ \A m \in 0..idx : mnt'["root"][m] = "root"
        BY <1>1, <1>10, <2>1, MountSettles DEF Completing
    <2>3. mnt'["recov"] = mnt["recov"]
        BY <2>1 DEF datasetSet, TypeOK, Trees
    <2>4. \/ phase' = "mountRoot" /\ idx' = idx + 1
          \/ phase' = "promote" /\ idx' = 0 /\ idx = Children
        BY <1>3, <1>10 DEF Advance, Move
    <2>5. idx' = idx + 1 => idx' - 1 = idx
        BY <1>3, ChildrenAssumption DEF Mounts
    <2>. QED BY <1>1, <1>2, <1>10, <2>2, <2>3, <2>4, <2>5 DEF Completing, MountedUpTo
<1>11. CASE phase = "promote"
    <2>1. datasetPromote(idx) /\ After
        BY <1>1, <1>11 DEF Perform, CurrentCommand, Completing
    <2>2. promoted' = promoted \cup {idx} /\ mnt' = mnt
        BY <1>3, <2>1 DEF datasetPromote, After, Whole
    <2>3. 0..idx \subseteq promoted'
        BY <1>3, <1>11, <2>2, ChildrenAssumption DEF Completing, Mounts
    <2>4. \/ phase' = "promote" /\ idx' = idx + 1
          \/ phase' = "done" /\ idx = Children
        BY <1>3, <1>11 DEF Advance, Move
    <2>5. idx' = idx + 1 => idx' - 1 = idx
        BY <1>3, ChildrenAssumption DEF Mounts
    <2>. QED BY <1>1, <1>2, <1>11, <2>2, <2>3, <2>4, <2>5 DEF Completing, MountedUpTo, Mounts
<1>. QED BY <1>1, <1>4, <1>5, <1>6, <1>7, <1>8, <1>9, <1>10, <1>11 DEF Steps

\* Nothing but a late mountpoint change disturbs what an attempt has completed.
LEMMA CompletingStep == TypeOK /\ Inv /\ Completing /\ [Next]_vars => Completing'
<1>. SUFFICES ASSUME TypeOK, Inv, Completing, [Next]_vars PROVE Completing'
    OBVIOUS
<1>0. TypeOK' /\ Inv' /\ (Forward \/ UNCHANGED ds)
    BY TypeStep, InvStep DEF Inv
<1>1. CASE ListDatasets
    <2>1. /\ phase' \in {"unmountRecov", "clone"}
          /\ phase' = "clone" => ~swapped'
          /\ swapped' => Exists("root") /\ Exists("recov")
          /\ ds' = ds
        BY <1>1 DEF ListDatasets
    <2>2. Exists("root") /\ Exists("recov") => After
        BY RootMount DEF Inv, Stage, Before, Between, Whole, Exists
    <2>3. After => After'
        BY <2>1 DEF After, Whole
    <2>. QED BY <2>1, <2>2, <2>3 DEF Completing
<1>2. CASE CommandOk
    <2>1. Stage' /\ Progress' /\ Forward
        BY <1>0, <1>2, CommandOkKeeps
    <2>. QED BY <1>0, <1>2, <2>1, CommandOkCompletes
<1>3. CASE CommandFails \/ ListFails \/ Crash
    <2>1. phase' \in {"pending", "failed"}
        BY <1>3 DEF CommandFails, ListFails, Crash, RecordFailure, RecoverRunning
    <2>. QED BY <2>1 DEF Completing
<1>4. ASSUME NEW c \in late, LateCommand(c) PROVE Completing'
    <2>1. UNCHANGED <<phase, idx, swapped>> /\ c \in Command
        BY <1>4 DEF LateCommand, task, TypeOK
    <2>2. CASE phase \in {"pending", "failed", "clone", "renameRoot"}
        BY <2>1, <2>2 DEF Completing
    <2>3. CASE ~(phase \in {"pending", "failed", "clone", "renameRoot"})
        <3>1. ~Before
            BY <2>3 DEF Inv, Progress
        <3>2. After => After'
            BY <1>0 DEF Forward, After, Whole
        <3>3. CASE UNCHANGED zfs
            BY <1>4, <2>1, <3>2, <3>3 DEF LateCommand, Completing, MountedUpTo, zfs
        <3>4. CASE Perform(c) /\ c.op \in {"mount", "unmount"}
            <4>1. disturbed' /\ promoted \subseteq promoted'
                BY <1>4, <2>1, <3>1, <3>4, MountsStay DEF LateCommand, Inv
            <4>. QED BY <2>1, <3>2, <4>1 DEF Completing, MountedUpTo
        <3>5. CASE Perform(c) /\ c.op \notin {"mount", "unmount"}
            <4>1. /\ mnt'["recov"] = mnt["recov"]
                  /\ After => mnt'["root"] = mnt["root"]
                  /\ promoted \subseteq promoted'
                BY <2>1, <3>1, <3>5, MountsStay DEF Inv
            <4>2. disturbed => disturbed'
                BY <1>4 DEF LateCommand
            <4>. QED BY <2>1, <3>2, <4>1, <4>2 DEF Completing, MountedUpTo
        <3>. QED BY <1>4, <3>3, <3>4, <3>5 DEF LateCommand
    <2>. QED BY <2>2, <2>3
<1>5. CASE UNCHANGED vars
    BY <1>5 DEF vars, Completing, MountedUpTo, After, Whole
<1>. QED BY <1>1, <1>2, <1>3, <1>4, <1>5 DEF Next

\* When restoreDatasets reports success the snapshot is the root tree, promoted, the
\* original is the recovery tree, and both are mounted under their own names, however
\* often the attempt was interrupted and whichever commands took effect late; only a late
\* mountpoint change can have moved a mount behind the worker's back.
THEOREM SuccessIsComplete == Spec => []SwapComplete
<1>1. Init => Completing
    BY DEF Init, Completing
<1>2. TypeOK /\ Inv /\ Completing => SwapComplete
    <2>. SUFFICES ASSUME TypeOK, Completing, phase = "done"
                  PROVE  /\ Whole("root", "clone") /\ Whole("recov", "orig")
                         /\ promoted = Mounts
                         /\ disturbed \/ \A t \in {"root", "recov"}, m \in Mounts : mnt[t][m] = t
        BY DEF SwapComplete
    <2>1. Whole("root", "clone") /\ Whole("recov", "orig")
        BY DEF Completing, After
    <2>2. promoted = Mounts
        BY DEF Completing, TypeOK
    <2>3. MountedUpTo("root", Children) /\ MountedUpTo("recov", Children)
        BY DEF Completing
    <2>. QED BY <2>1, <2>2, <2>3 DEF MountedUpTo, Mounts
<1>. QED BY <1>1, <1>2, CompletingStep, InvAlways, PTL DEF Spec
================================================================================

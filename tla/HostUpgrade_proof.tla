-------------------------- MODULE HostUpgrade_proof ---------------------------
(***************************************************************************)
(* BootSafe, JournalMatchesDisk and OldNeverReadsNew for any set of        *)
(* releases and operations and any number of power losses, restarts of     *)
(* hostd and failing commands.  None of the three is inductive.  What      *)
(* holds them up is that the journal is written ahead of every command, so *)
(* that its state bounds what the aliases, bootfs, BootNext, the gate and  *)
(* the data can be: Recorded and Requested say which journals there are;   *)
(* Disks, OneShot, Checkpointed and DataFits say what the disk, the        *)
(* firmware and management may look like under each of them, the forms     *)
(* between two commands of Promote and RestoreBoot included; and In* say   *)
(* what a procedure that has got to a step has done so far.  One lemma per *)
(* action shows that it keeps them.                                        *)
(***************************************************************************)
EXTENDS HostUpgrade, TLAPS

\* States of the journal in which no update is under way on disk, and in which its candidate
\* may boot.
Resting  == {"idle", "staging", "staged", "failed", "recovered", "committed"}
Trying   == {"arming", "armed", "trial", "ready"}
\* The journal's operation, its checkpoint, the clone that boots by default and the one it tries.
Op       == journal.op
Made     == ckpt[journal.op].made
Current  == alias["current"]
Candidate == Clone(journal.target, journal.op, journal.op)

\* The update has a source and a target.
Real == /\ journal.source \in Versions
        /\ journal.target \in Versions
        /\ journal.source # journal.target

\* What a journal of each state records of its operation.
Recorded ==
  /\ journal.state # "idle" => journal.op \in Ops
  /\ journal.state = "idle" => journal.op = None
  /\ journal.state \in Trying \cup {"staged", "committing", "committed"} => Real
  /\ journal.state = "staging" => /\ journal.want \in Versions
                                  /\ journal.source = None
                                  /\ journal.target = None
  /\ journal.state = "recovering" /\ journal.source # None => Real
  /\ journal.final => journal.state \in {"committed", "recovering", "recovered"}

\* A request is on record only in the states that accept it.
Requested ==
  /\ journal.req # "none" => journal.op # None
  /\ journal.req = "activate" => journal.state = "staged"
  /\ journal.req = "commit" => journal.state \in {"ready", "committing"}
  /\ journal.req = "cleanup" => terminal(journal.state)

\* The source is kept under a name of its own and boots.
KeptSource == bootfs = "recovery" /\ alias["recovery"].ver = journal.source

\* The forms of the disk during Promote: the candidate still to be renamed, no current alias, or
\* the candidate promoted, with the source bootable or kept in each.
Promoting ==
  \/ /\ Current.ver = journal.source
     /\ alias["next"] = Candidate
     /\ bootfs = "current" \/ KeptSource
  \/ Current = Gone /\ alias["next"] = Candidate /\ KeptSource
  \/ /\ Current.ver = journal.target
     /\ alias["next"] = Gone
     /\ alias["recovery"].ver = journal.source
     /\ bootfs \in {"current", "recovery"}

\* The forms of the disk that RestoreBoot goes on from.
Restoring ==
  \/ Current.ver = journal.source /\ (bootfs = "current" \/ KeptSource)
  \/ /\ Current.ver = journal.target
     /\ alias["next"] = Gone
     /\ alias["recovery"].ver = journal.source
     /\ bootfs \in {"current", "recovery"}
  \/ Current = Gone /\ KeptSource

\* What each state of the journal says of the disk and of the management data.
Disks ==
  /\ journal.state \in Resting \cup Trying => bootfs = "current"
  /\ journal.state \in Resting => run.ver = Current.ver /\ mgmt.data = Current.ver
  /\ journal.state \in Trying \cup {"staged"} =>
       Current.ver = journal.source /\ alias["next"] = Candidate
  /\ journal.state = "committed" =>
       /\ Current.ver = journal.target
       /\ alias["recovery"].ver = journal.source
       /\ alias["next"] = Gone
       /\ journal.final => Current.tok = None /\ ~mgmt.blocked
  /\ journal.state = "committing" =>
       /\ Promoting
       /\ journal.source \in trusted /\ journal.target \in trusted
       /\ mgmt.data = journal.target
  /\ journal.state = "recovering" =>
       IF journal.source = None THEN bootfs = "current" /\ Made = "none"
       ELSE /\ Restoring
            /\ journal.source \in trusted
            /\ Made # "changed" => /\ bootfs = "current"
                                   /\ Current.ver = journal.source
                                   /\ run.ver = journal.source
                                   /\ mgmt.data = journal.source
  /\ journal.state = "recovered" /\ Made # "none" =>
       Current.ver = journal.source /\ ~mgmt.blocked

\* BootNext selects a candidate that never booted, with the checkpoint made and the gate closed.
OneShot ==
  /\ bootNext => /\ journal.state \in {"arming", "armed", "recovering"}
                 /\ alias["next"] = Candidate
                 /\ trials[Op] = 0
                 /\ Made = "changed"
                 /\ mgmt.blocked
                 /\ Real
  /\ \A o \in Ops : trials[o] <= 1
  /\ journal.state \in {"staging", "staged"} => trials[Op] = 0

\* What each state says of the operation's checkpoint: from "armed" on there is one, of the
\* source's data, and until the end of the update the gate is closed.
Checkpointed ==
  /\ journal.state \in {"staging", "staged", "failed"} => Made = "none"
  /\ journal.state # "idle" /\ Made = "changed" => ckpt[Op].snap = journal.source
  /\ journal.state \in {"armed", "trial", "ready", "committing", "committed"} => Made = "changed"
  /\ journal.state = "arming" /\ Made # "changed" =>
        run.ver = journal.source /\ mgmt.data = journal.source
  /\ journal.state \in Trying \cup {"committing"} /\ Made = "changed" => mgmt.blocked

\* Unblocked management finds its data as the running and the next OS wrote them.
DataFits ==
  /\ mgmt.up => mgmt.data = run.ver
  /\ ~mgmt.blocked => mgmt.data = run.ver /\ alias[bootfs].ver = run.ver

\* The steps of Prepare.
InStaging ==
  /\ pc \in {"stage", "preflight", "staged", "stageFailed"} => journal.state = "staging"
  /\ pc \in {"preflight", "staged"} =>
        /\ alias["next"] = Clone(journal.want, Op, Op)
        /\ journal.want # run.ver

\* The steps of Activate: the checkpoint is taken under the source, behind the gate.
InArming ==
  /\ pc \in {"activate", "arming"} => journal.state = "staged"
  /\ pc \in {"capture", "fence", "quiet", "snapshot", "checkpointed", "arm", "armed"} =>
        /\ journal.state = "arming"
        /\ trials[Op] = 0
        /\ run.ver = journal.source
        /\ mgmt.data = journal.source
  /\ pc = "capture" => Made = "none"
  /\ pc \in {"fence", "quiet", "snapshot", "checkpointed"} => Made = "captured"
  /\ pc \in {"quiet", "snapshot", "checkpointed"} => mgmt.blocked
  /\ pc = "checkpointed" => ckpt[Op].snap = journal.source
  /\ pc \in {"arm", "armed"} => Made = "changed"
  /\ pc = "reboot" => journal.state = "armed" /\ run.ver = journal.source

\* The steps of a recovery on the source: boot selection, aliases, data, management, in that order.
InRestore ==
  /\ pc = "recovering" => journal.state \in Trying \cup {"committing", "recovering"}
  /\ pc \in {"clear", "restoreBoot", "restoreData", "startPrevious", "authorize", "recovered"} =>
        journal.state = "recovering"
  /\ pc \in {"recovering", "clear", "restoreBoot", "restoreData", "startPrevious", "authorize",
             "recovered"} => run.ver = journal.source
  /\ pc \in {"restoreBoot", "restoreData", "startPrevious", "authorize", "recovered"} => ~bootNext
  /\ pc \in {"restoreData", "startPrevious", "authorize", "recovered"} =>
        bootfs = "current" /\ Current.ver = journal.source
  /\ pc \in {"startPrevious", "authorize", "recovered"} => mgmt.data = journal.source
  /\ pc = "recovered" => ~mgmt.blocked

\* The steps of a recovery on the candidate, which ends with a reboot.
InUndo ==
  /\ pc = "undo" => journal.state \in Trying \cup {"staging", "committing", "committed", "recovering"}
  /\ pc \in {"undoClear", "undoStop", "undoBoot", "undoReboot", "stopTrial", "clearTrial"} =>
        journal.state = "recovering"
  /\ pc \in {"clearTrial", "undoBoot"} => mgmt.blocked /\ Made # "none"
  /\ pc \in {"undoStop", "undoBoot"} => ~bootNext

\* The steps of a commit, all of them on the healthy candidate.
InCommit ==
  /\ pc = "commit" => journal.state \in {"ready", "committing"}
  /\ pc = "committing" => /\ journal.state \in {"ready", "committing"}
                          /\ mgmt.data = journal.target
  /\ pc \in {"promote", "committed"} => journal.state = "committing"
  /\ pc \in {"committing", "promote", "committed"} => OnTrial
  /\ pc = "committed" => Current.ver = journal.target /\ bootfs = "current"
  /\ pc \in {"release", "finalize", "finalized", "tidy"} => journal.state = "committed"
  /\ pc \in {"finalize", "finalized"} => ~mgmt.blocked
  /\ pc = "finalized" => Current.tok = None

\* The steps of a trial, of a rollback and of a cleanup.
InTrial ==
  /\ pc \in {"startTrial", "trial"} => journal.state \in Trying /\ OnTrial /\ ~bootNext
  /\ pc = "trial" => Made # "none"
  /\ pc \in {"rollback", "cleanup"} => journal.op # None
  /\ pc = "cleanup" => terminal(journal.state)

\* The inductive invariant.
Inv == /\ TypeOK /\ KnownGoodBoot
       /\ Recorded /\ Requested /\ Disks /\ OneShot /\ Checkpointed /\ DataFits
       /\ InStaging /\ InArming /\ InRestore /\ InUndo /\ InCommit /\ InTrial

\* Save replaces the state and clears the request; the rest of the journal stays.
LEMMA SaveFields ==
  ASSUME TypeOK, NEW s \in States
  PROVE  /\ Save(s) \in Journals
         /\ Save(s).state = s /\ Save(s).req = "none"
         /\ Save(s).op = journal.op /\ Save(s).source = journal.source
         /\ Save(s).want = journal.want /\ Save(s).target = journal.target
         /\ Save(s).sameBoot = journal.sameBoot /\ Save(s).final = journal.final
BY DEF TypeOK, Journals, Save, Actions

\* A returning procedure leaves the journal as it is, but for the request.
LEMMA ReturnedFields ==
  ASSUME TypeOK
  PROVE  /\ Returned(journal) \in Journals
         /\ Returned(journal).req \in {"none", journal.req}
         /\ Returned(journal).state = journal.state
         /\ Returned(journal).op = journal.op
         /\ Returned(journal).source = journal.source
         /\ Returned(journal).want = journal.want
         /\ Returned(journal).target = journal.target
         /\ Returned(journal).final = journal.final
BY DEF TypeOK, Journals, Returned, Actions

\* Steps that leave disk, firmware and data alone and end, or do not begin, a procedure.
Idles ==
  /\ pc' = "free"
  /\ caller' \in {"submit", "recover", None}
  /\ recover' \in {"due", "retry", "once", "done"}
  /\ journal' \in Journals
  /\ journal'.req \in {"none", journal.req} /\ journal'.state = journal.state
  /\ journal'.op = journal.op /\ journal'.source = journal.source
  /\ journal'.want = journal.want /\ journal'.target = journal.target
  /\ journal'.final = journal.final
  /\ UNCHANGED <<alias, retired, bootfs, ckpt, bootNext, mgmt, run, healthy, trusted, trials>>
  /\ rebooting' \in BOOLEAN /\ watched' \in BOOLEAN
  /\ crashes' \in 0 .. MaxCrashes /\ faults' \in 0 .. MaxFaults /\ early' \in 0 .. MaxEarly

\* A new operation starts from a resting journal and owns nothing yet.
LEMMA PrepareKeeps ==
  ASSUME Inv, NEW op \in Ops, NEW v \in Versions, Prepare(op, v)
  PROVE  Inv'
<1>1. /\ pc = "free" /\ pc' = "stage" /\ caller' = "submit" /\ terminal(journal.state)
  BY DEF Prepare
<1>2. /\ trials[op] = 0 /\ ckpt[op].made = "none"
  BY DEF Prepare, Unused
<1>3. /\ journal' \in Journals /\ journal'.state = "staging" /\ journal'.req = "none"
      /\ journal'.op = op /\ journal'.source = None /\ journal'.want = v
      /\ journal'.target = None /\ journal'.final = FALSE
  BY DEF Prepare, Journals, States
<1>4. UNCHANGED <<alias, retired, bootfs, ckpt, bootNext, mgmt, run, recover,
      rebooting, healthy, watched, crashes, faults, early, trusted, trials>>
  BY Zenon DEF Prepare, idleEnv, durable, history
<1>5. TypeOK'
  BY <1>1, <1>3, <1>4 DEF Inv, TypeOK, Steps, After
<1>6. KnownGoodBoot' /\ Recorded' /\ Requested' /\ Disks'
  BY <1>1, <1>3, <1>4 DEF Inv, KnownGoodBoot, Recorded, Requested, Disks, Current, Resting,
  Trying, terminal
<1>7. OneShot' /\ Checkpointed' /\ DataFits'
  BY <1>1, <1>2, <1>3, <1>4 DEF Inv, OneShot, Checkpointed, DataFits, Made, Op, terminal
<1>8. InStaging' /\ InArming' /\ InRestore' /\ InUndo' /\ InCommit' /\ InTrial'
  BY <1>1, <1>3 DEF InStaging, InArming, InRestore, InUndo, InCommit, InTrial
<1> QED BY <1>5, <1>6, <1>7, <1>8 DEF Inv

\* A request is journaled in a state that admits it.
LEMMA SubmitKeeps ==
  ASSUME Inv, NEW action \in Actions, Submit(action)
  PROVE  Inv'
<1>1. /\ pc = "free" /\ pc' = action /\ caller' = "submit" /\ journal.op # None
      /\ early' \in 0 .. MaxEarly
  BY HostAssumption DEF Submit, Inv, TypeOK
<1>2. /\ action = "activate" => journal.state = "staged"
      /\ action = "commit" => journal.state \in {"ready", "committing"}
      /\ action = "cleanup" => terminal(journal.state)
  BY DEF Submit, Accepts, Actions
<1>3. /\ journal' \in Journals /\ journal'.state = journal.state /\ journal'.req = action
      /\ journal'.op = journal.op /\ journal'.source = journal.source
      /\ journal'.want = journal.want /\ journal'.target = journal.target
      /\ journal'.final = journal.final
  BY DEF Submit, Journals, Inv, TypeOK
<1>4. UNCHANGED <<alias, retired, bootfs, ckpt, bootNext, mgmt, run, recover,
      rebooting, healthy, watched, crashes, faults, trusted, trials>>
  BY Zenon DEF Submit, idleEnv, durable, history
<1>5. TypeOK'
  BY <1>1, <1>2, <1>3, <1>4 DEF Inv, TypeOK, Steps
<1>6. KnownGoodBoot' /\ Recorded' /\ Requested' /\ Disks'
  BY <1>1, <1>2, <1>3, <1>4 DEF Inv, KnownGoodBoot, Recorded, Requested, Disks, Real,
  Promoting, Restoring, KeptSource, Current, Candidate, Made, Resting, Trying, terminal,
  Clone, Gone
<1>7. OneShot' /\ Checkpointed' /\ DataFits'
  BY <1>1, <1>2, <1>3, <1>4 DEF Inv, OneShot, Checkpointed, DataFits, Real, Candidate,
  Made, Op, Trying, Clone
<1>8. InStaging' /\ InArming' /\ InRestore' /\ InUndo' /\ InCommit' /\ InTrial'
  BY <1>1, <1>2, <1>3, <1>4 DEF Inv, Actions, InStaging, InArming, InRestore, InUndo,
  InCommit, InTrial, Current, Made, Op, Trying, terminal, OnTrial, Clone
<1> QED BY <1>5, <1>6, <1>7, <1>8 DEF Inv

\* The candidate becomes "next" if no alias of that name is left over.
LEMMA StageKeeps ==
  ASSUME Inv, Stage
  PROVE  Inv'
<1>1. CASE journal.want = run.ver \/ alias["next"] # Gone
  <2>1. /\ pc = "stage" /\ pc' = "stageFailed"
    BY <1>1 DEF Stage
  <2>2. UNCHANGED <<journal, alias, retired, bootfs, ckpt, bootNext, mgmt, run,
        caller, recover, rebooting, healthy, watched, crashes, faults, early, trusted,
        trials>>
    BY <1>1, Zenon DEF Stage, idleEnv, durable, history
  <2>3. TypeOK'
    BY <2>1, <2>2 DEF Inv, TypeOK, Steps
  <2>4. KnownGoodBoot' /\ Recorded' /\ Requested' /\ Disks'
    BY <2>1, <2>2 DEF Inv, KnownGoodBoot, Recorded, Requested, Disks, Real, Promoting,
    Restoring, KeptSource, Current, Candidate, Made, Resting, Trying, terminal, Clone, Gone
  <2>5. OneShot' /\ Checkpointed' /\ DataFits'
    BY <2>1, <2>2 DEF Inv, OneShot, Checkpointed, DataFits, Real, Candidate, Made, Op,
    Trying, Clone
  <2>6. InStaging' /\ InArming' /\ InRestore' /\ InUndo' /\ InCommit' /\ InTrial'
    BY <2>1, <2>2 DEF Inv, InStaging, InArming, InRestore, InUndo, InCommit, InTrial,
    Current, Made, Op, Trying, terminal, OnTrial, Clone
  <2> QED BY <2>3, <2>4, <2>5, <2>6 DEF Inv
<1>2. CASE ~(journal.want = run.ver \/ alias["next"] # Gone)
  <2>1. /\ pc = "stage" /\ pc' = "preflight"
    BY <1>2 DEF Stage, Go, After
  <2>2. /\ journal.state = "staging" /\ Clone(journal.want, journal.op, journal.op) \in Clones
    BY <1>2, <2>1 DEF Inv, InStaging, Recorded, Clone, Clones
  <2>3. /\ alias' \in [Aliases -> Clones] /\ alias'["current"] = alias["current"]
        /\ alias'["previous"] = alias["previous"]
        /\ alias'["next"] = Clone(journal.want, journal.op, journal.op)
        /\ alias'["recovery"] = alias["recovery"]
    BY <1>2, <2>2 DEF Stage, Inv, TypeOK, Aliases
  <2>4. journal.want # run.ver
    BY <1>2
  <2>5. UNCHANGED <<journal, retired, bootfs, ckpt, bootNext, mgmt, run, caller,
        recover, rebooting, healthy, watched, crashes, faults, early, trusted, trials>>
    BY <1>2, Zenon DEF Stage, Go, idleEnv, durable, history
  <2>6. TypeOK'
    BY <2>1, <2>2, <2>3, <2>4, <2>5 DEF Inv, TypeOK, Steps, After
  <2>7. KnownGoodBoot' /\ Recorded' /\ Requested' /\ Disks'
    BY <2>1, <2>2, <2>3, <2>4, <2>5 DEF Inv, KnownGoodBoot, Recorded, Requested, Disks,
    Real, Promoting, Restoring, KeptSource, Current, Candidate, Made, Resting, Trying,
    terminal, Clone, Gone
  <2>8. OneShot' /\ Checkpointed' /\ DataFits'
    BY <2>1, <2>2, <2>3, <2>4, <2>5 DEF Inv, Disks, OneShot, Checkpointed, DataFits, Real,
    Promoting, Restoring, KeptSource, Current, Candidate, Made, Op, Resting, Trying, Clone,
    Gone
  <2>9. InStaging' /\ InArming' /\ InRestore' /\ InUndo' /\ InCommit' /\ InTrial'
    BY <2>1, <2>2, <2>3, <2>4, <2>5 DEF Inv, InStaging, InArming, InRestore, InUndo,
    InCommit, InTrial, Current, Made, Op, Trying, terminal, OnTrial, Clone
  <2> QED BY <2>6, <2>7, <2>8, <2>9 DEF Inv
<1> QED BY <1>1, <1>2 DEF Stage

\* Preflight changes nothing.
LEMMA PreflightKeeps ==
  ASSUME Inv, Preflight
  PROVE  Inv'
<1>1. /\ pc = "preflight" /\ pc' = "staged"
  BY DEF Preflight, Go, After
<1>2. UNCHANGED <<journal, alias, retired, bootfs, ckpt, bootNext, mgmt, run, caller,
      recover, rebooting, healthy, watched, crashes, faults, early, trusted, trials>>
  BY Zenon DEF Preflight, Go, idleEnv, durable, history
<1>3. TypeOK'
  BY <1>1, <1>2 DEF Inv, TypeOK, Steps
<1>4. KnownGoodBoot' /\ Recorded' /\ Requested' /\ Disks'
  BY <1>1, <1>2 DEF Inv, KnownGoodBoot, Recorded, Requested, Disks, Real, Promoting,
  Restoring, KeptSource, Current, Candidate, Made, Resting, Trying, terminal, Clone, Gone
<1>5. OneShot' /\ Checkpointed' /\ DataFits'
  BY <1>1, <1>2 DEF Inv, OneShot, Checkpointed, DataFits, Real, Candidate, Made, Op,
  Trying, Clone
<1>6. InStaging' /\ InArming' /\ InRestore' /\ InUndo' /\ InCommit' /\ InTrial'
  BY <1>1, <1>2 DEF Inv, InStaging, InArming, InRestore, InUndo, InCommit, InTrial,
  Current, Made, Op, Trying, terminal, OnTrial, Clone
<1> QED BY <1>3, <1>4, <1>5, <1>6 DEF Inv

\* The staged operation records the running release as its source.
LEMMA SaveStagedKeeps ==
  ASSUME Inv, SaveStaged
  PROVE  Inv'
<1>1. CASE pc = "staged"
  <2>1. /\ pc' = "free" /\ caller' = None /\ recover' \in {"due", "retry", "once", "done"}
    BY <1>1 DEF SaveStaged, Return, Attempted, Inv, TypeOK
  <2>2. /\ journal.state = "staging" /\ "staged" \in States /\ run.ver \in Versions
        /\ journal.want \in Versions
    BY <1>1 DEF Inv, TypeOK, InStaging, Recorded, States
  <2>3. journal' = [Save("staged") EXCEPT !.source = run.ver, !.target = journal.want]
    BY <1>1 DEF SaveStaged
  <2>4. /\ journal' \in Journals /\ journal'.state = "staged" /\ journal'.req = "none"
        /\ journal'.op = journal.op /\ journal'.source = run.ver /\ journal'.want = journal.want
        /\ journal'.target = journal.want /\ journal'.final = journal.final
    BY <2>2, <2>3, SaveFields DEF Inv, Journals
  <2>5. UNCHANGED <<alias, retired, bootfs, ckpt, bootNext, mgmt, run, rebooting,
        healthy, watched, crashes, faults, early, trusted, trials>>
    BY <1>1, Zenon DEF SaveStaged, idleEnv, durable, history
  <2>6. TypeOK'
    BY <2>1, <2>2, <2>3, <2>4, <2>5 DEF Inv, TypeOK, Steps
  <2>7. KnownGoodBoot' /\ Recorded' /\ Requested' /\ Disks'
    BY <1>1, <2>1, <2>2, <2>3, <2>4, <2>5 DEF Inv, KnownGoodBoot, Recorded, Requested,
    Disks, InStaging, Real, Promoting, Restoring, KeptSource, Current, Candidate, Made, Op,
    Resting, Trying, terminal, Clone, Gone
  <2>8. OneShot' /\ Checkpointed' /\ DataFits'
    BY <2>1, <2>2, <2>3, <2>4, <2>5 DEF Inv, OneShot, Checkpointed, DataFits, Real,
    Candidate, Made, Op, Trying, Clone
  <2>9. InStaging' /\ InArming' /\ InRestore' /\ InUndo' /\ InCommit' /\ InTrial'
    BY <2>1, <2>2, <2>3, <2>4, <2>5 DEF Inv, InStaging, InArming, InRestore, InUndo,
    InCommit, InTrial, Current, Made, Op, Trying, terminal, OnTrial, Clone
  <2> QED BY <2>6, <2>7, <2>8, <2>9 DEF Inv
<1>2. CASE pc = "stageFailed"
  <2>1. /\ pc' = "free" /\ caller' = None /\ recover' \in {"due", "retry", "once", "done"}
    BY <1>2 DEF SaveStaged, Return, Attempted, Inv, TypeOK
  <2>2. /\ journal.state = "staging" /\ "failed" \in States /\ run.ver \in Versions
        /\ journal.want \in Versions
    BY <1>2 DEF Inv, TypeOK, InStaging, Recorded, States
  <2>3. journal' = [Save("failed") EXCEPT !.source = run.ver, !.target = journal.want]
    BY <1>2 DEF SaveStaged
  <2>4. /\ journal' \in Journals /\ journal'.state = "failed" /\ journal'.req = "none"
        /\ journal'.op = journal.op /\ journal'.source = run.ver /\ journal'.want = journal.want
        /\ journal'.target = journal.want /\ journal'.final = journal.final
    BY <2>2, <2>3, SaveFields DEF Inv, Journals
  <2>5. UNCHANGED <<alias, retired, bootfs, ckpt, bootNext, mgmt, run, rebooting,
        healthy, watched, crashes, faults, early, trusted, trials>>
    BY <1>2, Zenon DEF SaveStaged, idleEnv, durable, history
  <2>6. TypeOK'
    BY <2>1, <2>2, <2>3, <2>4, <2>5 DEF Inv, TypeOK, Steps
  <2>7. KnownGoodBoot' /\ Recorded' /\ Requested' /\ Disks'
    BY <2>1, <2>2, <2>3, <2>4, <2>5 DEF Inv, KnownGoodBoot, Recorded, Requested, Disks,
    Real, Promoting, Restoring, KeptSource, Current, Candidate, Made, Resting, Trying,
    terminal, Clone, Gone
  <2>8. OneShot' /\ Checkpointed' /\ DataFits'
    BY <2>1, <2>2, <2>3, <2>4, <2>5 DEF Inv, OneShot, Checkpointed, DataFits, Real,
    Candidate, Made, Op, Trying, Clone
  <2>9. InStaging' /\ InArming' /\ InRestore' /\ InUndo' /\ InCommit' /\ InTrial'
    BY <2>1, <2>2, <2>3, <2>4, <2>5 DEF Inv, InStaging, InArming, InRestore, InUndo,
    InCommit, InTrial, Current, Made, Op, Trying, terminal, OnTrial, Clone
  <2> QED BY <2>6, <2>7, <2>8, <2>9 DEF Inv
<1> QED BY <1>1, <1>2 DEF SaveStaged

\* Ending a procedure disturbs nothing.
LEMMA IdlesKeep ==
  ASSUME Inv, Idles
  PROVE  Inv'
<1>1. TypeOK'
  BY DEF Inv, TypeOK, Idles, Steps
<1>2. KnownGoodBoot' /\ Recorded' /\ Requested' /\ Disks'
  BY DEF Idles, Inv, KnownGoodBoot, Recorded, Requested, Disks, Real, Promoting, Restoring,
  KeptSource, Current, Candidate, Made, Resting, Trying, terminal, Clone, Gone
<1>3. OneShot' /\ Checkpointed' /\ DataFits'
  BY DEF Idles, Inv, OneShot, Checkpointed, DataFits, Real, Candidate, Made, Op, Trying,
  Clone
<1>4. InStaging' /\ InArming' /\ InRestore' /\ InUndo' /\ InCommit' /\ InTrial'
  BY DEF Idles, Inv, InStaging, InArming, InRestore, InUndo, InCommit, InTrial, Current,
  Made, Op, Trying, terminal, OnTrial, Clone
<1> QED BY <1>1, <1>2, <1>3, <1>4 DEF Inv

\* Activation begins in the state staged or does nothing.
LEMMA ActivateKeeps ==
  ASSUME Inv, Activate
  PROVE  Inv'
<1>1. CASE journal.state = "staged" /\ ValidateManagement /\ Running.ok
  <2>1. /\ pc = "activate" /\ pc' = "arming"
    BY <1>1 DEF Activate
  <2>2. UNCHANGED <<journal, alias, retired, bootfs, ckpt, bootNext, mgmt, run,
        caller, recover, rebooting, healthy, watched, crashes, faults, early, trusted,
        trials>>
    BY <1>1, Zenon DEF Activate, idleEnv, durable, history
  <2>3. TypeOK'
    BY <2>1, <2>2 DEF Inv, TypeOK, Steps, After
  <2>4. KnownGoodBoot' /\ Recorded' /\ Requested' /\ Disks'
    BY <2>1, <2>2 DEF Inv, KnownGoodBoot, Recorded, Requested, Disks, Real, Promoting,
    Restoring, KeptSource, Current, Candidate, Made, Resting, Trying, terminal, Clone, Gone
  <2>5. OneShot' /\ Checkpointed' /\ DataFits'
    BY <2>1, <2>2 DEF Inv, OneShot, Checkpointed, DataFits, Real, Candidate, Made, Op,
    Trying, Clone
  <2>6. InStaging' /\ InArming' /\ InRestore' /\ InUndo' /\ InCommit' /\ InTrial'
    BY <2>1, <2>2 DEF Inv, InStaging, InArming, InRestore, InUndo, InCommit, InTrial,
    Current, Made, Op, Trying, terminal, OnTrial, Clone
  <2> QED BY <2>3, <2>4, <2>5, <2>6 DEF Inv
<1>2. CASE ~(journal.state = "staged" /\ ValidateManagement /\ Running.ok)
  <2>1. Idles
    BY <1>2, ReturnedFields DEF Activate, Idles, Inv, TypeOK, idleEnv, durable, history,
    Return, Attempted
  <2> QED BY <2>1, IdlesKeep
<1> QED BY <1>1, <1>2 DEF Activate

\* The intent to arm is on disk before the first command.
LEMMA SaveArmingKeeps ==
  ASSUME Inv, SaveArming
  PROVE  Inv'
<1>1. /\ pc = "arming" /\ pc' = "capture"
  BY DEF SaveArming, Go, After
<1>2. /\ journal' = [Save("arming") EXCEPT !.sameBoot = TRUE] /\ "arming" \in States
  BY DEF SaveArming, States
<1>3. /\ journal' \in Journals /\ journal'.state = "arming" /\ journal'.req = "none"
      /\ journal'.op = journal.op /\ journal'.source = journal.source
      /\ journal'.want = journal.want /\ journal'.target = journal.target
      /\ journal'.final = journal.final
  BY <1>2, SaveFields DEF Inv, Journals
<1>4. UNCHANGED <<alias, retired, bootfs, ckpt, bootNext, mgmt, run, caller, recover,
      rebooting, healthy, watched, crashes, faults, early, trusted, trials>>
  BY Zenon DEF SaveArming, Go, idleEnv, durable, history
<1>5. TypeOK'
  BY <1>1, <1>2, <1>3, <1>4 DEF Inv, TypeOK, Steps, After
<1>6. KnownGoodBoot' /\ Recorded' /\ Requested' /\ Disks'
  BY <1>1, <1>2, <1>3, <1>4 DEF Inv, KnownGoodBoot, Recorded, Requested, Disks, InArming,
  Real, Promoting, Restoring, KeptSource, Current, Candidate, Made, Op, Resting, Trying,
  terminal, Clone, Gone
<1>7. OneShot' /\ Checkpointed' /\ DataFits'
  BY <1>1, <1>2, <1>3, <1>4 DEF Inv, Disks, OneShot, Checkpointed, DataFits, InArming,
  Real, Promoting, Restoring, KeptSource, Current, Candidate, Made, Op, Resting, Trying,
  Clone, Gone
<1>8. InStaging' /\ InArming' /\ InRestore' /\ InUndo' /\ InCommit' /\ InTrial'
  BY <1>1, <1>2, <1>3, <1>4 DEF Inv, Disks, OneShot, Checkpointed, InStaging, InArming,
  InRestore, InUndo, InCommit, InTrial, Real, Promoting, Restoring, KeptSource, Current,
  Candidate, Made, Op, Resting, Trying, terminal, OnTrial, Clone, Gone
<1> QED BY <1>5, <1>6, <1>7, <1>8 DEF Inv

\* The gate is closed before the data are snapshot, and the snapshot is the source's.
LEMMA CheckpointKeeps ==
  ASSUME Inv, Checkpoint
  PROVE  Inv'
<1>1. CASE Go("capture") /\ Record("captured", None) /\ UNCHANGED mgmt
  <2>1. /\ pc = "capture" /\ pc' = "fence"
    BY <1>1 DEF Go, After
  <2>2. /\ ckpt' \in [Ops -> Checkpoints] /\ ckpt'[journal.op].made = "captured"
        /\ ckpt'[journal.op].snap = None /\ journal.op \in Ops
    BY <1>1, <2>1 DEF Record, Inv, InArming, Recorded, TypeOK, Checkpoints
  <2>3. UNCHANGED <<journal, alias, retired, bootfs, bootNext, mgmt, run, caller,
        recover, rebooting, healthy, watched, crashes, faults, early, trusted, trials>>
    BY <1>1, Zenon DEF Checkpoint, Go, idleEnv, durable, history
  <2>4. TypeOK'
    BY <2>1, <2>2, <2>3 DEF Inv, TypeOK, Steps, After
  <2>5. KnownGoodBoot' /\ Recorded' /\ Requested' /\ Disks'
    BY <2>1, <2>2, <2>3 DEF Inv, KnownGoodBoot, Recorded, Requested, Disks, InArming, Real,
    Promoting, Restoring, KeptSource, Current, Candidate, Made, Op, Resting, Trying,
    terminal, Clone, Gone
  <2>6. OneShot' /\ Checkpointed' /\ DataFits'
    BY <2>1, <2>2, <2>3 DEF Inv, OneShot, Checkpointed, DataFits, InArming, Real,
    Candidate, Made, Op, Trying, Clone
  <2>7. InStaging' /\ InArming' /\ InRestore' /\ InUndo' /\ InCommit' /\ InTrial'
    BY <2>1, <2>2, <2>3 DEF Inv, InStaging, InArming, InRestore, InUndo, InCommit, InTrial,
    Current, Made, Op, Trying, terminal, OnTrial, Clone
  <2> QED BY <2>4, <2>5, <2>6, <2>7 DEF Inv
<1>2. CASE Go("fence") /\ mgmt' = [mgmt EXCEPT !.blocked = TRUE] /\ UNCHANGED ckpt
  <2>1. /\ pc = "fence" /\ pc' = "quiet"
    BY <1>2 DEF Go, After
  <2>2. /\ mgmt' \in Managements
        /\ mgmt'.up <=> mgmt.up
        /\ mgmt'.blocked /\ mgmt'.data = mgmt.data
    BY <1>2, Zenon DEF Inv, TypeOK, Managements
  <2>3. UNCHANGED <<journal, alias, retired, bootfs, ckpt, bootNext, run, caller,
        recover, rebooting, healthy, watched, crashes, faults, early, trusted, trials>>
    BY <1>2, Zenon DEF Checkpoint, Go, idleEnv, durable, history
  <2>4. TypeOK'
    BY <2>1, <2>2, <2>3 DEF Inv, TypeOK, Steps, After
  <2>5. KnownGoodBoot' /\ Recorded' /\ Requested' /\ Disks'
    BY <2>1, <2>2, <2>3 DEF Inv, KnownGoodBoot, Recorded, Requested, Disks, InArming, Real,
    Promoting, Restoring, KeptSource, Current, Candidate, Made, Op, Resting, Trying,
    terminal, Clone, Gone
  <2>6. OneShot' /\ Checkpointed' /\ DataFits'
    BY <2>1, <2>2, <2>3 DEF Inv, OneShot, Checkpointed, DataFits, Real, Candidate, Made,
    Op, Trying, Clone
  <2>7. InStaging' /\ InArming' /\ InRestore' /\ InUndo' /\ InCommit' /\ InTrial'
    BY <2>1, <2>2, <2>3 DEF Inv, InStaging, InArming, InRestore, InUndo, InCommit, InTrial,
    Current, Made, Op, Trying, terminal, OnTrial, Clone
  <2> QED BY <2>4, <2>5, <2>6, <2>7 DEF Inv
<1>3. CASE Go("quiet") /\ mgmt' = [mgmt EXCEPT !.up = FALSE] /\ UNCHANGED ckpt
  <2>1. /\ pc = "quiet" /\ pc' = "snapshot"
    BY <1>3 DEF Go, After
  <2>2. /\ mgmt' \in Managements /\ ~mgmt'.up
        /\ mgmt'.blocked <=> mgmt.blocked
        /\ mgmt'.data = mgmt.data
    BY <1>3, Zenon DEF Inv, TypeOK, Managements
  <2>3. UNCHANGED <<journal, alias, retired, bootfs, ckpt, bootNext, run, caller,
        recover, rebooting, healthy, watched, crashes, faults, early, trusted, trials>>
    BY <1>3, Zenon DEF Checkpoint, Go, idleEnv, durable, history
  <2>4. TypeOK'
    BY <2>1, <2>2, <2>3 DEF Inv, TypeOK, Steps, After
  <2>5. KnownGoodBoot' /\ Recorded' /\ Requested' /\ Disks'
    BY <2>1, <2>2, <2>3 DEF Inv, KnownGoodBoot, Recorded, Requested, Disks, Real,
    Promoting, Restoring, KeptSource, Current, Candidate, Made, Resting, Trying, terminal,
    Clone, Gone
  <2>6. OneShot' /\ Checkpointed' /\ DataFits'
    BY <2>1, <2>2, <2>3 DEF Inv, OneShot, Checkpointed, DataFits, Real, Candidate, Made,
    Op, Trying, Clone
  <2>7. InStaging' /\ InArming' /\ InRestore' /\ InUndo' /\ InCommit' /\ InTrial'
    BY <2>1, <2>2, <2>3 DEF Inv, InStaging, InArming, InRestore, InUndo, InCommit, InTrial,
    Current, Made, Op, Trying, terminal, OnTrial, Clone
  <2> QED BY <2>4, <2>5, <2>6, <2>7 DEF Inv
<1>4. CASE Go("snapshot") /\ Record("captured", mgmt.data) /\ UNCHANGED mgmt
  <2>1. /\ pc = "snapshot" /\ pc' = "checkpointed"
    BY <1>4 DEF Go, After
  <2>2. /\ ckpt' \in [Ops -> Checkpoints] /\ ckpt'[journal.op].made = "captured"
        /\ ckpt'[journal.op].snap = mgmt.data /\ journal.op \in Ops
    BY <1>4, <2>1 DEF Record, Inv, InArming, Recorded, TypeOK, Checkpoints
  <2>3. UNCHANGED <<journal, alias, retired, bootfs, bootNext, mgmt, run, caller,
        recover, rebooting, healthy, watched, crashes, faults, early, trusted, trials>>
    BY <1>4, Zenon DEF Checkpoint, Go, idleEnv, durable, history
  <2>4. TypeOK'
    BY <2>1, <2>2, <2>3 DEF Inv, TypeOK, Steps, After
  <2>5. KnownGoodBoot' /\ Recorded' /\ Requested' /\ Disks'
    BY <2>1, <2>2, <2>3 DEF Inv, KnownGoodBoot, Recorded, Requested, Disks, InArming, Real,
    Promoting, Restoring, KeptSource, Current, Candidate, Made, Op, Resting, Trying,
    terminal, Clone, Gone
  <2>6. OneShot' /\ Checkpointed' /\ DataFits'
    BY <2>1, <2>2, <2>3 DEF Inv, OneShot, Checkpointed, DataFits, InArming, Real,
    Candidate, Made, Op, Trying, Clone
  <2>7. InStaging' /\ InArming' /\ InRestore' /\ InUndo' /\ InCommit' /\ InTrial'
    BY <2>1, <2>2, <2>3 DEF Inv, InStaging, InArming, InRestore, InUndo, InCommit, InTrial,
    Current, Made, Op, Trying, terminal, OnTrial, Clone
  <2> QED BY <2>4, <2>5, <2>6, <2>7 DEF Inv
<1>5. CASE Go("checkpointed") /\ Record("changed", ckpt[journal.op].snap) /\
      UNCHANGED mgmt
  <2>1. /\ pc = "checkpointed" /\ pc' = "arm"
    BY <1>5 DEF Go, After
  <2>2. /\ ckpt' \in [Ops -> Checkpoints] /\ ckpt'[journal.op].made = "changed"
        /\ ckpt'[journal.op].snap = ckpt[journal.op].snap /\ journal.op \in Ops
    BY <1>5, <2>1 DEF Record, Inv, InArming, Recorded, TypeOK, Checkpoints
  <2>3. UNCHANGED <<journal, alias, retired, bootfs, bootNext, mgmt, run, caller,
        recover, rebooting, healthy, watched, crashes, faults, early, trusted, trials>>
    BY <1>5, Zenon DEF Checkpoint, Go, idleEnv, durable, history
  <2>4. TypeOK'
    BY <2>1, <2>2, <2>3 DEF Inv, TypeOK, Steps, After
  <2>5. KnownGoodBoot' /\ Recorded' /\ Requested' /\ Disks'
    BY <2>1, <2>2, <2>3 DEF Inv, KnownGoodBoot, Recorded, Requested, Disks, InArming, Real,
    Promoting, Restoring, KeptSource, Current, Candidate, Made, Op, Resting, Trying,
    terminal, Clone, Gone
  <2>6. OneShot' /\ Checkpointed' /\ DataFits'
    BY <2>1, <2>2, <2>3 DEF Inv, OneShot, Checkpointed, DataFits, InArming, Real,
    Candidate, Made, Op, Trying, Clone
  <2>7. InStaging' /\ InArming' /\ InRestore' /\ InUndo' /\ InCommit' /\ InTrial'
    BY <2>1, <2>2, <2>3 DEF Inv, InStaging, InArming, InRestore, InUndo, InCommit, InTrial,
    Current, Made, Op, Trying, terminal, OnTrial, Clone
  <2> QED BY <2>4, <2>5, <2>6, <2>7 DEF Inv
<1> QED BY <1>1, <1>2, <1>3, <1>4, <1>5 DEF Checkpoint

\* BootNext selects the candidate of this operation, which has not been booted.
LEMMA ArmKeeps ==
  ASSUME Inv, Arm
  PROVE  Inv'
<1>1. /\ pc = "arm" /\ pc' = "armed"
  BY DEF Arm, Go, After
<1>2. bootNext' = TRUE
  BY DEF Arm
<1>3. UNCHANGED <<journal, alias, retired, bootfs, ckpt, mgmt, run, caller, recover,
      rebooting, healthy, watched, crashes, faults, early, trusted, trials>>
  BY Zenon DEF Arm, Go, idleEnv, durable, history
<1>4. TypeOK'
  BY <1>1, <1>2, <1>3 DEF Inv, TypeOK, Steps, After
<1>5. KnownGoodBoot' /\ Recorded' /\ Requested' /\ Disks'
  BY <1>1, <1>2, <1>3 DEF Inv, KnownGoodBoot, Recorded, Requested, Disks, Real, Promoting,
  Restoring, KeptSource, Current, Candidate, Made, Resting, Trying, terminal, Clone, Gone
<1>6. OneShot' /\ Checkpointed' /\ DataFits'
  BY <1>1, <1>2, <1>3 DEF Inv, Recorded, Disks, OneShot, Checkpointed, DataFits, InArming,
  Real, Promoting, Restoring, KeptSource, Current, Candidate, Made, Op, Resting, Trying,
  Clone, Gone
<1>7. InStaging' /\ InArming' /\ InRestore' /\ InUndo' /\ InCommit' /\ InTrial'
  BY <1>1, <1>2, <1>3 DEF Inv, InStaging, InArming, InRestore, InUndo, InCommit, InTrial,
  Current, Made, Op, Trying, terminal, OnTrial, Clone
<1> QED BY <1>4, <1>5, <1>6, <1>7 DEF Inv

\* The trial is armed.
LEMMA SaveArmedKeeps ==
  ASSUME Inv, SaveArmed
  PROVE  Inv'
<1>1. /\ pc = "armed" /\ pc' = "reboot"
  BY DEF SaveArmed, Go, After
<1>2. /\ journal' \in Journals /\ journal'.state = "armed" /\ journal'.req = "none"
      /\ journal'.op = journal.op /\ journal'.source = journal.source
      /\ journal'.want = journal.want /\ journal'.target = journal.target
      /\ journal'.final = journal.final
  BY SaveFields DEF SaveArmed, Inv, States
<1>3. UNCHANGED <<alias, retired, bootfs, ckpt, bootNext, mgmt, run, caller, recover,
      rebooting, healthy, watched, crashes, faults, early, trusted, trials>>
  BY Zenon DEF SaveArmed, Go, idleEnv, durable, history
<1>4. TypeOK'
  BY <1>1, <1>2, <1>3 DEF Inv, TypeOK, Steps
<1>5. KnownGoodBoot' /\ Recorded' /\ Requested' /\ Disks'
  BY <1>1, <1>2, <1>3 DEF Inv, KnownGoodBoot, Recorded, Requested, Disks, InArming, Real,
  Promoting, Restoring, KeptSource, Current, Candidate, Made, Op, Resting, Trying,
  terminal, Clone, Gone
<1>6. OneShot' /\ Checkpointed' /\ DataFits'
  BY <1>1, <1>2, <1>3 DEF Inv, OneShot, Checkpointed, DataFits, InArming, Real, Candidate,
  Made, Op, Trying, Clone
<1>7. InStaging' /\ InArming' /\ InRestore' /\ InUndo' /\ InCommit' /\ InTrial'
  BY <1>1, <1>2, <1>3 DEF Inv, InStaging, InArming, InRestore, InUndo, InCommit, InTrial,
  Current, Made, Op, Trying, terminal, OnTrial, Clone
<1> QED BY <1>4, <1>5, <1>6, <1>7 DEF Inv

\* An accepted reboot ends the procedure.
LEMMA RebootKeeps ==
  ASSUME Inv, Reboot
  PROVE  Inv'
<1>1. Idles
  BY ReturnedFields DEF Reboot, Idles, Inv, TypeOK, idleEnv, durable, history, Return,
  Attempted
<1> QED BY <1>1, IdlesKeep

\* From any unfinished state the aliases are in a form RestoreBoot can start from.
LEMMA SaveRecoveringKeeps ==
  ASSUME Inv, SaveRecovering
  PROVE  Inv'
<1>1. CASE Go("recovering")
  <2>1. /\ pc = "recovering" /\ pc' = "clear"
    BY <1>1 DEF Go, After
  <2>2. /\ journal' \in Journals /\ journal'.state = "recovering" /\ journal'.req = "none"
        /\ journal'.op = journal.op /\ journal'.source = journal.source
        /\ journal'.want = journal.want /\ journal'.target = journal.target
        /\ journal'.final = journal.final
    BY SaveFields DEF SaveRecovering, Inv, States
  <2>3. trusted' = IF journal.state = "committed" THEN trusted \cup {journal.source} ELSE trusted
    BY DEF SaveRecovering
  <2>4. trusted' \subseteq Versions
    BY <2>3 DEF Inv, TypeOK, Recorded, Real
  <2>5. UNCHANGED <<alias, retired, bootfs, ckpt, bootNext, mgmt, run, caller,
        recover, rebooting, healthy, watched, crashes, faults, early, trials>>
    BY <1>1, Zenon DEF SaveRecovering, Go, idleEnv, durable, history
  <2>6. TypeOK'
    BY <2>1, <2>2, <2>3, <2>4, <2>5 DEF Inv, TypeOK, Steps, After
  <2>7. KnownGoodBoot'
    BY <2>1, <2>2, <2>3, <2>4, <2>5 DEF Inv, KnownGoodBoot
  <2>8. Recorded'
    BY <2>1, <2>2, <2>3, <2>4, <2>5 DEF Inv, Recorded, InRestore, Real, Current, Trying
  <2>9. Requested'
    BY <2>1, <2>2, <2>3, <2>4, <2>5 DEF Inv, Requested, terminal
  <2>10. Disks'
    BY <2>1, <2>2, <2>3, <2>4, <2>5, HostAssumption DEF Inv, KnownGoodBoot, Disks,
    Checkpointed, InRestore, Promoting, Restoring, KeptSource, Current, Candidate, Made,
    Op, Resting, Trying, Clone, Gone
  <2>11. OneShot'
    BY <2>1, <2>2, <2>3, <2>4, <2>5 DEF Inv, OneShot, Real, Candidate, Made, Op, Clone
  <2>12. Checkpointed'
    BY <2>1, <2>2, <2>3, <2>4, <2>5 DEF Inv, Checkpointed, InRestore, Current, Made, Op,
    Trying
  <2>13. DataFits'
    BY <2>1, <2>2, <2>3, <2>4, <2>5 DEF Inv, DataFits
  <2>14. InStaging' /\ InArming' /\ InRestore' /\ InUndo' /\ InCommit' /\ InTrial'
    BY <2>1, <2>2, <2>3, <2>4, <2>5 DEF Inv, InStaging, InArming, InRestore, InUndo,
    InCommit, InTrial, Current, Made, Op, Trying, terminal, OnTrial, Clone
  <2> QED BY <2>6, <2>7, <2>8, <2>9, <2>10, <2>11, <2>12, <2>13, <2>14 DEF Inv
<1>2. CASE Go("undo")
  <2>1. /\ pc = "undo" /\ pc' = "undoClear"
    BY <1>2 DEF Go, After
  <2>2. /\ journal' \in Journals /\ journal'.state = "recovering" /\ journal'.req = "none"
        /\ journal'.op = journal.op /\ journal'.source = journal.source
        /\ journal'.want = journal.want /\ journal'.target = journal.target
        /\ journal'.final = journal.final
    BY SaveFields DEF SaveRecovering, Inv, States
  <2>3. trusted' = IF journal.state = "committed" THEN trusted \cup {journal.source} ELSE trusted
    BY DEF SaveRecovering
  <2>4. trusted' \subseteq Versions
    BY <2>3 DEF Inv, TypeOK, Recorded, Real
  <2>5. UNCHANGED <<alias, retired, bootfs, ckpt, bootNext, mgmt, run, caller,
        recover, rebooting, healthy, watched, crashes, faults, early, trials>>
    BY <1>2, Zenon DEF SaveRecovering, Go, idleEnv, durable, history
  <2>6. TypeOK'
    BY <2>1, <2>2, <2>3, <2>4, <2>5 DEF Inv, TypeOK, Steps, After
  <2>7. KnownGoodBoot'
    BY <2>1, <2>2, <2>3, <2>4, <2>5 DEF Inv, KnownGoodBoot
  <2>8. Recorded'
    BY <2>1, <2>2, <2>3, <2>4, <2>5 DEF Inv, Recorded, InUndo, Real, Made, Trying
  <2>9. Requested'
    BY <2>1, <2>2, <2>3, <2>4, <2>5 DEF Inv, Requested, terminal
  <2>10. Disks'
    BY <2>1, <2>2, <2>3, <2>4, <2>5, HostAssumption DEF Inv, KnownGoodBoot, Recorded,
    Disks, Checkpointed, InUndo, Real, Promoting, Restoring, KeptSource, Current,
    Candidate, Made, Op, Resting, Trying, Clone, Gone
  <2>11. OneShot'
    BY <2>1, <2>2, <2>3, <2>4, <2>5 DEF Inv, OneShot, Real, Candidate, Made, Op, Clone
  <2>12. Checkpointed'
    BY <2>1, <2>2, <2>3, <2>4, <2>5 DEF Inv, Checkpointed, InUndo, Made, Op, Trying
  <2>13. DataFits'
    BY <2>1, <2>2, <2>3, <2>4, <2>5 DEF Inv, DataFits
  <2>14. InStaging' /\ InArming' /\ InRestore' /\ InUndo' /\ InCommit' /\ InTrial'
    BY <2>1, <2>2, <2>3, <2>4, <2>5 DEF Inv, InStaging, InArming, InRestore, InUndo,
    InCommit, InTrial, Current, Made, Op, Trying, terminal, OnTrial, Clone
  <2> QED BY <2>6, <2>7, <2>8, <2>9, <2>10, <2>11, <2>12, <2>13, <2>14 DEF Inv
<1> QED BY <1>1, <1>2 DEF SaveRecovering

\* No one-shot selection survives Clear.
LEMMA ClearKeeps ==
  ASSUME Inv, Clear
  PROVE  Inv'
<1>1. CASE Go("clear")
  <2>1. /\ pc = "clear" /\ pc' = "restoreBoot"
    BY <1>1 DEF Go, After
  <2>2. bootNext' = FALSE
    BY DEF Clear
  <2>3. UNCHANGED <<journal, alias, retired, bootfs, ckpt, mgmt, run, caller,
        recover, rebooting, healthy, watched, crashes, faults, early, trusted, trials>>
    BY <1>1, Zenon DEF Clear, Go, idleEnv, durable, history
  <2>4. TypeOK'
    BY <1>1, <2>1, <2>2, <2>3, HostAssumption DEF Inv, TypeOK, Steps, After, Actions,
    Aliases
  <2>5. KnownGoodBoot' /\ Recorded' /\ Requested' /\ Disks'
    BY <2>1, <2>2, <2>3 DEF Inv, KnownGoodBoot, Recorded, Requested, Disks, Real,
    Promoting, Restoring, KeptSource, Current, Candidate, Made, Resting, Trying, terminal,
    Clone, Gone
  <2>6. OneShot' /\ Checkpointed' /\ DataFits'
    BY <2>1, <2>2, <2>3 DEF Inv, OneShot, Checkpointed, DataFits, Real, Candidate, Made,
    Op, Trying, Clone
  <2>7. InStaging' /\ InArming' /\ InRestore' /\ InUndo' /\ InCommit' /\ InTrial'
    BY <2>1, <2>2, <2>3 DEF Inv, InStaging, InArming, InRestore, InUndo, InCommit, InTrial,
    Current, Made, Op, Trying, terminal, OnTrial, Clone
  <2> QED BY <2>4, <2>5, <2>6, <2>7 DEF Inv
<1>2. CASE Go("undoClear")
  <2>1. /\ pc = "undoClear" /\ pc' = "undoStop"
    BY <1>2 DEF Go, After
  <2>2. bootNext' = FALSE
    BY DEF Clear
  <2>3. UNCHANGED <<journal, alias, retired, bootfs, ckpt, mgmt, run, caller,
        recover, rebooting, healthy, watched, crashes, faults, early, trusted, trials>>
    BY <1>2, Zenon DEF Clear, Go, idleEnv, durable, history
  <2>4. TypeOK'
    BY <1>2, <2>1, <2>2, <2>3, HostAssumption DEF Inv, TypeOK, Steps, After, Actions,
    Aliases
  <2>5. KnownGoodBoot' /\ Recorded' /\ Requested' /\ Disks'
    BY <2>1, <2>2, <2>3 DEF Inv, KnownGoodBoot, Recorded, Requested, Disks, Real,
    Promoting, Restoring, KeptSource, Current, Candidate, Made, Resting, Trying, terminal,
    Clone, Gone
  <2>6. OneShot' /\ Checkpointed' /\ DataFits'
    BY <2>1, <2>2, <2>3 DEF Inv, OneShot, Checkpointed, DataFits, Real, Candidate, Made,
    Op, Trying, Clone
  <2>7. InStaging' /\ InArming' /\ InRestore' /\ InUndo' /\ InCommit' /\ InTrial'
    BY <2>1, <2>2, <2>3 DEF Inv, InStaging, InArming, InRestore, InUndo, InCommit, InTrial,
    Current, Made, Op, Trying, terminal, OnTrial, Clone
  <2> QED BY <2>4, <2>5, <2>6, <2>7 DEF Inv
<1>3. CASE Go("clearTrial")
  <2>1. /\ pc = "clearTrial" /\ pc' = "undoBoot"
    BY <1>3 DEF Go, After
  <2>2. bootNext' = FALSE
    BY DEF Clear
  <2>3. UNCHANGED <<journal, alias, retired, bootfs, ckpt, mgmt, run, caller,
        recover, rebooting, healthy, watched, crashes, faults, early, trusted, trials>>
    BY <1>3, Zenon DEF Clear, Go, idleEnv, durable, history
  <2>4. TypeOK'
    BY <1>3, <2>1, <2>2, <2>3, HostAssumption DEF Inv, TypeOK, Steps, After, Actions,
    Aliases
  <2>5. KnownGoodBoot' /\ Recorded' /\ Requested' /\ Disks'
    BY <2>1, <2>2, <2>3 DEF Inv, KnownGoodBoot, Recorded, Requested, Disks, Real,
    Promoting, Restoring, KeptSource, Current, Candidate, Made, Resting, Trying, terminal,
    Clone, Gone
  <2>6. OneShot' /\ Checkpointed' /\ DataFits'
    BY <2>1, <2>2, <2>3 DEF Inv, OneShot, Checkpointed, DataFits, Real, Candidate, Made,
    Op, Trying, Clone
  <2>7. InStaging' /\ InArming' /\ InRestore' /\ InUndo' /\ InCommit' /\ InTrial'
    BY <2>1, <2>2, <2>3 DEF Inv, InStaging, InArming, InRestore, InUndo, InCommit, InTrial,
    Current, Made, Op, Trying, terminal, OnTrial, Clone
  <2> QED BY <2>4, <2>5, <2>6, <2>7 DEF Inv
<1> QED BY <1>1, <1>2, <1>3 DEF Clear

\* An update that is being undone has a source: it is the running release, or
\* there is a checkpoint, which only an armed update has.
LEMMA RestoreBootReal ==
  ASSUME Inv, pc \in {"restoreBoot", "undoBoot"}
  PROVE  journal.state = "recovering" /\ Real
<1>1. journal.state = "recovering"
  BY DEF Inv, InRestore, InUndo
<1>2. CASE pc = "restoreBoot"
  <2>1. journal.source \in Versions
    BY <1>2 DEF Inv, InRestore, TypeOK
  <2> QED BY <1>1, <2>1, HostAssumption DEF Inv, Recorded
<1>3. CASE pc = "undoBoot"
  <2>1. Made # "none"
    BY <1>3 DEF Inv, InUndo
  <2>2. journal.source # None
    BY <1>1, <2>1 DEF Inv, Disks
  <2> QED BY <1>1, <2>2 DEF Inv, Recorded
<1> QED BY <1>2, <1>3

\* Every command of RestoreBoot leaves the source bootable and a way to go on.
LEMMA RestoreBootKeeps ==
  ASSUME Inv, RestoreBoot
  PROVE  Inv'
<1>1. CASE alias["current"].ver = journal.source /\ bootfs' = "current" /\ UNCHANGED
      alias
  <2>1. /\ pc \in {"restoreBoot", "undoBoot"} /\ journal.state = "recovering" /\ Real
    BY RestoreBootReal DEF RestoreBoot
  <2>2. pc' = IF pc = "restoreBoot" THEN "restoreData" ELSE "undoReboot"
    BY <1>1, <2>1, HostAssumption DEF RestoreBoot, After, Real, Gone
  <2>3. UNCHANGED alias
    BY <1>1, <2>1 DEF Rename, Inv, TypeOK, Aliases, Clones, Gone, Fallback
  <2>4. bootfs' = "current"
    BY <1>1, <2>1 DEF Rename, Fallback
  <2>5. UNCHANGED <<journal, retired, ckpt, bootNext, mgmt, run, caller, recover,
        rebooting, healthy, watched, crashes, faults, early, trusted, trials>>
    BY <1>1, Zenon DEF RestoreBoot, idleEnv, durable, history
  <2>6. TypeOK'
    BY <2>1, <2>2, <2>3, <2>4, <2>5 DEF Inv, TypeOK, Steps, After, Aliases
  <2>7. KnownGoodBoot'
    BY <1>1, <2>1, <2>2, <2>3, <2>4, <2>5 DEF Inv, KnownGoodBoot, Disks, Promoting,
    Restoring, KeptSource, Current, Candidate, Made, Resting, Trying, Clone, Gone
  <2>8. Recorded'
    BY <2>1, <2>2, <2>3, <2>4, <2>5 DEF Inv, Recorded, Real, Trying
  <2>9. Requested'
    BY <2>1, <2>2, <2>3, <2>4, <2>5 DEF Inv, Requested, terminal
  <2>10. Disks'
    BY <1>1, <2>1, <2>2, <2>3, <2>4, <2>5 DEF Inv, Disks, Promoting, Restoring, KeptSource,
    Current, Candidate, Made, Resting, Trying, Clone, Gone
  <2>11. OneShot' /\ Checkpointed' /\ DataFits'
    BY <1>1, <2>1, <2>2, <2>3, <2>4, <2>5 DEF Inv, OneShot, Checkpointed, DataFits,
    InRestore, InUndo, Real, Current, Candidate, Made, Op, Trying, Clone
  <2>12. InStaging' /\ InArming' /\ InRestore' /\ InUndo' /\ InCommit' /\ InTrial'
    BY <1>1, <2>1, <2>2, <2>3, <2>4, <2>5 DEF Inv, InStaging, InArming, InRestore, InUndo,
    InCommit, InTrial, Current, Made, Op, Trying, terminal, OnTrial, Clone
  <2> QED BY <2>6, <2>7, <2>8, <2>9, <2>10, <2>11, <2>12 DEF Inv
<1>2. CASE alias["current"].ver = journal.target /\ alias["recovery"].ver =
      journal.source /\ bootfs # "recovery" /\ bootfs' = "recovery" /\ UNCHANGED alias
  <2>1. /\ pc \in {"restoreBoot", "undoBoot"} /\ journal.state = "recovering" /\ Real
    BY RestoreBootReal DEF RestoreBoot
  <2>2. pc' = pc
    BY <1>2, <2>1, HostAssumption DEF RestoreBoot, After, Real, Gone
  <2>3. UNCHANGED alias
    BY <1>2, <2>1 DEF Rename, Inv, TypeOK, Aliases, Clones, Gone, Fallback
  <2>4. bootfs' = "recovery"
    BY <1>2, <2>1 DEF Rename, Fallback
  <2>5. UNCHANGED <<journal, retired, ckpt, bootNext, mgmt, run, caller, recover,
        rebooting, healthy, watched, crashes, faults, early, trusted, trials>>
    BY <1>2, Zenon DEF RestoreBoot, idleEnv, durable, history
  <2>6. TypeOK'
    BY <2>1, <2>2, <2>3, <2>4, <2>5 DEF Inv, TypeOK, Steps, Aliases
  <2>7. KnownGoodBoot'
    BY <1>2, <2>1, <2>2, <2>3, <2>4, <2>5, HostAssumption DEF Inv, KnownGoodBoot, Recorded,
    Disks, Real, Promoting, Restoring, KeptSource, Current, Candidate, Made, Resting,
    Trying, Clone, Gone
  <2>8. Recorded'
    BY <2>1, <2>2, <2>3, <2>4, <2>5 DEF Inv, Recorded, Real, Trying
  <2>9. Requested'
    BY <2>1, <2>2, <2>3, <2>4, <2>5 DEF Inv, Requested, terminal
  <2>10. Disks'
    BY <1>2, <2>1, <2>2, <2>3, <2>4, <2>5, HostAssumption DEF Inv, Disks, OneShot, Real,
    Promoting, Restoring, KeptSource, Current, Candidate, Made, Op, Resting, Trying, Clone,
    Gone
  <2>11. OneShot' /\ Checkpointed' /\ DataFits'
    BY <1>2, <2>1, <2>2, <2>3, <2>4, <2>5 DEF Inv, OneShot, Checkpointed, DataFits,
    InRestore, InUndo, Real, Current, Candidate, Made, Op, Trying, Clone
  <2>12. InStaging' /\ InArming' /\ InRestore' /\ InUndo' /\ InCommit' /\ InTrial'
    BY <2>1, <2>2, <2>3, <2>4, <2>5 DEF Inv, InStaging, InArming, InRestore, InUndo,
    InCommit, InTrial, Current, Made, Op, Trying, terminal, OnTrial, Clone
  <2> QED BY <2>6, <2>7, <2>8, <2>9, <2>10, <2>11, <2>12 DEF Inv
<1>3. CASE alias["current"].ver = journal.target /\ alias["recovery"].ver =
      journal.source /\ bootfs = "recovery" /\ alias["next"] = Gone /\ Rename("current",
      "next")
  <2>1. /\ pc \in {"restoreBoot", "undoBoot"} /\ journal.state = "recovering" /\ Real
    BY RestoreBootReal DEF RestoreBoot
  <2>2. pc' = pc
    BY <1>3, <2>1, HostAssumption DEF RestoreBoot, After, Real, Gone
  <2>3. /\ alias' \in [Aliases -> Clones] /\ alias'["current"] = Gone
        /\ alias'["previous"] = alias["previous"] /\ alias'["next"] = alias["current"]
        /\ alias'["recovery"] = alias["recovery"]
    BY <1>3, <2>1 DEF Rename, Inv, TypeOK, Aliases, Clones, Gone, Fallback
  <2>4. bootfs' = "recovery"
    BY <1>3, <2>1 DEF Rename, Fallback
  <2>5. UNCHANGED <<journal, retired, ckpt, bootNext, mgmt, run, caller, recover,
        rebooting, healthy, watched, crashes, faults, early, trusted, trials>>
    BY <1>3, Zenon DEF RestoreBoot, idleEnv, durable, history
  <2>6. TypeOK'
    BY <1>3, <2>1, <2>2, <2>3, <2>4, <2>5 DEF Inv, TypeOK, Steps
  <2>7. KnownGoodBoot'
    BY <1>3, <2>1, <2>2, <2>3, <2>4, <2>5 DEF Inv, KnownGoodBoot
  <2>8. Recorded'
    BY <2>1, <2>2, <2>3, <2>4, <2>5 DEF Inv, Recorded, Real, Trying
  <2>9. Requested'
    BY <2>1, <2>2, <2>3, <2>4, <2>5 DEF Inv, Requested, terminal
  <2>10. Disks'
    BY <1>3, <2>1, <2>2, <2>3, <2>4, <2>5 DEF Inv, Disks, Promoting, Restoring, KeptSource,
    Current, Candidate, Made, Resting, Trying, Clone, Gone
  <2>11. OneShot' /\ Checkpointed' /\ DataFits'
    BY <1>3, <2>1, <2>2, <2>3, <2>4, <2>5, HostAssumption DEF Inv, OneShot, Checkpointed,
    DataFits, Real, Candidate, Made, Op, Trying, Clone, Gone
  <2>12. InStaging' /\ InArming' /\ InRestore' /\ InUndo' /\ InCommit' /\ InTrial'
    BY <2>1, <2>2, <2>3, <2>4, <2>5 DEF Inv, InStaging, InArming, InRestore, InUndo,
    InCommit, InTrial, Current, Made, Op, Trying, terminal, OnTrial, Clone
  <2> QED BY <2>6, <2>7, <2>8, <2>9, <2>10, <2>11, <2>12 DEF Inv
<1>4. CASE alias["current"] = Gone /\ alias[Fallback].ver = journal.source /\
      Rename(Fallback, "current") /\ Fallback = "previous"
  <2>1. /\ pc \in {"restoreBoot", "undoBoot"} /\ journal.state = "recovering" /\ Real
    BY RestoreBootReal DEF RestoreBoot
  <2>2. pc' = pc
    BY <1>4, <2>1, HostAssumption DEF RestoreBoot, After, Real, Gone
  <2>3. /\ alias' \in [Aliases -> Clones] /\ alias'["current"] = alias["previous"]
        /\ alias'["previous"] = Gone /\ alias'["next"] = alias["next"]
        /\ alias'["recovery"] = alias["recovery"]
    BY <1>4, <2>1 DEF Rename, Inv, TypeOK, Aliases, Clones, Gone, Fallback
  <2>4. bootfs' = IF bootfs = "previous" THEN "current" ELSE bootfs
    BY <1>4, <2>1 DEF Rename, Fallback
  <2>5. UNCHANGED <<journal, retired, ckpt, bootNext, mgmt, run, caller, recover,
        rebooting, healthy, watched, crashes, faults, early, trusted, trials>>
    BY <1>4, Zenon DEF RestoreBoot, idleEnv, durable, history
  <2>6. TypeOK'
    BY <2>1, <2>2, <2>3, <2>4, <2>5 DEF Inv, TypeOK, Steps, Aliases
  <2>7. KnownGoodBoot'
    BY <1>4, <2>1, <2>2, <2>3, <2>4, <2>5 DEF Inv, KnownGoodBoot, Disks, Promoting,
    Restoring, KeptSource, Current, Candidate, Made, Resting, Trying, Clone, Gone
  <2>8. Recorded'
    BY <2>1, <2>2, <2>3, <2>4, <2>5 DEF Inv, Recorded, Real, Trying
  <2>9. Requested'
    BY <2>1, <2>2, <2>3, <2>4, <2>5 DEF Inv, Requested, terminal
  <2>10. Disks'
    BY <1>4, <2>1, <2>2, <2>3, <2>4, <2>5 DEF Inv, Disks, Promoting, Restoring, KeptSource,
    Current, Candidate, Made, Resting, Trying, Clone, Gone
  <2>11. OneShot' /\ Checkpointed' /\ DataFits'
    BY <1>4, <2>1, <2>2, <2>3, <2>4, <2>5, HostAssumption DEF Inv, Disks, OneShot,
    Checkpointed, DataFits, Real, Promoting, Restoring, KeptSource, Current, Candidate,
    Made, Op, Resting, Trying, Clone, Gone
  <2>12. InStaging' /\ InArming' /\ InRestore' /\ InUndo' /\ InCommit' /\ InTrial'
    BY <2>1, <2>2, <2>3, <2>4, <2>5 DEF Inv, InStaging, InArming, InRestore, InUndo,
    InCommit, InTrial, Current, Made, Op, Trying, terminal, OnTrial, Clone
  <2> QED BY <2>6, <2>7, <2>8, <2>9, <2>10, <2>11, <2>12 DEF Inv
<1>5. CASE alias["current"] = Gone /\ alias[Fallback].ver = journal.source /\
      Rename(Fallback, "current") /\ Fallback = "recovery"
  <2>1. /\ pc \in {"restoreBoot", "undoBoot"} /\ journal.state = "recovering" /\ Real
    BY RestoreBootReal DEF RestoreBoot
  <2>2. pc' = pc
    BY <1>5, <2>1, HostAssumption DEF RestoreBoot, After, Real, Gone
  <2>3. /\ alias' \in [Aliases -> Clones] /\ alias'["current"] = alias["recovery"]
        /\ alias'["previous"] = alias["previous"] /\ alias'["next"] = alias["next"]
        /\ alias'["recovery"] = Gone
    BY <1>5, <2>1 DEF Rename, Inv, TypeOK, Aliases, Clones, Gone, Fallback
  <2>4. bootfs' = IF bootfs = "recovery" THEN "current" ELSE bootfs
    BY <1>5, <2>1 DEF Rename, Fallback
  <2>5. UNCHANGED <<journal, retired, ckpt, bootNext, mgmt, run, caller, recover,
        rebooting, healthy, watched, crashes, faults, early, trusted, trials>>
    BY <1>5, Zenon DEF RestoreBoot, idleEnv, durable, history
  <2>6. TypeOK'
    BY <2>1, <2>2, <2>3, <2>4, <2>5 DEF Inv, TypeOK, Steps, Aliases
  <2>7. KnownGoodBoot'
    BY <1>5, <2>1, <2>2, <2>3, <2>4, <2>5 DEF Inv, KnownGoodBoot, Disks, Promoting,
    Restoring, KeptSource, Current, Candidate, Made, Resting, Trying, Clone, Gone
  <2>8. Recorded'
    BY <2>1, <2>2, <2>3, <2>4, <2>5 DEF Inv, Recorded, Real, Trying
  <2>9. Requested'
    BY <2>1, <2>2, <2>3, <2>4, <2>5 DEF Inv, Requested, terminal
  <2>10. Disks'
    BY <1>5, <2>1, <2>2, <2>3, <2>4, <2>5 DEF Inv, Disks, Promoting, Restoring, KeptSource,
    Current, Candidate, Made, Resting, Trying, Clone, Gone
  <2>11. OneShot' /\ Checkpointed' /\ DataFits'
    BY <1>5, <2>1, <2>2, <2>3, <2>4, <2>5, HostAssumption DEF Inv, Disks, OneShot,
    Checkpointed, DataFits, Real, Promoting, Restoring, KeptSource, Current, Candidate,
    Made, Op, Resting, Trying, Clone, Gone
  <2>12. InStaging' /\ InArming' /\ InRestore' /\ InUndo' /\ InCommit' /\ InTrial'
    BY <2>1, <2>2, <2>3, <2>4, <2>5 DEF Inv, InStaging, InArming, InRestore, InUndo,
    InCommit, InTrial, Current, Made, Op, Trying, terminal, OnTrial, Clone
  <2> QED BY <2>6, <2>7, <2>8, <2>9, <2>10, <2>11, <2>12 DEF Inv
<1> QED BY <1>1, <1>2, <1>3, <1>4, <1>5 DEF RestoreBoot, RestoreStep, Fallback

\* The data are the source's before the source's management starts on them.
LEMMA RestoreCheckpointKeeps ==
  ASSUME Inv, RestoreCheckpoint
  PROVE  Inv'
<1>1. CASE Go("restoreData") /\ ckpt[journal.op].made # "none" /\ mgmt' = [mgmt
      EXCEPT !.up = FALSE, !.blocked = TRUE, !.data = IF ckpt[journal.op].made = "changed"
      THEN ckpt[journal.op].snap ELSE mgmt.data]
  <2>1. /\ pc = "restoreData" /\ pc' = "startPrevious"
    BY <1>1 DEF Go, After
  <2>2. /\ journal.state = "recovering" /\ journal.source \in Versions
        /\ (IF ckpt[journal.op].made = "changed" THEN ckpt[journal.op].snap
            ELSE mgmt.data) = journal.source
    BY <1>1, <2>1, HostAssumption DEF Inv, InRestore, Checkpointed, Disks, TypeOK, Made, Op
  <2>3. mgmt' = [mgmt EXCEPT !.up = FALSE, !.blocked = TRUE, !.data = journal.source]
    BY <1>1, <2>2
  <2>4. /\ mgmt' \in Managements /\ ~mgmt'.up /\ mgmt'.blocked /\ mgmt'.data = journal.source
    BY <2>2, <2>3 DEF Inv, TypeOK, Managements
  <2>5. UNCHANGED <<journal, alias, retired, bootfs, ckpt, bootNext, run, caller,
        recover, rebooting, healthy, watched, crashes, faults, early, trusted, trials>>
    BY <1>1, Zenon DEF RestoreCheckpoint, Go, idleEnv, durable, history
  <2>6. TypeOK'
    BY <2>1, <2>2, <2>3, <2>4, <2>5 DEF Inv, TypeOK, Steps, After
  <2>7. KnownGoodBoot' /\ Recorded' /\ Requested' /\ Disks'
    BY <2>1, <2>2, <2>3, <2>4, <2>5 DEF Inv, KnownGoodBoot, Recorded, Requested, Disks,
    Real, Promoting, Restoring, KeptSource, Current, Candidate, Made, Resting, Trying,
    terminal, Clone, Gone
  <2>8. OneShot' /\ Checkpointed' /\ DataFits'
    BY <2>1, <2>2, <2>3, <2>4, <2>5 DEF Inv, OneShot, Checkpointed, DataFits, Real,
    Candidate, Made, Op, Trying, Clone
  <2>9. InStaging' /\ InArming' /\ InRestore' /\ InUndo' /\ InCommit' /\ InTrial'
    BY <2>1, <2>2, <2>3, <2>4, <2>5 DEF Inv, InStaging, InArming, InRestore, InUndo,
    InCommit, InTrial, Current, Made, Op, Trying, terminal, OnTrial, Clone
  <2> QED BY <2>6, <2>7, <2>8, <2>9 DEF Inv
<1>2. CASE Go("startPrevious") /\ mgmt' = Start(mgmt)
  <2>1. /\ pc = "startPrevious" /\ pc' = "authorize"
    BY <1>2 DEF Go, After
  <2>2. /\ mgmt' \in Managements /\ mgmt'.up
        /\ mgmt'.blocked <=> mgmt.blocked
        /\ mgmt'.data = run.ver
    BY <1>2 DEF Start, Inv, TypeOK, Managements
  <2>3. UNCHANGED <<journal, alias, retired, bootfs, ckpt, bootNext, run, caller,
        recover, rebooting, healthy, watched, crashes, faults, early, trusted, trials>>
    BY <1>2, Zenon DEF RestoreCheckpoint, Go, idleEnv, durable, history
  <2>4. TypeOK'
    BY <2>1, <2>2, <2>3 DEF Inv, TypeOK, Steps, After
  <2>5. KnownGoodBoot' /\ Recorded' /\ Requested' /\ Disks'
    BY <2>1, <2>2, <2>3 DEF Inv, KnownGoodBoot, Recorded, Requested, Disks, InRestore,
    Real, Promoting, Restoring, KeptSource, Current, Candidate, Made, Resting, Trying,
    terminal, Clone, Gone
  <2>6. OneShot' /\ Checkpointed' /\ DataFits'
    BY <2>1, <2>2, <2>3 DEF Inv, OneShot, Checkpointed, DataFits, Real, Candidate, Made,
    Op, Trying, Clone
  <2>7. InStaging' /\ InArming' /\ InRestore' /\ InUndo' /\ InCommit' /\ InTrial'
    BY <2>1, <2>2, <2>3 DEF Inv, InStaging, InArming, InRestore, InUndo, InCommit, InTrial,
    Current, Made, Op, Trying, terminal, OnTrial, Clone
  <2> QED BY <2>4, <2>5, <2>6, <2>7 DEF Inv
<1>3. CASE Go("authorize") /\ mgmt' = [mgmt EXCEPT !.blocked = FALSE]
  <2>1. /\ pc = "authorize" /\ pc' = "recovered"
    BY <1>3 DEF Go, After
  <2>2. /\ mgmt' \in Managements
        /\ mgmt'.up <=> mgmt.up
        /\ ~mgmt'.blocked /\ mgmt'.data = mgmt.data
    BY <1>3, Zenon DEF Inv, TypeOK, Managements
  <2>3. UNCHANGED <<journal, alias, retired, bootfs, ckpt, bootNext, run, caller,
        recover, rebooting, healthy, watched, crashes, faults, early, trusted, trials>>
    BY <1>3, Zenon DEF RestoreCheckpoint, Go, idleEnv, durable, history
  <2>4. TypeOK'
    BY <2>1, <2>2, <2>3 DEF Inv, TypeOK, Steps
  <2>5. KnownGoodBoot' /\ Recorded' /\ Requested' /\ Disks'
    BY <2>1, <2>2, <2>3 DEF Inv, KnownGoodBoot, Recorded, Requested, Disks, Real,
    Promoting, Restoring, KeptSource, Current, Candidate, Made, Resting, Trying, terminal,
    Clone, Gone
  <2>6. OneShot' /\ Checkpointed' /\ DataFits'
    BY <2>1, <2>2, <2>3 DEF Inv, OneShot, Checkpointed, DataFits, InRestore, Real, Current,
    Candidate, Made, Op, Trying, Clone
  <2>7. InStaging' /\ InArming' /\ InRestore' /\ InUndo' /\ InCommit' /\ InTrial'
    BY <2>1, <2>2, <2>3 DEF Inv, InStaging, InArming, InRestore, InUndo, InCommit, InTrial,
    Current, Made, Op, Trying, terminal, OnTrial, Clone
  <2> QED BY <2>4, <2>5, <2>6, <2>7 DEF Inv
<1> QED BY <1>1, <1>2, <1>3 DEF RestoreCheckpoint

\* A recovered update has its source on disk, in the data and running.
LEMMA SaveRecoveredKeeps ==
  ASSUME Inv, SaveRecovered
  PROVE  Inv'
<1>1. /\ pc = "recovered" /\ pc' = "free" /\ trusted' = {journal.source} /\ caller' = None
      /\ recover' \in {"due", "retry", "once", "done"}
  BY DEF SaveRecovered, Return, Attempted, Inv, TypeOK
<1>2. trusted' \subseteq Versions
  BY <1>1 DEF Inv, TypeOK, InRestore
<1>3. /\ journal' \in Journals /\ journal'.state = "recovered" /\ journal'.req = "none"
      /\ journal'.op = journal.op /\ journal'.source = journal.source
      /\ journal'.want = journal.want /\ journal'.target = journal.target
      /\ journal'.final = journal.final
  BY SaveFields DEF SaveRecovered, Inv, States
<1>4. UNCHANGED <<alias, retired, bootfs, ckpt, bootNext, mgmt, run, rebooting,
      healthy, watched, crashes, faults, early, trials>>
  BY Zenon DEF SaveRecovered, idleEnv, durable, history
<1>5. TypeOK'
  BY <1>1, <1>2, <1>3, <1>4 DEF Inv, TypeOK, Steps
<1>6. KnownGoodBoot' /\ Recorded' /\ Requested' /\ Disks'
  BY <1>1, <1>2, <1>3, <1>4 DEF Inv, KnownGoodBoot, Recorded, Requested, Disks, InRestore,
  Real, Promoting, Restoring, KeptSource, Current, Candidate, Made, Resting, Trying,
  terminal, Clone, Gone
<1>7. OneShot' /\ Checkpointed' /\ DataFits'
  BY <1>1, <1>2, <1>3, <1>4 DEF Inv, OneShot, Checkpointed, DataFits, InRestore, Real,
  Current, Candidate, Made, Op, Trying, Clone
<1>8. InStaging' /\ InArming' /\ InRestore' /\ InUndo' /\ InCommit' /\ InTrial'
  BY <1>1, <1>2, <1>3, <1>4 DEF Inv, InStaging, InArming, InRestore, InUndo, InCommit,
  InTrial, Current, Made, Op, Trying, terminal, OnTrial, Clone
<1> QED BY <1>5, <1>6, <1>7, <1>8 DEF Inv

\* A commit goes on only on the trial, which is healthy and so wrote the data.
LEMMA CommitKeeps ==
  ASSUME Inv, Commit
  PROVE  Inv'
<1>1. CASE Running.ok /\ OnTrial /\ Health
  <2>1. /\ pc = "commit" /\ pc' = "committing"
    BY <1>1 DEF Commit
  <2>2. /\ OnTrial /\ mgmt.data = journal.target
    BY <1>1 DEF Health, OnTrial, Inv, DataFits
  <2>3. UNCHANGED <<journal, alias, retired, bootfs, ckpt, bootNext, mgmt, run,
        caller, recover, rebooting, healthy, watched, crashes, faults, early, trusted,
        trials>>
    BY <1>1, Zenon DEF Commit, idleEnv, durable, history
  <2>4. TypeOK'
    BY <2>1, <2>2, <2>3 DEF Inv, TypeOK, Steps, After
  <2>5. KnownGoodBoot' /\ Recorded' /\ Requested' /\ Disks'
    BY <2>1, <2>2, <2>3 DEF Inv, KnownGoodBoot, Recorded, Requested, Disks, Real,
    Promoting, Restoring, KeptSource, Current, Candidate, Made, Resting, Trying, terminal,
    Clone, Gone
  <2>6. OneShot' /\ Checkpointed' /\ DataFits'
    BY <2>1, <2>2, <2>3 DEF Inv, OneShot, Checkpointed, DataFits, Real, Candidate, Made,
    Op, Trying, Clone
  <2>7. InStaging' /\ InArming' /\ InRestore' /\ InUndo' /\ InCommit' /\ InTrial'
    BY <2>1, <2>2, <2>3 DEF Inv, InStaging, InArming, InRestore, InUndo, InCommit, InTrial,
    Current, Made, Op, Trying, terminal, OnTrial, Clone
  <2> QED BY <2>4, <2>5, <2>6, <2>7 DEF Inv
<1>2. CASE ~(Running.ok /\ OnTrial /\ Health)
  <2>1. Idles
    BY <1>2, ReturnedFields DEF Commit, Idles, Inv, TypeOK, idleEnv, durable, history, Return,
    Attempted
  <2> QED BY <2>1, IdlesKeep
<1> QED BY <1>1, <1>2 DEF Commit

\* The candidate is trusted from here on.
LEMMA SaveCommittingKeeps ==
  ASSUME Inv, SaveCommitting
  PROVE  Inv'
<1>1. /\ pc = "committing" /\ pc' = "promote"
  BY DEF SaveCommitting, Go, After
<1>2. /\ journal' \in Journals /\ journal'.state = "committing" /\ journal'.req = "none"
      /\ journal'.op = journal.op /\ journal'.source = journal.source
      /\ journal'.want = journal.want /\ journal'.target = journal.target
      /\ journal'.final = journal.final
  BY SaveFields DEF SaveCommitting, Inv, States
<1>3. trusted' = trusted \cup {journal.target}
  BY DEF SaveCommitting
<1>4. trusted' \subseteq Versions
  BY <1>1, <1>3 DEF Inv, TypeOK, InCommit, Recorded, Real, Trying
<1>5. UNCHANGED <<alias, retired, bootfs, ckpt, bootNext, mgmt, run, caller, recover,
      rebooting, healthy, watched, crashes, faults, early, trials>>
  BY Zenon DEF SaveCommitting, Go, idleEnv, durable, history
<1>6. TypeOK'
  BY <1>1, <1>2, <1>3, <1>4, <1>5 DEF Inv, TypeOK, Steps, After
<1>7. KnownGoodBoot' /\ Recorded' /\ Requested' /\ Disks'
  BY <1>1, <1>2, <1>3, <1>4, <1>5 DEF Inv, KnownGoodBoot, Recorded, Requested, Disks,
  InCommit, Real, Promoting, Restoring, KeptSource, Current, Candidate, Made, Resting,
  Trying, terminal, OnTrial, Clone, Gone
<1>8. OneShot' /\ Checkpointed' /\ DataFits'
  BY <1>1, <1>2, <1>3, <1>4, <1>5 DEF Inv, OneShot, Checkpointed, DataFits, InCommit, Real,
  Current, Candidate, Made, Op, Trying, OnTrial, Clone
<1>9. InStaging' /\ InArming' /\ InRestore' /\ InUndo' /\ InCommit' /\ InTrial'
  BY <1>1, <1>2, <1>3, <1>4, <1>5 DEF Inv, InStaging, InArming, InRestore, InUndo,
  InCommit, InTrial, Current, Made, Op, Trying, terminal, OnTrial, Clone
<1> QED BY <1>6, <1>7, <1>8, <1>9 DEF Inv

\* Every command of Promote leaves a trusted release bootable and a way to go on.
LEMMA PromoteKeeps ==
  ASSUME Inv, Promote
  PROVE  Inv'
<1>1. CASE alias["current"].ver = journal.target /\ bootfs' = "current" /\ UNCHANGED
      <<alias, retired>>
  <2>1. /\ pc = "promote" /\ journal.state = "committing" /\ journal.op \in Ops /\ Real
    BY DEF Promote, Inv, InCommit, Recorded
  <2>2. pc' = "committed"
    BY <1>1, <2>1, HostAssumption DEF Promote, After, Real, Gone
  <2>3. UNCHANGED alias
    BY <1>1, <2>1 DEF Rename, Inv, TypeOK, Aliases, Clones, Clone, Gone, Real
  <2>4. bootfs' = "current"
    BY <1>1, <2>1, HostAssumption DEF Rename, SourceKept, Real
  <2>5. retired' \subseteq Ops
    BY <1>1 DEF Inv, TypeOK, Recorded
  <2>6. UNCHANGED <<journal, ckpt, bootNext, mgmt, run, caller, recover, rebooting,
        healthy, watched, crashes, faults, early, trusted, trials>>
    BY <1>1, Zenon DEF Promote, idleEnv, durable, history
  <2>7. TypeOK'
    BY <2>1, <2>2, <2>3, <2>4, <2>5, <2>6 DEF Inv, TypeOK, Steps, After, Aliases
  <2>8. KnownGoodBoot'
    BY <1>1, <2>1, <2>2, <2>3, <2>4, <2>5, <2>6, HostAssumption DEF Inv, TypeOK,
    KnownGoodBoot, Disks, Promoting, Restoring, KeptSource, Current, Candidate, Made,
    Resting, Trying, Clone, Gone
  <2>9. Recorded'
    BY <2>1, <2>2, <2>3, <2>4, <2>5, <2>6 DEF Inv, Recorded, Real, Trying
  <2>10. Requested'
    BY <2>1, <2>2, <2>3, <2>4, <2>5, <2>6 DEF Inv, Requested, terminal
  <2>11. Disks'
    BY <1>1, <2>1, <2>2, <2>3, <2>4, <2>5, <2>6, HostAssumption DEF Inv, TypeOK, Disks,
    Promoting, Restoring, KeptSource, Current, Candidate, Made, Resting, Trying, Clone,
    Gone
  <2>12. OneShot' /\ Checkpointed' /\ DataFits'
    BY <2>1, <2>2, <2>3, <2>4, <2>5, <2>6 DEF Inv, OneShot, Checkpointed, DataFits, Real,
    Candidate, Made, Op, Trying, Clone
  <2>13. InStaging' /\ InArming' /\ InRestore' /\ InUndo' /\ InCommit' /\ InTrial'
    BY <1>1, <2>1, <2>2, <2>3, <2>4, <2>5, <2>6 DEF Inv, InStaging, InArming, InRestore,
    InUndo, InCommit, InTrial, Current, Made, Op, Trying, terminal, OnTrial, Clone
  <2> QED BY <2>7, <2>8, <2>9, <2>10, <2>11, <2>12, <2>13 DEF Inv
<1>2. CASE alias["current"].ver # journal.target /\ alias["recovery"].ver \notin
      {None, journal.source} /\ alias' = [alias EXCEPT !["recovery"] = Gone] /\ UNCHANGED
      <<bootfs, retired>>
  <2>1. /\ pc = "promote" /\ journal.state = "committing" /\ journal.op \in Ops /\ Real
    BY DEF Promote, Inv, InCommit, Recorded
  <2>2. pc' = pc
    BY <1>2, <2>1, HostAssumption DEF Promote, After, Real, Gone
  <2>3. /\ alias' \in [Aliases -> Clones] /\ alias'["current"] = alias["current"]
        /\ alias'["previous"] = alias["previous"] /\ alias'["next"] = alias["next"]
        /\ alias'["recovery"] = Gone
    BY <1>2, <2>1 DEF Rename, Inv, TypeOK, Aliases, Clones, Clone, Gone, Real
  <2>4. bootfs' = bootfs
    BY <1>2, <2>1, HostAssumption DEF Rename, SourceKept, Real
  <2>5. retired' \subseteq Ops
    BY <1>2 DEF Inv, TypeOK, Recorded
  <2>6. UNCHANGED <<journal, ckpt, bootNext, mgmt, run, caller, recover, rebooting,
        healthy, watched, crashes, faults, early, trusted, trials>>
    BY <1>2, Zenon DEF Promote, idleEnv, durable, history
  <2>7. TypeOK'
    BY <2>1, <2>2, <2>3, <2>4, <2>5, <2>6 DEF Inv, TypeOK, Steps
  <2>8. KnownGoodBoot'
    BY <1>2, <2>1, <2>2, <2>3, <2>4, <2>5, <2>6 DEF Inv, KnownGoodBoot, Disks, Promoting,
    Restoring, KeptSource, Current, Candidate, Made, Resting, Trying, Clone, Gone
  <2>9. Recorded'
    BY <2>1, <2>2, <2>3, <2>4, <2>5, <2>6 DEF Inv, Recorded, Real, Trying
  <2>10. Requested'
    BY <2>1, <2>2, <2>3, <2>4, <2>5, <2>6 DEF Inv, Requested, terminal
  <2>11. Disks'
    BY <1>2, <2>1, <2>2, <2>3, <2>4, <2>5, <2>6 DEF Inv, Disks, Promoting, Restoring,
    KeptSource, Current, Candidate, Made, Resting, Trying, Clone, Gone
  <2>12. OneShot' /\ Checkpointed' /\ DataFits'
    BY <2>1, <2>2, <2>3, <2>4, <2>5, <2>6 DEF Inv, OneShot, Checkpointed, DataFits, Real,
    Candidate, Made, Op, Trying, Clone
  <2>13. InStaging' /\ InArming' /\ InRestore' /\ InUndo' /\ InCommit' /\ InTrial'
    BY <2>1, <2>2, <2>3, <2>4, <2>5, <2>6 DEF Inv, InStaging, InArming, InRestore, InUndo,
    InCommit, InTrial, Current, Made, Op, Trying, terminal, OnTrial, Clone
  <2> QED BY <2>7, <2>8, <2>9, <2>10, <2>11, <2>12, <2>13 DEF Inv
<1>3. CASE alias["current"].ver # journal.target /\ alias["recovery"] = Gone /\
      alias' = [alias EXCEPT !["recovery"] = Clone(journal.source, journal.op, None)] /\
      UNCHANGED <<bootfs, retired>>
  <2>1. /\ pc = "promote" /\ journal.state = "committing" /\ journal.op \in Ops /\ Real
    BY DEF Promote, Inv, InCommit, Recorded
  <2>2. pc' = pc
    BY <1>3, <2>1, HostAssumption DEF Promote, After, Real, Gone
  <2>3. /\ alias' \in [Aliases -> Clones] /\ alias'["current"] = alias["current"]
        /\ alias'["previous"] = alias["previous"] /\ alias'["next"] = alias["next"]
        /\ alias'["recovery"] = Clone(journal.source, journal.op, None)
    BY <1>3, <2>1 DEF Rename, Inv, TypeOK, Aliases, Clones, Clone, Gone, Real
  <2>4. bootfs' = bootfs
    BY <1>3, <2>1, HostAssumption DEF Rename, SourceKept, Real
  <2>5. retired' \subseteq Ops
    BY <1>3 DEF Inv, TypeOK, Recorded
  <2>6. UNCHANGED <<journal, ckpt, bootNext, mgmt, run, caller, recover, rebooting,
        healthy, watched, crashes, faults, early, trusted, trials>>
    BY <1>3, Zenon DEF Promote, idleEnv, durable, history
  <2>7. TypeOK'
    BY <2>1, <2>2, <2>3, <2>4, <2>5, <2>6 DEF Inv, TypeOK, Steps
  <2>8. KnownGoodBoot'
    BY <1>3, <2>1, <2>2, <2>3, <2>4, <2>5, <2>6 DEF Inv, KnownGoodBoot
  <2>9. Recorded'
    BY <2>1, <2>2, <2>3, <2>4, <2>5, <2>6 DEF Inv, Recorded, Real, Trying
  <2>10. Requested'
    BY <2>1, <2>2, <2>3, <2>4, <2>5, <2>6 DEF Inv, Requested, terminal
  <2>11. Disks'
    BY <2>1, <2>2, <2>3, <2>4, <2>5, <2>6 DEF Inv, Disks, Promoting, Restoring, KeptSource,
    Current, Candidate, Made, Resting, Trying, Clone, Gone
  <2>12. OneShot' /\ Checkpointed' /\ DataFits'
    BY <2>1, <2>2, <2>3, <2>4, <2>5, <2>6 DEF Inv, OneShot, Checkpointed, DataFits, Real,
    Candidate, Made, Op, Trying, Clone
  <2>13. InStaging' /\ InArming' /\ InRestore' /\ InUndo' /\ InCommit' /\ InTrial'
    BY <2>1, <2>2, <2>3, <2>4, <2>5, <2>6 DEF Inv, InStaging, InArming, InRestore, InUndo,
    InCommit, InTrial, Current, Made, Op, Trying, terminal, OnTrial, Clone
  <2> QED BY <2>7, <2>8, <2>9, <2>10, <2>11, <2>12, <2>13 DEF Inv
<1>4. CASE alias["current"].ver # journal.target /\ alias["recovery"].ver =
      journal.source /\ bootfs # "recovery" /\ bootfs' = "recovery" /\ UNCHANGED <<alias,
      retired>>
  <2>1. /\ pc = "promote" /\ journal.state = "committing" /\ journal.op \in Ops /\ Real
    BY DEF Promote, Inv, InCommit, Recorded
  <2>2. pc' = pc
    BY <1>4, <2>1, HostAssumption DEF Promote, After, Real, Gone
  <2>3. UNCHANGED alias
    BY <1>4, <2>1 DEF Rename, Inv, TypeOK, Aliases, Clones, Clone, Gone, Real
  <2>4. bootfs' = "recovery"
    BY <1>4, <2>1, HostAssumption DEF Rename, SourceKept, Real
  <2>5. retired' \subseteq Ops
    BY <1>4 DEF Inv, TypeOK, Recorded
  <2>6. UNCHANGED <<journal, ckpt, bootNext, mgmt, run, caller, recover, rebooting,
        healthy, watched, crashes, faults, early, trusted, trials>>
    BY <1>4, Zenon DEF Promote, idleEnv, durable, history
  <2>7. TypeOK'
    BY <2>1, <2>2, <2>3, <2>4, <2>5, <2>6 DEF Inv, TypeOK, Steps, Aliases
  <2>8. KnownGoodBoot'
    BY <1>4, <2>1, <2>2, <2>3, <2>4, <2>5, <2>6, HostAssumption DEF Inv, TypeOK,
    KnownGoodBoot, Disks, Promoting, Restoring, KeptSource, Current, Candidate, Made,
    Resting, Trying, Clone, Gone
  <2>9. Recorded'
    BY <2>1, <2>2, <2>3, <2>4, <2>5, <2>6 DEF Inv, Recorded, Real, Trying
  <2>10. Requested'
    BY <2>1, <2>2, <2>3, <2>4, <2>5, <2>6 DEF Inv, Requested, terminal
  <2>11. Disks'
    BY <1>4, <2>1, <2>2, <2>3, <2>4, <2>5, <2>6 DEF Inv, Disks, Promoting, Restoring,
    KeptSource, Current, Candidate, Made, Resting, Trying, Clone, Gone
  <2>12. OneShot' /\ Checkpointed' /\ DataFits'
    BY <2>1, <2>2, <2>3, <2>4, <2>5, <2>6 DEF Inv, OneShot, Checkpointed, DataFits, Real,
    Candidate, Made, Op, Trying, Clone
  <2>13. InStaging' /\ InArming' /\ InRestore' /\ InUndo' /\ InCommit' /\ InTrial'
    BY <2>1, <2>2, <2>3, <2>4, <2>5, <2>6 DEF Inv, InStaging, InArming, InRestore, InUndo,
    InCommit, InTrial, Current, Made, Op, Trying, terminal, OnTrial, Clone
  <2> QED BY <2>7, <2>8, <2>9, <2>10, <2>11, <2>12, <2>13 DEF Inv
<1>5. CASE alias["current"].ver # journal.target /\ SourceKept /\
      alias["current"].ver = journal.source /\ alias["previous"] # Gone /\ alias' = [alias
      EXCEPT !["previous"] = Gone] /\ retired' = retired \cup {journal.op} /\ UNCHANGED
      bootfs
  <2>1. /\ pc = "promote" /\ journal.state = "committing" /\ journal.op \in Ops /\ Real
    BY DEF Promote, Inv, InCommit, Recorded
  <2>2. pc' = pc
    BY <1>5, <2>1, HostAssumption DEF Promote, After, Real, Gone
  <2>3. /\ alias' \in [Aliases -> Clones] /\ alias'["current"] = alias["current"]
        /\ alias'["previous"] = Gone /\ alias'["next"] = alias["next"]
        /\ alias'["recovery"] = alias["recovery"]
    BY <1>5, <2>1 DEF Rename, Inv, TypeOK, Aliases, Clones, Clone, Gone, Real
  <2>4. bootfs' = "recovery"
    BY <1>5, <2>1, HostAssumption DEF Rename, SourceKept, Real
  <2>5. retired' \subseteq Ops
    BY <1>5, <2>1 DEF Inv, TypeOK, Recorded
  <2>6. UNCHANGED <<journal, ckpt, bootNext, mgmt, run, caller, recover, rebooting,
        healthy, watched, crashes, faults, early, trusted, trials>>
    BY <1>5, Zenon DEF Promote, idleEnv, durable, history
  <2>7. TypeOK'
    BY <1>5, <2>1, <2>2, <2>3, <2>4, <2>5, <2>6 DEF Inv, TypeOK, Steps
  <2>8. KnownGoodBoot'
    BY <1>5, <2>1, <2>2, <2>3, <2>4, <2>5, <2>6 DEF Inv, KnownGoodBoot
  <2>9. Recorded'
    BY <2>1, <2>2, <2>3, <2>4, <2>5, <2>6 DEF Inv, Recorded, Real, Trying
  <2>10. Requested'
    BY <2>1, <2>2, <2>3, <2>4, <2>5, <2>6 DEF Inv, Requested, terminal
  <2>11. Disks'
    BY <1>5, <2>1, <2>2, <2>3, <2>4, <2>5, <2>6 DEF Inv, Disks, Promoting, Restoring,
    KeptSource, Current, Candidate, Made, Resting, Trying, Clone, Gone
  <2>12. OneShot' /\ Checkpointed' /\ DataFits'
    BY <2>1, <2>2, <2>3, <2>4, <2>5, <2>6 DEF Inv, OneShot, Checkpointed, DataFits, Real,
    Candidate, Made, Op, Trying, Clone
  <2>13. InStaging' /\ InArming' /\ InRestore' /\ InUndo' /\ InCommit' /\ InTrial'
    BY <2>1, <2>2, <2>3, <2>4, <2>5, <2>6 DEF Inv, InStaging, InArming, InRestore, InUndo,
    InCommit, InTrial, Current, Made, Op, Trying, terminal, OnTrial, Clone
  <2> QED BY <2>7, <2>8, <2>9, <2>10, <2>11, <2>12, <2>13 DEF Inv
<1>6. CASE alias["current"].ver # journal.target /\ SourceKept /\
      alias["current"].ver = journal.source /\ alias["previous"] = Gone /\
      Rename("current", "previous") /\ UNCHANGED retired
  <2>1. /\ pc = "promote" /\ journal.state = "committing" /\ journal.op \in Ops /\ Real
    BY DEF Promote, Inv, InCommit, Recorded
  <2>2. pc' = pc
    BY <1>6, <2>1, HostAssumption DEF Promote, After, Real, Gone
  <2>3. /\ alias' \in [Aliases -> Clones] /\ alias'["current"] = Gone
        /\ alias'["previous"] = alias["current"] /\ alias'["next"] = alias["next"]
        /\ alias'["recovery"] = alias["recovery"]
    BY <1>6, <2>1 DEF Rename, Inv, TypeOK, Aliases, Clones, Clone, Gone, Real
  <2>4. bootfs' = "recovery"
    BY <1>6, <2>1, HostAssumption DEF Rename, SourceKept, Real
  <2>5. retired' \subseteq Ops
    BY <1>6 DEF Inv, TypeOK, Recorded
  <2>6. UNCHANGED <<journal, ckpt, bootNext, mgmt, run, caller, recover, rebooting,
        healthy, watched, crashes, faults, early, trusted, trials>>
    BY <1>6, Zenon DEF Promote, idleEnv, durable, history
  <2>7. TypeOK'
    BY <2>1, <2>2, <2>3, <2>4, <2>5, <2>6 DEF Inv, TypeOK, Steps, Aliases
  <2>8. KnownGoodBoot'
    BY <1>6, <2>1, <2>2, <2>3, <2>4, <2>5, <2>6 DEF Inv, KnownGoodBoot, SourceKept
  <2>9. Recorded'
    BY <2>1, <2>2, <2>3, <2>4, <2>5, <2>6 DEF Inv, Recorded, Real, Trying
  <2>10. Requested'
    BY <2>1, <2>2, <2>3, <2>4, <2>5, <2>6 DEF Inv, Requested, terminal
  <2>11. Disks'
    BY <1>6, <2>1, <2>2, <2>3, <2>4, <2>5, <2>6 DEF Inv, Disks, Promoting, Restoring,
    KeptSource, Current, Candidate, Made, Resting, Trying, Clone, Gone, SourceKept
  <2>12. OneShot' /\ Checkpointed' /\ DataFits'
    BY <2>1, <2>2, <2>3, <2>4, <2>5, <2>6 DEF Inv, OneShot, Checkpointed, DataFits, Real,
    Candidate, Made, Op, Trying, Clone
  <2>13. InStaging' /\ InArming' /\ InRestore' /\ InUndo' /\ InCommit' /\ InTrial'
    BY <2>1, <2>2, <2>3, <2>4, <2>5, <2>6 DEF Inv, InStaging, InArming, InRestore, InUndo,
    InCommit, InTrial, Current, Made, Op, Trying, terminal, OnTrial, Clone
  <2> QED BY <2>7, <2>8, <2>9, <2>10, <2>11, <2>12, <2>13 DEF Inv
<1>7. CASE alias["current"].ver # journal.target /\ SourceKept /\ alias["current"] =
      Gone /\ alias["next"].ver = journal.target /\ Rename("next", "current") /\ UNCHANGED
      retired
  <2>1. /\ pc = "promote" /\ journal.state = "committing" /\ journal.op \in Ops /\ Real
    BY DEF Promote, Inv, InCommit, Recorded
  <2>2. pc' = pc
    BY <1>7, <2>1, HostAssumption DEF Promote, After, Real, Gone
  <2>3. /\ alias' \in [Aliases -> Clones] /\ alias'["current"] = alias["next"]
        /\ alias'["previous"] = alias["previous"] /\ alias'["next"] = Gone
        /\ alias'["recovery"] = alias["recovery"]
    BY <1>7, <2>1 DEF Rename, Inv, TypeOK, Aliases, Clones, Clone, Gone, Real
  <2>4. bootfs' = "recovery"
    BY <1>7, <2>1, HostAssumption DEF Rename, SourceKept, Real
  <2>5. retired' \subseteq Ops
    BY <1>7 DEF Inv, TypeOK, Recorded
  <2>6. UNCHANGED <<journal, ckpt, bootNext, mgmt, run, caller, recover, rebooting,
        healthy, watched, crashes, faults, early, trusted, trials>>
    BY <1>7, Zenon DEF Promote, idleEnv, durable, history
  <2>7. TypeOK'
    BY <2>1, <2>2, <2>3, <2>4, <2>5, <2>6 DEF Inv, TypeOK, Steps, Aliases
  <2>8. KnownGoodBoot'
    BY <1>7, <2>1, <2>2, <2>3, <2>4, <2>5, <2>6 DEF Inv, KnownGoodBoot, SourceKept
  <2>9. Recorded'
    BY <2>1, <2>2, <2>3, <2>4, <2>5, <2>6 DEF Inv, Recorded, Real, Trying
  <2>10. Requested'
    BY <2>1, <2>2, <2>3, <2>4, <2>5, <2>6 DEF Inv, Requested, terminal
  <2>11. Disks'
    BY <1>7, <2>1, <2>2, <2>3, <2>4, <2>5, <2>6, HostAssumption DEF Inv, TypeOK, Disks,
    Promoting, Restoring, KeptSource, Current, Candidate, Made, Resting, Trying, Clone,
    Gone
  <2>12. OneShot' /\ Checkpointed' /\ DataFits'
    BY <2>1, <2>2, <2>3, <2>4, <2>5, <2>6 DEF Inv, OneShot, Checkpointed, DataFits, Real,
    Candidate, Made, Op, Trying, Clone
  <2>13. InStaging' /\ InArming' /\ InRestore' /\ InUndo' /\ InCommit' /\ InTrial'
    BY <2>1, <2>2, <2>3, <2>4, <2>5, <2>6 DEF Inv, InStaging, InArming, InRestore, InUndo,
    InCommit, InTrial, Current, Made, Op, Trying, terminal, OnTrial, Clone
  <2> QED BY <2>7, <2>8, <2>9, <2>10, <2>11, <2>12, <2>13 DEF Inv
<1> QED BY <1>1, <1>2, <1>3, <1>4, <1>5, <1>6, <1>7 DEF Promote, PromoteStep

\* A committed update has its target on disk, in the data and running.
LEMMA SaveCommittedKeeps ==
  ASSUME Inv, SaveCommitted
  PROVE  Inv'
<1>1. /\ pc = "committed" /\ pc' = "release"
  BY DEF SaveCommitted, Go, After
<1>2. /\ journal' \in Journals /\ journal'.state = "committed" /\ journal'.req = "none"
      /\ journal'.op = journal.op /\ journal'.source = journal.source
      /\ journal'.want = journal.want /\ journal'.target = journal.target
      /\ journal'.final = journal.final
  BY SaveFields DEF SaveCommitted, Inv, States
<1>3. trusted' = {journal.target}
  BY DEF SaveCommitted
<1>4. trusted' \subseteq Versions
  BY <1>1, <1>3 DEF Inv, TypeOK, InCommit, Recorded, Real
<1>5. UNCHANGED <<alias, retired, bootfs, ckpt, bootNext, mgmt, run, caller, recover,
      rebooting, healthy, watched, crashes, faults, early, trials>>
  BY Zenon DEF SaveCommitted, Go, idleEnv, durable, history
<1>6. TypeOK'
  BY <1>1, <1>2, <1>3, <1>4, <1>5 DEF Inv, TypeOK, Steps, After
<1>7. KnownGoodBoot' /\ Recorded' /\ Requested' /\ Disks'
  BY <1>1, <1>2, <1>3, <1>4, <1>5 DEF Inv, KnownGoodBoot, Recorded, Requested, Disks,
  InCommit, Real, Promoting, Restoring, KeptSource, Current, Candidate, Made, Resting,
  Trying, terminal, OnTrial, Clone, Gone
<1>8. OneShot' /\ Checkpointed' /\ DataFits'
  BY <1>1, <1>2, <1>3, <1>4, <1>5 DEF Inv, OneShot, Checkpointed, DataFits, InCommit, Real,
  Current, Candidate, Made, Op, Trying, OnTrial, Clone
<1>9. InStaging' /\ InArming' /\ InRestore' /\ InUndo' /\ InCommit' /\ InTrial'
  BY <1>1, <1>2, <1>3, <1>4, <1>5 DEF Inv, InStaging, InArming, InRestore, InUndo,
  InCommit, InTrial, Current, Made, Op, Trying, terminal, OnTrial, Clone
<1> QED BY <1>6, <1>7, <1>8, <1>9 DEF Inv

\* The gate opens on the target's data, and the token goes before the commit is final.
LEMMA FinishCommitKeeps ==
  ASSUME Inv, FinishCommit
  PROVE  Inv'
<1>1. CASE ReleaseCheckpoint
  <2>1. /\ pc = "release" /\ pc' = "finalize"
    BY <1>1 DEF ReleaseCheckpoint, Go, After
  <2>2. /\ mgmt' \in Managements
        /\ mgmt'.up <=> mgmt.up
        /\ ~mgmt'.blocked /\ mgmt'.data = mgmt.data
    BY <1>1, Zenon DEF ReleaseCheckpoint, Inv, TypeOK, Managements
  <2>3. UNCHANGED <<journal, alias, retired, bootfs, ckpt, bootNext, run, caller,
        recover, rebooting, healthy, watched, crashes, faults, early, trusted, trials>>
    BY <1>1, Zenon DEF ReleaseCheckpoint, FinishCommit, Go, idleEnv, durable, history
  <2>4. TypeOK'
    BY <2>1, <2>2, <2>3 DEF Inv, TypeOK, Steps, After
  <2>5. KnownGoodBoot' /\ Recorded' /\ Requested' /\ Disks'
    BY <2>1, <2>2, <2>3 DEF Inv, KnownGoodBoot, Recorded, Requested, Disks, Real,
    Promoting, Restoring, KeptSource, Current, Candidate, Made, Resting, Trying, terminal,
    Clone, Gone
  <2>6. OneShot' /\ Checkpointed' /\ DataFits'
    BY <2>1, <2>2, <2>3 DEF Inv, Disks, OneShot, Checkpointed, DataFits, InCommit, Real,
    Promoting, Restoring, KeptSource, Current, Candidate, Made, Op, Resting, Trying,
    OnTrial, Clone, Gone
  <2>7. InStaging' /\ InArming' /\ InRestore' /\ InUndo' /\ InCommit' /\ InTrial'
    BY <2>1, <2>2, <2>3 DEF Inv, InStaging, InArming, InRestore, InUndo, InCommit, InTrial,
    Current, Made, Op, Trying, terminal, OnTrial, Clone
  <2> QED BY <2>4, <2>5, <2>6, <2>7 DEF Inv
<1>2. CASE FinalizeCommit
  <2>1. /\ pc = "finalize" /\ pc' = "finalized"
    BY <1>2 DEF FinalizeCommit, Go, After
  <2>2. /\ alias' \in [Aliases -> Clones] /\ alias'["current"].ver = alias["current"].ver
        /\ alias'["current"].tok = None /\ alias'["next"] = alias["next"]
        /\ alias'["recovery"] = alias["recovery"]
    BY <1>2 DEF FinalizeCommit, Inv, TypeOK, Aliases, Clones
  <2>3. UNCHANGED <<journal, retired, bootfs, ckpt, bootNext, mgmt, run, caller,
        recover, rebooting, healthy, watched, crashes, faults, early, trusted, trials>>
    BY <1>2, Zenon DEF FinalizeCommit, FinishCommit, Go, idleEnv, durable, history
  <2>4. TypeOK'
    BY <2>1, <2>2, <2>3 DEF Inv, TypeOK, Steps, After
  <2>5. KnownGoodBoot' /\ Recorded' /\ Requested' /\ Disks'
    BY <2>1, <2>2, <2>3, HostAssumption DEF Inv, KnownGoodBoot, Recorded, Requested, Disks,
    InCommit, Real, Promoting, Restoring, KeptSource, Current, Candidate, Made, Resting,
    Trying, terminal, OnTrial, Clone, Gone
  <2>6. OneShot' /\ Checkpointed' /\ DataFits'
    BY <2>1, <2>2, <2>3 DEF Inv, Disks, OneShot, Checkpointed, DataFits, InCommit, Real,
    Promoting, Restoring, KeptSource, Current, Candidate, Made, Op, Resting, Trying,
    OnTrial, Clone, Gone
  <2>7. InStaging' /\ InArming' /\ InRestore' /\ InUndo' /\ InCommit' /\ InTrial'
    BY <2>1, <2>2, <2>3 DEF Inv, InStaging, InArming, InRestore, InUndo, InCommit, InTrial,
    Current, Made, Op, Trying, terminal, OnTrial, Clone
  <2> QED BY <2>4, <2>5, <2>6, <2>7 DEF Inv
<1>3. CASE SaveFinalized
  <2>1. /\ pc = "finalized" /\ pc' = "tidy"
    BY <1>3 DEF SaveFinalized, Go, After
  <2>2. /\ journal' = [Save("committed") EXCEPT !.final = TRUE] /\ "committed" \in States
    BY <1>3 DEF SaveFinalized, States
  <2>3. /\ journal' \in Journals /\ journal'.state = "committed" /\ journal'.req = "none"
        /\ journal'.op = journal.op /\ journal'.source = journal.source
        /\ journal'.want = journal.want /\ journal'.target = journal.target
        /\ journal'.final = TRUE
    BY <2>2, SaveFields DEF Inv, Journals
  <2>4. UNCHANGED <<alias, retired, bootfs, ckpt, bootNext, mgmt, run, caller,
        recover, rebooting, healthy, watched, crashes, faults, early, trusted, trials>>
    BY <1>3, Zenon DEF SaveFinalized, FinishCommit, Go, idleEnv, durable, history
  <2>5. TypeOK'
    BY <2>1, <2>2, <2>3, <2>4 DEF Inv, TypeOK, Steps
  <2>6. KnownGoodBoot' /\ Recorded' /\ Requested' /\ Disks'
    BY <2>1, <2>2, <2>3, <2>4 DEF Inv, KnownGoodBoot, Recorded, Requested, Disks, InCommit,
    Real, Promoting, Restoring, KeptSource, Current, Candidate, Made, Resting, Trying,
    terminal, OnTrial, Clone, Gone
  <2>7. OneShot' /\ Checkpointed' /\ DataFits'
    BY <2>1, <2>2, <2>3, <2>4 DEF Inv, OneShot, Checkpointed, DataFits, InCommit, Real,
    Current, Candidate, Made, Op, Trying, OnTrial, Clone
  <2>8. InStaging' /\ InArming' /\ InRestore' /\ InUndo' /\ InCommit' /\ InTrial'
    BY <2>1, <2>2, <2>3, <2>4 DEF Inv, InStaging, InArming, InRestore, InUndo, InCommit,
    InTrial, Current, Made, Op, Trying, terminal, OnTrial, Clone
  <2> QED BY <2>5, <2>6, <2>7, <2>8 DEF Inv
<1>4. CASE CleanupCheckpoint
  <2>1. /\ pc = "tidy" /\ pc' = "free" /\ retired' = {} /\ caller' = None
        /\ recover' \in {"due", "retry", "once", "done"}
    BY <1>4 DEF CleanupCheckpoint, Return, Attempted, Inv, TypeOK
  <2>2. /\ ckpt' \in [Ops -> Checkpoints]
        /\ journal.state # "idle" => ckpt'[journal.op] = ckpt[journal.op]
    BY <1>4 DEF CleanupCheckpoint, Inv, TypeOK, Recorded, Checkpoints
  <2>3. UNCHANGED <<journal, alias, bootfs, bootNext, mgmt, run, rebooting, healthy,
        watched, crashes, faults, early, trusted, trials>>
    BY <1>4, Zenon DEF CleanupCheckpoint, FinishCommit, idleEnv, durable, history
  <2>4. TypeOK'
    BY <2>1, <2>2, <2>3 DEF Inv, TypeOK, Steps
  <2>5. KnownGoodBoot' /\ Recorded' /\ Requested' /\ Disks'
    BY <2>1, <2>2, <2>3 DEF Inv, KnownGoodBoot, Recorded, Requested, Disks, Real,
    Promoting, Restoring, KeptSource, Current, Candidate, Made, Resting, Trying, terminal,
    Clone, Gone
  <2>6. OneShot' /\ Checkpointed' /\ DataFits'
    BY <2>1, <2>2, <2>3 DEF Inv, OneShot, Checkpointed, DataFits, Real, Candidate, Made,
    Op, Trying, Clone
  <2>7. InStaging' /\ InArming' /\ InRestore' /\ InUndo' /\ InCommit' /\ InTrial'
    BY <2>1, <2>2, <2>3 DEF Inv, InStaging, InArming, InRestore, InUndo, InCommit, InTrial,
    Current, Made, Op, Trying, terminal, OnTrial, Clone
  <2> QED BY <2>4, <2>5, <2>6, <2>7 DEF Inv
<1> QED BY <1>1, <1>2, <1>3, <1>4 DEF FinishCommit

\* What never booted is given up on paper; all else is undone.
LEMMA RollbackKeeps ==
  ASSUME Inv, Rollback
  PROVE  Inv'
<1>1. CASE journal.state = "recovered" /\ Return(TRUE) /\ journal' =
      Returned(journal) /\ UNCHANGED bootNext
  <2>1. Idles
    BY <1>1, ReturnedFields DEF Rollback, Idles, Inv, TypeOK, idleEnv, durable, history,
    Return, Attempted
  <2> QED BY <2>1, IdlesKeep
<1>2. CASE journal.state \in {"staged", "failed"} /\ bootNext' = FALSE /\
      Return(TRUE) /\ journal' = Save("recovered")
  <2>1. /\ pc' = "free" /\ bootNext' = FALSE /\ caller' = None
        /\ recover' \in {"due", "retry", "once", "done"}
    BY <1>2 DEF Return, Attempted, Inv, TypeOK
  <2>2. /\ journal' \in Journals /\ journal'.state = "recovered" /\ journal'.req = "none"
        /\ journal'.op = journal.op /\ journal'.source = journal.source
        /\ journal'.want = journal.want /\ journal'.target = journal.target
        /\ journal'.final = journal.final
    BY <1>2, SaveFields DEF Inv, States
  <2>3. UNCHANGED <<alias, retired, bootfs, ckpt, mgmt, run, rebooting, healthy,
        watched, crashes, faults, early, trusted, trials>>
    BY <1>2, Zenon DEF Rollback, idleEnv, durable, history
  <2>4. TypeOK'
    BY <1>2, <2>1, <2>2, <2>3, HostAssumption DEF Inv, TypeOK, Steps, After, Actions,
    Aliases
  <2>5. KnownGoodBoot' /\ Recorded' /\ Requested' /\ Disks'
    BY <1>2, <2>1, <2>2, <2>3 DEF Inv, KnownGoodBoot, Recorded, Requested, Disks,
    Checkpointed, Real, Promoting, Restoring, KeptSource, Current, Candidate, Made, Op,
    Resting, Trying, terminal, Clone, Gone
  <2>6. OneShot' /\ Checkpointed' /\ DataFits'
    BY <1>2, <2>1, <2>2, <2>3 DEF Inv, OneShot, Checkpointed, DataFits, Real, Candidate,
    Made, Op, Trying, Clone
  <2>7. InStaging' /\ InArming' /\ InRestore' /\ InUndo' /\ InCommit' /\ InTrial'
    BY <2>1, <2>2, <2>3 DEF Inv, InStaging, InArming, InRestore, InUndo, InCommit, InTrial,
    Current, Made, Op, Trying, terminal, OnTrial, Clone
  <2> QED BY <2>4, <2>5, <2>6, <2>7 DEF Inv
<1>3. CASE journal.state \notin {"recovered", "staged", "failed"} /\ pc' = "undo" /\
      UNCHANGED <<journal, bootNext, caller, recover>>
  <2>1. /\ pc = "rollback" /\ pc' = "undo" /\ journal.state # "idle" /\ journal.state \in States
    BY <1>3 DEF Rollback, Inv, TypeOK, Journals, InTrial, Recorded
  <2>2. journal.state \in Trying \cup {"staging", "committing", "committed", "recovering"}
    BY <1>3, <2>1 DEF States, Trying
  <2>3. UNCHANGED <<journal, alias, retired, bootfs, ckpt, bootNext, mgmt, run,
        caller, recover, rebooting, healthy, watched, crashes, faults, early, trusted,
        trials>>
    BY <1>3, Zenon DEF Rollback, idleEnv, durable, history
  <2>4. TypeOK'
    BY <2>1, <2>2, <2>3 DEF Inv, TypeOK, Steps, After
  <2>5. KnownGoodBoot' /\ Recorded' /\ Requested' /\ Disks'
    BY <2>1, <2>2, <2>3 DEF Inv, KnownGoodBoot, Recorded, Requested, Disks, Real,
    Promoting, Restoring, KeptSource, Current, Candidate, Made, Resting, Trying, terminal,
    Clone, Gone
  <2>6. OneShot' /\ Checkpointed' /\ DataFits'
    BY <2>1, <2>2, <2>3 DEF Inv, OneShot, Checkpointed, DataFits, Real, Candidate, Made,
    Op, Trying, Clone
  <2>7. InStaging' /\ InArming' /\ InRestore' /\ InUndo' /\ InCommit' /\ InTrial'
    BY <2>1, <2>2, <2>3 DEF Inv, InStaging, InArming, InRestore, InUndo, InCommit, InTrial,
    Current, Made, Op, Trying, terminal, OnTrial, Clone
  <2> QED BY <2>4, <2>5, <2>6, <2>7 DEF Inv
<1> QED BY <1>1, <1>2, <1>3 DEF Rollback

\* The gate is closed before the aliases are restored.
LEMMA StopCheckpointKeeps ==
  ASSUME Inv, StopCheckpoint
  PROVE  Inv'
<1>1. CASE Go("undoStop")
  <2>1. /\ pc = "undoStop" /\ pc' = "undoBoot"
    BY <1>1 DEF Go, After
  <2>2. /\ mgmt' \in Managements /\ ~mgmt'.up /\ mgmt'.blocked /\ mgmt'.data = mgmt.data
    BY DEF StopCheckpoint, Inv, TypeOK, Managements
  <2>3. ckpt[journal.op].made # "none"
    BY DEF StopCheckpoint
  <2>4. UNCHANGED <<journal, alias, retired, bootfs, ckpt, bootNext, run, caller,
        recover, rebooting, healthy, watched, crashes, faults, early, trusted, trials>>
    BY <1>1, Zenon DEF StopCheckpoint, Go, idleEnv, durable, history
  <2>5. TypeOK'
    BY <2>1, <2>2, <2>3, <2>4 DEF Inv, TypeOK, Steps, After
  <2>6. KnownGoodBoot' /\ Recorded' /\ Requested' /\ Disks'
    BY <2>1, <2>2, <2>3, <2>4 DEF Inv, KnownGoodBoot, Recorded, Requested, Disks, InUndo,
    Real, Promoting, Restoring, KeptSource, Current, Candidate, Made, Resting, Trying,
    terminal, Clone, Gone
  <2>7. OneShot' /\ Checkpointed' /\ DataFits'
    BY <2>1, <2>2, <2>3, <2>4 DEF Inv, OneShot, Checkpointed, DataFits, Real, Candidate,
    Made, Op, Trying, Clone
  <2>8. InStaging' /\ InArming' /\ InRestore' /\ InUndo' /\ InCommit' /\ InTrial'
    BY <2>1, <2>2, <2>3, <2>4 DEF Inv, InStaging, InArming, InRestore, InUndo, InCommit,
    InTrial, Current, Made, Op, Trying, terminal, OnTrial, Clone
  <2> QED BY <2>5, <2>6, <2>7, <2>8 DEF Inv
<1>2. CASE Go("stopTrial")
  <2>1. /\ pc = "stopTrial" /\ pc' = "clearTrial"
    BY <1>2 DEF Go, After
  <2>2. /\ mgmt' \in Managements /\ ~mgmt'.up /\ mgmt'.blocked /\ mgmt'.data = mgmt.data
    BY DEF StopCheckpoint, Inv, TypeOK, Managements
  <2>3. ckpt[journal.op].made # "none"
    BY DEF StopCheckpoint
  <2>4. UNCHANGED <<journal, alias, retired, bootfs, ckpt, bootNext, run, caller,
        recover, rebooting, healthy, watched, crashes, faults, early, trusted, trials>>
    BY <1>2, Zenon DEF StopCheckpoint, Go, idleEnv, durable, history
  <2>5. TypeOK'
    BY <2>1, <2>2, <2>3, <2>4 DEF Inv, TypeOK, Steps, After
  <2>6. KnownGoodBoot' /\ Recorded' /\ Requested' /\ Disks'
    BY <2>1, <2>2, <2>3, <2>4 DEF Inv, KnownGoodBoot, Recorded, Requested, Disks, InUndo,
    Real, Promoting, Restoring, KeptSource, Current, Candidate, Made, Resting, Trying,
    terminal, Clone, Gone
  <2>7. OneShot' /\ Checkpointed' /\ DataFits'
    BY <2>1, <2>2, <2>3, <2>4 DEF Inv, OneShot, Checkpointed, DataFits, Real, Candidate,
    Made, Op, Trying, Clone
  <2>8. InStaging' /\ InArming' /\ InRestore' /\ InUndo' /\ InCommit' /\ InTrial'
    BY <2>1, <2>2, <2>3, <2>4 DEF Inv, InStaging, InArming, InRestore, InUndo, InCommit,
    InTrial, Current, Made, Op, Trying, terminal, OnTrial, Clone
  <2> QED BY <2>5, <2>6, <2>7, <2>8 DEF Inv
<1> QED BY <1>1, <1>2 DEF StopCheckpoint

\* Only a leftover candidate and the remains of earlier operations go.
LEMMA CleanupKeeps ==
  ASSUME Inv, Cleanup
  PROVE  Inv'
<1>1. CASE journal.state = "committed"
  <2>1. /\ pc = "cleanup" /\ pc' = "free" /\ caller' = None
        /\ recover' \in {"due", "retry", "once", "done"}
    BY <1>1 DEF Cleanup, Return, Attempted, Inv, TypeOK
  <2>2. /\ journal' \in Journals /\ journal'.req \in {"none", journal.req}
        /\ journal'.state = journal.state /\ journal'.op = journal.op
        /\ journal'.source = journal.source /\ journal'.want = journal.want
        /\ journal'.target = journal.target /\ journal'.final = journal.final
    BY ReturnedFields DEF Cleanup, Inv
  <2>3. /\ retired' = {} /\ ckpt' \in [Ops -> Checkpoints]
        /\ ckpt'[journal.op] = ckpt[journal.op]
    BY <1>1 DEF Cleanup, Inv, TypeOK, Recorded, Checkpoints
  <2>4. UNCHANGED <<alias, bootfs, bootNext, mgmt, run, rebooting, healthy, watched,
        crashes, faults, early, trusted, trials>>
    BY <1>1, Zenon DEF Cleanup, idleEnv, durable, history
  <2>5. TypeOK'
    BY <2>1, <2>2, <2>3, <2>4 DEF Inv, TypeOK, Steps
  <2>6. KnownGoodBoot' /\ Recorded' /\ Requested' /\ Disks'
    BY <2>1, <2>2, <2>3, <2>4 DEF Inv, KnownGoodBoot, Recorded, Requested, Disks, Real,
    Promoting, Restoring, KeptSource, Current, Candidate, Made, Resting, Trying, terminal,
    Clone, Gone
  <2>7. OneShot' /\ Checkpointed' /\ DataFits'
    BY <2>1, <2>2, <2>3, <2>4 DEF Inv, OneShot, Checkpointed, DataFits, Real, Candidate,
    Made, Op, Trying, Clone
  <2>8. InStaging' /\ InArming' /\ InRestore' /\ InUndo' /\ InCommit' /\ InTrial'
    BY <2>1, <2>2, <2>3, <2>4 DEF Inv, InStaging, InArming, InRestore, InUndo, InCommit,
    InTrial, Current, Made, Op, Trying, terminal, OnTrial, Clone
  <2> QED BY <2>5, <2>6, <2>7, <2>8 DEF Inv
<1>2. CASE journal.state \in {"recovered", "failed"} /\ alias["next"].own \in {None,
      journal.op}
  <2>1. /\ pc = "cleanup" /\ pc' = "free" /\ caller' = None
        /\ recover' \in {"due", "retry", "once", "done"}
    BY <1>2 DEF Cleanup, Return, Attempted, Inv, TypeOK
  <2>2. /\ journal' \in Journals /\ journal'.req \in {"none", journal.req}
        /\ journal'.state = journal.state /\ journal'.op = journal.op
        /\ journal'.source = journal.source /\ journal'.want = journal.want
        /\ journal'.target = journal.target /\ journal'.final = journal.final
    BY ReturnedFields DEF Cleanup, Inv
  <2>3. alias' = [alias EXCEPT !["next"] = Gone]
    BY <1>2 DEF Cleanup
  <2>4. /\ alias' \in [Aliases -> Clones] /\ alias'["current"] = alias["current"]
        /\ alias'["previous"] = alias["previous"] /\ alias'["next"] = Gone
        /\ alias'["recovery"] = alias["recovery"]
    BY <1>2, <2>3 DEF Inv, TypeOK, Clones, Gone, Aliases
  <2>5. UNCHANGED <<retired, bootfs, ckpt, bootNext, mgmt, run, rebooting, healthy,
        watched, crashes, faults, early, trusted, trials>>
    BY <1>2, Zenon DEF Cleanup, idleEnv, durable, history
  <2>6. TypeOK'
    BY <2>1, <2>2, <2>3, <2>4, <2>5 DEF Inv, TypeOK, Steps
  <2>7. KnownGoodBoot' /\ Recorded' /\ Requested' /\ Disks'
    BY <1>2, <2>1, <2>2, <2>3, <2>4, <2>5 DEF Inv, KnownGoodBoot, Recorded, Requested,
    Disks, Real, Promoting, Restoring, KeptSource, Current, Candidate, Made, Resting,
    Trying, terminal, Clone, Gone
  <2>8. OneShot' /\ Checkpointed' /\ DataFits'
    BY <1>2, <2>1, <2>2, <2>3, <2>4, <2>5 DEF Inv, Disks, OneShot, Checkpointed, DataFits,
    Real, Promoting, Restoring, KeptSource, Current, Candidate, Made, Op, Resting, Trying,
    Clone, Gone
  <2>9. InStaging' /\ InArming' /\ InRestore' /\ InUndo' /\ InCommit' /\ InTrial'
    BY <2>1, <2>2, <2>3, <2>4, <2>5 DEF Inv, InStaging, InArming, InRestore, InUndo,
    InCommit, InTrial, Current, Made, Op, Trying, terminal, OnTrial, Clone
  <2> QED BY <2>6, <2>7, <2>8, <2>9 DEF Inv
<1>3. CASE journal.state \in {"recovered", "failed"} /\ alias["next"].own \notin
      {None, journal.op}
  <2>1. Idles
    BY <1>3, ReturnedFields DEF Cleanup, Idles, Inv, TypeOK, idleEnv, durable, history,
    Return, Attempted
  <2> QED BY <2>1, IdlesKeep
<1> QED BY <1>1, <1>2, <1>3 DEF Cleanup

\* A refused command ends its procedure.
LEMMA RefuseKeeps ==
  ASSUME Inv, Refuse
  PROVE  Inv'
<1>1. Idles
  BY ReturnedFields DEF Refuse, Idles, Inv, TypeOK, idleEnv, durable, history, Return,
  Attempted
<1> QED BY <1>1, IdlesKeep

\* The trial's management starts under the target only.
LEMMA StartTrialKeeps ==
  ASSUME Inv, StartTrial
  PROVE  Inv'
<1>1. /\ pc = "startTrial" /\ pc' = "trial"
  BY DEF StartTrial, Go, After
<1>2. /\ mgmt' \in Managements /\ mgmt'.up
      /\ mgmt'.blocked <=> mgmt.blocked
      /\ mgmt'.data = run.ver
  BY DEF StartTrial, Start, Inv, TypeOK, Managements
<1>3. ckpt[journal.op].made # "none"
  BY DEF StartTrial
<1>4. UNCHANGED <<journal, alias, retired, bootfs, ckpt, bootNext, run, caller,
      recover, rebooting, healthy, watched, crashes, faults, early, trusted, trials>>
  BY Zenon DEF StartTrial, Go, idleEnv, durable, history
<1>5. TypeOK'
  BY <1>1, <1>2, <1>3, <1>4 DEF Inv, TypeOK, Steps
<1>6. KnownGoodBoot' /\ Recorded' /\ Requested' /\ Disks'
  BY <1>1, <1>2, <1>3, <1>4 DEF Inv, KnownGoodBoot, Recorded, Requested, Disks, InTrial,
  Real, Promoting, Restoring, KeptSource, Current, Candidate, Made, Resting, Trying,
  terminal, OnTrial, Clone, Gone
<1>7. OneShot' /\ Checkpointed' /\ DataFits'
  BY <1>1, <1>2, <1>3, <1>4 DEF Inv, OneShot, Checkpointed, DataFits, Real, Candidate,
  Made, Op, Trying, Clone
<1>8. InStaging' /\ InArming' /\ InRestore' /\ InUndo' /\ InCommit' /\ InTrial'
  BY <1>1, <1>2, <1>3, <1>4 DEF Inv, InStaging, InArming, InRestore, InUndo, InCommit,
  InTrial, Current, Made, Op, Trying, terminal, OnTrial, Clone
<1> QED BY <1>5, <1>6, <1>7, <1>8 DEF Inv

\* A trial is recorded on the booted candidate.
LEMMA SaveTrialKeeps ==
  ASSUME Inv, SaveTrial
  PROVE  Inv'
<1>1. CASE journal.state = "ready"
  <2>1. Idles
    BY <1>1, ReturnedFields DEF SaveTrial, Idles, Inv, TypeOK, idleEnv, durable, history,
    Return, Attempted
  <2> QED BY <2>1, IdlesKeep
<1>2. CASE journal.state # "ready"
  <2>1. /\ pc = "trial" /\ pc' = "free" /\ watched' = TRUE /\ caller' = None
        /\ recover' \in {"due", "retry", "once", "done"}
    BY <1>2 DEF SaveTrial, Return, Attempted, Inv, TypeOK
  <2>2. /\ journal' \in Journals /\ journal'.state = "trial" /\ journal'.req = "none"
        /\ journal'.op = journal.op /\ journal'.source = journal.source
        /\ journal'.want = journal.want /\ journal'.target = journal.target
        /\ journal'.final = journal.final
    BY <1>2, SaveFields DEF SaveTrial, Inv, States
  <2>3. UNCHANGED <<alias, retired, bootfs, ckpt, bootNext, mgmt, run, rebooting,
        healthy, crashes, faults, early, trusted, trials>>
    BY <1>2, Zenon DEF SaveTrial, idleEnv, durable, history
  <2>4. TypeOK'
    BY <2>1, <2>2, <2>3 DEF Inv, TypeOK, Steps
  <2>5. KnownGoodBoot' /\ Recorded' /\ Requested' /\ Disks'
    BY <2>1, <2>2, <2>3 DEF Inv, KnownGoodBoot, Recorded, Requested, Disks, InTrial, Real,
    Promoting, Restoring, KeptSource, Current, Candidate, Made, Resting, Trying, terminal,
    OnTrial, Clone, Gone
  <2>6. OneShot' /\ Checkpointed' /\ DataFits'
    BY <2>1, <2>2, <2>3 DEF Inv, Recorded, OneShot, Checkpointed, DataFits, InTrial, Real,
    Candidate, Made, Op, Trying, terminal, OnTrial, Clone
  <2>7. InStaging' /\ InArming' /\ InRestore' /\ InUndo' /\ InCommit' /\ InTrial'
    BY <2>1, <2>2, <2>3 DEF Inv, InStaging, InArming, InRestore, InUndo, InCommit, InTrial,
    Current, Made, Op, Trying, terminal, OnTrial, Clone
  <2> QED BY <2>4, <2>5, <2>6, <2>7 DEF Inv
<1> QED BY <1>1, <1>2 DEF SaveTrial

\* Readiness is one more state of an uncommitted trial.
LEMMA BecomeReadyKeeps ==
  ASSUME Inv, BecomeReady
  PROVE  Inv'
<1>1. /\ pc = "free" /\ journal.state = "trial"
  BY DEF BecomeReady
<1>2. /\ journal' \in Journals /\ journal'.state = "ready" /\ journal'.req = "none"
      /\ journal'.op = journal.op /\ journal'.source = journal.source
      /\ journal'.want = journal.want /\ journal'.target = journal.target
      /\ journal'.final = journal.final
  BY SaveFields DEF BecomeReady, Inv, States
<1>3. UNCHANGED <<alias, retired, bootfs, ckpt, bootNext, mgmt, run, pc, caller,
      recover, rebooting, healthy, watched, crashes, faults, early, trusted, trials>>
  BY Zenon DEF BecomeReady, idleEnv, durable, history
<1>4. TypeOK'
  BY <1>1, <1>2, <1>3 DEF Inv, TypeOK, Steps
<1>5. KnownGoodBoot' /\ Recorded' /\ Requested' /\ Disks'
  BY <1>1, <1>2, <1>3 DEF Inv, KnownGoodBoot, Recorded, Requested, Disks, Real, Promoting,
  Restoring, KeptSource, Current, Candidate, Made, Resting, Trying, terminal, Clone, Gone
<1>6. OneShot' /\ Checkpointed' /\ DataFits'
  BY <1>1, <1>2, <1>3 DEF Inv, OneShot, Checkpointed, DataFits, Real, Candidate, Made, Op,
  Trying, Clone
<1>7. InStaging' /\ InArming' /\ InRestore' /\ InUndo' /\ InCommit' /\ InTrial'
  BY <1>1, <1>2, <1>3 DEF Inv, InStaging, InArming, InRestore, InUndo, InCommit, InTrial,
  Current, Made, Op, Trying, terminal, OnTrial, Clone
<1> QED BY <1>4, <1>5, <1>6, <1>7 DEF Inv

\* Management that is not gated starts on data the running release wrote.
LEMMA StartCoreKeeps ==
  ASSUME Inv, StartCore
  PROVE  Inv'
<1>1. /\ pc = "free" /\ ~mgmt.blocked
  BY DEF StartCore
<1>2. /\ mgmt' \in Managements /\ mgmt'.up
      /\ mgmt'.blocked <=> mgmt.blocked
      /\ mgmt'.data = run.ver
  BY DEF StartCore, Start, Inv, TypeOK, Managements
<1>3. UNCHANGED <<journal, alias, retired, bootfs, ckpt, bootNext, run, pc, caller,
      recover, rebooting, healthy, watched, crashes, faults, early, trusted, trials>>
  BY Zenon DEF StartCore, idleEnv, durable, history
<1>4. TypeOK'
  BY <1>1, <1>2, <1>3 DEF Inv, TypeOK, Steps
<1>5. KnownGoodBoot' /\ Recorded' /\ Requested' /\ Disks'
  BY <1>1, <1>2, <1>3 DEF Inv, KnownGoodBoot, Recorded, Requested, Disks, DataFits, Real,
  Promoting, Restoring, KeptSource, Current, Candidate, Made, Resting, Trying, terminal,
  Clone, Gone
<1>6. OneShot' /\ Checkpointed' /\ DataFits'
  BY <1>1, <1>2, <1>3 DEF Inv, OneShot, Checkpointed, DataFits, Real, Candidate, Made, Op,
  Trying, Clone
<1>7. InStaging' /\ InArming' /\ InRestore' /\ InUndo' /\ InCommit' /\ InTrial'
  BY <1>1, <1>2, <1>3 DEF Inv, InStaging, InArming, InRestore, InUndo, InCommit, InTrial,
  Current, Made, Op, Trying, terminal, OnTrial, Clone
<1> QED BY <1>4, <1>5, <1>6, <1>7 DEF Inv

\* What Recover begins fits the journal and the running release.
LEMMA RecoverKeeps ==
  ASSUME Inv, Recover
  PROVE  Inv'
<1>1. CASE journal.req # "none" /\ Begin(journal.req)
  <2>1. /\ pc = "free" /\ pc' = journal.req /\ caller' = "recover"
        /\ UNCHANGED <<journal, recover>>
    BY <1>1 DEF Recover, Begin
  <2>2. journal.req \in {"activate", "commit", "rollback", "cleanup"}
    BY <1>1 DEF Inv, TypeOK, Journals, Actions
  <2>3. UNCHANGED <<journal, alias, retired, bootfs, ckpt, bootNext, mgmt, run,
        recover, rebooting, healthy, watched, crashes, faults, early, trusted, trials>>
    BY <1>1, Zenon DEF Recover, Begin, idleEnv, durable, history
  <2>4. TypeOK'
    BY <2>1, <2>2, <2>3 DEF Inv, TypeOK, Steps, Actions
  <2>5. KnownGoodBoot' /\ Recorded' /\ Requested' /\ Disks'
    BY <2>1, <2>2, <2>3 DEF Inv, KnownGoodBoot, Recorded, Requested, Disks, Real,
    Promoting, Restoring, KeptSource, Current, Candidate, Made, Resting, Trying, terminal,
    Clone, Gone
  <2>6. OneShot' /\ Checkpointed' /\ DataFits'
    BY <2>1, <2>2, <2>3 DEF Inv, OneShot, Checkpointed, DataFits, Real, Candidate, Made,
    Op, Trying, Clone
  <2>7. InStaging' /\ InArming' /\ InRestore' /\ InUndo' /\ InCommit' /\ InTrial'
    BY <2>1, <2>2, <2>3 DEF Inv, Requested, InStaging, InArming, InRestore, InUndo,
    InCommit, InTrial, Current, Made, Op, Trying, terminal, OnTrial, Clone
  <2> QED BY <2>4, <2>5, <2>6, <2>7 DEF Inv
<1>2. CASE journal.state = "committed" /\ Begin("release")
  <2>1. /\ pc = "free" /\ pc' = "release" /\ caller' = "recover"
        /\ UNCHANGED <<journal, recover>>
    BY <1>2 DEF Recover, Begin
  <2>2. UNCHANGED <<journal, alias, retired, bootfs, ckpt, bootNext, mgmt, run,
        recover, rebooting, healthy, watched, crashes, faults, early, trusted, trials>>
    BY <1>2, Zenon DEF Recover, Begin, idleEnv, durable, history
  <2>3. TypeOK'
    BY <2>1, <2>2 DEF Inv, TypeOK, Steps, After
  <2>4. KnownGoodBoot' /\ Recorded' /\ Requested' /\ Disks'
    BY <2>1, <2>2 DEF Inv, KnownGoodBoot, Recorded, Requested, Disks, Real, Promoting,
    Restoring, KeptSource, Current, Candidate, Made, Resting, Trying, terminal, Clone, Gone
  <2>5. OneShot' /\ Checkpointed' /\ DataFits'
    BY <2>1, <2>2 DEF Inv, OneShot, Checkpointed, DataFits, Real, Candidate, Made, Op,
    Trying, Clone
  <2>6. InStaging' /\ InArming' /\ InRestore' /\ InUndo' /\ InCommit' /\ InTrial'
    BY <1>2, <2>1, <2>2 DEF Inv, InStaging, InArming, InRestore, InUndo, InCommit, InTrial,
    Current, Made, Op, Trying, terminal, OnTrial, Clone
  <2> QED BY <2>3, <2>4, <2>5, <2>6 DEF Inv
<1>3. CASE journal.state = "recovering" /\ Begin("stopTrial")
  <2>1. /\ pc = "free" /\ pc' = "stopTrial" /\ caller' = "recover"
        /\ UNCHANGED <<journal, recover>>
    BY <1>3 DEF Recover, Begin
  <2>2. UNCHANGED <<journal, alias, retired, bootfs, ckpt, bootNext, mgmt, run,
        recover, rebooting, healthy, watched, crashes, faults, early, trusted, trials>>
    BY <1>3, Zenon DEF Recover, Begin, idleEnv, durable, history
  <2>3. TypeOK'
    BY <2>1, <2>2 DEF Inv, TypeOK, Steps, After
  <2>4. KnownGoodBoot' /\ Recorded' /\ Requested' /\ Disks'
    BY <2>1, <2>2 DEF Inv, KnownGoodBoot, Recorded, Requested, Disks, Real, Promoting,
    Restoring, KeptSource, Current, Candidate, Made, Resting, Trying, terminal, Clone, Gone
  <2>5. OneShot' /\ Checkpointed' /\ DataFits'
    BY <2>1, <2>2 DEF Inv, OneShot, Checkpointed, DataFits, Real, Candidate, Made, Op,
    Trying, Clone
  <2>6. InStaging' /\ InArming' /\ InRestore' /\ InUndo' /\ InCommit' /\ InTrial'
    BY <1>3, <2>1, <2>2 DEF Inv, InStaging, InArming, InRestore, InUndo, InCommit, InTrial,
    Current, Made, Op, Trying, terminal, OnTrial, Clone
  <2> QED BY <2>3, <2>4, <2>5, <2>6 DEF Inv
<1>4. CASE journal.state = "committing" /\ Running.ok /\ OnTrial /\ Begin("promote")
  <2>1. /\ pc = "free" /\ pc' = "promote" /\ caller' = "recover"
        /\ UNCHANGED <<journal, recover>>
    BY <1>4 DEF Recover, Begin
  <2>2. UNCHANGED <<journal, alias, retired, bootfs, ckpt, bootNext, mgmt, run,
        recover, rebooting, healthy, watched, crashes, faults, early, trusted, trials>>
    BY <1>4, Zenon DEF Recover, Begin, idleEnv, durable, history
  <2>3. TypeOK'
    BY <2>1, <2>2 DEF Inv, TypeOK, Steps, After
  <2>4. KnownGoodBoot' /\ Recorded' /\ Requested' /\ Disks'
    BY <2>1, <2>2 DEF Inv, KnownGoodBoot, Recorded, Requested, Disks, Real, Promoting,
    Restoring, KeptSource, Current, Candidate, Made, Resting, Trying, terminal, Clone, Gone
  <2>5. OneShot' /\ Checkpointed' /\ DataFits'
    BY <2>1, <2>2 DEF Inv, OneShot, Checkpointed, DataFits, Real, Candidate, Made, Op,
    Trying, Clone
  <2>6. InStaging' /\ InArming' /\ InRestore' /\ InUndo' /\ InCommit' /\ InTrial'
    BY <1>4, <2>1, <2>2 DEF Inv, InStaging, InArming, InRestore, InUndo, InCommit, InTrial,
    Current, Made, Op, Trying, terminal, OnTrial, Clone
  <2> QED BY <2>3, <2>4, <2>5, <2>6 DEF Inv
<1>5. CASE journal.state \in Trying /\ Running.ok /\ OnTrial /\ Begin("startTrial")
  <2>1. /\ pc = "free" /\ pc' = "startTrial" /\ caller' = "recover"
        /\ UNCHANGED <<journal, recover>>
    BY <1>5 DEF Recover, Begin
  <2>2. ~bootNext
    BY <1>5, HostAssumption DEF Running, OnTrial, Inv, Recorded, Trying
  <2>3. UNCHANGED <<journal, alias, retired, bootfs, ckpt, bootNext, mgmt, run,
        recover, rebooting, healthy, watched, crashes, faults, early, trusted, trials>>
    BY <1>5, Zenon DEF Recover, Begin, idleEnv, durable, history
  <2>4. TypeOK'
    BY <2>1, <2>2, <2>3 DEF Inv, TypeOK, Steps, After
  <2>5. KnownGoodBoot' /\ Recorded' /\ Requested' /\ Disks'
    BY <2>1, <2>2, <2>3 DEF Inv, KnownGoodBoot, Recorded, Requested, Disks, Real,
    Promoting, Restoring, KeptSource, Current, Candidate, Made, Resting, Trying, terminal,
    Clone, Gone
  <2>6. OneShot' /\ Checkpointed' /\ DataFits'
    BY <2>1, <2>2, <2>3 DEF Inv, OneShot, Checkpointed, DataFits, Real, Candidate, Made,
    Op, Trying, Clone
  <2>7. InStaging' /\ InArming' /\ InRestore' /\ InUndo' /\ InCommit' /\ InTrial'
    BY <1>5, <2>1, <2>2, <2>3 DEF Inv, InStaging, InArming, InRestore, InUndo, InCommit,
    InTrial, Current, Made, Op, Trying, terminal, OnTrial, Clone
  <2> QED BY <2>4, <2>5, <2>6, <2>7 DEF Inv
<1>6. CASE journal.state \in Trying \cup {"committing", "recovering"} /\ run.ver =
      journal.source /\ Begin("recovering")
  <2>1. /\ pc = "free" /\ pc' = "recovering" /\ caller' = "recover"
        /\ UNCHANGED <<journal, recover>>
    BY <1>6 DEF Recover, Begin
  <2>2. UNCHANGED <<journal, alias, retired, bootfs, ckpt, bootNext, mgmt, run,
        recover, rebooting, healthy, watched, crashes, faults, early, trusted, trials>>
    BY <1>6, Zenon DEF Recover, Begin, idleEnv, durable, history
  <2>3. TypeOK'
    BY <2>1, <2>2 DEF Inv, TypeOK, Steps, After
  <2>4. KnownGoodBoot' /\ Recorded' /\ Requested' /\ Disks'
    BY <2>1, <2>2 DEF Inv, KnownGoodBoot, Recorded, Requested, Disks, Real, Promoting,
    Restoring, KeptSource, Current, Candidate, Made, Resting, Trying, terminal, Clone, Gone
  <2>5. OneShot' /\ Checkpointed' /\ DataFits'
    BY <2>1, <2>2 DEF Inv, OneShot, Checkpointed, DataFits, Real, Candidate, Made, Op,
    Trying, Clone
  <2>6. InStaging' /\ InArming' /\ InRestore' /\ InUndo' /\ InCommit' /\ InTrial'
    BY <1>6, <2>1, <2>2 DEF Inv, InStaging, InArming, InRestore, InUndo, InCommit, InTrial,
    Current, Made, Op, Trying, terminal, OnTrial, Clone
  <2> QED BY <2>3, <2>4, <2>5, <2>6 DEF Inv
<1>7. CASE journal.state = "staging" /\ journal' = Save("failed") /\ recover' =
      "done" /\ UNCHANGED <<pc, caller>>
  <2>1. /\ pc = "free" /\ recover' = "done"
    BY <1>7 DEF Recover
  <2>2. /\ journal' \in Journals /\ journal'.state = "failed" /\ journal'.req = "none"
        /\ journal'.op = journal.op /\ journal'.source = journal.source
        /\ journal'.want = journal.want /\ journal'.target = journal.target
        /\ journal'.final = journal.final
    BY <1>7, SaveFields DEF Inv, States
  <2>3. UNCHANGED <<alias, retired, bootfs, ckpt, bootNext, mgmt, run, pc, caller,
        rebooting, healthy, watched, crashes, faults, early, trusted, trials>>
    BY <1>7, Zenon DEF Recover, idleEnv, durable, history
  <2>4. TypeOK'
    BY <2>1, <2>2, <2>3 DEF Inv, TypeOK, Steps
  <2>5. KnownGoodBoot' /\ Recorded' /\ Requested' /\ Disks'
    BY <1>7, <2>1, <2>2, <2>3 DEF Inv, KnownGoodBoot, Recorded, Requested, Disks, Real,
    Promoting, Restoring, KeptSource, Current, Candidate, Made, Resting, Trying, terminal,
    Clone, Gone
  <2>6. OneShot' /\ Checkpointed' /\ DataFits'
    BY <1>7, <2>1, <2>2, <2>3 DEF Inv, OneShot, Checkpointed, DataFits, Real, Candidate,
    Made, Op, Trying, Clone
  <2>7. InStaging' /\ InArming' /\ InRestore' /\ InUndo' /\ InCommit' /\ InTrial'
    BY <2>1, <2>2, <2>3 DEF Inv, InStaging, InArming, InRestore, InUndo, InCommit, InTrial,
    Current, Made, Op, Trying, terminal, OnTrial, Clone
  <2> QED BY <2>4, <2>5, <2>6, <2>7 DEF Inv
<1>8. CASE Fail \/ Nothing
  <2>1. Idles
    BY <1>8, ReturnedFields DEF Recover, Fail, Nothing, Idles, Inv, TypeOK, idleEnv, durable,
    history, Return, Attempted
  <2> QED BY <2>1, IdlesKeep
<1> QED BY <1>1, <1>2, <1>3, <1>4, <1>5, <1>6, <1>7, <1>8 DEF Recover, Reconcile, Inv, TypeOK, Journals,
States, Trying

\* A boot leaves the management data as they were: containers come up by
\* themselves only where the gate is open, and then under the release that wrote them.
LEMMA BootData ==
  ASSUME Inv, NEW from \in Aliases, Boot(from)
  PROVE  /\ mgmt' \in Managements
         /\ mgmt'.data = mgmt.data
         /\ mgmt'.blocked <=> mgmt.blocked
         /\ mgmt'.up => ~mgmt.blocked
         /\ ~mgmt.blocked => alias[from].ver = run.ver /\ mgmt.data = run.ver
<1>1. ~mgmt.blocked => ~bootNext
  BY DEF Inv, OneShot
<1>2. ~mgmt.blocked => alias[from].ver = run.ver /\ mgmt.data = run.ver
  BY <1>1 DEF Boot, Inv, DataFits
<1>3. PICK up \in {FALSE, mgmt.up /\ ~mgmt.blocked} :
        mgmt' = [mgmt EXCEPT !.up = up, !.data = IF up THEN alias[from].ver ELSE mgmt.data]
  BY DEF Boot
<1>4. up \in BOOLEAN /\ (up => ~mgmt.blocked)
  BY <1>3 DEF Inv, TypeOK, Managements
<1>5. (IF up THEN alias[from].ver ELSE mgmt.data) = mgmt.data
  BY <1>2, <1>4
<1>6. mgmt' = [mgmt EXCEPT !.up = up, !.data = mgmt.data]
  BY <1>3, <1>5
<1>7. mgmt'.up = up /\ mgmt'.blocked = mgmt.blocked /\ mgmt'.data = mgmt.data
  BY <1>6, Zenon DEF Inv, TypeOK, Managements
<1>8. mgmt' \in Managements
  BY <1>4, <1>6, Zenon DEF Inv, TypeOK, Managements
<1> QED BY <1>2, <1>4, <1>7, <1>8

\* What boots is trusted, or the candidate, for the first time.
LEMMA BootKeeps ==
  ASSUME Inv, NEW from \in Aliases, Boot(from), crashes' \in 0 .. MaxCrashes
  PROVE  Inv'
<1>1. CASE from = bootfs /\ from # "next"
  <2>1. alias[from].ver \in Versions
    BY <1>1 DEF Inv, TypeOK, KnownGoodBoot
  <2>2. /\ run' = [ver |-> alias[from].ver, tok |-> alias[from].tok] /\ bootNext' = FALSE
        /\ pc' = "free" /\ caller' = None /\ recover' = "due" /\ rebooting' = FALSE
        /\ watched' = FALSE /\ healthy' \in BOOLEAN
    BY DEF Boot
  <2>3. /\ run' \in [ver : Versions, tok : Ops \cup {None}] /\ run'.ver = alias[from].ver
        /\ run'.tok = alias[from].tok
    BY <2>1, <2>2 DEF Inv, TypeOK, Clones
  <2>4. /\ mgmt' \in Managements /\ mgmt'.data = mgmt.data
        /\ mgmt'.blocked <=> mgmt.blocked
        /\ mgmt'.up => ~mgmt.blocked
        /\ ~mgmt.blocked => alias[from].ver = run.ver /\ mgmt.data = run.ver
    BY BootData
  <2>5. /\ journal' \in Journals /\ journal'.state = journal.state /\ journal'.req = journal.req
        /\ journal'.op = journal.op /\ journal'.source = journal.source
        /\ journal'.want = journal.want /\ journal'.target = journal.target
        /\ journal'.final = journal.final
    BY DEF Boot, Inv, TypeOK, Journals
  <2>6. trials' = trials
    BY <1>1 DEF Boot
  <2>7. UNCHANGED <<alias, retired, bootfs, ckpt, faults, early, trusted>>
    BY <1>1, Zenon DEF Boot, idleEnv, durable, history
  <2>8. TypeOK'
    BY <1>1, <2>1, <2>2, <2>3, <2>4, <2>5, <2>6, <2>7, HostAssumption DEF Inv, TypeOK,
    Steps, After, Actions, Aliases
  <2>9. KnownGoodBoot' /\ Recorded' /\ Requested' /\ Disks'
    BY <1>1, <2>1, <2>2, <2>3, <2>4, <2>5, <2>6, <2>7 DEF Inv, KnownGoodBoot, Recorded,
    Requested, Disks, Real, Promoting, Restoring, KeptSource, Current, Candidate, Made,
    Resting, Trying, terminal, Clone, Gone
  <2>10. OneShot' /\ Checkpointed' /\ DataFits'
    BY <1>1, <2>1, <2>2, <2>3, <2>4, <2>5, <2>6, <2>7 DEF Inv, Disks, OneShot,
    Checkpointed, DataFits, Real, Promoting, Restoring, KeptSource, Current, Candidate,
    Made, Op, Resting, Trying, Clone, Gone
  <2>11. InStaging' /\ InArming' /\ InRestore' /\ InUndo' /\ InCommit' /\ InTrial'
    BY <2>1, <2>2, <2>3, <2>4, <2>5, <2>6, <2>7 DEF Inv, InStaging, InArming, InRestore,
    InUndo, InCommit, InTrial, Current, Made, Op, Trying, terminal, OnTrial, Clone
  <2> QED BY <2>8, <2>9, <2>10, <2>11 DEF Inv
<1>2. CASE from = "next" /\ bootNext
  <2>1. /\ alias[from].ver \in Versions /\ alias[from].own = journal.op /\ journal.op \in Ops
        /\ trials[journal.op] = 0
    BY <1>2 DEF Inv, OneShot, Candidate, Clone, Real, Recorded, Op
  <2>2. /\ run' = [ver |-> alias[from].ver, tok |-> alias[from].tok] /\ bootNext' = FALSE
        /\ pc' = "free" /\ caller' = None /\ recover' = "due" /\ rebooting' = FALSE
        /\ watched' = FALSE /\ healthy' \in BOOLEAN
    BY DEF Boot
  <2>3. /\ run' \in [ver : Versions, tok : Ops \cup {None}] /\ run'.ver = alias[from].ver
        /\ run'.tok = alias[from].tok
    BY <2>1, <2>2 DEF Inv, TypeOK, Clones
  <2>4. /\ mgmt' \in Managements /\ mgmt'.data = mgmt.data
        /\ mgmt'.blocked <=> mgmt.blocked
        /\ mgmt'.up => ~mgmt.blocked
        /\ ~mgmt.blocked => alias[from].ver = run.ver /\ mgmt.data = run.ver
    BY BootData
  <2>5. /\ journal' \in Journals /\ journal'.state = journal.state /\ journal'.req = journal.req
        /\ journal'.op = journal.op /\ journal'.source = journal.source
        /\ journal'.want = journal.want /\ journal'.target = journal.target
        /\ journal'.final = journal.final
    BY DEF Boot, Inv, TypeOK, Journals
  <2>6. /\ trials' = [trials EXCEPT ![journal.op] = trials[journal.op] + 1]
        /\ trials' \in [Ops -> Nat]
        /\ \A o \in Ops : trials'[o] <= 1
    BY <1>2, <2>1 DEF Boot, Inv, TypeOK, OneShot
  <2>7. UNCHANGED <<alias, retired, bootfs, ckpt, faults, early, trusted>>
    BY <1>2, Zenon DEF Boot, idleEnv, durable, history
  <2>8. TypeOK'
    BY <1>2, <2>1, <2>2, <2>3, <2>4, <2>5, <2>6, <2>7, HostAssumption DEF Inv, TypeOK,
    Steps, After, Actions, Aliases
  <2>9. KnownGoodBoot' /\ Recorded' /\ Requested' /\ Disks'
    BY <1>2, <2>1, <2>2, <2>3, <2>4, <2>5, <2>6, <2>7 DEF Inv, KnownGoodBoot, Recorded,
    Requested, Disks, OneShot, Real, Promoting, Restoring, KeptSource, Current, Candidate,
    Made, Op, Resting, Trying, terminal, Clone, Gone
  <2>10. OneShot' /\ Checkpointed' /\ DataFits'
    BY <1>2, <2>1, <2>2, <2>3, <2>4, <2>5, <2>6, <2>7 DEF Inv, OneShot, Checkpointed,
    DataFits, Real, Candidate, Made, Op, Trying, Clone
  <2>11. InStaging' /\ InArming' /\ InRestore' /\ InUndo' /\ InCommit' /\ InTrial'
    BY <2>1, <2>2, <2>3, <2>4, <2>5, <2>6, <2>7 DEF Inv, InStaging, InArming, InRestore,
    InUndo, InCommit, InTrial, Current, Made, Op, Trying, terminal, OnTrial, Clone
  <2> QED BY <2>8, <2>9, <2>10, <2>11 DEF Inv
<1>3. CASE bootfs = "next"
  <2>1. bootfs # "next"
    BY HostAssumption DEF Inv, TypeOK, Journals, States, Disks, Promoting, Restoring, KeptSource,
    Resting, Trying
  <2> QED BY <1>3, <2>1
<1> QED BY <1>1, <1>2, <1>3 DEF Boot

\* However the machine goes down, it comes up by Boot.
LEMMA MachineKeeps ==
  ASSUME Inv, OrderlyReboot \/ GuardReboot \/ PowerLoss
  PROVE  Inv'
<1>1. PICK from \in Aliases : Boot(from)
  BY DEF OrderlyReboot, GuardReboot, PowerLoss
<1>2. crashes' \in 0 .. MaxCrashes
  BY HostAssumption DEF OrderlyReboot, GuardReboot, PowerLoss, Inv, TypeOK
<1> QED BY <1>1, <1>2, BootKeeps

\* A new hostd finds the disk as the old one left it.
LEMMA HostdDiesKeeps ==
  ASSUME Inv, HostdDies
  PROVE  Inv'
<1>1. crashes' \in 0 .. MaxCrashes
  BY HostAssumption DEF HostdDies, Inv, TypeOK
<1>2. Idles
  BY <1>1 DEF HostdDies, Idles, Inv, TypeOK, durable, history
<1> QED BY <1>2, IdlesKeep

\* A failed command is answered by restoring, by recording it or by giving up.
LEMMA CommandFailsKeeps ==
  ASSUME Inv, CommandFails
  PROVE  Inv'
<1>1. CASE pc \in {"capture", "fence", "quiet", "snapshot", "checkpointed", "arm",
      "reboot"} /\ pc' = "recovering" /\ bootNext' \in (IF pc = "arm" THEN BOOLEAN ELSE
      {bootNext}) /\ UNCHANGED <<journal, caller, recover>>
  <2>1. faults' \in 0 .. MaxFaults
    BY <1>1, HostAssumption DEF CommandFails, Inv, TypeOK
  <2>2. /\ bootNext' \in BOOLEAN
        /\ pc # "arm" => bootNext' = bootNext
    BY <1>1 DEF Inv, TypeOK
  <2>3. UNCHANGED <<journal, alias, retired, bootfs, ckpt, mgmt, run, caller,
        recover, rebooting, healthy, watched, crashes, early, trusted, trials>>
    BY <1>1, Zenon DEF CommandFails, idleEnv, durable, history
  <2>4. TypeOK'
    BY <1>1, <2>1, <2>2, <2>3 DEF Inv, TypeOK, Steps, After
  <2>5. KnownGoodBoot' /\ Recorded' /\ Requested' /\ Disks'
    BY <2>1, <2>2, <2>3 DEF Inv, KnownGoodBoot, Recorded, Requested, Disks, Real,
    Promoting, Restoring, KeptSource, Current, Candidate, Made, Resting, Trying, terminal,
    Clone, Gone
  <2>6. OneShot' /\ Checkpointed' /\ DataFits'
    BY <2>1, <2>2, <2>3 DEF Inv, Recorded, Disks, OneShot, Checkpointed, DataFits,
    InArming, Real, Promoting, Restoring, KeptSource, Current, Candidate, Made, Op,
    Resting, Trying, Clone, Gone
  <2>7. InStaging' /\ InArming' /\ InRestore' /\ InUndo' /\ InCommit' /\ InTrial'
    BY <1>1, <2>1, <2>2, <2>3 DEF Inv, InStaging, InArming, InRestore, InUndo, InCommit,
    InTrial, Current, Made, Op, Trying, terminal, OnTrial, Clone
  <2> QED BY <2>4, <2>5, <2>6, <2>7 DEF Inv
<1>2. CASE pc \in {"stage", "preflight"} /\ pc' = "stageFailed" /\ UNCHANGED
      <<journal, bootNext, caller, recover>>
  <2>1. faults' \in 0 .. MaxFaults
    BY <1>2, HostAssumption DEF CommandFails, Inv, TypeOK
  <2>2. UNCHANGED <<journal, alias, retired, bootfs, ckpt, bootNext, mgmt, run,
        caller, recover, rebooting, healthy, watched, crashes, early, trusted, trials>>
    BY <1>2, Zenon DEF CommandFails, idleEnv, durable, history
  <2>3. TypeOK'
    BY <1>2, <2>1, <2>2 DEF Inv, TypeOK, Steps
  <2>4. KnownGoodBoot' /\ Recorded' /\ Requested' /\ Disks'
    BY <2>1, <2>2 DEF Inv, KnownGoodBoot, Recorded, Requested, Disks, Real, Promoting,
    Restoring, KeptSource, Current, Candidate, Made, Resting, Trying, terminal, Clone, Gone
  <2>5. OneShot' /\ Checkpointed' /\ DataFits'
    BY <2>1, <2>2 DEF Inv, OneShot, Checkpointed, DataFits, Real, Candidate, Made, Op,
    Trying, Clone
  <2>6. InStaging' /\ InArming' /\ InRestore' /\ InUndo' /\ InCommit' /\ InTrial'
    BY <1>2, <2>1, <2>2 DEF Inv, InStaging, InArming, InRestore, InUndo, InCommit, InTrial,
    Current, Made, Op, Trying, terminal, OnTrial, Clone
  <2> QED BY <2>3, <2>4, <2>5, <2>6 DEF Inv
<1>3. CASE Return(pc = "tidy") /\ journal' = Returned(journal) /\ UNCHANGED bootNext
  <2>1. faults' \in 0 .. MaxFaults
    BY HostAssumption DEF CommandFails, Inv, TypeOK
  <2>2. Idles
    BY <1>3, <2>1, ReturnedFields DEF CommandFails, Idles, Inv, TypeOK, idleEnv, durable,
    history, Return, Attempted
  <2> QED BY <2>2, IdlesKeep
<1> QED BY <1>1, <1>2, <1>3 DEF CommandFails

\* The installed appliance.
LEMMA InvInit == Init => Inv
<1> SUFFICES ASSUME Init PROVE Inv
  OBVIOUS
<1>1. TypeOK
  <2>1. journal \in Journals
    BY HostAssumption DEF Init, Journals, States
  <2>2. alias \in [Aliases -> Clones] /\ bootfs \in Aliases
    BY HostAssumption DEF Init, Clones, Aliases, Clone, Gone
  <2>3. mgmt \in Managements
    BY HostAssumption DEF Init, Managements
  <2>4. ckpt \in [Ops -> Checkpoints]
    BY DEF Init, Checkpoints
  <2>5. pc \in Steps /\ run \in [ver : Versions, tok : Ops \cup {None}]
    BY HostAssumption DEF Init, Steps
  <2>6. trusted \subseteq Versions /\ retired \subseteq Ops /\ trials \in [Ops -> Nat]
    BY HostAssumption DEF Init
  <2>7. crashes \in 0 .. MaxCrashes /\ faults \in 0 .. MaxFaults /\ early \in 0 .. MaxEarly
    BY HostAssumption DEF Init
  <2> QED BY <2>1, <2>2, <2>3, <2>4, <2>5, <2>6, <2>7 DEF Init, TypeOK
<1>2. KnownGoodBoot /\ Recorded /\ Requested
  BY HostAssumption DEF Init, KnownGoodBoot, Recorded, Requested, Aliases, Clone, Gone, Trying
<1>3. Disks /\ OneShot /\ Checkpointed /\ DataFits
  BY HostAssumption DEF Init, Disks, OneShot, Checkpointed, DataFits, Aliases, Clone, Gone, Trying,
     Resting, Current
<1>4. InStaging /\ InArming /\ InRestore /\ InUndo /\ InCommit /\ InTrial
  BY DEF Init, InStaging, InArming, InRestore, InUndo, InCommit, InTrial
<1> QED BY <1>1, <1>2, <1>3, <1>4 DEF Inv

\* One lemma per action.
LEMMA InvStep == Inv /\ [Next]_vars => Inv'
<1> SUFFICES ASSUME Inv, [Next]_vars PROVE Inv'
  OBVIOUS
<1>1. CASE \E op \in Ops, v \in Versions : Prepare(op, v)
  BY <1>1, PrepareKeeps
<1>2. CASE \E action \in Actions : Submit(action)
  BY <1>2, SubmitKeeps
<1>3. CASE Procedure
  <2>1. CASE Stage \/ Preflight \/ SaveStaged
    BY <2>1, StageKeeps, PreflightKeeps, SaveStagedKeeps
  <2>2. CASE Activate \/ SaveArming \/ Checkpoint \/ Arm \/ SaveArmed \/ Reboot
    BY <2>2, ActivateKeeps, SaveArmingKeeps, CheckpointKeeps, ArmKeeps, SaveArmedKeeps,
       RebootKeeps
  <2>3. CASE SaveRecovering \/ Clear \/ RestoreBoot \/ RestoreCheckpoint \/ SaveRecovered
    BY <2>3, SaveRecoveringKeeps, ClearKeeps, RestoreBootKeeps, RestoreCheckpointKeeps,
       SaveRecoveredKeeps
  <2>4. CASE Commit \/ SaveCommitting \/ Promote \/ SaveCommitted \/ FinishCommit
    BY <2>4, CommitKeeps, SaveCommittingKeeps, PromoteKeeps, SaveCommittedKeeps,
       FinishCommitKeeps
  <2>5. CASE Rollback \/ StopCheckpoint \/ Cleanup \/ Refuse \/ StartTrial \/ SaveTrial
    BY <2>5, RollbackKeeps, StopCheckpointKeeps, CleanupKeeps, RefuseKeeps, StartTrialKeeps,
       SaveTrialKeeps
  <2> QED BY <1>3, <2>1, <2>2, <2>3, <2>4, <2>5 DEF Procedure
<1>4. CASE Recover \/ BecomeReady \/ StartCore
  BY <1>4, RecoverKeeps, BecomeReadyKeeps, StartCoreKeeps
<1>5. CASE OrderlyReboot \/ GuardReboot \/ PowerLoss
  BY <1>5, MachineKeeps
<1>6. CASE HostdDies \/ CommandFails
  BY <1>6, HostdDiesKeeps, CommandFailsKeeps
<1>7. CASE UNCHANGED vars
  <2>1. UNCHANGED <<alias, retired, bootfs, bootNext, mgmt, ckpt, run, pc, caller, recover>>
        /\ UNCHANGED <<journal, rebooting, healthy, watched, crashes, faults, early>>
        /\ UNCHANGED <<trusted, trials>>
    BY <1>7, Zenon DEF vars, durable, history
  <2>2. TypeOK'
    BY <2>1 DEF Inv, TypeOK
  <2>3. KnownGoodBoot' /\ Recorded' /\ Requested' /\ Disks'
    BY <2>1 DEF Inv, KnownGoodBoot, Recorded, Requested, Disks, Real, Promoting, Restoring,
    KeptSource, Current, Candidate, Made
  <2>4. OneShot' /\ Checkpointed' /\ DataFits'
    BY <2>1 DEF Inv, OneShot, Checkpointed, DataFits, Real, Candidate, Made, Op
  <2>5. InStaging' /\ InArming' /\ InRestore' /\ InUndo' /\ InCommit' /\ InTrial'
    BY <2>1 DEF Inv, InStaging, InArming, InRestore, InUndo, InCommit, InTrial, Made, Op,
    Current, OnTrial
  <2> QED BY <2>2, <2>3, <2>4, <2>5 DEF Inv
<1> QED BY <1>1, <1>2, <1>3, <1>4, <1>5, <1>6, <1>7 DEF Next

\* The reachable states of the update.
LEMMA InvTheorem == Spec => []Inv
BY InvInit, InvStep, PTL DEF Spec

\* Promote and RestoreBoot find a form of the aliases they can go on from.
LEMMA NotStranded == Inv => NeverStranded
<1> SUFFICES ASSUME Inv PROVE NeverStranded
  OBVIOUS
<1>1. ASSUME pc \in {"restoreBoot", "undoBoot"} PROVE ~CannotRestore
  <2>1. Restoring /\ Real
    BY <1>1, RestoreBootReal, HostAssumption DEF Inv, Disks, Real
  <2> QED BY <2>1, HostAssumption DEF CannotRestore, Restoring, KeptSource, Current, Real,
             Fallback, Gone
<1>2. ASSUME pc = "promote" PROVE ~CannotPromote
  <2>1. Promoting /\ Real
    BY <1>2 DEF Inv, InCommit, Disks, Recorded
  <2> QED BY <2>1, HostAssumption DEF CannotPromote, Promoting, SourceKept, KeptSource, Current,
             Real, Gone, Candidate, Clone
<1> QED BY <1>1, <1>2 DEF NeverStranded, Stranded

\* Power may fail between any two commands of an update: what boots next is a
\* release known to be good or the candidate for its one trial, and Promote and
\* RestoreBoot can always go on (linux.go), for any number of updates, releases,
\* crashes and failing commands.
THEOREM BootIsSafe == Spec => []BootSafe
<1>1. Inv => BootSafe
  <2> SUFFICES ASSUME Inv PROVE BootSafe
    OBVIOUS
  <2>1. CandidateOnce
    BY DEF Inv, OneShot, CandidateOnce, terminal
  <2> QED BY <2>1, NotStranded DEF BootSafe, Inv
<1> QED BY <1>1, InvTheorem, PTL

\* What the journal says of a finished update is so on disk and in the
\* management data (upgrade.go finishCommit and restore).
THEOREM JournalIsTrue == Spec => []JournalMatchesDisk
<1>1. Inv => JournalMatchesDisk
  <2> SUFFICES ASSUME Inv PROVE JournalMatchesDisk
    OBVIOUS
  <2>1. ASSUME journal.state = "committed"
        PROVE  /\ alias["current"].ver = journal.target
               /\ bootfs = "current"
               /\ mgmt.data = journal.target
               /\ journal.final => alias["current"].tok = None /\ ~mgmt.blocked
    BY <2>1 DEF Inv, Disks, Resting, Current
  <2>2. ASSUME journal.state = "recovered", ckpt[journal.op].made # "none"
        PROVE  /\ alias["current"].ver = journal.source
               /\ bootfs = "current"
               /\ mgmt.data = journal.source
               /\ ~mgmt.blocked
    BY <2>2 DEF Inv, Disks, Resting, Current, Made
  <2> QED BY <2>1, <2>2 DEF JournalMatchesDisk
<1> QED BY <1>1, InvTheorem, PTL

\* Only these steps touch the management containers or the running release.
LEMMA Starters ==
  ASSUME [Next]_vars
  PROVE  \/ UNCHANGED <<mgmt, run>>
         \/ Checkpoint \/ RestoreCheckpoint \/ FinishCommit \/ StopCheckpoint
         \/ StartTrial \/ StartCore
         \/ \E from \in Aliases : Boot(from)
<1> USE DEF idleEnv
<1>1. CASE \E op \in Ops, v \in Versions : Prepare(op, v)
  BY <1>1 DEF Prepare
<1>2. CASE \E action \in Actions : Submit(action)
  BY <1>2 DEF Submit
<1>3. CASE Stage \/ Preflight \/ SaveStaged
  BY <1>3 DEF Stage, Preflight, SaveStaged
<1>4. CASE Activate \/ SaveArming \/ Arm \/ SaveArmed \/ Reboot
  BY <1>4 DEF Activate, SaveArming, Arm, SaveArmed, Reboot
<1>5. CASE SaveRecovering \/ Clear \/ RestoreBoot \/ SaveRecovered
  BY <1>5 DEF SaveRecovering, Clear, RestoreBoot, SaveRecovered
<1>6. CASE Commit \/ SaveCommitting \/ Promote \/ SaveCommitted
  BY <1>6 DEF Commit, SaveCommitting, Promote, SaveCommitted
<1>7. CASE Rollback \/ Cleanup \/ Refuse \/ SaveTrial
  BY <1>7 DEF Rollback, Cleanup, Refuse, SaveTrial
<1>8. CASE Recover \/ BecomeReady
  BY <1>8 DEF Recover, BecomeReady
<1>9. CASE OrderlyReboot \/ GuardReboot \/ PowerLoss
  BY <1>9 DEF OrderlyReboot, GuardReboot, PowerLoss
<1>10. CASE HostdDies \/ CommandFails
  BY <1>10 DEF HostdDies, CommandFails
<1>11. CASE UNCHANGED vars
  BY <1>11 DEF vars
<1> QED BY <1>1, <1>2, <1>3, <1>4, <1>5, <1>6, <1>7, <1>8, <1>9, <1>10, <1>11 DEF Next, Procedure

\* A start under the source release of data that its target wrote.
OldReadsNew == /\ mgmt'.up /\ (~mgmt.up \/ run' # run)
               /\ mgmt.data = journal.target /\ run'.ver = journal.source
               /\ journal.target # journal.source

\* Management starts after the data were restored, under the trial, or where
\* the gate is open, and then its data are those of the running release.
LEMMA StartsOnOwnData == Inv /\ [Next]_vars => ~OldReadsNew
<1> SUFFICES ASSUME Inv, [Next]_vars, OldReadsNew PROVE FALSE
  OBVIOUS
<1>1. CASE UNCHANGED <<mgmt, run>>
  BY <1>1 DEF OldReadsNew
<1>2. CASE Checkpoint
  <2>1. run' = run /\ (mgmt'.up => mgmt.up)
    BY <1>2 DEF Checkpoint, idleEnv, Inv, TypeOK, Managements
  <2> QED BY <2>1 DEF OldReadsNew
<1>3. CASE RestoreCheckpoint
  <2>1. run' = run
    BY <1>3 DEF RestoreCheckpoint, idleEnv
  <2>2. mgmt'.up => mgmt.up \/ pc = "startPrevious"
    BY <1>3 DEF RestoreCheckpoint, Go, Inv, TypeOK, Managements
  <2>3. pc = "startPrevious" => mgmt.data = journal.source
    BY DEF Inv, InRestore
  <2> QED BY <2>1, <2>2, <2>3 DEF OldReadsNew
<1>4. CASE FinishCommit
  <2>1. run' = run /\ (mgmt'.up => mgmt.up)
    BY <1>4 DEF FinishCommit, ReleaseCheckpoint, FinalizeCommit, SaveFinalized,
                CleanupCheckpoint, idleEnv, Inv, TypeOK, Managements
  <2> QED BY <2>1 DEF OldReadsNew
<1>5. CASE StopCheckpoint
  <2>1. ~mgmt'.up
    BY <1>5 DEF StopCheckpoint, Inv, TypeOK, Managements
  <2> QED BY <2>1 DEF OldReadsNew
<1>6. CASE StartTrial
  <2>1. run' = run /\ run.ver = journal.target
    BY <1>6 DEF StartTrial, Go, idleEnv, Inv, InTrial, OnTrial
  <2> QED BY <2>1 DEF OldReadsNew
<1>7. CASE StartCore
  <2>1. run' = run /\ mgmt.data = run.ver
    BY <1>7 DEF StartCore, idleEnv, Inv, DataFits
  <2> QED BY <2>1 DEF OldReadsNew
<1>8. ASSUME NEW from \in Aliases, Boot(from) PROVE FALSE
  <2>1. mgmt'.up => alias[from].ver = run.ver /\ mgmt.data = run.ver
    BY <1>8, BootData
  <2>2. run'.ver = alias[from].ver
    BY <1>8 DEF Boot
  <2> QED BY <2>1, <2>2 DEF OldReadsNew
<1> QED BY <1>1, <1>2, <1>3, <1>4, <1>5, <1>6, <1>7, <1>8, Starters

\* Management never starts under the source release of an update on data last
\* written under its target: the gate is closed before BootNext is set and opens
\* only on data of the running release (management.go Checkpoint, RestoreCheckpoint).
THEOREM DataStayReadable == Spec => OldNeverReadsNew
<1>1. Inv /\ [Next]_vars => [mgmt'.up /\ (~mgmt.up \/ run' # run) =>
        ~(mgmt.data = journal.target /\ run'.ver = journal.source
            /\ journal.target # journal.source)]_vars
  BY StartsOnOwnData DEF OldReadsNew
<1> QED BY <1>1, InvTheorem, PTL DEF Spec, OldNeverReadsNew

===============================================================================

------------------------ MODULE ManagementUpdate_proof ------------------------
(***************************************************************************)
(* OutcomeSafe, OldNeverReadsNew, RollbackPointKept and CommittedStays for *)
(* any set of releases, datasets and operations and any number of power    *)
(* losses, restarts of hostd, failing commands and requests.  The          *)
(* invariant relates the journal, which is saved before production is      *)
(* touched, to the compose file, the containers, the data and the gate:    *)
(* Unchanged and Changed say which release each of them may be of before   *)
(* and after "production changed" is on record, AuthorizedRuns that an     *)
(* authorized release is one that runs on its own data, Gated that         *)
(* whatever Docker or the launcher can start is on data of its release,    *)
(* and In* what a procedure that has got to a step has done so far.  One   *)
(* lemma per action shows that it keeps them.  The second part is about    *)
(* the fence that such an update begins with (module UpdateFence).         *)
(***************************************************************************)
EXTENDS ManagementUpdate, UpdateFence, FiniteSetTheorems, TLAPS

\* All data are of release r; the installation is of one release, which the launcher may start.
Holds(r) == \A d \in Datasets : data[d] = r
Settled  == Holds(compose.rel) /\ cont.rel = compose.rel /\ AllMounted
\* The phases before anything is stopped.
Planning == {"prepare", "preflight"}

\* Nothing of the installation has been touched, or all of it is back in order.
Undisturbed == terminal(journal.state) \/ journal.phase \in Planning \cup {"cleaning"}

\* The update has a source and a target.
Real == /\ journal.op \in Ops
        /\ journal.src \in Releases /\ journal.tgt \in Releases
        /\ journal.src # journal.tgt

\* What a journal of each state and phase records of its operation.
Recorded ==
  /\ journal.op = None <=> journal.state = "idle"
  /\ journal.op # None => ~history[journal.op].made
  /\ journal.src # None => Real
  /\ journal.src # None => journal.src \in tags
  /\ journal.snap => journal.src # None
  /\ journal.prod => journal.snap
  /\ ~Undisturbed => journal.src # None
  /\ journal.phase \in Planning => ~journal.auth /\ ~journal.snap
  /\ journal.phase = "fencing" => ~journal.prod
  /\ ~terminal(journal.state) /\ journal.phase \in Planning \cup {"cleaning", "fencing"} =>
       journal.state = "running"
  /\ ~terminal(journal.state) /\ journal.phase = "cleaning" =>
       terminal(journal.cleanup) /\ journal.cleanup # "idle"

\* A recorded outcome is what the compose file runs, and leaves no gate or mask.
Outcome ==
  /\ journal.state = "succeeded" => compose.rel = journal.tgt
  /\ journal.state = "rolled_back" => compose.rel = journal.src
  /\ ~terminal(journal.state) /\ journal.phase = "cleaning" =>
       /\ journal.cleanup = "succeeded" => compose.rel = journal.tgt
       /\ journal.cleanup = "rolled_back" => compose.rel = journal.src
  /\ Undisturbed => /\ ~gate /\ ~run.blocked /\ ~run.masked
                    /\ ~compose.norestart /\ ~cont.norestart

\* An open gate or a restart policy needs data of the release that would start.
Gated ==
  /\ ~gate => Settled
  /\ ~cont.norestart => Holds(cont.rel)
  /\ cont.rel = None => ~cont.up /\ cont.norestart /\ ~journal.auth
  /\ ~AllMounted => cont.rel = None

\* Until production is recorded as changed all of it is the source.
Unchanged ==
  journal.src # None /\ ~journal.prod =>
       Holds(journal.src) /\ compose.rel = journal.src /\ cont.rel = journal.src

\* From then on each part is the source's or the target's, and the source's containers have its data.
Changed ==
  journal.prod =>
    /\ compose.rel \in {journal.src, journal.tgt}
    /\ cont.rel \in {journal.src, journal.tgt, None}
    /\ \A d \in Datasets : data[d] \in {journal.src, journal.tgt}
    /\ cont.rel = journal.src => Holds(journal.src)

\* Release r is configured, running and the writer of all data.
Runs(r) == Holds(r) /\ compose.rel = r /\ cont.rel = r

\* An authorized update runs its target, an authorized rollback its source.
AuthorizedRuns ==
  journal.auth /\ ~Undisturbed =>
    \/ /\ journal.state = "running" /\ journal.phase = "authorizing"
       /\ journal.prod /\ Runs(journal.tgt)
    \/ /\ journal.state = "recovering" /\ journal.phase = "authorizing_previous"
       /\ Runs(journal.src)

\* The journal of an update, and of a rollback, that is not yet authorized.
Updating(phase) == journal.state = "running" /\ journal.phase = phase /\ ~journal.auth
RollingBack == /\ journal.state = "recovering" /\ ~journal.auth
               /\ journal.phase \in {"restoring", "verifying_previous"}

\* The steps up to the preflight.
InPlanning ==
  /\ pc = "prepare" => /\ Updating("prepare")
                       /\ journal.src = None /\ journal.tgt \in Releases \ {cont.rel}
  /\ pc = "preflight" => Updating("prepare")
  /\ pc \in {"sandbox", "tidy"} => Updating("preflight")
  /\ pc \in {"fencing", "abandonClean", "failed"} => Updating("prepare") \/ Updating("preflight")
  /\ pc \in {"preflight", "sandbox", "tidy", "fencing"} => journal.src # None

\* The steps that stop the running release: the gate comes first.
InSuppress ==
  /\ pc \in {"gate", "mask", "composeNo", "policyNo", "stop"} => Updating("fencing") \/ RollingBack
  /\ pc \in {"mask", "composeNo", "policyNo", "stop"} => gate
  /\ pc = "stop" => cont.norestart

\* The steps from the fence to the authorization of the target.
InUpdate ==
  /\ pc \in {"fence", "snapshot"} => Updating("fencing")
  /\ pc \in {"zfsSnapshot", "hold", "installing"} => Updating("snapshot") /\ ~journal.prod /\ journal.snap
  /\ pc \in {"writeCandidate", "upCandidate", "checking"} => Updating("installing")
  /\ pc \in {"healthy", "authorizing"} => Updating("checking")
  /\ pc \in {"writeCandidate", "upCandidate", "checking", "healthy", "authorizing"} => journal.prod
  /\ pc \in {"snapshot", "zfsSnapshot", "hold", "installing", "writeCandidate", "upCandidate"} =>
        gate /\ cont.norestart
  /\ pc \in {"checking", "healthy", "authorizing"} => gate
  /\ pc \in {"hold", "installing"} => \A d \in Datasets : snap[journal.op].data[d] = journal.src
  /\ pc = "hold" => snap[journal.op].made = "taken"
  /\ pc = "installing" => snap[journal.op].made = "held"
  /\ pc \in {"upCandidate", "checking", "healthy", "authorizing"} => compose.rel = journal.tgt
  /\ pc = "upCandidate" => compose.norestart /\ AllMounted
  /\ pc = "authorizing" => Runs(journal.tgt)

\* The steps of a rollback: the containers go before the data, the source starts last.
InRollback ==
  /\ pc = "restoring" => ~Undisturbed /\ (journal.auth => caller = "execute")
  /\ pc \in {"remove", "unmount", "rollbackData", "mount"} => journal.prod
  /\ pc \in {"remove", "unmount", "rollbackData", "mount", "writePrevious", "upPrevious"} =>
        RollingBack /\ gate /\ cont.norestart
  /\ pc \in {"verifying", "healthyPrevious", "authorizingPrevious"} => RollingBack /\ gate
  /\ pc = "recoveryFailed" => RollingBack
  /\ pc \in {"unmount", "rollbackData", "mount"} => cont.rel = None
  /\ pc \in {"mount", "writePrevious", "upPrevious", "verifying", "healthyPrevious",
             "authorizingPrevious"} => Holds(journal.src)
  /\ pc \in {"upPrevious", "verifying", "healthyPrevious", "authorizingPrevious"} =>
        compose.rel = journal.src
  /\ pc = "upPrevious" => compose.norestart
  /\ pc = "authorizingPrevious" => cont.rel = journal.src

\* The steps after an authorization is saved: policies, block, gate, mask.
InAuthorize ==
  /\ pc \in {"policyFile", "policies", "unblock", "ungate", "unmask", "committed", "rolledBack"} =>
        journal.auth /\ ~Undisturbed
  /\ pc = "committed" => journal.state = "running"
  /\ pc = "rolledBack" => journal.state = "recovering"
  /\ pc \in {"policies", "unblock", "ungate", "unmask", "committed", "rolledBack"} => ~compose.norestart
  /\ pc \in {"unblock", "ungate", "unmask", "committed", "rolledBack"} => ~cont.norestart
  /\ pc \in {"ungate", "unmask", "committed", "rolledBack"} => ~run.blocked
  /\ pc \in {"unmask", "committed", "rolledBack"} => ~gate
  /\ pc \in {"committed", "rolledBack"} => ~run.masked

\* The steps of a cleanup and of pruning.
InCleanup ==
  /\ pc \in {"clean", "cleaned", "cleanFailed"} => journal.state = "running" /\ journal.phase = "cleaning"
  /\ pc \in {"prune", "pruneRelease", "pruneDestroy", "pruneImages", "pruneSave"} => journal.op # None
  /\ pc \in {"pruneRelease", "pruneDestroy", "pruneImages", "pruneSave"} => Unpruned # {}

\* The inductive invariant.
Inv == /\ TypeOK /\ RollbackPointKept
       /\ Recorded /\ Outcome /\ Gated /\ Unchanged /\ Changed /\ AuthorizedRuns
       /\ InPlanning /\ InSuppress /\ InUpdate /\ InRollback /\ InAuthorize /\ InCleanup

\* Save replaces the state and the phase; the rest of the journal stays.
LEMMA SaveFields ==
  ASSUME TypeOK, NEW s \in States, NEW p \in Phases
  PROVE  /\ Save(s, p) \in JournalRecords
         /\ Save(s, p).state = s /\ Save(s, p).phase = p
         /\ Save(s, p).op = journal.op /\ Save(s, p).src = journal.src
         /\ Save(s, p).tgt = journal.tgt /\ Save(s, p).cleanup = journal.cleanup
         /\ Save(s, p).snap = journal.snap /\ Save(s, p).prod = journal.prod
         /\ Save(s, p).auth = journal.auth
BY DEF TypeOK, JournalRecords, Save

\* So does setting one of the journal's flags.
LEMMA FlagSet ==
  ASSUME NEW j \in JournalRecords
  PROVE  /\ [j EXCEPT !.snap = TRUE] \in JournalRecords
         /\ [j EXCEPT !.prod = TRUE] \in JournalRecords
         /\ [j EXCEPT !.auth = TRUE] \in JournalRecords
         /\ [j EXCEPT !.auth = FALSE] \in JournalRecords
BY DEF JournalRecords

\* Steps that leave the installation alone and end, or do not begin, a procedure.
Idles ==
  /\ pc' = "free"
  /\ caller' \in Callers \cup {None}
  /\ UNCHANGED <<journal, history, compose, cont, data, mounted, snap, tags, gate, run>>
  /\ newer' \in BOOLEAN /\ sandbox' \subseteq Ops /\ due' \in BOOLEAN
  /\ unit' \in {"reconcile", "launch", "done"}
  /\ crashes' \in 0 .. MaxCrashes /\ faults' \in 0 .. MaxFaults /\ actions' \in 0 .. MaxActions

\* The commands of an update or a rollback whose failure is the procedure's.
Others == {"fence", "gate", "mask", "composeNo", "policyNo", "stop", "zfsSnapshot", "hold",
           "writeCandidate", "upCandidate", "healthy", "remove", "unmount", "rollbackData",
           "mount", "writePrevious", "healthyPrevious", "policyFile", "policies", "unblock",
           "ungate", "unmask"}
\* A failure after the authorization, which leaves the procedure to a later recovery.
GivesUp == journal.auth /\ (caller # "execute" \/ journal.state = "recovering")

\* Ending a procedure disturbs nothing.
LEMMA IdlesKeep ==
  ASSUME Inv, Idles
  PROVE  Inv'
<1>1. TypeOK'
  BY DEF Inv, TypeOK, Idles, Steps
<1>2. RollbackPointKept' /\ Recorded' /\ Outcome'
  BY DEF Idles, Inv, RollbackPointKept, Recorded, Outcome, Planning, Undisturbed, Real,
  terminal
<1>3. Gated' /\ Unchanged' /\ Changed' /\ AuthorizedRuns'
  BY DEF Idles, Inv, Gated, Unchanged, Changed, AuthorizedRuns, Holds, Settled, Planning,
  Undisturbed, Runs, Updating, terminal, AllMounted
<1>4. InPlanning' /\ InSuppress' /\ InUpdate'
  BY DEF Idles, Inv, InPlanning, InSuppress, InUpdate, Runs, Updating, RollingBack,
  AllMounted
<1>5. InRollback' /\ InAuthorize' /\ InCleanup'
  BY DEF Idles, Inv, InRollback, InAuthorize, InCleanup, Holds, Planning, Undisturbed,
  RollingBack, terminal, Unpruned
<1> QED BY <1>1, <1>2, <1>3, <1>4, <1>5 DEF Inv

\* A new operation starts from an installation in order, and keeps the old one's journal.
LEMMA StartKeeps ==
  ASSUME Inv, NEW op \in Ops, NEW rel \in Releases \ {cont.rel}, Start(op, rel)
  PROVE  Inv'
<1>1. /\ pc = "free" /\ pc' = "prepare" /\ caller' = "execute" /\ terminal(journal.state)
      /\ op # journal.op
  BY DEF Start
<1>2. /\ journal' \in JournalRecords /\ journal'.op = op /\ journal'.state = "running"
      /\ journal'.phase = "prepare" /\ journal'.src = None /\ journal'.tgt = rel
      /\ journal'.cleanup = None /\ ~journal'.snap /\ ~journal'.prod /\ ~journal'.auth
  BY DEF Start, JournalRecords, States, Phases
<1>3. /\ history' \in [Ops -> HistoryRecords] /\ ~history'[op].made
  BY <1>1 DEF Start, Inv, TypeOK, HistoryRecords, JournalRecords
<1>4. UNCHANGED <<compose, cont, data, mounted, snap, newer, tags, sandbox, gate,
      run, due, unit, crashes, faults, actions>>
  BY Zenon DEF Start, Saves, disk, env, exceptJournal, exceptGates, exceptCompose,
  exceptData, exceptSnap, exceptSandbox
<1>5. TypeOK'
  BY <1>1, <1>2, <1>3, <1>4 DEF Inv, TypeOK, Steps, Callers
<1>6. RollbackPointKept' /\ Recorded' /\ Outcome'
  BY <1>1, <1>2, <1>3, <1>4, ManagementAssumption DEF Inv, RollbackPointKept, Recorded,
  Outcome, Planning, Undisturbed, Real, terminal
<1>7. Gated' /\ Unchanged' /\ Changed' /\ AuthorizedRuns'
  BY <1>1, <1>2, <1>3, <1>4 DEF Inv, Gated, Unchanged, Changed, AuthorizedRuns, Holds,
  Settled, Planning, Undisturbed, Runs, Updating, terminal, AllMounted
<1>8. InPlanning' /\ InSuppress' /\ InUpdate'
  BY <1>1, <1>2, <1>3, <1>4 DEF Inv, InPlanning, InSuppress, InUpdate, Runs, Updating,
  RollingBack, AllMounted
<1>9. InRollback' /\ InAuthorize' /\ InCleanup'
  BY <1>1, <1>2, <1>3, <1>4 DEF Inv, InRollback, InAuthorize, InCleanup, Holds, Planning,
  Undisturbed, RollingBack, terminal, Unpruned
<1> QED BY <1>5, <1>6, <1>7, <1>8, <1>9 DEF Inv

\* A rollback is admitted where there is a rollback point.
LEMMA RequestRollbackKeeps ==
  ASSUME Inv, RequestRollback
  PROVE  Inv'
<1>1. /\ pc = "free" /\ terminal(journal.state) /\ journal.op # None
      /\ actions' \in 0 .. MaxActions
  BY ManagementAssumption DEF RequestRollback, Requested, Inv, TypeOK
<1>2. /\ pc' = "restoring" /\ caller' = "rollback" /\ journal.snap
  BY DEF RequestRollback
<1>3. /\ journal' = [Save("running", "restoring") EXCEPT !.auth = FALSE] /\ "running" \in States
      /\ "restoring" \in Phases
  BY DEF RequestRollback, States, Phases
<1>4. journal' \in JournalRecords
  BY <1>3, SaveFields, FlagSet DEF Inv
<1>5. /\ journal'.op = journal.op /\ journal'.state = "running" /\ journal'.phase = "restoring"
      /\ journal'.src = journal.src /\ journal'.tgt = journal.tgt
      /\ journal'.cleanup = journal.cleanup
      /\ journal'.snap <=> journal.snap
      /\ journal'.prod <=> journal.prod
      /\ ~journal'.auth
  BY <1>3, SaveFields DEF Inv, JournalRecords
<1>6. UNCHANGED <<history, compose, cont, data, mounted, snap, newer, tags, sandbox,
      gate, run, due, unit, crashes, faults>>
  BY Zenon DEF RequestRollback, Requested, Saves, disk, env, exceptJournal, exceptGates,
  exceptCompose, exceptData, exceptSnap, exceptSandbox
<1>7. TypeOK'
  BY <1>1, <1>2, <1>3, <1>4, <1>5, <1>6 DEF Inv, TypeOK, Steps, After, Callers
<1>8. RollbackPointKept' /\ Recorded' /\ Outcome'
  BY <1>1, <1>2, <1>3, <1>4, <1>5, <1>6 DEF Inv, RollbackPointKept, Recorded, Outcome,
  Planning, Undisturbed, Real, terminal
<1>9. Gated' /\ Unchanged' /\ Changed' /\ AuthorizedRuns'
  BY <1>1, <1>2, <1>3, <1>4, <1>5, <1>6 DEF Inv, Gated, Unchanged, Changed, AuthorizedRuns,
  Holds, Settled, Planning, Undisturbed, Runs, Updating, terminal, AllMounted
<1>10. InPlanning' /\ InSuppress' /\ InUpdate'
  BY <1>1, <1>2, <1>3, <1>4, <1>5, <1>6 DEF Inv, InPlanning, InSuppress, InUpdate, Runs,
  Updating, RollingBack, AllMounted
<1>11. InRollback' /\ InAuthorize' /\ InCleanup'
  BY <1>1, <1>2, <1>3, <1>4, <1>5, <1>6 DEF Inv, InRollback, InAuthorize, InCleanup, Holds,
  Planning, Undisturbed, RollingBack, terminal, Unpruned
<1> QED BY <1>7, <1>8, <1>9, <1>10, <1>11 DEF Inv

\* A cleanup remembers the outcome it returns to.
LEMMA RequestCleanupKeeps ==
  ASSUME Inv, RequestCleanup
  PROVE  Inv'
<1>1. /\ pc = "free" /\ terminal(journal.state) /\ journal.op # None
      /\ actions' \in 0 .. MaxActions
  BY ManagementAssumption DEF RequestCleanup, Requested, Inv, TypeOK
<1>2. /\ pc' = "clean" /\ caller' = "cleanup" /\ journal.state \in States
  BY DEF RequestCleanup, Inv, TypeOK, JournalRecords
<1>3. /\ journal' = [Save("running", "cleaning") EXCEPT !.cleanup = journal.state]
      /\ "running" \in States /\ "cleaning" \in Phases
  BY DEF RequestCleanup, States, Phases
<1>4. /\ journal' \in JournalRecords /\ journal'.op = journal.op /\ journal'.state = "running"
      /\ journal'.phase = "cleaning" /\ journal'.src = journal.src /\ journal'.tgt = journal.tgt
      /\ journal'.cleanup = journal.state
      /\ journal'.snap <=> journal.snap
      /\ journal'.prod <=> journal.prod
      /\ journal'.auth <=> journal.auth
  BY <1>2, <1>3, SaveFields DEF Inv, JournalRecords
<1>5. UNCHANGED <<history, compose, cont, data, mounted, snap, newer, tags, sandbox,
      gate, run, due, unit, crashes, faults>>
  BY Zenon DEF RequestCleanup, Requested, Saves, disk, env, exceptJournal, exceptGates,
  exceptCompose, exceptData, exceptSnap, exceptSandbox
<1>6. TypeOK'
  BY <1>1, <1>2, <1>3, <1>4, <1>5 DEF Inv, TypeOK, Steps, After, Callers
<1>7. RollbackPointKept' /\ Recorded' /\ Outcome'
  BY <1>1, <1>2, <1>3, <1>4, <1>5 DEF Inv, RollbackPointKept, Recorded, Outcome, Planning,
  Undisturbed, Real, terminal
<1>8. Gated' /\ Unchanged' /\ Changed' /\ AuthorizedRuns'
  BY <1>1, <1>2, <1>3, <1>4, <1>5 DEF Inv, Gated, Unchanged, Changed, AuthorizedRuns,
  Holds, Settled, Planning, Undisturbed, Runs, Updating, terminal, AllMounted
<1>9. InPlanning' /\ InSuppress' /\ InUpdate'
  BY <1>1, <1>2, <1>3, <1>4, <1>5 DEF Inv, InPlanning, InSuppress, InUpdate, Runs,
  Updating, RollingBack, AllMounted
<1>10. InRollback' /\ InAuthorize' /\ InCleanup'
  BY <1>1, <1>2, <1>3, <1>4, <1>5 DEF Inv, InRollback, InAuthorize, InCleanup, Holds,
  Planning, Undisturbed, RollingBack, terminal, Unpruned
<1> QED BY <1>6, <1>7, <1>8, <1>9, <1>10 DEF Inv

\* The source is the release that runs, and its images are retained.
LEMMA PrepareKeeps ==
  ASSUME Inv, Prepare
  PROVE  Inv'
<1>1. /\ pc = "prepare" /\ pc' \in {"fencing", "preflight"} /\ caller' = caller /\ cont.up
      /\ AllMounted
  BY DEF Prepare, Jump
<1>2. cont.rel \in Releases
  BY <1>1 DEF Inv, Gated, TypeOK, Containers
<1>3. /\ journal' \in JournalRecords /\ journal'.op = journal.op
      /\ journal'.state = journal.state /\ journal'.phase = journal.phase
      /\ journal'.src = cont.rel /\ journal'.tgt = journal.tgt
      /\ journal'.cleanup = journal.cleanup
      /\ journal'.snap <=> journal.snap
      /\ journal'.prod <=> journal.prod
      /\ journal'.auth <=> journal.auth
  BY <1>2 DEF Prepare, Inv, TypeOK, JournalRecords
<1>4. tags' = tags \cup {cont.rel}
  BY DEF Prepare
<1>5. /\ journal.op \in Ops /\ journal.tgt \in Releases /\ journal.tgt # cont.rel
      /\ journal.src = None /\ journal.state = "running" /\ journal.phase = "prepare"
      /\ ~journal.snap /\ ~journal.prod
  BY <1>1 DEF Inv, TypeOK, JournalRecords, InPlanning, Updating, Recorded, Planning
<1>6. UNCHANGED <<history, compose, cont, data, mounted, snap, newer, sandbox, gate,
      run, caller, due, unit, crashes, faults, actions>>
  BY Zenon DEF Prepare, Jump, Saves, disk, env, exceptJournal, exceptGates, exceptCompose,
  exceptData, exceptSnap, exceptSandbox
<1>7. TypeOK'
  BY <1>1, <1>2, <1>3, <1>4, <1>5, <1>6 DEF Inv, TypeOK, Steps, After
<1>8. RollbackPointKept' /\ Recorded' /\ Outcome'
  BY <1>1, <1>2, <1>3, <1>4, <1>5, <1>6 DEF Inv, RollbackPointKept, Recorded, Outcome,
  Planning, Undisturbed, Real, terminal
<1>9. Gated' /\ Unchanged' /\ Changed' /\ AuthorizedRuns'
  BY <1>1, <1>2, <1>3, <1>4, <1>5, <1>6 DEF Inv, Outcome, Gated, Unchanged, Changed,
  AuthorizedRuns, Holds, Settled, Planning, Undisturbed, Runs, Updating, terminal,
  AllMounted
<1>10. InPlanning' /\ InSuppress' /\ InUpdate'
  BY <1>1, <1>2, <1>3, <1>4, <1>5, <1>6, ManagementAssumption DEF Inv, InPlanning,
  InSuppress, InUpdate, Runs, Updating, RollingBack, AllMounted
<1>11. InRollback' /\ InAuthorize' /\ InCleanup'
  BY <1>1, <1>2, <1>3, <1>4, <1>5, <1>6 DEF Inv, InRollback, InAuthorize, InCleanup, Holds,
  Planning, Undisturbed, RollingBack, terminal, Unpruned
<1> QED BY <1>7, <1>8, <1>9, <1>10, <1>11 DEF Inv

\* The preflight is journaled.
LEMMA SavePreflightKeeps ==
  ASSUME Inv, SavePreflight
  PROVE  Inv'
<1>1. /\ pc = "preflight" /\ pc' = "sandbox"
  BY DEF SavePreflight, Go, After
<1>2. /\ journal' \in JournalRecords /\ journal'.op = journal.op /\ journal'.state = "running"
      /\ journal'.phase = "preflight" /\ journal'.src = journal.src
      /\ journal'.tgt = journal.tgt /\ journal'.cleanup = journal.cleanup
      /\ journal'.snap <=> journal.snap
      /\ journal'.prod <=> journal.prod
      /\ journal'.auth <=> journal.auth
  BY SaveFields DEF SavePreflight, Saves, Inv, States, Phases
<1>3. UNCHANGED <<history, compose, cont, data, mounted, snap, newer, tags, sandbox,
      gate, run, caller, due, unit, crashes, faults, actions>>
  BY Zenon DEF SavePreflight, Go, Saves, disk, env, exceptJournal, exceptGates,
  exceptCompose, exceptData, exceptSnap, exceptSandbox
<1>4. TypeOK'
  BY <1>1, <1>2, <1>3 DEF Inv, TypeOK, Steps, After
<1>5. RollbackPointKept' /\ Recorded' /\ Outcome'
  BY <1>1, <1>2, <1>3 DEF Inv, RollbackPointKept, Recorded, Outcome, InPlanning, Planning,
  Undisturbed, Real, Updating, terminal
<1>6. Gated' /\ Unchanged' /\ Changed' /\ AuthorizedRuns'
  BY <1>1, <1>2, <1>3 DEF Inv, Gated, Unchanged, Changed, AuthorizedRuns, Holds, Settled,
  Planning, Undisturbed, Runs, Updating, terminal, AllMounted
<1>7. InPlanning' /\ InSuppress' /\ InUpdate'
  BY <1>1, <1>2, <1>3 DEF Inv, InPlanning, InSuppress, InUpdate, Runs, Updating,
  RollingBack, AllMounted
<1>8. InRollback' /\ InAuthorize' /\ InCleanup'
  BY <1>1, <1>2, <1>3 DEF Inv, InRollback, InAuthorize, InCleanup, Holds, Planning,
  Undisturbed, RollingBack, terminal, Unpruned
<1> QED BY <1>4, <1>5, <1>6, <1>7, <1>8 DEF Inv

\* The candidate runs on clones.
LEMMA PreflightKeeps ==
  ASSUME Inv, Preflight
  PROVE  Inv'
<1>1. /\ pc = "sandbox" /\ pc' = "tidy"
  BY DEF Preflight, Go, After
<1>2. sandbox' \subseteq Ops
  BY <1>1 DEF Preflight, Inv, TypeOK, InPlanning, InCleanup, Updating, Recorded, Real
<1>3. UNCHANGED <<journal, history, compose, cont, data, mounted, snap, newer, tags,
      gate, run, caller, due, unit, crashes, faults, actions>>
  BY Zenon DEF Preflight, Go, Saves, disk, env, exceptJournal, exceptGates, exceptCompose,
  exceptData, exceptSnap, exceptSandbox
<1>4. TypeOK'
  BY <1>1, <1>2, <1>3 DEF Inv, TypeOK, Steps, After
<1>5. RollbackPointKept' /\ Recorded' /\ Outcome'
  BY <1>1, <1>2, <1>3 DEF Inv, RollbackPointKept, Recorded, Outcome, Planning, Undisturbed,
  Real, terminal
<1>6. Gated' /\ Unchanged' /\ Changed' /\ AuthorizedRuns'
  BY <1>1, <1>2, <1>3 DEF Inv, Gated, Unchanged, Changed, AuthorizedRuns, Holds, Settled,
  Planning, Undisturbed, Runs, Updating, terminal, AllMounted
<1>7. InPlanning' /\ InSuppress' /\ InUpdate'
  BY <1>1, <1>2, <1>3 DEF Inv, InPlanning, InSuppress, InUpdate, Runs, Updating,
  RollingBack, AllMounted
<1>8. InRollback' /\ InAuthorize' /\ InCleanup'
  BY <1>1, <1>2, <1>3 DEF Inv, InRollback, InAuthorize, InCleanup, Holds, Planning,
  Undisturbed, RollingBack, terminal, Unpruned
<1> QED BY <1>4, <1>5, <1>6, <1>7, <1>8 DEF Inv

\* The clones go.
LEMMA TidyPreflightKeeps ==
  ASSUME Inv, TidyPreflight
  PROVE  Inv'
<1>1. /\ pc = "tidy" /\ pc' = "fencing"
  BY DEF TidyPreflight, Go, After
<1>2. sandbox' \subseteq Ops
  BY <1>1 DEF TidyPreflight, Inv, TypeOK, InPlanning, InCleanup, Updating, Recorded, Real
<1>3. UNCHANGED <<journal, history, compose, cont, data, mounted, snap, newer, tags,
      gate, run, caller, due, unit, crashes, faults, actions>>
  BY Zenon DEF TidyPreflight, Go, Saves, disk, env, exceptJournal, exceptGates,
  exceptCompose, exceptData, exceptSnap, exceptSandbox
<1>4. TypeOK'
  BY <1>1, <1>2, <1>3 DEF Inv, TypeOK, Steps, After
<1>5. RollbackPointKept' /\ Recorded' /\ Outcome'
  BY <1>1, <1>2, <1>3 DEF Inv, RollbackPointKept, Recorded, Outcome, Planning, Undisturbed,
  Real, terminal
<1>6. Gated' /\ Unchanged' /\ Changed' /\ AuthorizedRuns'
  BY <1>1, <1>2, <1>3 DEF Inv, Gated, Unchanged, Changed, AuthorizedRuns, Holds, Settled,
  Planning, Undisturbed, Runs, Updating, terminal, AllMounted
<1>7. InPlanning' /\ InSuppress' /\ InUpdate'
  BY <1>1, <1>2, <1>3 DEF Inv, InPlanning, InSuppress, InUpdate, Runs, Updating,
  RollingBack, AllMounted
<1>8. InRollback' /\ InAuthorize' /\ InCleanup'
  BY <1>1, <1>2, <1>3 DEF Inv, InRollback, InAuthorize, InCleanup, Holds, Planning,
  Undisturbed, RollingBack, terminal, Unpruned
<1> QED BY <1>4, <1>5, <1>6, <1>7, <1>8 DEF Inv

\* The clones go.
LEMMA CleanKeeps ==
  ASSUME Inv, Clean
  PROVE  Inv'
<1>1. /\ pc = "clean" /\ pc' = "cleaned"
  BY DEF Clean, Go, After
<1>2. sandbox' \subseteq Ops
  BY <1>1 DEF Clean, Inv, TypeOK, InPlanning, InCleanup, Updating, Recorded, Real
<1>3. UNCHANGED <<journal, history, compose, cont, data, mounted, snap, newer, tags,
      gate, run, caller, due, unit, crashes, faults, actions>>
  BY Zenon DEF Clean, Go, Saves, disk, env, exceptJournal, exceptGates, exceptCompose,
  exceptData, exceptSnap, exceptSandbox
<1>4. TypeOK'
  BY <1>1, <1>2, <1>3 DEF Inv, TypeOK, Steps
<1>5. RollbackPointKept' /\ Recorded' /\ Outcome'
  BY <1>1, <1>2, <1>3 DEF Inv, RollbackPointKept, Recorded, Outcome, Planning, Undisturbed,
  Real, terminal
<1>6. Gated' /\ Unchanged' /\ Changed' /\ AuthorizedRuns'
  BY <1>1, <1>2, <1>3 DEF Inv, Gated, Unchanged, Changed, AuthorizedRuns, Holds, Settled,
  Planning, Undisturbed, Runs, Updating, terminal, AllMounted
<1>7. InPlanning' /\ InSuppress' /\ InUpdate'
  BY <1>1, <1>2, <1>3 DEF Inv, InPlanning, InSuppress, InUpdate, Runs, Updating,
  RollingBack, AllMounted
<1>8. InRollback' /\ InAuthorize' /\ InCleanup'
  BY <1>1, <1>2, <1>3 DEF Inv, InRollback, InAuthorize, InCleanup, Holds, Planning,
  Undisturbed, RollingBack, terminal, Unpruned
<1> QED BY <1>4, <1>5, <1>6, <1>7, <1>8 DEF Inv

\* The clones go.
LEMMA AbandonPreflightKeeps ==
  ASSUME Inv, AbandonPreflight
  PROVE  Inv'
<1>1. /\ pc = "abandonClean" /\ pc' = "failed"
  BY DEF AbandonPreflight, Go, After
<1>2. sandbox' \subseteq Ops
  BY <1>1 DEF AbandonPreflight, Inv, TypeOK, InPlanning, InCleanup, Updating, Recorded,
  Real
<1>3. UNCHANGED <<journal, history, compose, cont, data, mounted, snap, newer, tags,
      gate, run, caller, due, unit, crashes, faults, actions>>
  BY Zenon DEF AbandonPreflight, Go, Saves, disk, env, exceptJournal, exceptGates,
  exceptCompose, exceptData, exceptSnap, exceptSandbox
<1>4. TypeOK'
  BY <1>1, <1>2, <1>3 DEF Inv, TypeOK, Steps
<1>5. RollbackPointKept' /\ Recorded' /\ Outcome'
  BY <1>1, <1>2, <1>3 DEF Inv, RollbackPointKept, Recorded, Outcome, Planning, Undisturbed,
  Real, terminal
<1>6. Gated' /\ Unchanged' /\ Changed' /\ AuthorizedRuns'
  BY <1>1, <1>2, <1>3 DEF Inv, Gated, Unchanged, Changed, AuthorizedRuns, Holds, Settled,
  Planning, Undisturbed, Runs, Updating, terminal, AllMounted
<1>7. InPlanning' /\ InSuppress' /\ InUpdate'
  BY <1>1, <1>2, <1>3 DEF Inv, InPlanning, InSuppress, InUpdate, Runs, Updating,
  RollingBack, AllMounted
<1>8. InRollback' /\ InAuthorize' /\ InCleanup'
  BY <1>1, <1>2, <1>3 DEF Inv, InRollback, InAuthorize, InCleanup, Holds, Planning,
  Undisturbed, RollingBack, terminal, Unpruned
<1> QED BY <1>4, <1>5, <1>6, <1>7, <1>8 DEF Inv

\* The fence is journaled before it closes.
LEMMA SaveFencingKeeps ==
  ASSUME Inv, SaveFencing
  PROVE  Inv'
<1>1. /\ pc = "fencing" /\ pc' = "fence"
  BY DEF SaveFencing, Go, After
<1>2. /\ journal' \in JournalRecords /\ journal'.op = journal.op /\ journal'.state = "running"
      /\ journal'.phase = "fencing" /\ journal'.src = journal.src /\ journal'.tgt = journal.tgt
      /\ journal'.cleanup = journal.cleanup
      /\ journal'.snap <=> journal.snap
      /\ journal'.prod <=> journal.prod
      /\ journal'.auth <=> journal.auth
  BY SaveFields DEF SaveFencing, Saves, Inv, States, Phases
<1>3. UNCHANGED <<history, compose, cont, data, mounted, snap, newer, tags, sandbox,
      gate, run, caller, due, unit, crashes, faults, actions>>
  BY Zenon DEF SaveFencing, Go, Saves, disk, env, exceptJournal, exceptGates,
  exceptCompose, exceptData, exceptSnap, exceptSandbox
<1>4. TypeOK'
  BY <1>1, <1>2, <1>3 DEF Inv, TypeOK, Steps, After
<1>5. RollbackPointKept' /\ Recorded' /\ Outcome'
  BY <1>1, <1>2, <1>3 DEF Inv, RollbackPointKept, Recorded, Outcome, InPlanning, Planning,
  Undisturbed, Real, Updating, terminal
<1>6. Gated' /\ Unchanged' /\ Changed' /\ AuthorizedRuns'
  BY <1>1, <1>2, <1>3 DEF Inv, Gated, Unchanged, Changed, AuthorizedRuns, InPlanning,
  Holds, Settled, Planning, Undisturbed, Runs, Updating, terminal, AllMounted
<1>7. InPlanning' /\ InSuppress' /\ InUpdate'
  BY <1>1, <1>2, <1>3 DEF Inv, InPlanning, InSuppress, InUpdate, Runs, Updating,
  RollingBack, AllMounted
<1>8. InRollback' /\ InAuthorize' /\ InCleanup'
  BY <1>1, <1>2, <1>3 DEF Inv, InRollback, InAuthorize, InCleanup, Holds, Planning,
  Undisturbed, RollingBack, terminal, Unpruned
<1> QED BY <1>4, <1>5, <1>6, <1>7, <1>8 DEF Inv

\* Mutations are blocked.
LEMMA FenceKeeps ==
  ASSUME Inv, Fence
  PROVE  Inv'
<1>1. /\ pc = "fence" /\ pc' = "gate"
  BY DEF Fence, Go, After
<1>2. /\ run' \in Flags /\ run'.blocked
      /\ run'.masked <=> run.masked
  BY DEF Fence, Inv, TypeOK, Flags
<1>3. UNCHANGED <<journal, history, compose, cont, data, mounted, snap, newer, tags,
      sandbox, gate, caller, due, unit, crashes, faults, actions>>
  BY Zenon DEF Fence, Go, Saves, disk, env, exceptJournal, exceptGates, exceptCompose,
  exceptData, exceptSnap, exceptSandbox
<1>4. TypeOK'
  BY <1>1, <1>2, <1>3 DEF Inv, TypeOK, Steps, After
<1>5. RollbackPointKept' /\ Recorded' /\ Outcome'
  BY <1>1, <1>2, <1>3 DEF Inv, RollbackPointKept, Recorded, Outcome, InUpdate, Planning,
  Undisturbed, Real, Runs, Updating, terminal, AllMounted
<1>6. Gated' /\ Unchanged' /\ Changed' /\ AuthorizedRuns'
  BY <1>1, <1>2, <1>3 DEF Inv, Gated, Unchanged, Changed, AuthorizedRuns, Holds, Settled,
  Planning, Undisturbed, Runs, Updating, terminal, AllMounted
<1>7. InPlanning' /\ InSuppress' /\ InUpdate'
  BY <1>1, <1>2, <1>3 DEF Inv, InPlanning, InSuppress, InUpdate, Runs, Updating,
  RollingBack, AllMounted
<1>8. InRollback' /\ InAuthorize' /\ InCleanup'
  BY <1>1, <1>2, <1>3 DEF Inv, InRollback, InAuthorize, InCleanup, Holds, Planning,
  Undisturbed, RollingBack, terminal, Unpruned
<1> QED BY <1>4, <1>5, <1>6, <1>7, <1>8 DEF Inv

\* A closed gate needs nothing of the data.
LEMMA CloseGateKeeps ==
  ASSUME Inv, CloseGate
  PROVE  Inv'
<1>1. /\ pc = "gate" /\ pc' = "mask"
  BY DEF CloseGate, Go, After
<1>2. /\ run' \in Flags /\ run'.blocked
      /\ run'.masked <=> run.masked
  BY DEF CloseGate, Inv, TypeOK, Flags
<1>3. gate' = TRUE
  BY DEF CloseGate
<1>4. UNCHANGED <<journal, history, compose, cont, data, mounted, snap, newer, tags,
      sandbox, caller, due, unit, crashes, faults, actions>>
  BY Zenon DEF CloseGate, Go, Saves, disk, env, exceptJournal, exceptGates, exceptCompose,
  exceptData, exceptSnap, exceptSandbox
<1>5. TypeOK'
  BY <1>1, <1>2, <1>3, <1>4 DEF Inv, TypeOK, Steps, After
<1>6. RollbackPointKept' /\ Recorded' /\ Outcome'
  BY <1>1, <1>2, <1>3, <1>4 DEF Inv, RollbackPointKept, Recorded, Outcome, InSuppress,
  Planning, Undisturbed, Real, Updating, RollingBack, terminal
<1>7. Gated' /\ Unchanged' /\ Changed' /\ AuthorizedRuns'
  BY <1>1, <1>2, <1>3, <1>4 DEF Inv, Gated, Unchanged, Changed, AuthorizedRuns, Holds,
  Settled, Planning, Undisturbed, Runs, Updating, terminal, AllMounted
<1>8. InPlanning' /\ InSuppress' /\ InUpdate'
  BY <1>1, <1>2, <1>3, <1>4 DEF Inv, InPlanning, InSuppress, InUpdate, Runs, Updating,
  RollingBack, AllMounted
<1>9. InRollback' /\ InAuthorize' /\ InCleanup'
  BY <1>1, <1>2, <1>3, <1>4 DEF Inv, InRollback, InAuthorize, InCleanup, Holds, Planning,
  Undisturbed, RollingBack, terminal, Unpruned
<1> QED BY <1>5, <1>6, <1>7, <1>8, <1>9 DEF Inv

\* The unit is masked behind the closed gate.
LEMMA MaskKeeps ==
  ASSUME Inv, Mask
  PROVE  Inv'
<1>1. /\ pc = "mask" /\ pc' = "composeNo"
  BY DEF Mask, Go, After
<1>2. /\ run' \in Flags
      /\ run'.blocked <=> run.blocked
      /\ run'.masked
  BY DEF Mask, Inv, TypeOK, Flags
<1>3. UNCHANGED <<journal, history, compose, cont, data, mounted, snap, newer, tags,
      sandbox, gate, caller, due, unit, crashes, faults, actions>>
  BY Zenon DEF Mask, Go, Saves, disk, env, exceptJournal, exceptGates, exceptCompose,
  exceptData, exceptSnap, exceptSandbox
<1>4. TypeOK'
  BY <1>1, <1>2, <1>3 DEF Inv, TypeOK, Steps, After
<1>5. RollbackPointKept' /\ Recorded' /\ Outcome'
  BY <1>1, <1>2, <1>3 DEF Inv, RollbackPointKept, Recorded, Outcome, InSuppress, Planning,
  Undisturbed, Real, Updating, RollingBack, terminal
<1>6. Gated' /\ Unchanged' /\ Changed' /\ AuthorizedRuns'
  BY <1>1, <1>2, <1>3 DEF Inv, Gated, Unchanged, Changed, AuthorizedRuns, Holds, Settled,
  Planning, Undisturbed, Runs, Updating, terminal, AllMounted
<1>7. InPlanning' /\ InSuppress' /\ InUpdate'
  BY <1>1, <1>2, <1>3 DEF Inv, InPlanning, InSuppress, InUpdate, Runs, Updating,
  RollingBack, AllMounted
<1>8. InRollback' /\ InAuthorize' /\ InCleanup'
  BY <1>1, <1>2, <1>3 DEF Inv, InRollback, InAuthorize, InCleanup, Holds, Planning,
  Undisturbed, RollingBack, terminal, Unpruned
<1> QED BY <1>4, <1>5, <1>6, <1>7, <1>8 DEF Inv

\* The Compose file names the source while the gate is closed.
LEMMA SuppressComposeKeeps ==
  ASSUME Inv, SuppressCompose
  PROVE  Inv'
<1>1. /\ pc = "composeNo" /\ pc' = "policyNo"
  BY DEF SuppressCompose, Go, After
<1>2. journal.src \in Releases
  BY <1>1, ManagementAssumption DEF Inv, InSuppress, Updating, RollingBack, Recorded,
  Undisturbed, Planning, terminal, Real
<1>3. /\ compose' \in ComposeFiles /\ compose'.rel = journal.src /\ compose'.norestart
  BY <1>2 DEF SuppressCompose, ComposeFiles
<1>4. UNCHANGED <<journal, history, cont, data, mounted, snap, newer, tags, sandbox,
      gate, run, caller, due, unit, crashes, faults, actions>>
  BY Zenon DEF SuppressCompose, Go, Saves, disk, env, exceptJournal, exceptGates,
  exceptCompose, exceptData, exceptSnap, exceptSandbox
<1>5. TypeOK'
  BY <1>1, <1>2, <1>3, <1>4 DEF Inv, TypeOK, Steps, After
<1>6. RollbackPointKept' /\ Recorded' /\ Outcome'
  BY <1>1, <1>2, <1>3, <1>4 DEF Inv, RollbackPointKept, Recorded, Outcome, InSuppress,
  Planning, Undisturbed, Real, Updating, RollingBack, terminal
<1>7. Gated' /\ Unchanged' /\ Changed' /\ AuthorizedRuns'
  BY <1>1, <1>2, <1>3, <1>4 DEF Inv, Gated, Unchanged, Changed, AuthorizedRuns, InSuppress,
  Holds, Settled, Planning, Undisturbed, Runs, Updating, RollingBack, terminal, AllMounted
<1>8. InPlanning' /\ InSuppress' /\ InUpdate'
  BY <1>1, <1>2, <1>3, <1>4 DEF Inv, InPlanning, InSuppress, InUpdate, Runs, Updating,
  RollingBack, AllMounted
<1>9. InRollback' /\ InAuthorize' /\ InCleanup'
  BY <1>1, <1>2, <1>3, <1>4 DEF Inv, InRollback, InAuthorize, InCleanup, Holds, Planning,
  Undisturbed, RollingBack, terminal, Unpruned
<1> QED BY <1>5, <1>6, <1>7, <1>8, <1>9 DEF Inv

\* Docker no longer restarts the containers.
LEMMA SuppressPoliciesKeeps ==
  ASSUME Inv, SuppressPolicies
  PROVE  Inv'
<1>1. /\ pc = "policyNo" /\ pc' = "stop"
  BY DEF SuppressPolicies, Go, After
<1>2. /\ cont' \in Containers /\ cont'.rel = cont.rel
      /\ cont'.up <=> cont.up
      /\ cont'.norestart
  BY Zenon DEF SuppressPolicies, Inv, TypeOK, Containers
<1>3. UNCHANGED <<journal, history, compose, data, mounted, snap, newer, tags,
      sandbox, gate, run, caller, due, unit, crashes, faults, actions>>
  BY Zenon DEF SuppressPolicies, Go, Saves, disk, env, exceptJournal, exceptGates,
  exceptCompose, exceptData, exceptSnap, exceptSandbox
<1>4. TypeOK'
  BY <1>1, <1>2, <1>3 DEF Inv, TypeOK, Steps
<1>5. RollbackPointKept' /\ Recorded' /\ Outcome'
  BY <1>1, <1>2, <1>3 DEF Inv, RollbackPointKept, Recorded, Outcome, InSuppress, Planning,
  Undisturbed, Real, Updating, RollingBack, terminal
<1>6. Gated' /\ Unchanged' /\ Changed' /\ AuthorizedRuns'
  BY <1>1, <1>2, <1>3 DEF Inv, Gated, Unchanged, Changed, AuthorizedRuns, Holds, Settled,
  Planning, Undisturbed, Runs, Updating, terminal, AllMounted
<1>7. InPlanning' /\ InSuppress' /\ InUpdate'
  BY <1>1, <1>2, <1>3 DEF Inv, InPlanning, InSuppress, InUpdate, Runs, Updating,
  RollingBack, AllMounted
<1>8. InRollback' /\ InAuthorize' /\ InCleanup'
  BY <1>1, <1>2, <1>3 DEF Inv, InRollback, InAuthorize, InCleanup, Holds, Planning,
  Undisturbed, RollingBack, terminal, Unpruned
<1> QED BY <1>4, <1>5, <1>6, <1>7, <1>8 DEF Inv

\* After the stop, an update goes on to its snapshot and a rollback to its data.
LEMMA StopKeeps ==
  ASSUME Inv, Stop
  PROVE  Inv'
<1>1. /\ pc = "stop"
      /\ pc' = IF journal.phase = "fencing" THEN "snapshot"
               ELSE IF journal.prod THEN "remove" ELSE "writePrevious"
      /\ caller' = caller
  BY DEF Stop, Jump, Stopped
<1>2. /\ cont' \in Containers /\ cont'.rel = cont.rel /\ ~cont'.up
      /\ cont'.norestart <=> cont.norestart
  BY Zenon DEF Stop, Inv, TypeOK, Containers
<1>3. UNCHANGED <<journal, history, compose, data, mounted, snap, newer, tags,
      sandbox, gate, run, caller, due, unit, crashes, faults, actions>>
  BY Zenon DEF Stop, Jump, Saves, disk, env, exceptJournal, exceptGates, exceptCompose,
  exceptData, exceptSnap, exceptSandbox
<1>4. TypeOK'
  BY <1>1, <1>2, <1>3 DEF Inv, TypeOK, Steps, After
<1>5. RollbackPointKept' /\ Recorded' /\ Outcome'
  BY <1>1, <1>2, <1>3 DEF Inv, RollbackPointKept, Recorded, Outcome, Planning, Undisturbed,
  Real, terminal
<1>6. Gated' /\ Unchanged' /\ Changed' /\ AuthorizedRuns'
  BY <1>1, <1>2, <1>3 DEF Inv, Gated, Unchanged, Changed, AuthorizedRuns, Holds, Settled,
  Planning, Undisturbed, Runs, Updating, terminal, AllMounted
<1>7. InPlanning' /\ InSuppress' /\ InUpdate'
  BY <1>1, <1>2, <1>3 DEF Inv, InPlanning, InSuppress, InUpdate, Runs, Updating,
  RollingBack, AllMounted
<1>8. InRollback' /\ InAuthorize' /\ InCleanup'
  BY <1>1, <1>2, <1>3 DEF Inv, Recorded, Unchanged, InSuppress, InRollback, InAuthorize,
  InCleanup, Holds, Planning, Undisturbed, Real, Updating, RollingBack, terminal, Unpruned
<1> QED BY <1>4, <1>5, <1>6, <1>7, <1>8 DEF Inv

\* The snapshot is journaled before it is taken.
LEMMA SaveSnapshotKeeps ==
  ASSUME Inv, SaveSnapshot
  PROVE  Inv'
<1>1. /\ pc = "snapshot" /\ pc' = "zfsSnapshot"
  BY DEF SaveSnapshot, Go, After
<1>2. /\ journal' = [Save("running", "snapshot") EXCEPT !.snap = TRUE] /\ "running" \in States
      /\ "snapshot" \in Phases
  BY DEF SaveSnapshot, Saves, States, Phases
<1>3. journal' \in JournalRecords
  BY <1>2, SaveFields, FlagSet DEF Inv
<1>4. /\ journal'.op = journal.op /\ journal'.state = "running" /\ journal'.phase = "snapshot"
      /\ journal'.src = journal.src /\ journal'.tgt = journal.tgt
      /\ journal'.cleanup = journal.cleanup /\ journal'.snap
      /\ journal'.prod <=> journal.prod
      /\ journal'.auth <=> journal.auth
  BY <1>2, SaveFields DEF Inv, JournalRecords
<1>5. UNCHANGED <<history, compose, cont, data, mounted, snap, newer, tags, sandbox,
      gate, run, caller, due, unit, crashes, faults, actions>>
  BY Zenon DEF SaveSnapshot, Go, Saves, disk, env, exceptJournal, exceptGates,
  exceptCompose, exceptData, exceptSnap, exceptSandbox
<1>6. TypeOK'
  BY <1>1, <1>2, <1>3, <1>4, <1>5 DEF Inv, TypeOK, Steps, After
<1>7. RollbackPointKept' /\ Recorded' /\ Outcome'
  BY <1>1, <1>2, <1>3, <1>4, <1>5 DEF Inv, RollbackPointKept, Recorded, Outcome, InUpdate,
  Planning, Undisturbed, Real, Runs, Updating, terminal, AllMounted
<1>8. Gated' /\ Unchanged' /\ Changed' /\ AuthorizedRuns'
  BY <1>1, <1>2, <1>3, <1>4, <1>5 DEF Inv, Gated, Unchanged, Changed, AuthorizedRuns,
  InUpdate, Holds, Settled, Planning, Undisturbed, Runs, Updating, terminal, AllMounted
<1>9. InPlanning' /\ InSuppress' /\ InUpdate'
  BY <1>1, <1>2, <1>3, <1>4, <1>5 DEF Inv, Recorded, InPlanning, InSuppress, InUpdate,
  Planning, Undisturbed, Real, Runs, Updating, RollingBack, terminal, AllMounted
<1>10. InRollback' /\ InAuthorize' /\ InCleanup'
  BY <1>1, <1>2, <1>3, <1>4, <1>5 DEF Inv, InRollback, InAuthorize, InCleanup, Holds,
  Planning, Undisturbed, RollingBack, terminal, Unpruned
<1> QED BY <1>6, <1>7, <1>8, <1>9, <1>10 DEF Inv

\* The snapshot holds what the stopped source wrote.
LEMMA SnapshotKeeps ==
  ASSUME Inv, Snapshot
  PROVE  Inv'
<1>1. /\ pc = "zfsSnapshot" /\ pc' = "hold"
  BY DEF Snapshot, Go, After
<1>2. journal.op \in Ops
  BY <1>1, ManagementAssumption DEF Inv, TypeOK, InUpdate, InRollback, Updating,
  RollingBack, Recorded, Undisturbed, Planning, terminal, Real
<1>3. /\ snap' = [snap EXCEPT ![journal.op] = [made |-> "taken", data |-> data]]
      /\ newer' = FALSE
  BY DEF Snapshot
<1>4. /\ snap' \in [Ops -> Snapshots] /\ snap'[journal.op].made = "taken"
      /\ snap'[journal.op].data = data
  BY <1>2, <1>3 DEF Inv, TypeOK, Snapshots
<1>5. UNCHANGED <<journal, history, compose, cont, data, mounted, tags, sandbox,
      gate, run, caller, due, unit, crashes, faults, actions>>
  BY Zenon DEF Snapshot, Go, Saves, disk, env, exceptJournal, exceptGates, exceptCompose,
  exceptData, exceptSnap, exceptSandbox
<1>6. TypeOK'
  BY <1>1, <1>2, <1>3, <1>4, <1>5, ManagementAssumption DEF Inv, TypeOK, Steps, After,
  Callers
<1>7. RollbackPointKept' /\ Recorded' /\ Outcome'
  BY <1>1, <1>2, <1>3, <1>4, <1>5 DEF Inv, RollbackPointKept, Recorded, Outcome, InUpdate,
  Planning, Undisturbed, Real, Runs, Updating, terminal, AllMounted
<1>8. Gated' /\ Unchanged' /\ Changed' /\ AuthorizedRuns'
  BY <1>1, <1>2, <1>3, <1>4, <1>5 DEF Inv, Gated, Unchanged, Changed, AuthorizedRuns,
  Holds, Settled, Planning, Undisturbed, Runs, Updating, terminal, AllMounted
<1>9. InPlanning' /\ InSuppress' /\ InUpdate'
  BY <1>1, <1>2, <1>3, <1>4, <1>5 DEF Inv, Recorded, Unchanged, InPlanning, InSuppress,
  InUpdate, Holds, Planning, Undisturbed, Real, Runs, Updating, RollingBack, terminal,
  AllMounted
<1>10. InRollback' /\ InAuthorize' /\ InCleanup'
  BY <1>1, <1>2, <1>3, <1>4, <1>5 DEF Inv, InRollback, InAuthorize, InCleanup, Holds,
  Planning, Undisturbed, RollingBack, terminal, Unpruned
<1> QED BY <1>6, <1>7, <1>8, <1>9, <1>10 DEF Inv

\* The hold keeps the snapshot's data.
LEMMA HoldKeeps ==
  ASSUME Inv, Hold
  PROVE  Inv'
<1>1. /\ pc = "hold" /\ pc' = "installing"
  BY DEF Hold, Go, After
<1>2. journal.op \in Ops
  BY <1>1, ManagementAssumption DEF Inv, TypeOK, InUpdate, InRollback, Updating,
  RollingBack, Recorded, Undisturbed, Planning, terminal, Real
<1>3. snap' = [snap EXCEPT ![journal.op].made = "held"]
  BY DEF Hold
<1>4. /\ snap' \in [Ops -> Snapshots] /\ snap'[journal.op].made = "held"
      /\ snap'[journal.op].data = snap[journal.op].data
  BY <1>2, <1>3 DEF Inv, TypeOK, Snapshots
<1>5. UNCHANGED <<journal, history, compose, cont, data, mounted, newer, tags,
      sandbox, gate, run, caller, due, unit, crashes, faults, actions>>
  BY Zenon DEF Hold, Go, Saves, disk, env, exceptJournal, exceptGates, exceptCompose,
  exceptData, exceptSnap, exceptSandbox
<1>6. TypeOK'
  BY <1>1, <1>2, <1>3, <1>4, <1>5 DEF Inv, TypeOK, Steps, After
<1>7. RollbackPointKept' /\ Recorded' /\ Outcome'
  BY <1>1, <1>2, <1>3, <1>4, <1>5 DEF Inv, RollbackPointKept, Recorded, Outcome, Planning,
  Undisturbed, Real, terminal
<1>8. Gated' /\ Unchanged' /\ Changed' /\ AuthorizedRuns'
  BY <1>1, <1>2, <1>3, <1>4, <1>5 DEF Inv, Gated, Unchanged, Changed, AuthorizedRuns,
  Holds, Settled, Planning, Undisturbed, Runs, Updating, terminal, AllMounted
<1>9. InPlanning' /\ InSuppress' /\ InUpdate'
  BY <1>1, <1>2, <1>3, <1>4, <1>5 DEF Inv, InPlanning, InSuppress, InUpdate, Runs,
  Updating, RollingBack, AllMounted
<1>10. InRollback' /\ InAuthorize' /\ InCleanup'
  BY <1>1, <1>2, <1>3, <1>4, <1>5 DEF Inv, InRollback, InAuthorize, InCleanup, Holds,
  Planning, Undisturbed, RollingBack, terminal, Unpruned
<1> QED BY <1>6, <1>7, <1>8, <1>9, <1>10 DEF Inv

\* Production is declared changed once the way back is held.
LEMMA SaveInstallingKeeps ==
  ASSUME Inv, SaveInstalling
  PROVE  Inv'
<1>1. /\ pc = "installing" /\ pc' = "writeCandidate"
  BY DEF SaveInstalling, Go, After
<1>2. /\ journal' = [Save("running", "installing") EXCEPT !.prod = TRUE] /\ "running" \in States
      /\ "installing" \in Phases
  BY DEF SaveInstalling, Saves, States, Phases
<1>3. journal' \in JournalRecords
  BY <1>2, SaveFields, FlagSet DEF Inv
<1>4. /\ journal'.op = journal.op /\ journal'.state = "running" /\ journal'.phase = "installing"
      /\ journal'.src = journal.src /\ journal'.tgt = journal.tgt
      /\ journal'.cleanup = journal.cleanup
      /\ journal'.snap <=> journal.snap
      /\ journal'.prod
      /\ journal'.auth <=> journal.auth
  BY <1>2, SaveFields DEF Inv, JournalRecords
<1>5. UNCHANGED <<history, compose, cont, data, mounted, snap, newer, tags, sandbox,
      gate, run, caller, due, unit, crashes, faults, actions>>
  BY Zenon DEF SaveInstalling, Go, Saves, disk, env, exceptJournal, exceptGates,
  exceptCompose, exceptData, exceptSnap, exceptSandbox
<1>6. TypeOK'
  BY <1>1, <1>2, <1>3, <1>4, <1>5 DEF Inv, TypeOK, Steps, After
<1>7. RollbackPointKept' /\ Recorded' /\ Outcome'
  BY <1>1, <1>2, <1>3, <1>4, <1>5 DEF Inv, RollbackPointKept, Recorded, Outcome, InUpdate,
  Planning, Undisturbed, Real, Runs, Updating, terminal, AllMounted
<1>8. Gated' /\ Unchanged' /\ Changed' /\ AuthorizedRuns'
  BY <1>1, <1>2, <1>3, <1>4, <1>5 DEF Inv, Recorded, Gated, Unchanged, Changed,
  AuthorizedRuns, InUpdate, Holds, Settled, Planning, Undisturbed, Real, Runs, Updating,
  terminal, AllMounted
<1>9. InPlanning' /\ InSuppress' /\ InUpdate'
  BY <1>1, <1>2, <1>3, <1>4, <1>5 DEF Inv, InPlanning, InSuppress, InUpdate, Runs,
  Updating, RollingBack, AllMounted
<1>10. InRollback' /\ InAuthorize' /\ InCleanup'
  BY <1>1, <1>2, <1>3, <1>4, <1>5 DEF Inv, InRollback, InAuthorize, InCleanup, Holds,
  Planning, Undisturbed, RollingBack, terminal, Unpruned
<1> QED BY <1>6, <1>7, <1>8, <1>9, <1>10 DEF Inv

\* The Compose file names the candidate, behind the gate.
LEMMA WriteCandidateKeeps ==
  ASSUME Inv, WriteCandidate
  PROVE  Inv'
<1>1. /\ pc = "writeCandidate" /\ pc' = "upCandidate"
  BY DEF WriteCandidate, Go, After
<1>2. AllMounted
  BY DEF WriteCandidate
<1>3. journal.tgt \in Releases
  BY <1>1, ManagementAssumption DEF Inv, TypeOK, InUpdate, InRollback, Updating,
  RollingBack, Recorded, Undisturbed, Planning, terminal, Real
<1>4. /\ compose' \in ComposeFiles /\ compose'.rel = journal.tgt /\ compose'.norestart
  BY <1>3 DEF WriteCandidate, ComposeFiles
<1>5. UNCHANGED <<journal, history, cont, data, mounted, snap, newer, tags, sandbox,
      gate, run, caller, due, unit, crashes, faults, actions>>
  BY Zenon DEF WriteCandidate, Go, Saves, disk, env, exceptJournal, exceptGates,
  exceptCompose, exceptData, exceptSnap, exceptSandbox
<1>6. TypeOK'
  BY <1>1, <1>2, <1>3, <1>4, <1>5 DEF Inv, TypeOK, Steps, After
<1>7. RollbackPointKept' /\ Recorded' /\ Outcome'
  BY <1>1, <1>2, <1>3, <1>4, <1>5 DEF Inv, RollbackPointKept, Recorded, Outcome, InUpdate,
  Planning, Undisturbed, Real, Runs, Updating, terminal, AllMounted
<1>8. Gated' /\ Unchanged' /\ Changed' /\ AuthorizedRuns'
  BY <1>1, <1>2, <1>3, <1>4, <1>5 DEF Inv, Gated, Unchanged, Changed, AuthorizedRuns,
  InUpdate, Holds, Settled, Planning, Undisturbed, Runs, Updating, terminal, AllMounted
<1>9. InPlanning' /\ InSuppress' /\ InUpdate'
  BY <1>1, <1>2, <1>3, <1>4, <1>5 DEF Inv, InPlanning, InSuppress, InUpdate, Runs,
  Updating, RollingBack, AllMounted
<1>10. InRollback' /\ InAuthorize' /\ InCleanup'
  BY <1>1, <1>2, <1>3, <1>4, <1>5 DEF Inv, InRollback, InAuthorize, InCleanup, Holds,
  Planning, Undisturbed, RollingBack, terminal, Unpruned
<1> QED BY <1>6, <1>7, <1>8, <1>9, <1>10 DEF Inv

\* The candidate may write any of the datasets.
LEMMA UpCandidateKeeps ==
  ASSUME Inv, UpCandidate
  PROVE  Inv'
<1>1. /\ pc = "upCandidate" /\ pc' = "checking"
  BY DEF UpCandidate, Go, After
<1>2. /\ cont' \in Containers /\ cont'.rel = compose.rel /\ cont'.up
      /\ cont'.norestart <=> compose.norestart
  BY DEF UpCandidate, Up, Inv, TypeOK, Containers, ComposeFiles
<1>3. /\ data' \in [Datasets -> Releases]
      /\ \A d \in Datasets : data'[d] \in {compose.rel, data[d]}
  BY DEF UpCandidate, Up, Inv, TypeOK, ComposeFiles
<1>4. UNCHANGED <<journal, history, compose, mounted, snap, newer, tags, sandbox,
      gate, run, caller, due, unit, crashes, faults, actions>>
  BY Zenon DEF UpCandidate, Go, Saves, disk, env, exceptJournal, exceptGates,
  exceptCompose, exceptData, exceptSnap, exceptSandbox
<1>5. TypeOK'
  BY <1>1, <1>2, <1>3, <1>4 DEF Inv, TypeOK, Steps, After
<1>6. RollbackPointKept' /\ Recorded' /\ Outcome'
  BY <1>1, <1>2, <1>3, <1>4 DEF Inv, RollbackPointKept, Recorded, Outcome, Planning,
  Undisturbed, Real, terminal
<1>7. Gated' /\ Unchanged' /\ Changed' /\ AuthorizedRuns'
  BY <1>1, <1>2, <1>3, <1>4, ManagementAssumption DEF Inv, Recorded, Gated, Unchanged,
  Changed, AuthorizedRuns, InUpdate, Holds, Settled, Planning, Undisturbed, Real, Runs,
  Updating, terminal, AllMounted
<1>8. InPlanning' /\ InSuppress' /\ InUpdate'
  BY <1>1, <1>2, <1>3, <1>4 DEF Inv, InPlanning, InSuppress, InUpdate, Runs, Updating,
  RollingBack, AllMounted
<1>9. InRollback' /\ InAuthorize' /\ InCleanup'
  BY <1>1, <1>2, <1>3, <1>4 DEF Inv, InRollback, InAuthorize, InCleanup, Holds, Planning,
  Undisturbed, RollingBack, terminal, Unpruned
<1> QED BY <1>5, <1>6, <1>7, <1>8, <1>9 DEF Inv

\* The check is journaled.
LEMMA SaveCheckingKeeps ==
  ASSUME Inv, SaveChecking
  PROVE  Inv'
<1>1. /\ pc = "checking" /\ pc' = "healthy"
  BY DEF SaveChecking, Go, After
<1>2. /\ journal' \in JournalRecords /\ journal'.op = journal.op /\ journal'.state = "running"
      /\ journal'.phase = "checking" /\ journal'.src = journal.src /\ journal'.tgt = journal.tgt
      /\ journal'.cleanup = journal.cleanup
      /\ journal'.snap <=> journal.snap
      /\ journal'.prod <=> journal.prod
      /\ journal'.auth <=> journal.auth
  BY SaveFields DEF SaveChecking, Saves, Inv, States, Phases
<1>3. UNCHANGED <<history, compose, cont, data, mounted, snap, newer, tags, sandbox,
      gate, run, caller, due, unit, crashes, faults, actions>>
  BY Zenon DEF SaveChecking, Go, Saves, disk, env, exceptJournal, exceptGates,
  exceptCompose, exceptData, exceptSnap, exceptSandbox
<1>4. TypeOK'
  BY <1>1, <1>2, <1>3 DEF Inv, TypeOK, Steps, After
<1>5. RollbackPointKept' /\ Recorded' /\ Outcome'
  BY <1>1, <1>2, <1>3 DEF Inv, RollbackPointKept, Recorded, Outcome, InUpdate, Planning,
  Undisturbed, Real, Runs, Updating, terminal, AllMounted
<1>6. Gated' /\ Unchanged' /\ Changed' /\ AuthorizedRuns'
  BY <1>1, <1>2, <1>3 DEF Inv, Gated, Unchanged, Changed, AuthorizedRuns, InUpdate, Holds,
  Settled, Planning, Undisturbed, Runs, Updating, terminal, AllMounted
<1>7. InPlanning' /\ InSuppress' /\ InUpdate'
  BY <1>1, <1>2, <1>3 DEF Inv, InPlanning, InSuppress, InUpdate, Runs, Updating,
  RollingBack, AllMounted
<1>8. InRollback' /\ InAuthorize' /\ InCleanup'
  BY <1>1, <1>2, <1>3 DEF Inv, InRollback, InAuthorize, InCleanup, Holds, Planning,
  Undisturbed, RollingBack, terminal, Unpruned
<1> QED BY <1>4, <1>5, <1>6, <1>7, <1>8 DEF Inv

\* A healthy release has written every dataset.
LEMMA HealthyKeeps ==
  ASSUME Inv, Healthy
  PROVE  Inv'
<1>1. CASE Go("healthy") /\ cont.rel = journal.tgt
  <2>1. /\ pc = "healthy" /\ pc' = "authorizing" /\ cont.rel = journal.tgt /\ cont.up
    BY <1>1 DEF Healthy, Go, After
  <2>2. cont.rel \in Releases
    BY <2>1 DEF Inv, Gated, TypeOK, Containers
  <2>3. /\ data' \in [Datasets -> Releases]
        /\ \A d \in Datasets : data'[d] = cont.rel
    BY <2>2 DEF Healthy
  <2>4. UNCHANGED <<journal, history, compose, cont, mounted, snap, newer, tags,
        sandbox, gate, run, caller, due, unit, crashes, faults, actions>>
    BY <1>1, Zenon DEF Healthy, Go, Saves, disk, env, exceptJournal, exceptGates,
    exceptCompose, exceptData, exceptSnap, exceptSandbox
  <2>5. TypeOK'
    BY <2>1, <2>2, <2>3, <2>4 DEF Inv, TypeOK, Steps, After
  <2>6. RollbackPointKept' /\ Recorded' /\ Outcome'
    BY <2>1, <2>2, <2>3, <2>4 DEF Inv, RollbackPointKept, Recorded, Outcome, Planning,
    Undisturbed, Real, terminal
  <2>7. Gated' /\ Unchanged' /\ Changed' /\ AuthorizedRuns'
    BY <2>1, <2>2, <2>3, <2>4 DEF Inv, Gated, Unchanged, Changed, AuthorizedRuns, Holds,
    Settled, Planning, Undisturbed, Runs, Updating, terminal, AllMounted
  <2>8. InPlanning' /\ InSuppress' /\ InUpdate'
    BY <2>1, <2>2, <2>3, <2>4 DEF Inv, InPlanning, InSuppress, InUpdate, InRollback, Holds,
    Planning, Undisturbed, Runs, Updating, RollingBack, terminal, AllMounted
  <2>9. InRollback' /\ InAuthorize' /\ InCleanup'
    BY <2>1, <2>2, <2>3, <2>4 DEF Inv, InRollback, InAuthorize, InCleanup, Holds, Planning,
    Undisturbed, RollingBack, terminal, Unpruned
  <2> QED BY <2>5, <2>6, <2>7, <2>8, <2>9 DEF Inv
<1>2. CASE Go("healthyPrevious") /\ cont.rel = journal.src
  <2>1. /\ pc = "healthyPrevious" /\ pc' = "authorizingPrevious" /\ cont.rel = journal.src
        /\ cont.up
    BY <1>2 DEF Healthy, Go, After
  <2>2. cont.rel \in Releases
    BY <2>1 DEF Inv, Gated, TypeOK, Containers
  <2>3. /\ data' \in [Datasets -> Releases]
        /\ \A d \in Datasets : data'[d] = cont.rel
    BY <2>2 DEF Healthy
  <2>4. UNCHANGED <<journal, history, compose, cont, mounted, snap, newer, tags,
        sandbox, gate, run, caller, due, unit, crashes, faults, actions>>
    BY <1>2, Zenon DEF Healthy, Go, Saves, disk, env, exceptJournal, exceptGates,
    exceptCompose, exceptData, exceptSnap, exceptSandbox
  <2>5. TypeOK'
    BY <2>1, <2>2, <2>3, <2>4 DEF Inv, TypeOK, Steps, After
  <2>6. RollbackPointKept' /\ Recorded' /\ Outcome'
    BY <2>1, <2>2, <2>3, <2>4 DEF Inv, RollbackPointKept, Recorded, Outcome, Planning,
    Undisturbed, Real, terminal
  <2>7. Gated' /\ Unchanged' /\ Changed' /\ AuthorizedRuns'
    BY <2>1, <2>2, <2>3, <2>4 DEF Inv, Gated, Unchanged, Changed, AuthorizedRuns, Holds,
    Settled, Planning, Undisturbed, Runs, Updating, terminal, AllMounted
  <2>8. InPlanning' /\ InSuppress' /\ InUpdate'
    BY <2>1, <2>2, <2>3, <2>4 DEF Inv, InPlanning, InSuppress, InUpdate, Runs, Updating,
    RollingBack, AllMounted
  <2>9. InRollback' /\ InAuthorize' /\ InCleanup'
    BY <2>1, <2>2, <2>3, <2>4 DEF Inv, InRollback, InAuthorize, InCleanup, Holds, Planning,
    Undisturbed, RollingBack, terminal, Unpruned
  <2> QED BY <2>5, <2>6, <2>7, <2>8, <2>9 DEF Inv
<1> QED BY <1>1, <1>2 DEF Healthy

\* A rollback withdraws the authorization first.
LEMMA SaveRecoveringKeeps ==
  ASSUME Inv, SaveRecovering
  PROVE  Inv'
<1>1. /\ pc = "restoring" /\ pc' = "gate"
  BY DEF SaveRecovering, Go, After
<1>2. /\ journal' = [Save("recovering", "restoring") EXCEPT !.auth = FALSE]
      /\ "recovering" \in States /\ "restoring" \in Phases
  BY DEF SaveRecovering, Saves, States, Phases
<1>3. journal' \in JournalRecords
  BY <1>2, SaveFields, FlagSet DEF Inv
<1>4. /\ journal'.op = journal.op /\ journal'.state = "recovering"
      /\ journal'.phase = "restoring" /\ journal'.src = journal.src
      /\ journal'.tgt = journal.tgt /\ journal'.cleanup = journal.cleanup
      /\ journal'.snap <=> journal.snap
      /\ journal'.prod <=> journal.prod
      /\ ~journal'.auth
  BY <1>2, SaveFields DEF Inv, JournalRecords
<1>5. UNCHANGED <<history, compose, cont, data, mounted, snap, newer, tags, sandbox,
      gate, run, caller, due, unit, crashes, faults, actions>>
  BY Zenon DEF SaveRecovering, Go, Saves, disk, env, exceptJournal, exceptGates,
  exceptCompose, exceptData, exceptSnap, exceptSandbox
<1>6. TypeOK'
  BY <1>1, <1>2, <1>3, <1>4, <1>5 DEF Inv, TypeOK, Steps, After
<1>7. RollbackPointKept' /\ Recorded' /\ Outcome'
  BY <1>1, <1>2, <1>3, <1>4, <1>5 DEF Inv, RollbackPointKept, Recorded, Outcome,
  InRollback, Holds, Planning, Undisturbed, Real, RollingBack, terminal
<1>8. Gated' /\ Unchanged' /\ Changed' /\ AuthorizedRuns'
  BY <1>1, <1>2, <1>3, <1>4, <1>5 DEF Inv, Gated, Unchanged, Changed, AuthorizedRuns,
  Holds, Settled, Planning, Undisturbed, Runs, Updating, terminal, AllMounted
<1>9. InPlanning' /\ InSuppress' /\ InUpdate'
  BY <1>1, <1>2, <1>3, <1>4, <1>5 DEF Inv, InPlanning, InSuppress, InUpdate, Runs,
  Updating, RollingBack, AllMounted
<1>10. InRollback' /\ InAuthorize' /\ InCleanup'
  BY <1>1, <1>2, <1>3, <1>4, <1>5 DEF Inv, InRollback, InAuthorize, InCleanup, Holds,
  Planning, Undisturbed, RollingBack, terminal, Unpruned
<1> QED BY <1>6, <1>7, <1>8, <1>9, <1>10 DEF Inv

\* The containers go before the data move.
LEMMA RemoveKeeps ==
  ASSUME Inv, Remove
  PROVE  Inv'
<1>1. /\ pc = "remove" /\ pc' = "unmount"
  BY DEF Remove, Go, After
<1>2. /\ cont' \in Containers /\ cont'.rel = None /\ ~cont'.up /\ cont'.norestart
  BY DEF Remove, Containers
<1>3. UNCHANGED <<journal, history, compose, data, mounted, snap, newer, tags,
      sandbox, gate, run, caller, due, unit, crashes, faults, actions>>
  BY Zenon DEF Remove, Go, Saves, disk, env, exceptJournal, exceptGates, exceptCompose,
  exceptData, exceptSnap, exceptSandbox
<1>4. TypeOK'
  BY <1>1, <1>2, <1>3 DEF Inv, TypeOK, Steps, After
<1>5. RollbackPointKept' /\ Recorded' /\ Outcome'
  BY <1>1, <1>2, <1>3 DEF Inv, RollbackPointKept, Recorded, Outcome, InRollback, Holds,
  Planning, Undisturbed, Real, RollingBack, terminal
<1>6. Gated' /\ Unchanged' /\ Changed' /\ AuthorizedRuns'
  BY <1>1, <1>2, <1>3 DEF Inv, Recorded, Gated, Unchanged, Changed, AuthorizedRuns,
  InRollback, Holds, Settled, Planning, Undisturbed, Real, Runs, Updating, RollingBack,
  terminal, AllMounted
<1>7. InPlanning' /\ InSuppress' /\ InUpdate'
  BY <1>1, <1>2, <1>3 DEF Inv, InPlanning, InSuppress, InUpdate, Runs, Updating,
  RollingBack, AllMounted
<1>8. InRollback' /\ InAuthorize' /\ InCleanup'
  BY <1>1, <1>2, <1>3 DEF Inv, InRollback, InAuthorize, InCleanup, Holds, Planning,
  Undisturbed, RollingBack, terminal, Unpruned
<1> QED BY <1>4, <1>5, <1>6, <1>7, <1>8 DEF Inv

\* Nothing runs while the datasets are unmounted.
LEMMA UnmountKeeps ==
  ASSUME Inv, Unmount
  PROVE  Inv'
<1>1. CASE \A d \in Datasets : ~mounted[d]
  <2>1. /\ pc = "unmount" /\ pc' = "rollbackData"
    BY <1>1 DEF Unmount, Go, After
  <2>2. UNCHANGED <<journal, history, compose, cont, data, mounted, snap, newer,
        tags, sandbox, gate, run, caller, due, unit, crashes, faults, actions>>
    BY <1>1, Zenon DEF Unmount, Go, Saves, disk, env, exceptJournal, exceptGates,
    exceptCompose, exceptData, exceptSnap, exceptSandbox
  <2>3. TypeOK'
    BY <2>1, <2>2 DEF Inv, TypeOK, Steps, After
  <2>4. RollbackPointKept' /\ Recorded' /\ Outcome'
    BY <2>1, <2>2 DEF Inv, RollbackPointKept, Recorded, Outcome, Planning, Undisturbed,
    Real, terminal
  <2>5. Gated' /\ Unchanged' /\ Changed' /\ AuthorizedRuns'
    BY <2>1, <2>2 DEF Inv, Gated, Unchanged, Changed, AuthorizedRuns, Holds, Settled,
    Planning, Undisturbed, Runs, Updating, terminal, AllMounted
  <2>6. InPlanning' /\ InSuppress' /\ InUpdate'
    BY <2>1, <2>2 DEF Inv, InPlanning, InSuppress, InUpdate, Runs, Updating, RollingBack,
    AllMounted
  <2>7. InRollback' /\ InAuthorize' /\ InCleanup'
    BY <2>1, <2>2 DEF Inv, InRollback, InAuthorize, InCleanup, Holds, Planning,
    Undisturbed, RollingBack, terminal, Unpruned
  <2> QED BY <2>3, <2>4, <2>5, <2>6, <2>7 DEF Inv
<1>2. CASE ~(\A d \in Datasets : ~mounted[d])
  <2>1. pc = "unmount"
    BY <1>2 DEF Unmount
  <2>2. mounted' \in [Datasets -> BOOLEAN]
    BY <1>2, Zenon DEF Unmount, Inv, TypeOK
  <2>3. UNCHANGED <<journal, history, compose, cont, data, snap, newer, tags,
        sandbox, gate, run, pc, caller, due, unit, crashes, faults, actions>>
    BY <1>2, Zenon DEF Unmount, Saves, disk, env, exceptJournal, exceptGates,
    exceptCompose, exceptData, exceptSnap, exceptSandbox
  <2>4. TypeOK'
    BY <2>1, <2>2, <2>3 DEF Inv, TypeOK
  <2>5. RollbackPointKept' /\ Recorded' /\ Outcome'
    BY <2>1, <2>2, <2>3 DEF Inv, RollbackPointKept, Recorded, Outcome, Planning,
    Undisturbed, Real, terminal
  <2>6. Gated' /\ Unchanged' /\ Changed' /\ AuthorizedRuns'
    BY <2>1, <2>2, <2>3 DEF Inv, Gated, Unchanged, Changed, AuthorizedRuns, InRollback,
    Holds, Settled, Planning, Undisturbed, Runs, Updating, RollingBack, terminal,
    AllMounted
  <2>7. InPlanning' /\ InSuppress' /\ InUpdate'
    BY <2>1, <2>2, <2>3 DEF Inv, InPlanning, InSuppress, InUpdate, Runs, Updating,
    RollingBack, AllMounted
  <2>8. InRollback' /\ InAuthorize' /\ InCleanup'
    BY <2>1, <2>2, <2>3 DEF Inv, InRollback, InAuthorize, InCleanup, Holds, Planning,
    Undisturbed, RollingBack, terminal, Unpruned
  <2> QED BY <2>4, <2>5, <2>6, <2>7, <2>8 DEF Inv
<1> QED BY <1>1, <1>2 DEF Unmount

\* Each dataset goes back to what the source wrote.
LEMMA RollbackDataKeeps ==
  ASSUME Inv, RollbackData
  PROVE  Inv'
<1>1. CASE data = snap[journal.op].data
  <2>1. /\ pc = "rollbackData" /\ pc' = "mount"
    BY <1>1 DEF RollbackData, Go, After
  <2>2. data' = data
    BY <1>1 DEF RollbackData
  <2>3. \A d \in Datasets : data[d] = journal.src
    BY <1>1, <2>1 DEF Inv, InRollback, RollbackPointKept
  <2>4. UNCHANGED <<journal, history, compose, cont, data, mounted, snap, newer,
        tags, sandbox, gate, run, caller, due, unit, crashes, faults, actions>>
    BY <1>1, Zenon DEF RollbackData, Go, Saves, disk, env, exceptJournal, exceptGates,
    exceptCompose, exceptData, exceptSnap, exceptSandbox
  <2>5. TypeOK'
    BY <2>1, <2>2, <2>3, <2>4 DEF Inv, TypeOK, Steps, After
  <2>6. RollbackPointKept' /\ Recorded' /\ Outcome'
    BY <2>1, <2>2, <2>3, <2>4 DEF Inv, RollbackPointKept, Recorded, Outcome, Planning,
    Undisturbed, Real, terminal
  <2>7. Gated' /\ Unchanged' /\ Changed' /\ AuthorizedRuns'
    BY <2>1, <2>2, <2>3, <2>4 DEF Inv, Gated, Unchanged, Changed, AuthorizedRuns, Holds,
    Settled, Planning, Undisturbed, Runs, Updating, terminal, AllMounted
  <2>8. InPlanning' /\ InSuppress' /\ InUpdate'
    BY <2>1, <2>2, <2>3, <2>4 DEF Inv, InPlanning, InSuppress, InUpdate, Runs, Updating,
    RollingBack, AllMounted
  <2>9. InRollback' /\ InAuthorize' /\ InCleanup'
    BY <2>1, <2>2, <2>3, <2>4 DEF Inv, InRollback, InAuthorize, InCleanup, Holds, Planning,
    Undisturbed, RollingBack, terminal, Unpruned
  <2> QED BY <2>5, <2>6, <2>7, <2>8, <2>9 DEF Inv
<1>2. CASE data # snap[journal.op].data
  <2>1. /\ pc = "rollbackData" /\ journal.prod /\ journal.src \in Releases
    BY DEF RollbackData, Inv, InRollback, Recorded, Real
  <2>2. \A d \in Datasets : snap[journal.op].data[d] = journal.src
    BY <2>1 DEF Inv, RollbackPointKept
  <2>3. /\ data' \in [Datasets -> Releases]
        /\ \A d \in Datasets : data'[d] \in {data[d], journal.src}
    BY <1>2, <2>1, <2>2 DEF RollbackData, Inv, TypeOK
  <2>4. UNCHANGED <<journal, history, compose, cont, mounted, snap, newer, tags,
        sandbox, gate, run, pc, caller, due, unit, crashes, faults, actions>>
    BY <1>2, Zenon DEF RollbackData, Saves, disk, env, exceptJournal, exceptGates,
    exceptCompose, exceptData, exceptSnap, exceptSandbox
  <2>5. TypeOK'
    BY <2>1, <2>2, <2>3, <2>4 DEF Inv, TypeOK
  <2>6. RollbackPointKept' /\ Recorded' /\ Outcome'
    BY <2>1, <2>2, <2>3, <2>4 DEF Inv, RollbackPointKept, Recorded, Outcome, Planning,
    Undisturbed, Real, terminal
  <2>7. Gated' /\ Unchanged' /\ Changed' /\ AuthorizedRuns'
    BY <2>1, <2>2, <2>3, <2>4 DEF Inv, Gated, Unchanged, Changed, AuthorizedRuns,
    InRollback, Holds, Settled, Planning, Undisturbed, Runs, Updating, RollingBack,
    terminal, AllMounted
  <2>8. InPlanning' /\ InSuppress' /\ InUpdate'
    BY <2>1, <2>2, <2>3, <2>4 DEF Inv, InPlanning, InSuppress, InUpdate, Runs, Updating,
    RollingBack, AllMounted
  <2>9. InRollback' /\ InAuthorize' /\ InCleanup'
    BY <2>1, <2>2, <2>3, <2>4 DEF Inv, InRollback, InAuthorize, InCleanup, Holds, Planning,
    Undisturbed, RollingBack, terminal, Unpruned
  <2> QED BY <2>5, <2>6, <2>7, <2>8, <2>9 DEF Inv
<1> QED BY <1>1, <1>2 DEF RollbackData

\* The datasets are mounted again.
LEMMA MountKeeps ==
  ASSUME Inv, Mount
  PROVE  Inv'
<1>1. CASE AllMounted
  <2>1. /\ pc = "mount" /\ pc' = "writePrevious"
    BY <1>1 DEF Mount, Go, After
  <2>2. UNCHANGED <<journal, history, compose, cont, data, mounted, snap, newer,
        tags, sandbox, gate, run, caller, due, unit, crashes, faults, actions>>
    BY <1>1, Zenon DEF Mount, Go, Saves, disk, env, exceptJournal, exceptGates,
    exceptCompose, exceptData, exceptSnap, exceptSandbox
  <2>3. TypeOK'
    BY <2>1, <2>2 DEF Inv, TypeOK, Steps, After
  <2>4. RollbackPointKept' /\ Recorded' /\ Outcome'
    BY <2>1, <2>2 DEF Inv, RollbackPointKept, Recorded, Outcome, Planning, Undisturbed,
    Real, terminal
  <2>5. Gated' /\ Unchanged' /\ Changed' /\ AuthorizedRuns'
    BY <2>1, <2>2 DEF Inv, Gated, Unchanged, Changed, AuthorizedRuns, Holds, Settled,
    Planning, Undisturbed, Runs, Updating, terminal, AllMounted
  <2>6. InPlanning' /\ InSuppress' /\ InUpdate'
    BY <2>1, <2>2 DEF Inv, InPlanning, InSuppress, InUpdate, Runs, Updating, RollingBack,
    AllMounted
  <2>7. InRollback' /\ InAuthorize' /\ InCleanup'
    BY <2>1, <2>2 DEF Inv, InRollback, InAuthorize, InCleanup, Holds, Planning,
    Undisturbed, RollingBack, terminal, Unpruned
  <2> QED BY <2>3, <2>4, <2>5, <2>6, <2>7 DEF Inv
<1>2. CASE ~(AllMounted)
  <2>1. pc = "mount"
    BY <1>2 DEF Mount
  <2>2. mounted' \in [Datasets -> BOOLEAN]
    BY <1>2, Zenon DEF Mount, Inv, TypeOK
  <2>3. UNCHANGED <<journal, history, compose, cont, data, snap, newer, tags,
        sandbox, gate, run, pc, caller, due, unit, crashes, faults, actions>>
    BY <1>2, Zenon DEF Mount, Saves, disk, env, exceptJournal, exceptGates, exceptCompose,
    exceptData, exceptSnap, exceptSandbox
  <2>4. TypeOK'
    BY <2>1, <2>2, <2>3 DEF Inv, TypeOK
  <2>5. RollbackPointKept' /\ Recorded' /\ Outcome'
    BY <2>1, <2>2, <2>3 DEF Inv, RollbackPointKept, Recorded, Outcome, Planning,
    Undisturbed, Real, terminal
  <2>6. Gated' /\ Unchanged' /\ Changed' /\ AuthorizedRuns'
    BY <1>2, <2>1, <2>2, <2>3 DEF Inv, Gated, Unchanged, Changed, AuthorizedRuns, Holds,
    Settled, Planning, Undisturbed, Runs, Updating, terminal, AllMounted
  <2>7. InPlanning' /\ InSuppress' /\ InUpdate'
    BY <2>1, <2>2, <2>3 DEF Inv, InPlanning, InSuppress, InUpdate, Runs, Updating,
    RollingBack, AllMounted
  <2>8. InRollback' /\ InAuthorize' /\ InCleanup'
    BY <2>1, <2>2, <2>3 DEF Inv, InRollback, InAuthorize, InCleanup, Holds, Planning,
    Undisturbed, RollingBack, terminal, Unpruned
  <2> QED BY <2>4, <2>5, <2>6, <2>7, <2>8 DEF Inv
<1> QED BY <1>1, <1>2 DEF Mount

\* The Compose file names the source again.
LEMMA WritePreviousKeeps ==
  ASSUME Inv, WritePrevious
  PROVE  Inv'
<1>1. /\ pc = "writePrevious" /\ pc' = "upPrevious"
  BY DEF WritePrevious, Go, After
<1>2. journal.src \in Releases
  BY <1>1, ManagementAssumption DEF Inv, TypeOK, InUpdate, InRollback, Updating,
  RollingBack, Recorded, Undisturbed, Planning, terminal, Real
<1>3. /\ compose' \in ComposeFiles /\ compose'.rel = journal.src /\ compose'.norestart
  BY <1>2 DEF WritePrevious, ComposeFiles
<1>4. UNCHANGED <<journal, history, cont, data, mounted, snap, newer, tags, sandbox,
      gate, run, caller, due, unit, crashes, faults, actions>>
  BY Zenon DEF WritePrevious, Go, Saves, disk, env, exceptJournal, exceptGates,
  exceptCompose, exceptData, exceptSnap, exceptSandbox
<1>5. TypeOK'
  BY <1>1, <1>2, <1>3, <1>4 DEF Inv, TypeOK, Steps, After
<1>6. RollbackPointKept' /\ Recorded' /\ Outcome'
  BY <1>1, <1>2, <1>3, <1>4 DEF Inv, RollbackPointKept, Recorded, Outcome, InRollback,
  Holds, Planning, Undisturbed, Real, RollingBack, terminal
<1>7. Gated' /\ Unchanged' /\ Changed' /\ AuthorizedRuns'
  BY <1>1, <1>2, <1>3, <1>4 DEF Inv, Gated, Unchanged, Changed, AuthorizedRuns, InRollback,
  Holds, Settled, Planning, Undisturbed, Runs, Updating, RollingBack, terminal, AllMounted
<1>8. InPlanning' /\ InSuppress' /\ InUpdate'
  BY <1>1, <1>2, <1>3, <1>4 DEF Inv, InPlanning, InSuppress, InUpdate, Runs, Updating,
  RollingBack, AllMounted
<1>9. InRollback' /\ InAuthorize' /\ InCleanup'
  BY <1>1, <1>2, <1>3, <1>4 DEF Inv, InRollback, InAuthorize, InCleanup, Holds, Planning,
  Undisturbed, RollingBack, terminal, Unpruned
<1> QED BY <1>5, <1>6, <1>7, <1>8, <1>9 DEF Inv

\* The source starts on its own data.
LEMMA UpPreviousKeeps ==
  ASSUME Inv, UpPrevious
  PROVE  Inv'
<1>1. /\ pc = "upPrevious" /\ pc' = "verifying"
  BY DEF UpPrevious, Go, After
<1>2. AllMounted
  BY DEF UpPrevious
<1>3. /\ cont' \in Containers /\ cont'.rel = compose.rel /\ cont'.up
      /\ cont'.norestart <=> compose.norestart
  BY DEF UpPrevious, Up, Inv, TypeOK, Containers, ComposeFiles
<1>4. /\ data' \in [Datasets -> Releases]
      /\ \A d \in Datasets : data'[d] \in {compose.rel, data[d]}
  BY DEF UpPrevious, Up, Inv, TypeOK, ComposeFiles
<1>5. UNCHANGED <<journal, history, compose, mounted, snap, newer, tags, sandbox,
      gate, run, caller, due, unit, crashes, faults, actions>>
  BY Zenon DEF UpPrevious, Go, Saves, disk, env, exceptJournal, exceptGates, exceptCompose,
  exceptData, exceptSnap, exceptSandbox
<1>6. TypeOK'
  BY <1>1, <1>2, <1>3, <1>4, <1>5 DEF Inv, TypeOK, Steps, After
<1>7. RollbackPointKept' /\ Recorded' /\ Outcome'
  BY <1>1, <1>2, <1>3, <1>4, <1>5 DEF Inv, RollbackPointKept, Recorded, Outcome, Planning,
  Undisturbed, Real, terminal
<1>8. Gated' /\ Unchanged' /\ Changed' /\ AuthorizedRuns'
  BY <1>1, <1>2, <1>3, <1>4, <1>5, ManagementAssumption DEF Inv, Gated, Unchanged, Changed,
  AuthorizedRuns, InRollback, Holds, Settled, Planning, Undisturbed, Runs, Updating,
  RollingBack, terminal, AllMounted
<1>9. InPlanning' /\ InSuppress' /\ InUpdate'
  BY <1>1, <1>2, <1>3, <1>4, <1>5 DEF Inv, InPlanning, InSuppress, InUpdate, Runs,
  Updating, RollingBack, AllMounted
<1>10. InRollback' /\ InAuthorize' /\ InCleanup'
  BY <1>1, <1>2, <1>3, <1>4, <1>5 DEF Inv, InRollback, InAuthorize, InCleanup, Holds,
  Planning, Undisturbed, RollingBack, terminal, Unpruned
<1> QED BY <1>6, <1>7, <1>8, <1>9, <1>10 DEF Inv

\* The check of the source is journaled.
LEMMA SaveVerifyingKeeps ==
  ASSUME Inv, SaveVerifying
  PROVE  Inv'
<1>1. /\ pc = "verifying" /\ pc' = "healthyPrevious"
  BY DEF SaveVerifying, Go, After
<1>2. /\ journal' \in JournalRecords /\ journal'.op = journal.op
      /\ journal'.state = "recovering" /\ journal'.phase = "verifying_previous"
      /\ journal'.src = journal.src /\ journal'.tgt = journal.tgt
      /\ journal'.cleanup = journal.cleanup
      /\ journal'.snap <=> journal.snap
      /\ journal'.prod <=> journal.prod
      /\ journal'.auth <=> journal.auth
  BY SaveFields DEF SaveVerifying, Saves, Inv, States, Phases
<1>3. UNCHANGED <<history, compose, cont, data, mounted, snap, newer, tags, sandbox,
      gate, run, caller, due, unit, crashes, faults, actions>>
  BY Zenon DEF SaveVerifying, Go, Saves, disk, env, exceptJournal, exceptGates,
  exceptCompose, exceptData, exceptSnap, exceptSandbox
<1>4. TypeOK'
  BY <1>1, <1>2, <1>3 DEF Inv, TypeOK, Steps, After
<1>5. RollbackPointKept' /\ Recorded' /\ Outcome'
  BY <1>1, <1>2, <1>3 DEF Inv, RollbackPointKept, Recorded, Outcome, InRollback, Holds,
  Planning, Undisturbed, Real, RollingBack, terminal
<1>6. Gated' /\ Unchanged' /\ Changed' /\ AuthorizedRuns'
  BY <1>1, <1>2, <1>3 DEF Inv, Gated, Unchanged, Changed, AuthorizedRuns, InRollback,
  Holds, Settled, Planning, Undisturbed, Runs, Updating, RollingBack, terminal, AllMounted
<1>7. InPlanning' /\ InSuppress' /\ InUpdate'
  BY <1>1, <1>2, <1>3 DEF Inv, InPlanning, InSuppress, InUpdate, Runs, Updating,
  RollingBack, AllMounted
<1>8. InRollback' /\ InAuthorize' /\ InCleanup'
  BY <1>1, <1>2, <1>3 DEF Inv, InRollback, InAuthorize, InCleanup, Holds, Planning,
  Undisturbed, RollingBack, terminal, Unpruned
<1> QED BY <1>4, <1>5, <1>6, <1>7, <1>8 DEF Inv

\* What is authorized runs on its own data.
LEMMA SaveAuthorizedKeeps ==
  ASSUME Inv, SaveAuthorized
  PROVE  Inv'
<1>1. CASE Go("authorizing") /\ Saves([Save("running", "authorizing") EXCEPT !.auth =
      TRUE])
  <2>1. /\ pc = "authorizing" /\ pc' = "policyFile"
    BY <1>1 DEF Go, After
  <2>2. /\ journal' = [Save("running", "authorizing") EXCEPT !.auth = TRUE]
        /\ "running" \in States /\ "authorizing" \in Phases
    BY <1>1 DEF Saves, States, Phases
  <2>3. journal' \in JournalRecords
    BY <2>2, SaveFields, FlagSet DEF Inv
  <2>4. /\ journal'.op = journal.op /\ journal'.state = "running"
        /\ journal'.phase = "authorizing" /\ journal'.src = journal.src
        /\ journal'.tgt = journal.tgt /\ journal'.cleanup = journal.cleanup
        /\ journal'.snap <=> journal.snap
        /\ journal'.prod <=> journal.prod
        /\ journal'.auth
    BY <2>2, SaveFields DEF Inv, JournalRecords
  <2>5. UNCHANGED <<history, compose, cont, data, mounted, snap, newer, tags,
        sandbox, gate, run, caller, due, unit, crashes, faults, actions>>
    BY <1>1, Zenon DEF SaveAuthorized, Go, Saves, disk, env, exceptJournal, exceptGates,
    exceptCompose, exceptData, exceptSnap, exceptSandbox
  <2>6. TypeOK'
    BY <2>1, <2>2, <2>3, <2>4, <2>5 DEF Inv, TypeOK, Steps, After
  <2>7. RollbackPointKept' /\ Recorded' /\ Outcome'
    BY <2>1, <2>2, <2>3, <2>4, <2>5 DEF Inv, RollbackPointKept, Recorded, Outcome,
    InUpdate, Planning, Undisturbed, Real, Runs, Updating, terminal, AllMounted
  <2>8. Gated' /\ Unchanged' /\ Changed' /\ AuthorizedRuns'
    BY <2>1, <2>2, <2>3, <2>4, <2>5, ManagementAssumption DEF Inv, TypeOK, Gated,
    Unchanged, Changed, AuthorizedRuns, InUpdate, Holds, Settled, Planning, Undisturbed,
    Runs, Updating, terminal, AllMounted
  <2>9. InPlanning' /\ InSuppress' /\ InUpdate'
    BY <2>1, <2>2, <2>3, <2>4, <2>5 DEF Inv, InPlanning, InSuppress, InUpdate, Runs,
    Updating, RollingBack, AllMounted
  <2>10. InRollback' /\ InAuthorize' /\ InCleanup'
    BY <2>1, <2>2, <2>3, <2>4, <2>5 DEF Inv, InRollback, InAuthorize, InCleanup, Holds,
    Planning, Undisturbed, RollingBack, terminal, Unpruned
  <2> QED BY <2>6, <2>7, <2>8, <2>9, <2>10 DEF Inv
<1>2. CASE Go("authorizingPrevious") /\ Saves([Save("recovering",
      "authorizing_previous") EXCEPT !.auth = TRUE])
  <2>1. /\ pc = "authorizingPrevious" /\ pc' = "policyFile"
    BY <1>2 DEF Go, After
  <2>2. /\ journal' = [Save("recovering", "authorizing_previous") EXCEPT !.auth = TRUE]
        /\ "recovering" \in States /\ "authorizing_previous" \in Phases
    BY <1>2 DEF Saves, States, Phases
  <2>3. journal' \in JournalRecords
    BY <2>2, SaveFields, FlagSet DEF Inv
  <2>4. /\ journal'.op = journal.op /\ journal'.state = "recovering"
        /\ journal'.phase = "authorizing_previous" /\ journal'.src = journal.src
        /\ journal'.tgt = journal.tgt /\ journal'.cleanup = journal.cleanup
        /\ journal'.snap <=> journal.snap
        /\ journal'.prod <=> journal.prod
        /\ journal'.auth
    BY <2>2, SaveFields DEF Inv, JournalRecords
  <2>5. UNCHANGED <<history, compose, cont, data, mounted, snap, newer, tags,
        sandbox, gate, run, caller, due, unit, crashes, faults, actions>>
    BY <1>2, Zenon DEF SaveAuthorized, Go, Saves, disk, env, exceptJournal, exceptGates,
    exceptCompose, exceptData, exceptSnap, exceptSandbox
  <2>6. TypeOK'
    BY <2>1, <2>2, <2>3, <2>4, <2>5 DEF Inv, TypeOK, Steps, After
  <2>7. RollbackPointKept' /\ Recorded' /\ Outcome'
    BY <2>1, <2>2, <2>3, <2>4, <2>5 DEF Inv, RollbackPointKept, Recorded, Outcome,
    InRollback, Holds, Planning, Undisturbed, Real, RollingBack, terminal
  <2>8. Gated' /\ Unchanged' /\ Changed' /\ AuthorizedRuns'
    BY <2>1, <2>2, <2>3, <2>4, <2>5, ManagementAssumption DEF Inv, TypeOK, Gated,
    Unchanged, Changed, AuthorizedRuns, InRollback, Holds, Settled, Planning, Undisturbed,
    Runs, Updating, RollingBack, terminal, AllMounted
  <2>9. InPlanning' /\ InSuppress' /\ InUpdate'
    BY <2>1, <2>2, <2>3, <2>4, <2>5 DEF Inv, InPlanning, InSuppress, InUpdate, Runs,
    Updating, RollingBack, AllMounted
  <2>10. InRollback' /\ InAuthorize' /\ InCleanup'
    BY <2>1, <2>2, <2>3, <2>4, <2>5 DEF Inv, InRollback, InAuthorize, InCleanup, Holds,
    Planning, Undisturbed, RollingBack, terminal, Unpruned
  <2> QED BY <2>6, <2>7, <2>8, <2>9, <2>10 DEF Inv
<1> QED BY <1>1, <1>2 DEF SaveAuthorized

\* The policies come back for a release that has the data to itself.
LEMMA RestoreComposeKeeps ==
  ASSUME Inv, RestoreCompose
  PROVE  Inv'
<1>1. /\ pc = "policyFile" /\ pc' = "policies"
  BY DEF RestoreCompose, Go, After
<1>2. /\ compose' \in ComposeFiles /\ compose'.rel = compose.rel /\ ~compose'.norestart
  BY Zenon DEF RestoreCompose, Inv, TypeOK, ComposeFiles
<1>3. UNCHANGED <<journal, history, cont, data, mounted, snap, newer, tags, sandbox,
      gate, run, caller, due, unit, crashes, faults, actions>>
  BY Zenon DEF RestoreCompose, Go, Saves, disk, env, exceptJournal, exceptGates,
  exceptCompose, exceptData, exceptSnap, exceptSandbox
<1>4. TypeOK'
  BY <1>1, <1>2, <1>3 DEF Inv, TypeOK, Steps, After
<1>5. RollbackPointKept' /\ Recorded' /\ Outcome'
  BY <1>1, <1>2, <1>3 DEF Inv, RollbackPointKept, Recorded, Outcome, Planning, Undisturbed,
  Real, terminal
<1>6. Gated' /\ Unchanged' /\ Changed' /\ AuthorizedRuns'
  BY <1>1, <1>2, <1>3 DEF Inv, Gated, Unchanged, Changed, AuthorizedRuns, Holds, Settled,
  Planning, Undisturbed, Runs, Updating, terminal, AllMounted
<1>7. InPlanning' /\ InSuppress' /\ InUpdate'
  BY <1>1, <1>2, <1>3 DEF Inv, InPlanning, InSuppress, InUpdate, Runs, Updating,
  RollingBack, AllMounted
<1>8. InRollback' /\ InAuthorize' /\ InCleanup'
  BY <1>1, <1>2, <1>3 DEF Inv, InRollback, InAuthorize, InCleanup, Holds, Planning,
  Undisturbed, RollingBack, terminal, Unpruned
<1> QED BY <1>4, <1>5, <1>6, <1>7, <1>8 DEF Inv

\* Docker restarts the authorized release.
LEMMA RestorePoliciesKeeps ==
  ASSUME Inv, RestorePolicies
  PROVE  Inv'
<1>1. /\ pc = "policies" /\ pc' = "unblock"
  BY DEF RestorePolicies, Go, After
<1>2. /\ cont' \in Containers /\ cont'.rel = cont.rel
      /\ cont'.up <=> cont.up
      /\ ~cont'.norestart
  BY Zenon DEF RestorePolicies, Inv, TypeOK, Containers
<1>3. UNCHANGED <<journal, history, compose, data, mounted, snap, newer, tags,
      sandbox, gate, run, caller, due, unit, crashes, faults, actions>>
  BY Zenon DEF RestorePolicies, Go, Saves, disk, env, exceptJournal, exceptGates,
  exceptCompose, exceptData, exceptSnap, exceptSandbox
<1>4. TypeOK'
  BY <1>1, <1>2, <1>3 DEF Inv, TypeOK, Steps, After
<1>5. RollbackPointKept' /\ Recorded' /\ Outcome'
  BY <1>1, <1>2, <1>3 DEF Inv, RollbackPointKept, Recorded, Outcome, Planning, Undisturbed,
  Real, terminal
<1>6. Gated' /\ Unchanged' /\ Changed' /\ AuthorizedRuns'
  BY <1>1, <1>2, <1>3 DEF Inv, Gated, Unchanged, Changed, AuthorizedRuns, InAuthorize,
  Holds, Settled, Planning, Undisturbed, Runs, Updating, terminal, AllMounted
<1>7. InPlanning' /\ InSuppress' /\ InUpdate'
  BY <1>1, <1>2, <1>3 DEF Inv, InPlanning, InSuppress, InUpdate, Runs, Updating,
  RollingBack, AllMounted
<1>8. InRollback' /\ InAuthorize' /\ InCleanup'
  BY <1>1, <1>2, <1>3 DEF Inv, InRollback, InAuthorize, InCleanup, Holds, Planning,
  Undisturbed, RollingBack, terminal, Unpruned
<1> QED BY <1>4, <1>5, <1>6, <1>7, <1>8 DEF Inv

\* Mutations are admitted again.
LEMMA UnblockKeeps ==
  ASSUME Inv, Unblock
  PROVE  Inv'
<1>1. /\ pc = "unblock" /\ pc' = "ungate"
  BY DEF Unblock, Go, After
<1>2. /\ run' \in Flags /\ ~run'.blocked
      /\ run'.masked <=> run.masked
  BY Zenon DEF Unblock, Inv, TypeOK, Flags
<1>3. UNCHANGED <<journal, history, compose, cont, data, mounted, snap, newer, tags,
      sandbox, gate, caller, due, unit, crashes, faults, actions>>
  BY Zenon DEF Unblock, Go, Saves, disk, env, exceptJournal, exceptGates, exceptCompose,
  exceptData, exceptSnap, exceptSandbox
<1>4. TypeOK'
  BY <1>1, <1>2, <1>3 DEF Inv, TypeOK, Steps, After
<1>5. RollbackPointKept' /\ Recorded' /\ Outcome'
  BY <1>1, <1>2, <1>3 DEF Inv, RollbackPointKept, Recorded, Outcome, Planning, Undisturbed,
  Real, terminal
<1>6. Gated' /\ Unchanged' /\ Changed' /\ AuthorizedRuns'
  BY <1>1, <1>2, <1>3 DEF Inv, Gated, Unchanged, Changed, AuthorizedRuns, Holds, Settled,
  Planning, Undisturbed, Runs, Updating, terminal, AllMounted
<1>7. InPlanning' /\ InSuppress' /\ InUpdate'
  BY <1>1, <1>2, <1>3 DEF Inv, InPlanning, InSuppress, InUpdate, Runs, Updating,
  RollingBack, AllMounted
<1>8. InRollback' /\ InAuthorize' /\ InCleanup'
  BY <1>1, <1>2, <1>3 DEF Inv, InRollback, InAuthorize, InCleanup, Holds, Planning,
  Undisturbed, RollingBack, terminal, Unpruned
<1> QED BY <1>4, <1>5, <1>6, <1>7, <1>8 DEF Inv

\* The gate opens on a settled installation.
LEMMA OpenGateKeeps ==
  ASSUME Inv, OpenGate
  PROVE  Inv'
<1>1. /\ pc = "ungate" /\ pc' = "unmask"
  BY DEF OpenGate, Go, After
<1>2. gate' = FALSE
  BY DEF OpenGate
<1>3. UNCHANGED <<journal, history, compose, cont, data, mounted, snap, newer, tags,
      sandbox, run, caller, due, unit, crashes, faults, actions>>
  BY Zenon DEF OpenGate, Go, Saves, disk, env, exceptJournal, exceptGates, exceptCompose,
  exceptData, exceptSnap, exceptSandbox
<1>4. TypeOK'
  BY <1>1, <1>2, <1>3, ManagementAssumption DEF Inv, TypeOK, Steps, After, Callers
<1>5. RollbackPointKept' /\ Recorded' /\ Outcome'
  BY <1>1, <1>2, <1>3 DEF Inv, RollbackPointKept, Recorded, Outcome, Planning, Undisturbed,
  Real, terminal
<1>6. Gated' /\ Unchanged' /\ Changed' /\ AuthorizedRuns'
  BY <1>1, <1>2, <1>3 DEF Inv, Gated, Unchanged, Changed, AuthorizedRuns, InAuthorize,
  Holds, Settled, Planning, Undisturbed, Runs, Updating, terminal, AllMounted
<1>7. InPlanning' /\ InSuppress' /\ InUpdate'
  BY <1>1, <1>2, <1>3 DEF Inv, InPlanning, InSuppress, InUpdate, Runs, Updating,
  RollingBack, AllMounted
<1>8. InRollback' /\ InAuthorize' /\ InCleanup'
  BY <1>1, <1>2, <1>3 DEF Inv, InRollback, InAuthorize, InCleanup, Holds, Planning,
  Undisturbed, RollingBack, terminal, Unpruned
<1> QED BY <1>4, <1>5, <1>6, <1>7, <1>8 DEF Inv

\* The journal says which end follows.
LEMMA UnmaskKeeps ==
  ASSUME Inv, Unmask
  PROVE  Inv'
<1>1. /\ pc = "unmask"
      /\ pc' = IF journal.state = "recovering" THEN "rolledBack" ELSE "committed"
  BY DEF Unmask, Jump, Authorized
<1>2. /\ run' \in Flags
      /\ run'.blocked <=> run.blocked
      /\ ~run'.masked
  BY Zenon DEF Unmask, Inv, TypeOK, Flags
<1>3. UNCHANGED <<journal, history, compose, cont, data, mounted, snap, newer, tags,
      sandbox, gate, caller, due, unit, crashes, faults, actions>>
  BY Zenon DEF Unmask, Jump, Saves, disk, env, exceptJournal, exceptGates, exceptCompose,
  exceptData, exceptSnap, exceptSandbox
<1>4. TypeOK'
  BY <1>1, <1>2, <1>3 DEF Inv, TypeOK, Steps
<1>5. RollbackPointKept' /\ Recorded' /\ Outcome'
  BY <1>1, <1>2, <1>3 DEF Inv, RollbackPointKept, Recorded, Outcome, Planning, Undisturbed,
  Real, terminal
<1>6. Gated' /\ Unchanged' /\ Changed' /\ AuthorizedRuns'
  BY <1>1, <1>2, <1>3 DEF Inv, Gated, Unchanged, Changed, AuthorizedRuns, Holds, Settled,
  Planning, Undisturbed, Runs, Updating, terminal, AllMounted
<1>7. InPlanning' /\ InSuppress' /\ InUpdate'
  BY <1>1, <1>2, <1>3 DEF Inv, InPlanning, InSuppress, InUpdate, Runs, Updating,
  RollingBack, AllMounted
<1>8. InRollback' /\ InAuthorize' /\ InCleanup'
  BY <1>1, <1>2, <1>3 DEF Inv, AuthorizedRuns, InRollback, InAuthorize, InCleanup, Holds,
  Planning, Undisturbed, Runs, Updating, RollingBack, terminal, Unpruned
<1> QED BY <1>4, <1>5, <1>6, <1>7, <1>8 DEF Inv

\* The outcome is recorded once nothing is left blocked.
LEMMA SaveCommittedKeeps ==
  ASSUME Inv, SaveCommitted
  PROVE  Inv'
<1>1. CASE caller = "execute"
  <2>1. /\ pc = "committed" /\ pc' = "prune"
    BY <1>1 DEF SaveCommitted
  <2>2. /\ journal' \in JournalRecords /\ journal'.op = journal.op
        /\ journal'.state = "succeeded" /\ journal'.phase = "committed"
        /\ journal'.src = journal.src /\ journal'.tgt = journal.tgt
        /\ journal'.cleanup = journal.cleanup
        /\ journal'.snap <=> journal.snap
        /\ journal'.prod <=> journal.prod
        /\ journal'.auth <=> journal.auth
    BY SaveFields DEF SaveCommitted, Saves, Inv, States, Phases
  <2>3. UNCHANGED <<history, compose, cont, data, mounted, snap, newer, tags,
        sandbox, gate, run, caller, due, unit, crashes, faults, actions>>
    BY <1>1, Zenon DEF SaveCommitted, Saves, disk, env, exceptJournal, exceptGates,
    exceptCompose, exceptData, exceptSnap, exceptSandbox
  <2>4. TypeOK'
    BY <2>1, <2>2, <2>3 DEF Inv, TypeOK, Steps
  <2>5. RollbackPointKept' /\ Recorded' /\ Outcome'
    BY <2>1, <2>2, <2>3 DEF Inv, RollbackPointKept, Recorded, Outcome, AuthorizedRuns,
    InAuthorize, Planning, Undisturbed, Real, Runs, Updating, terminal
  <2>6. Gated' /\ Unchanged' /\ Changed' /\ AuthorizedRuns'
    BY <2>1, <2>2, <2>3 DEF Inv, Gated, Unchanged, Changed, AuthorizedRuns, Holds, Settled,
    Planning, Undisturbed, Runs, Updating, terminal, AllMounted
  <2>7. InPlanning' /\ InSuppress' /\ InUpdate'
    BY <2>1, <2>2, <2>3 DEF Inv, InPlanning, InSuppress, InUpdate, Runs, Updating,
    RollingBack, AllMounted
  <2>8. InRollback' /\ InAuthorize' /\ InCleanup'
    BY <2>1, <2>2, <2>3 DEF Inv, Recorded, InRollback, InAuthorize, InCleanup, Holds,
    Planning, Undisturbed, Real, RollingBack, terminal, Unpruned
  <2> QED BY <2>4, <2>5, <2>6, <2>7, <2>8 DEF Inv
<1>2. CASE caller # "execute"
  <2>1. pc = "committed"
    BY DEF SaveCommitted
  <2>2. /\ pc' = "free" /\ caller' = None /\ due' \in BOOLEAN
        /\ unit' \in {"reconcile", "launch", "done"}
    BY <1>2 DEF SaveCommitted, Return, Leave, Inv, TypeOK
  <2>3. /\ journal' \in JournalRecords /\ journal'.op = journal.op
        /\ journal'.state = "succeeded" /\ journal'.phase = "committed"
        /\ journal'.src = journal.src /\ journal'.tgt = journal.tgt
        /\ journal'.cleanup = journal.cleanup
        /\ journal'.snap <=> journal.snap
        /\ journal'.prod <=> journal.prod
        /\ journal'.auth <=> journal.auth
    BY SaveFields DEF SaveCommitted, Saves, Inv, States, Phases
  <2>4. UNCHANGED <<history, compose, cont, data, mounted, snap, newer, tags,
        sandbox, gate, run, crashes, faults, actions>>
    BY <1>2, Zenon DEF SaveCommitted, Return, Leave, Saves, disk, env, exceptJournal,
    exceptGates, exceptCompose, exceptData, exceptSnap, exceptSandbox
  <2>5. TypeOK'
    BY <2>1, <2>2, <2>3, <2>4 DEF Inv, TypeOK, Steps
  <2>6. RollbackPointKept' /\ Recorded' /\ Outcome'
    BY <2>1, <2>2, <2>3, <2>4 DEF Inv, RollbackPointKept, Recorded, Outcome,
    AuthorizedRuns, InAuthorize, Planning, Undisturbed, Real, Runs, Updating, terminal
  <2>7. Gated' /\ Unchanged' /\ Changed' /\ AuthorizedRuns'
    BY <2>1, <2>2, <2>3, <2>4 DEF Inv, Gated, Unchanged, Changed, AuthorizedRuns, Holds,
    Settled, Planning, Undisturbed, Runs, Updating, terminal, AllMounted
  <2>8. InPlanning' /\ InSuppress' /\ InUpdate'
    BY <2>1, <2>2, <2>3, <2>4 DEF Inv, InPlanning, InSuppress, InUpdate, Runs, Updating,
    RollingBack, AllMounted
  <2>9. InRollback' /\ InAuthorize' /\ InCleanup'
    BY <2>1, <2>2, <2>3, <2>4 DEF Inv, InRollback, InAuthorize, InCleanup, Holds, Planning,
    Undisturbed, RollingBack, terminal, Unpruned
  <2> QED BY <2>5, <2>6, <2>7, <2>8, <2>9 DEF Inv
<1> QED BY <1>1, <1>2 DEF SaveCommitted

\* The outcome is recorded once nothing is left blocked.
LEMMA SaveRolledBackKeeps ==
  ASSUME Inv, SaveRolledBack
  PROVE  Inv'
<1>1. pc = "rolledBack"
  BY DEF SaveRolledBack
<1>2. /\ pc' = "free" /\ caller' = None /\ due' \in BOOLEAN
      /\ unit' \in {"reconcile", "launch", "done"}
  BY DEF SaveRolledBack, Return, Leave, Inv, TypeOK
<1>3. /\ journal' \in JournalRecords /\ journal'.op = journal.op
      /\ journal'.state = "rolled_back" /\ journal'.phase = "rolled_back"
      /\ journal'.src = journal.src /\ journal'.tgt = journal.tgt
      /\ journal'.cleanup = journal.cleanup
      /\ journal'.snap <=> journal.snap
      /\ journal'.prod <=> journal.prod
      /\ journal'.auth <=> journal.auth
  BY SaveFields DEF SaveRolledBack, Saves, Inv, States, Phases
<1>4. UNCHANGED <<history, compose, cont, data, mounted, snap, newer, tags, sandbox,
      gate, run, crashes, faults, actions>>
  BY Zenon DEF SaveRolledBack, Return, Leave, Saves, disk, env, exceptJournal, exceptGates,
  exceptCompose, exceptData, exceptSnap, exceptSandbox
<1>5. TypeOK'
  BY <1>1, <1>2, <1>3, <1>4 DEF Inv, TypeOK, Steps
<1>6. RollbackPointKept' /\ Recorded' /\ Outcome'
  BY <1>1, <1>2, <1>3, <1>4 DEF Inv, RollbackPointKept, Recorded, Outcome, AuthorizedRuns,
  InAuthorize, Planning, Undisturbed, Real, Runs, Updating, terminal
<1>7. Gated' /\ Unchanged' /\ Changed' /\ AuthorizedRuns'
  BY <1>1, <1>2, <1>3, <1>4 DEF Inv, Gated, Unchanged, Changed, AuthorizedRuns, Holds,
  Settled, Planning, Undisturbed, Runs, Updating, terminal, AllMounted
<1>8. InPlanning' /\ InSuppress' /\ InUpdate'
  BY <1>1, <1>2, <1>3, <1>4 DEF Inv, InPlanning, InSuppress, InUpdate, Runs, Updating,
  RollingBack, AllMounted
<1>9. InRollback' /\ InAuthorize' /\ InCleanup'
  BY <1>1, <1>2, <1>3, <1>4 DEF Inv, InRollback, InAuthorize, InCleanup, Holds, Planning,
  Undisturbed, RollingBack, terminal, Unpruned
<1> QED BY <1>5, <1>6, <1>7, <1>8, <1>9 DEF Inv

\* A cleanup returns to the outcome it found.
LEMMA SaveCleanedKeeps ==
  ASSUME Inv, SaveCleaned
  PROVE  Inv'
<1>1. CASE caller = "cleanup" /\ journal.cleanup = "succeeded"
  <2>1. /\ pc = "cleaned" /\ journal.cleanup \in States /\ terminal(journal.cleanup)
        /\ journal.cleanup # "idle" /\ journal.state = "running" /\ journal.phase = "cleaning"
    BY DEF SaveCleaned, Inv, InCleanup, Recorded, terminal, States
  <2>2. pc' = "prune"
    BY <1>1 DEF SaveCleaned
  <2>3. /\ journal' \in JournalRecords /\ journal'.op = journal.op
        /\ journal'.state = journal.cleanup /\ journal'.phase = "cleaned"
        /\ journal'.src = journal.src /\ journal'.tgt = journal.tgt
        /\ journal'.cleanup = journal.cleanup
        /\ journal'.snap <=> journal.snap
        /\ journal'.prod <=> journal.prod
        /\ journal'.auth <=> journal.auth
    BY <2>1, SaveFields DEF SaveCleaned, Saves, Inv, Phases
  <2>4. UNCHANGED <<history, compose, cont, data, mounted, snap, newer, tags,
        sandbox, gate, run, caller, due, unit, crashes, faults, actions>>
    BY <1>1, Zenon DEF SaveCleaned, Saves, disk, env, exceptJournal, exceptGates,
    exceptCompose, exceptData, exceptSnap, exceptSandbox
  <2>5. TypeOK'
    BY <2>1, <2>2, <2>3, <2>4 DEF Inv, TypeOK, Steps
  <2>6. RollbackPointKept' /\ Recorded' /\ Outcome'
    BY <2>1, <2>2, <2>3, <2>4 DEF Inv, RollbackPointKept, Recorded, Outcome, Planning,
    Undisturbed, Real, terminal
  <2>7. Gated' /\ Unchanged' /\ Changed' /\ AuthorizedRuns'
    BY <2>1, <2>2, <2>3, <2>4 DEF Inv, Gated, Unchanged, Changed, AuthorizedRuns, Holds,
    Settled, Planning, Undisturbed, Runs, Updating, terminal, AllMounted
  <2>8. InPlanning' /\ InSuppress' /\ InUpdate'
    BY <2>1, <2>2, <2>3, <2>4 DEF Inv, InPlanning, InSuppress, InUpdate, Runs, Updating,
    RollingBack, AllMounted
  <2>9. InRollback' /\ InAuthorize' /\ InCleanup'
    BY <2>1, <2>2, <2>3, <2>4 DEF Inv, Recorded, InRollback, InAuthorize, InCleanup, Holds,
    Planning, Undisturbed, Real, RollingBack, terminal, Unpruned
  <2> QED BY <2>5, <2>6, <2>7, <2>8, <2>9 DEF Inv
<1>2. CASE ~(caller = "cleanup" /\ journal.cleanup = "succeeded")
  <2>1. /\ pc = "cleaned" /\ journal.cleanup \in States /\ terminal(journal.cleanup)
        /\ journal.cleanup # "idle" /\ journal.state = "running" /\ journal.phase = "cleaning"
    BY DEF SaveCleaned, Inv, InCleanup, Recorded, terminal, States
  <2>2. /\ pc' = "free" /\ caller' = None /\ due' \in BOOLEAN
        /\ unit' \in {"reconcile", "launch", "done"}
    BY <1>2 DEF SaveCleaned, Return, Leave, Inv, TypeOK
  <2>3. /\ journal' \in JournalRecords /\ journal'.op = journal.op
        /\ journal'.state = journal.cleanup /\ journal'.phase = "cleaned"
        /\ journal'.src = journal.src /\ journal'.tgt = journal.tgt
        /\ journal'.cleanup = journal.cleanup
        /\ journal'.snap <=> journal.snap
        /\ journal'.prod <=> journal.prod
        /\ journal'.auth <=> journal.auth
    BY <2>1, SaveFields DEF SaveCleaned, Saves, Inv, Phases
  <2>4. UNCHANGED <<history, compose, cont, data, mounted, snap, newer, tags,
        sandbox, gate, run, crashes, faults, actions>>
    BY <1>2, Zenon DEF SaveCleaned, Return, Leave, Saves, disk, env, exceptJournal,
    exceptGates, exceptCompose, exceptData, exceptSnap, exceptSandbox
  <2>5. TypeOK'
    BY <2>1, <2>2, <2>3, <2>4 DEF Inv, TypeOK, Steps
  <2>6. RollbackPointKept' /\ Recorded' /\ Outcome'
    BY <2>1, <2>2, <2>3, <2>4 DEF Inv, RollbackPointKept, Recorded, Outcome, Planning,
    Undisturbed, Real, terminal
  <2>7. Gated' /\ Unchanged' /\ Changed' /\ AuthorizedRuns'
    BY <2>1, <2>2, <2>3, <2>4 DEF Inv, Gated, Unchanged, Changed, AuthorizedRuns, Holds,
    Settled, Planning, Undisturbed, Runs, Updating, terminal, AllMounted
  <2>8. InPlanning' /\ InSuppress' /\ InUpdate'
    BY <2>1, <2>2, <2>3, <2>4 DEF Inv, InPlanning, InSuppress, InUpdate, Runs, Updating,
    RollingBack, AllMounted
  <2>9. InRollback' /\ InAuthorize' /\ InCleanup'
    BY <2>1, <2>2, <2>3, <2>4 DEF Inv, InRollback, InAuthorize, InCleanup, Holds, Planning,
    Undisturbed, RollingBack, terminal, Unpruned
  <2> QED BY <2>5, <2>6, <2>7, <2>8, <2>9 DEF Inv
<1> QED BY <1>1, <1>2 DEF SaveCleaned

\* Pruning goes on while an older entry has something to release.
LEMMA PruneKeeps ==
  ASSUME Inv, Prune
  PROVE  Inv'
<1>1. CASE Prunable /\ Unpruned # {}
  <2>1. /\ pc = "prune" /\ pc' \in {"pruneRelease", "pruneImages"} /\ Unpruned # {}
    BY <1>1 DEF Prune
  <2>2. UNCHANGED <<journal, history, compose, cont, data, mounted, snap, newer,
        tags, sandbox, gate, run, caller, due, unit, crashes, faults, actions>>
    BY <1>1, Zenon DEF Prune, Saves, disk, env, exceptJournal, exceptGates, exceptCompose,
    exceptData, exceptSnap, exceptSandbox
  <2>3. TypeOK'
    BY <2>1, <2>2 DEF Inv, TypeOK, Steps, After
  <2>4. RollbackPointKept' /\ Recorded' /\ Outcome'
    BY <2>1, <2>2 DEF Inv, RollbackPointKept, Recorded, Outcome, Planning, Undisturbed,
    Real, terminal
  <2>5. Gated' /\ Unchanged' /\ Changed' /\ AuthorizedRuns'
    BY <2>1, <2>2 DEF Inv, Gated, Unchanged, Changed, AuthorizedRuns, Holds, Settled,
    Planning, Undisturbed, Runs, Updating, terminal, AllMounted
  <2>6. InPlanning' /\ InSuppress' /\ InUpdate'
    BY <2>1, <2>2 DEF Inv, InPlanning, InSuppress, InUpdate, Runs, Updating, RollingBack,
    AllMounted
  <2>7. InRollback' /\ InAuthorize' /\ InCleanup'
    BY <2>1, <2>2 DEF Inv, InRollback, InAuthorize, InCleanup, Holds, Planning,
    Undisturbed, RollingBack, terminal, Unpruned
  <2> QED BY <2>3, <2>4, <2>5, <2>6, <2>7 DEF Inv
<1>2. CASE ~(Prunable /\ Unpruned # {})
  <2>1. Idles
    BY <1>2 DEF Prune, Return, Leave, Idles, Inv, TypeOK, Saves, disk, env, exceptJournal,
    exceptGates, exceptCompose, exceptData, exceptSnap, exceptSandbox
  <2> QED BY <2>1, IdlesKeep
<1> QED BY <1>1, <1>2 DEF Prune

\* The entry under way is an older operation, never the journal's own.
LEMMA EntryIsOld ==
  ASSUME Inv, pc \in {"pruneRelease", "pruneDestroy", "pruneImages", "pruneSave"}
  PROVE  Entry \in Unpruned /\ Entry \in Ops /\ Entry # journal.op /\ journal.op \in Ops
<1>1. Unpruned # {} /\ journal.op # None
  BY DEF Inv, InCleanup
<1>2. Entry \in Unpruned
  BY <1>1 DEF Entry
<1> QED BY <1>1, <1>2 DEF Unpruned, Inv, TypeOK, JournalRecords, Recorded

\* Only the rollback point of an older operation is released.
LEMMA PruneReleaseKeeps ==
  ASSUME Inv, PruneRelease
  PROVE  Inv'
<1>1. /\ pc = "pruneRelease" /\ pc' = "pruneDestroy"
  BY DEF PruneRelease, Go, After
<1>2. /\ Entry \in Ops /\ Entry # journal.op /\ journal.op \in Ops /\ Unpruned # {}
  BY <1>1, EntryIsOld
<1>3. snap' = [snap EXCEPT ![Entry].made = "taken"]
  BY DEF PruneRelease
<1>4. /\ snap' \in [Ops -> Snapshots] /\ snap'[journal.op] = snap[journal.op]
  BY <1>2, <1>3 DEF Inv, TypeOK, Snapshots
<1>5. UNCHANGED <<journal, history, compose, cont, data, mounted, newer, tags,
      sandbox, gate, run, caller, due, unit, crashes, faults, actions>>
  BY Zenon DEF PruneRelease, Go, Saves, disk, env, exceptJournal, exceptGates,
  exceptCompose, exceptData, exceptSnap, exceptSandbox
<1>6. TypeOK'
  BY <1>1, <1>2, <1>3, <1>4, <1>5 DEF Inv, TypeOK, Steps, After
<1>7. RollbackPointKept' /\ Recorded' /\ Outcome'
  BY <1>1, <1>2, <1>3, <1>4, <1>5 DEF Inv, RollbackPointKept, Recorded, Outcome, Planning,
  Undisturbed, Real, terminal
<1>8. Gated' /\ Unchanged' /\ Changed' /\ AuthorizedRuns'
  BY <1>1, <1>2, <1>3, <1>4, <1>5 DEF Inv, Gated, Unchanged, Changed, AuthorizedRuns,
  Holds, Settled, Planning, Undisturbed, Runs, Updating, terminal, AllMounted
<1>9. InPlanning' /\ InSuppress' /\ InUpdate'
  BY <1>1, <1>2, <1>3, <1>4, <1>5 DEF Inv, InPlanning, InSuppress, InUpdate, Runs,
  Updating, RollingBack, AllMounted
<1>10. InRollback' /\ InAuthorize' /\ InCleanup'
  BY <1>1, <1>2, <1>3, <1>4, <1>5 DEF Inv, InRollback, InAuthorize, InCleanup, Holds,
  Planning, Undisturbed, RollingBack, terminal, Unpruned
<1> QED BY <1>6, <1>7, <1>8, <1>9, <1>10 DEF Inv

\* Only the rollback point of an older operation is destroyed.
LEMMA PruneDestroyKeeps ==
  ASSUME Inv, PruneDestroy
  PROVE  Inv'
<1>1. /\ pc = "pruneDestroy" /\ pc' = "pruneImages"
  BY DEF PruneDestroy, Go, After
<1>2. /\ Entry \in Ops /\ Entry # journal.op /\ journal.op \in Ops /\ Unpruned # {}
  BY <1>1, EntryIsOld
<1>3. /\ snap' = [snap EXCEPT ![Entry] = NoSnapshot] /\ NoSnapshot \in Snapshots
  BY DEF PruneDestroy, NoSnapshot, Snapshots
<1>4. /\ snap' \in [Ops -> Snapshots] /\ snap'[journal.op] = snap[journal.op]
  BY <1>2, <1>3 DEF Inv, TypeOK
<1>5. UNCHANGED <<journal, history, compose, cont, data, mounted, newer, tags,
      sandbox, gate, run, caller, due, unit, crashes, faults, actions>>
  BY Zenon DEF PruneDestroy, Go, Saves, disk, env, exceptJournal, exceptGates,
  exceptCompose, exceptData, exceptSnap, exceptSandbox
<1>6. TypeOK'
  BY <1>1, <1>2, <1>3, <1>4, <1>5 DEF Inv, TypeOK, Steps, After
<1>7. RollbackPointKept' /\ Recorded' /\ Outcome'
  BY <1>1, <1>2, <1>3, <1>4, <1>5 DEF Inv, RollbackPointKept, Recorded, Outcome, Planning,
  Undisturbed, Real, terminal
<1>8. Gated' /\ Unchanged' /\ Changed' /\ AuthorizedRuns'
  BY <1>1, <1>2, <1>3, <1>4, <1>5 DEF Inv, Gated, Unchanged, Changed, AuthorizedRuns,
  Holds, Settled, Planning, Undisturbed, Runs, Updating, terminal, AllMounted
<1>9. InPlanning' /\ InSuppress' /\ InUpdate'
  BY <1>1, <1>2, <1>3, <1>4, <1>5 DEF Inv, InPlanning, InSuppress, InUpdate, Runs,
  Updating, RollingBack, AllMounted
<1>10. InRollback' /\ InAuthorize' /\ InCleanup'
  BY <1>1, <1>2, <1>3, <1>4, <1>5 DEF Inv, InRollback, InAuthorize, InCleanup, Holds,
  Planning, Undisturbed, RollingBack, terminal, Unpruned
<1> QED BY <1>6, <1>7, <1>8, <1>9, <1>10 DEF Inv

\* The images of the retained rollback point are protected.
LEMMA ReleaseImagesKeeps ==
  ASSUME Inv, ReleaseImages
  PROVE  Inv'
<1>1. /\ pc = "pruneImages" /\ pc' = "pruneSave"
  BY DEF ReleaseImages, Go, After
<1>2. /\ Entry \in Ops /\ Entry # journal.op /\ journal.op \in Ops /\ Unpruned # {}
  BY <1>1, EntryIsOld
<1>3. /\ tags' \subseteq Releases
      /\ journal.src \in tags => journal.src \in tags'
  BY DEF ReleaseImages, Protected, Inv, TypeOK
<1>4. UNCHANGED <<journal, history, compose, cont, data, mounted, snap, newer,
      sandbox, gate, run, caller, due, unit, crashes, faults, actions>>
  BY Zenon DEF ReleaseImages, Go, Saves, disk, env, exceptJournal, exceptGates,
  exceptCompose, exceptData, exceptSnap, exceptSandbox
<1>5. TypeOK'
  BY <1>1, <1>2, <1>3, <1>4 DEF Inv, TypeOK, Steps, After
<1>6. RollbackPointKept' /\ Recorded' /\ Outcome'
  BY <1>1, <1>2, <1>3, <1>4 DEF Inv, RollbackPointKept, Recorded, Outcome, Planning,
  Undisturbed, Real, terminal
<1>7. Gated' /\ Unchanged' /\ Changed' /\ AuthorizedRuns'
  BY <1>1, <1>2, <1>3, <1>4 DEF Inv, Gated, Unchanged, Changed, AuthorizedRuns, Holds,
  Settled, Planning, Undisturbed, Runs, Updating, terminal, AllMounted
<1>8. InPlanning' /\ InSuppress' /\ InUpdate'
  BY <1>1, <1>2, <1>3, <1>4 DEF Inv, InPlanning, InSuppress, InUpdate, Runs, Updating,
  RollingBack, AllMounted
<1>9. InRollback' /\ InAuthorize' /\ InCleanup'
  BY <1>1, <1>2, <1>3, <1>4 DEF Inv, InRollback, InAuthorize, InCleanup, Holds, Planning,
  Undisturbed, RollingBack, terminal, Unpruned
<1> QED BY <1>5, <1>6, <1>7, <1>8, <1>9 DEF Inv

\* The older entry is rewritten.
LEMMA SavePrunedKeeps ==
  ASSUME Inv, SavePruned
  PROVE  Inv'
<1>1. /\ pc = "pruneSave" /\ pc' = "prune"
  BY DEF SavePruned, Go, After
<1>2. /\ Entry \in Ops /\ Entry # journal.op /\ journal.op \in Ops /\ Unpruned # {}
  BY <1>1, EntryIsOld
<1>3. history' = [history EXCEPT ![Entry] = [made |-> TRUE, snap |-> FALSE, src |-> None]]
  BY DEF SavePruned
<1>4. /\ history' \in [Ops -> HistoryRecords] /\ history'[journal.op] = history[journal.op]
  BY <1>2, <1>3 DEF Inv, TypeOK, HistoryRecords
<1>5. UNCHANGED <<journal, compose, cont, data, mounted, snap, newer, tags, sandbox,
      gate, run, caller, due, unit, crashes, faults, actions>>
  BY Zenon DEF SavePruned, Go, Saves, disk, env, exceptJournal, exceptGates, exceptCompose,
  exceptData, exceptSnap, exceptSandbox
<1>6. TypeOK'
  BY <1>1, <1>2, <1>3, <1>4, <1>5 DEF Inv, TypeOK, Steps
<1>7. RollbackPointKept' /\ Recorded' /\ Outcome'
  BY <1>1, <1>2, <1>3, <1>4, <1>5 DEF Inv, RollbackPointKept, Recorded, Outcome, Planning,
  Undisturbed, Real, terminal
<1>8. Gated' /\ Unchanged' /\ Changed' /\ AuthorizedRuns'
  BY <1>1, <1>2, <1>3, <1>4, <1>5 DEF Inv, Gated, Unchanged, Changed, AuthorizedRuns,
  Holds, Settled, Planning, Undisturbed, Runs, Updating, terminal, AllMounted
<1>9. InPlanning' /\ InSuppress' /\ InUpdate'
  BY <1>1, <1>2, <1>3, <1>4, <1>5 DEF Inv, InPlanning, InSuppress, InUpdate, Runs,
  Updating, RollingBack, AllMounted
<1>10. InRollback' /\ InAuthorize' /\ InCleanup'
  BY <1>1, <1>2, <1>3, <1>4, <1>5 DEF Inv, InRollback, InAuthorize, InCleanup, Holds,
  Planning, Undisturbed, RollingBack, terminal, Unpruned
<1> QED BY <1>6, <1>7, <1>8, <1>9, <1>10 DEF Inv

\* A failure is recorded; the phase says how far it went.
LEMMA SaveFailedKeeps ==
  ASSUME Inv, SaveFailed
  PROVE  Inv'
<1>1. CASE pc = "failed" /\ Saves(Save("failed", journal.phase))
  <2>1. /\ pc = "failed" /\ journal.phase \in Phases
    BY <1>1 DEF Inv, TypeOK, JournalRecords
  <2>2. /\ pc' = "free" /\ caller' = None /\ due' \in BOOLEAN
        /\ unit' \in {"reconcile", "launch", "done"}
    BY DEF SaveFailed, Return, Leave, Inv, TypeOK
  <2>3. /\ journal' \in JournalRecords /\ journal'.op = journal.op /\ journal'.state = "failed"
        /\ journal'.phase = journal.phase /\ journal'.src = journal.src
        /\ journal'.tgt = journal.tgt /\ journal'.cleanup = journal.cleanup
        /\ journal'.snap <=> journal.snap
        /\ journal'.prod <=> journal.prod
        /\ journal'.auth <=> journal.auth
    BY <1>1, <2>1, SaveFields DEF Saves, Inv, States
  <2>4. UNCHANGED <<history, compose, cont, data, mounted, snap, newer, tags,
        sandbox, gate, run, crashes, faults, actions>>
    BY <1>1, Zenon DEF SaveFailed, Return, Leave, Saves, disk, env, exceptJournal,
    exceptGates, exceptCompose, exceptData, exceptSnap, exceptSandbox
  <2>5. TypeOK'
    BY <2>1, <2>2, <2>3, <2>4 DEF Inv, TypeOK, Steps
  <2>6. RollbackPointKept' /\ Recorded' /\ Outcome'
    BY <2>1, <2>2, <2>3, <2>4 DEF Inv, RollbackPointKept, Recorded, Outcome, InPlanning,
    Planning, Undisturbed, Real, Updating, terminal
  <2>7. Gated' /\ Unchanged' /\ Changed' /\ AuthorizedRuns'
    BY <2>1, <2>2, <2>3, <2>4 DEF Inv, Gated, Unchanged, Changed, AuthorizedRuns, Holds,
    Settled, Planning, Undisturbed, Runs, Updating, terminal, AllMounted
  <2>8. InPlanning' /\ InSuppress' /\ InUpdate'
    BY <2>1, <2>2, <2>3, <2>4 DEF Inv, InPlanning, InSuppress, InUpdate, Runs, Updating,
    RollingBack, AllMounted
  <2>9. InRollback' /\ InAuthorize' /\ InCleanup'
    BY <2>1, <2>2, <2>3, <2>4 DEF Inv, InRollback, InAuthorize, InCleanup, Holds, Planning,
    Undisturbed, RollingBack, terminal, Unpruned
  <2> QED BY <2>5, <2>6, <2>7, <2>8, <2>9 DEF Inv
<1>2. CASE pc = "recoveryFailed" /\ Saves(Save("recovery_failed", journal.phase))
  <2>1. /\ pc = "recoveryFailed" /\ journal.phase \in Phases
    BY <1>2 DEF Inv, TypeOK, JournalRecords
  <2>2. /\ pc' = "free" /\ caller' = None /\ due' \in BOOLEAN
        /\ unit' \in {"reconcile", "launch", "done"}
    BY DEF SaveFailed, Return, Leave, Inv, TypeOK
  <2>3. /\ journal' \in JournalRecords /\ journal'.op = journal.op
        /\ journal'.state = "recovery_failed" /\ journal'.phase = journal.phase
        /\ journal'.src = journal.src /\ journal'.tgt = journal.tgt
        /\ journal'.cleanup = journal.cleanup
        /\ journal'.snap <=> journal.snap
        /\ journal'.prod <=> journal.prod
        /\ journal'.auth <=> journal.auth
    BY <1>2, <2>1, SaveFields DEF Saves, Inv, States
  <2>4. UNCHANGED <<history, compose, cont, data, mounted, snap, newer, tags,
        sandbox, gate, run, crashes, faults, actions>>
    BY <1>2, Zenon DEF SaveFailed, Return, Leave, Saves, disk, env, exceptJournal,
    exceptGates, exceptCompose, exceptData, exceptSnap, exceptSandbox
  <2>5. TypeOK'
    BY <2>1, <2>2, <2>3, <2>4 DEF Inv, TypeOK, Steps
  <2>6. RollbackPointKept' /\ Recorded' /\ Outcome'
    BY <2>1, <2>2, <2>3, <2>4 DEF Inv, RollbackPointKept, Recorded, Outcome, InRollback,
    Holds, Planning, Undisturbed, Real, RollingBack, terminal
  <2>7. Gated' /\ Unchanged' /\ Changed' /\ AuthorizedRuns'
    BY <2>1, <2>2, <2>3, <2>4 DEF Inv, Gated, Unchanged, Changed, AuthorizedRuns,
    InRollback, Holds, Settled, Planning, Undisturbed, Runs, Updating, RollingBack,
    terminal, AllMounted
  <2>8. InPlanning' /\ InSuppress' /\ InUpdate'
    BY <2>1, <2>2, <2>3, <2>4 DEF Inv, InPlanning, InSuppress, InUpdate, Runs, Updating,
    RollingBack, AllMounted
  <2>9. InRollback' /\ InAuthorize' /\ InCleanup'
    BY <2>1, <2>2, <2>3, <2>4 DEF Inv, InRollback, InAuthorize, InCleanup, Holds, Planning,
    Undisturbed, RollingBack, terminal, Unpruned
  <2> QED BY <2>5, <2>6, <2>7, <2>8, <2>9 DEF Inv
<1>3. CASE pc = "cleanFailed" /\ Saves(Save("failed", journal.phase))
  <2>1. /\ pc = "cleanFailed" /\ journal.phase \in Phases
    BY <1>3 DEF Inv, TypeOK, JournalRecords
  <2>2. /\ pc' = "free" /\ caller' = None /\ due' \in BOOLEAN
        /\ unit' \in {"reconcile", "launch", "done"}
    BY DEF SaveFailed, Return, Leave, Inv, TypeOK
  <2>3. /\ journal' \in JournalRecords /\ journal'.op = journal.op /\ journal'.state = "failed"
        /\ journal'.phase = journal.phase /\ journal'.src = journal.src
        /\ journal'.tgt = journal.tgt /\ journal'.cleanup = journal.cleanup
        /\ journal'.snap <=> journal.snap
        /\ journal'.prod <=> journal.prod
        /\ journal'.auth <=> journal.auth
    BY <1>3, <2>1, SaveFields DEF Saves, Inv, States
  <2>4. UNCHANGED <<history, compose, cont, data, mounted, snap, newer, tags,
        sandbox, gate, run, crashes, faults, actions>>
    BY <1>3, Zenon DEF SaveFailed, Return, Leave, Saves, disk, env, exceptJournal,
    exceptGates, exceptCompose, exceptData, exceptSnap, exceptSandbox
  <2>5. TypeOK'
    BY <2>1, <2>2, <2>3, <2>4 DEF Inv, TypeOK, Steps
  <2>6. RollbackPointKept' /\ Recorded' /\ Outcome'
    BY <2>1, <2>2, <2>3, <2>4 DEF Inv, RollbackPointKept, Recorded, Outcome, InCleanup,
    Planning, Undisturbed, Real, terminal, Unpruned
  <2>7. Gated' /\ Unchanged' /\ Changed' /\ AuthorizedRuns'
    BY <2>1, <2>2, <2>3, <2>4 DEF Inv, Gated, Unchanged, Changed, AuthorizedRuns, Holds,
    Settled, Planning, Undisturbed, Runs, Updating, terminal, AllMounted
  <2>8. InPlanning' /\ InSuppress' /\ InUpdate'
    BY <2>1, <2>2, <2>3, <2>4 DEF Inv, InPlanning, InSuppress, InUpdate, Runs, Updating,
    RollingBack, AllMounted
  <2>9. InRollback' /\ InAuthorize' /\ InCleanup'
    BY <2>1, <2>2, <2>3, <2>4 DEF Inv, InRollback, InAuthorize, InCleanup, Holds, Planning,
    Undisturbed, RollingBack, terminal, Unpruned
  <2> QED BY <2>5, <2>6, <2>7, <2>8, <2>9 DEF Inv
<1> QED BY <1>1, <1>2, <1>3 DEF SaveFailed

\* A command that fails leaves what it found, and the next step expects no more.
LEMMA FailsKeeps ==
  ASSUME Inv, Fails, faults' \in 0 .. MaxFaults
  PROVE  Inv'
<1>1. CASE pc \in {"prepare", "sandbox"}
  <2>1. pc' = "abandonClean"
    BY <1>1 DEF Fails, Instead, Leave
  <2>2. /\ sandbox' \subseteq Ops /\ cont' = cont
    BY <1>1 DEF Fails, Inv, TypeOK, JournalRecords, InPlanning, Updating, Recorded
  <2>3. /\ caller' \in Callers \cup {None} /\ due' \in BOOLEAN
        /\ unit' \in {"reconcile", "launch", "done"}
    BY DEF Fails, Leave, Inv, TypeOK
  <2>4. /\ crashes' = crashes /\ actions' = actions /\ faults' \in 0 .. MaxFaults
    BY DEF Fails, Leave
  <2>5. UNCHANGED <<journal, history, compose, data, mounted, snap, newer, tags,
        gate, run>>
    BY <1>1, Zenon DEF Fails, Saves, disk, env, exceptJournal, exceptGates, exceptCompose,
    exceptData, exceptSnap, exceptSandbox
  <2>6. TypeOK'
    BY <2>1, <2>2, <2>3, <2>4, <2>5 DEF Inv, TypeOK, Steps, After
  <2>7. RollbackPointKept' /\ Recorded' /\ Outcome'
    BY <2>1, <2>2, <2>3, <2>4, <2>5 DEF Inv, RollbackPointKept, Recorded, Outcome,
    Planning, Undisturbed, Real, terminal
  <2>8. Gated' /\ Unchanged' /\ Changed' /\ AuthorizedRuns'
    BY <2>1, <2>2, <2>3, <2>4, <2>5 DEF Inv, Gated, Unchanged, Changed, AuthorizedRuns,
    Holds, Settled, Planning, Undisturbed, Runs, Updating, terminal, AllMounted
  <2>9. InPlanning' /\ InSuppress' /\ InUpdate'
    BY <1>1, <2>1, <2>2, <2>3, <2>4, <2>5 DEF Inv, InPlanning, InSuppress, InUpdate, Runs,
    Updating, RollingBack, AllMounted
  <2>10. InRollback' /\ InAuthorize' /\ InCleanup'
    BY <2>1, <2>2, <2>3, <2>4, <2>5 DEF Inv, InRollback, InAuthorize, InCleanup, Holds,
    Planning, Undisturbed, RollingBack, terminal, Unpruned
  <2> QED BY <2>6, <2>7, <2>8, <2>9, <2>10 DEF Inv
<1>2. CASE pc = "tidy"
  <2>1. pc' = "failed"
    BY <1>2 DEF Fails, Instead, Leave
  <2>2. /\ sandbox' = sandbox /\ cont' = cont
    BY <1>2 DEF Fails, Others
  <2>3. /\ caller' \in Callers \cup {None} /\ due' \in BOOLEAN
        /\ unit' \in {"reconcile", "launch", "done"}
    BY DEF Fails, Leave, Inv, TypeOK
  <2>4. /\ crashes' = crashes /\ actions' = actions /\ faults' \in 0 .. MaxFaults
    BY DEF Fails, Leave
  <2>5. UNCHANGED <<journal, history, compose, data, mounted, snap, newer, tags,
        gate, run>>
    BY <1>2, Zenon DEF Fails, Saves, disk, env, exceptJournal, exceptGates, exceptCompose,
    exceptData, exceptSnap, exceptSandbox
  <2>6. TypeOK'
    BY <2>1, <2>2, <2>3, <2>4, <2>5 DEF Inv, TypeOK, Steps
  <2>7. RollbackPointKept' /\ Recorded' /\ Outcome'
    BY <2>1, <2>2, <2>3, <2>4, <2>5 DEF Inv, RollbackPointKept, Recorded, Outcome,
    Planning, Undisturbed, Real, terminal
  <2>8. Gated' /\ Unchanged' /\ Changed' /\ AuthorizedRuns'
    BY <2>1, <2>2, <2>3, <2>4, <2>5 DEF Inv, Gated, Unchanged, Changed, AuthorizedRuns,
    Holds, Settled, Planning, Undisturbed, Runs, Updating, terminal, AllMounted
  <2>9. InPlanning' /\ InSuppress' /\ InUpdate'
    BY <1>2, <2>1, <2>2, <2>3, <2>4, <2>5 DEF Inv, InPlanning, InSuppress, InUpdate, Runs,
    Updating, RollingBack, AllMounted
  <2>10. InRollback' /\ InAuthorize' /\ InCleanup'
    BY <2>1, <2>2, <2>3, <2>4, <2>5 DEF Inv, InRollback, InAuthorize, InCleanup, Holds,
    Planning, Undisturbed, RollingBack, terminal, Unpruned
  <2> QED BY <2>6, <2>7, <2>8, <2>9, <2>10 DEF Inv
<1>3. CASE pc = "abandonClean"
  <2>1. pc' \in {"failed", "free"}
    BY <1>3 DEF Fails, Instead, Leave
  <2>2. /\ sandbox' = sandbox /\ cont' = cont
    BY <1>3 DEF Fails, Others
  <2>3. /\ caller' \in Callers \cup {None} /\ due' \in BOOLEAN
        /\ unit' \in {"reconcile", "launch", "done"}
    BY DEF Fails, Leave, Inv, TypeOK
  <2>4. /\ crashes' = crashes /\ actions' = actions /\ faults' \in 0 .. MaxFaults
    BY DEF Fails, Leave
  <2>5. UNCHANGED <<journal, history, compose, data, mounted, snap, newer, tags,
        gate, run>>
    BY <1>3, Zenon DEF Fails, Saves, disk, env, exceptJournal, exceptGates, exceptCompose,
    exceptData, exceptSnap, exceptSandbox
  <2>6. TypeOK'
    BY <2>1, <2>2, <2>3, <2>4, <2>5 DEF Inv, TypeOK, Steps
  <2>7. RollbackPointKept' /\ Recorded' /\ Outcome'
    BY <2>1, <2>2, <2>3, <2>4, <2>5 DEF Inv, RollbackPointKept, Recorded, Outcome,
    Planning, Undisturbed, Real, terminal
  <2>8. Gated' /\ Unchanged' /\ Changed' /\ AuthorizedRuns'
    BY <2>1, <2>2, <2>3, <2>4, <2>5 DEF Inv, Gated, Unchanged, Changed, AuthorizedRuns,
    Holds, Settled, Planning, Undisturbed, Runs, Updating, terminal, AllMounted
  <2>9. InPlanning' /\ InSuppress' /\ InUpdate'
    BY <1>3, <2>1, <2>2, <2>3, <2>4, <2>5 DEF Inv, InPlanning, InSuppress, InUpdate, Runs,
    Updating, RollingBack, AllMounted
  <2>10. InRollback' /\ InAuthorize' /\ InCleanup'
    BY <2>1, <2>2, <2>3, <2>4, <2>5 DEF Inv, InRollback, InAuthorize, InCleanup, Holds,
    Planning, Undisturbed, RollingBack, terminal, Unpruned
  <2> QED BY <2>6, <2>7, <2>8, <2>9, <2>10 DEF Inv
<1>4. CASE pc = "clean"
  <2>1. pc' \in {"cleanFailed", "free"}
    BY <1>4 DEF Fails, Instead, Leave
  <2>2. /\ sandbox' = sandbox /\ cont' = cont
    BY <1>4 DEF Fails, Others
  <2>3. /\ caller' \in Callers \cup {None} /\ due' \in BOOLEAN
        /\ unit' \in {"reconcile", "launch", "done"}
    BY DEF Fails, Leave, Inv, TypeOK
  <2>4. /\ crashes' = crashes /\ actions' = actions /\ faults' \in 0 .. MaxFaults
    BY DEF Fails, Leave
  <2>5. UNCHANGED <<journal, history, compose, data, mounted, snap, newer, tags,
        gate, run>>
    BY <1>4, Zenon DEF Fails, Saves, disk, env, exceptJournal, exceptGates, exceptCompose,
    exceptData, exceptSnap, exceptSandbox
  <2>6. TypeOK'
    BY <2>1, <2>2, <2>3, <2>4, <2>5 DEF Inv, TypeOK, Steps
  <2>7. RollbackPointKept' /\ Recorded' /\ Outcome'
    BY <2>1, <2>2, <2>3, <2>4, <2>5 DEF Inv, RollbackPointKept, Recorded, Outcome,
    Planning, Undisturbed, Real, terminal
  <2>8. Gated' /\ Unchanged' /\ Changed' /\ AuthorizedRuns'
    BY <2>1, <2>2, <2>3, <2>4, <2>5 DEF Inv, Gated, Unchanged, Changed, AuthorizedRuns,
    Holds, Settled, Planning, Undisturbed, Runs, Updating, terminal, AllMounted
  <2>9. InPlanning' /\ InSuppress' /\ InUpdate'
    BY <2>1, <2>2, <2>3, <2>4, <2>5 DEF Inv, InPlanning, InSuppress, InUpdate, Runs,
    Updating, RollingBack, AllMounted
  <2>10. InRollback' /\ InAuthorize' /\ InCleanup'
    BY <1>4, <2>1, <2>2, <2>3, <2>4, <2>5 DEF Inv, InRollback, InAuthorize, InCleanup,
    Holds, Planning, Undisturbed, RollingBack, terminal, Unpruned
  <2> QED BY <2>6, <2>7, <2>8, <2>9, <2>10 DEF Inv
<1>5. CASE pc \in {"pruneRelease", "pruneDestroy", "pruneImages", "pruneSave"}
  <2>1. pc' = "free"
    BY <1>5 DEF Fails, Instead, Leave
  <2>2. /\ sandbox' = sandbox /\ cont' = cont
    BY <1>5 DEF Fails, Others
  <2>3. /\ caller' \in Callers \cup {None} /\ due' \in BOOLEAN
        /\ unit' \in {"reconcile", "launch", "done"}
    BY DEF Fails, Leave, Inv, TypeOK
  <2>4. /\ crashes' = crashes /\ actions' = actions /\ faults' \in 0 .. MaxFaults
    BY DEF Fails, Leave
  <2>5. UNCHANGED <<journal, history, compose, data, mounted, snap, newer, tags,
        gate, run>>
    BY <1>5, Zenon DEF Fails, Saves, disk, env, exceptJournal, exceptGates, exceptCompose,
    exceptData, exceptSnap, exceptSandbox
  <2>6. TypeOK'
    BY <2>1, <2>2, <2>3, <2>4, <2>5 DEF Inv, TypeOK, Steps
  <2>7. RollbackPointKept' /\ Recorded' /\ Outcome'
    BY <2>1, <2>2, <2>3, <2>4, <2>5 DEF Inv, RollbackPointKept, Recorded, Outcome,
    Planning, Undisturbed, Real, terminal
  <2>8. Gated' /\ Unchanged' /\ Changed' /\ AuthorizedRuns'
    BY <2>1, <2>2, <2>3, <2>4, <2>5 DEF Inv, Gated, Unchanged, Changed, AuthorizedRuns,
    Holds, Settled, Planning, Undisturbed, Runs, Updating, terminal, AllMounted
  <2>9. InPlanning' /\ InSuppress' /\ InUpdate'
    BY <2>1, <2>2, <2>3, <2>4, <2>5 DEF Inv, InPlanning, InSuppress, InUpdate, Runs,
    Updating, RollingBack, AllMounted
  <2>10. InRollback' /\ InAuthorize' /\ InCleanup'
    BY <2>1, <2>2, <2>3, <2>4, <2>5 DEF Inv, InRollback, InAuthorize, InCleanup, Holds,
    Planning, Undisturbed, RollingBack, terminal, Unpruned
  <2> QED BY <2>6, <2>7, <2>8, <2>9, <2>10 DEF Inv
<1>6. CASE pc = "upPrevious"
  <2>1. pc' = "recoveryFailed"
    BY <1>6 DEF Fails, Instead, Inv, InRollback, RollingBack, Leave
  <2>2. sandbox' = sandbox
    BY <1>6 DEF Fails
  <2>3. /\ AllMounted \/ cont' = cont
        /\ cont' = cont \/ cont' = [rel |-> compose.rel, up |-> FALSE, norestart |-> compose.norestart]
    BY <1>6 DEF Fails, Refused
  <2>4. /\ compose.norestart /\ compose \in ComposeFiles /\ cont \in Containers
    BY <1>6 DEF Inv, TypeOK, InRollback
  <2>5. /\ compose.rel \in Releases /\ compose.norestart \in BOOLEAN
    BY <2>4, Zenon DEF ComposeFiles
  <2>6. [rel |-> compose.rel, up |-> FALSE, norestart |-> compose.norestart] \in Containers
    BY <2>5 DEF Containers
  <2>7. cont' \in Containers
    BY <2>3, <2>4, <2>6, Zenon
  <2>8. cont' = cont \/ (AllMounted /\ cont'.rel = compose.rel /\ ~cont'.up /\ cont'.norestart)
    BY <2>3, <2>4 DEF Containers
  <2>9. /\ caller' \in Callers \cup {None} /\ due' \in BOOLEAN
        /\ unit' \in {"reconcile", "launch", "done"}
    BY DEF Fails, Leave, Inv, TypeOK
  <2>10. /\ crashes' = crashes /\ actions' = actions /\ faults' \in 0 .. MaxFaults
    BY DEF Fails, Leave
  <2>11. UNCHANGED <<journal, history, compose, data, mounted, snap, newer, tags,
         gate, run>>
    BY <1>6, Zenon DEF Fails, Saves, disk, env, exceptJournal, exceptGates, exceptCompose,
    exceptData, exceptSnap, exceptSandbox
  <2>12. TypeOK'
    BY <2>1, <2>2, <2>3, <2>4, <2>5, <2>6, <2>7, <2>8, <2>9, <2>10, <2>11 DEF Inv, TypeOK,
    Steps
  <2>13. RollbackPointKept' /\ Recorded' /\ Outcome'
    BY <2>1, <2>2, <2>3, <2>4, <2>5, <2>6, <2>7, <2>8, <2>9, <2>10, <2>11 DEF Inv,
    RollbackPointKept, Recorded, Outcome, Planning, Undisturbed, Real, terminal
  <2>14. Gated' /\ Unchanged' /\ Changed' /\ AuthorizedRuns'
    BY <1>6, <2>1, <2>2, <2>3, <2>4, <2>5, <2>6, <2>7, <2>8, <2>9, <2>10, <2>11 DEF Inv,
    Gated, Unchanged, Changed, AuthorizedRuns, InRollback, Holds, Settled, Planning,
    Undisturbed, Runs, Updating, RollingBack, terminal, AllMounted
  <2>15. InPlanning' /\ InSuppress' /\ InUpdate'
    BY <2>1, <2>2, <2>3, <2>4, <2>5, <2>6, <2>7, <2>8, <2>9, <2>10, <2>11 DEF Inv,
    InPlanning, InSuppress, InUpdate, Runs, Updating, RollingBack, AllMounted
  <2>16. InRollback' /\ InAuthorize' /\ InCleanup'
    BY <1>6, <2>1, <2>2, <2>3, <2>4, <2>5, <2>6, <2>7, <2>8, <2>9, <2>10, <2>11 DEF Inv,
    InRollback, InAuthorize, InCleanup, Holds, Planning, Undisturbed, RollingBack,
    terminal, Unpruned
  <2> QED BY <2>12, <2>13, <2>14, <2>15, <2>16 DEF Inv
<1>7. CASE pc \in Others /\ GivesUp
  <2>1. pc' = "free"
    BY <1>7 DEF Fails, Instead, Others, GivesUp, Leave
  <2>2. /\ sandbox' = sandbox /\ cont' = cont
    BY <1>7 DEF Fails, Others
  <2>3. /\ caller' \in Callers \cup {None} /\ due' \in BOOLEAN
        /\ unit' \in {"reconcile", "launch", "done"}
    BY DEF Fails, Leave, Inv, TypeOK
  <2>4. /\ crashes' = crashes /\ actions' = actions /\ faults' \in 0 .. MaxFaults
    BY DEF Fails, Leave
  <2>5. UNCHANGED <<journal, history, compose, data, mounted, snap, newer, tags,
        gate, run>>
    BY <1>7, Zenon DEF Fails, Saves, disk, env, exceptJournal, exceptGates, exceptCompose,
    exceptData, exceptSnap, exceptSandbox
  <2>6. TypeOK'
    BY <2>1, <2>2, <2>3, <2>4, <2>5 DEF Inv, TypeOK, Steps
  <2>7. RollbackPointKept' /\ Recorded' /\ Outcome'
    BY <2>1, <2>2, <2>3, <2>4, <2>5 DEF Inv, RollbackPointKept, Recorded, Outcome,
    Planning, Undisturbed, Real, terminal
  <2>8. Gated' /\ Unchanged' /\ Changed' /\ AuthorizedRuns'
    BY <2>1, <2>2, <2>3, <2>4, <2>5 DEF Inv, Gated, Unchanged, Changed, AuthorizedRuns,
    Holds, Settled, Planning, Undisturbed, Runs, Updating, terminal, AllMounted
  <2>9. InPlanning' /\ InSuppress' /\ InUpdate'
    BY <2>1, <2>2, <2>3, <2>4, <2>5 DEF Inv, InPlanning, InSuppress, InUpdate, Runs,
    Updating, RollingBack, AllMounted
  <2>10. InRollback' /\ InAuthorize' /\ InCleanup'
    BY <2>1, <2>2, <2>3, <2>4, <2>5 DEF Inv, InRollback, InAuthorize, InCleanup, Holds,
    Planning, Undisturbed, RollingBack, terminal, Unpruned
  <2> QED BY <2>6, <2>7, <2>8, <2>9, <2>10 DEF Inv
<1>8. CASE pc \in Others /\ ~GivesUp /\ journal.state = "running"
  <2>1. pc' = "restoring"
    BY <1>8 DEF Fails, Instead, Others, GivesUp, Leave
  <2>2. caller' = caller
    BY <1>8, <2>1 DEF Fails, Instead, GivesUp, Others
  <2>3. /\ ~Undisturbed
        /\ journal.auth => caller = "execute"
    BY <1>8 DEF Others, GivesUp, Inv, InSuppress, InUpdate, InRollback, InAuthorize,
    Updating, RollingBack, Undisturbed, Planning, terminal
  <2>4. /\ sandbox' = sandbox /\ cont' = cont
    BY <1>8 DEF Fails, Others
  <2>5. /\ caller' \in Callers \cup {None} /\ due' \in BOOLEAN
        /\ unit' \in {"reconcile", "launch", "done"}
    BY DEF Fails, Leave, Inv, TypeOK
  <2>6. /\ crashes' = crashes /\ actions' = actions /\ faults' \in 0 .. MaxFaults
    BY DEF Fails, Leave
  <2>7. UNCHANGED <<journal, history, compose, data, mounted, snap, newer, tags,
        gate, run>>
    BY <1>8, Zenon DEF Fails, Saves, disk, env, exceptJournal, exceptGates, exceptCompose,
    exceptData, exceptSnap, exceptSandbox
  <2>8. TypeOK'
    BY <2>1, <2>2, <2>3, <2>4, <2>5, <2>6, <2>7 DEF Inv, TypeOK, Steps, After
  <2>9. RollbackPointKept' /\ Recorded' /\ Outcome'
    BY <2>1, <2>2, <2>3, <2>4, <2>5, <2>6, <2>7 DEF Inv, RollbackPointKept, Recorded,
    Outcome, Planning, Undisturbed, Real, terminal
  <2>10. Gated' /\ Unchanged' /\ Changed' /\ AuthorizedRuns'
    BY <2>1, <2>2, <2>3, <2>4, <2>5, <2>6, <2>7 DEF Inv, Gated, Unchanged, Changed,
    AuthorizedRuns, Holds, Settled, Planning, Undisturbed, Runs, Updating, terminal,
    AllMounted
  <2>11. InPlanning' /\ InSuppress' /\ InUpdate'
    BY <2>1, <2>2, <2>3, <2>4, <2>5, <2>6, <2>7 DEF Inv, InPlanning, InSuppress, InUpdate,
    Runs, Updating, RollingBack, AllMounted
  <2>12. InRollback' /\ InAuthorize' /\ InCleanup'
    BY <2>1, <2>2, <2>3, <2>4, <2>5, <2>6, <2>7 DEF Inv, InRollback, InAuthorize,
    InCleanup, Holds, Planning, Undisturbed, RollingBack, terminal, Unpruned
  <2> QED BY <2>8, <2>9, <2>10, <2>11, <2>12 DEF Inv
<1>9. CASE pc \in Others /\ ~GivesUp /\ journal.state # "running"
  <2>1. pc' = "recoveryFailed"
    BY <1>9 DEF Fails, Instead, Others, GivesUp, Leave
  <2>2. RollingBack
    BY <1>9 DEF Others, GivesUp, Inv, InSuppress, InUpdate, InRollback, InAuthorize,
    Updating, RollingBack, Undisturbed, Planning, terminal, AuthorizedRuns
  <2>3. /\ sandbox' = sandbox /\ cont' = cont
    BY <1>9 DEF Fails, Others
  <2>4. /\ caller' \in Callers \cup {None} /\ due' \in BOOLEAN
        /\ unit' \in {"reconcile", "launch", "done"}
    BY DEF Fails, Leave, Inv, TypeOK
  <2>5. /\ crashes' = crashes /\ actions' = actions /\ faults' \in 0 .. MaxFaults
    BY DEF Fails, Leave
  <2>6. UNCHANGED <<journal, history, compose, data, mounted, snap, newer, tags,
        gate, run>>
    BY <1>9, Zenon DEF Fails, Saves, disk, env, exceptJournal, exceptGates, exceptCompose,
    exceptData, exceptSnap, exceptSandbox
  <2>7. TypeOK'
    BY <2>1, <2>2, <2>3, <2>4, <2>5, <2>6 DEF Inv, TypeOK, Steps
  <2>8. RollbackPointKept' /\ Recorded' /\ Outcome'
    BY <2>1, <2>2, <2>3, <2>4, <2>5, <2>6 DEF Inv, RollbackPointKept, Recorded, Outcome,
    Planning, Undisturbed, Real, terminal
  <2>9. Gated' /\ Unchanged' /\ Changed' /\ AuthorizedRuns'
    BY <2>1, <2>2, <2>3, <2>4, <2>5, <2>6 DEF Inv, Gated, Unchanged, Changed,
    AuthorizedRuns, Holds, Settled, Planning, Undisturbed, Runs, Updating, terminal,
    AllMounted
  <2>10. InPlanning' /\ InSuppress' /\ InUpdate'
    BY <2>1, <2>2, <2>3, <2>4, <2>5, <2>6 DEF Inv, InPlanning, InSuppress, InUpdate, Runs,
    Updating, RollingBack, AllMounted
  <2>11. InRollback' /\ InAuthorize' /\ InCleanup'
    BY <2>1, <2>2, <2>3, <2>4, <2>5, <2>6 DEF Inv, InRollback, InAuthorize, InCleanup,
    Holds, Planning, Undisturbed, RollingBack, terminal, Unpruned
  <2> QED BY <2>7, <2>8, <2>9, <2>10, <2>11 DEF Inv
<1> QED BY <1>1, <1>2, <1>3, <1>4, <1>5, <1>6, <1>7, <1>8, <1>9 DEF Fails, Commands, Steps,
Journals, After, Others

\* A command may be refused in the present state, or fail in any.
LEMMA FaultKeeps ==
  ASSUME Inv, Refuse \/ Fault
  PROVE  Inv'
<1>1. Fails /\ faults' \in 0 .. MaxFaults
  BY ManagementAssumption DEF Refuse, Fault, Inv, TypeOK
<1> QED BY <1>1, FailsKeeps

\* Recover goes on from where the journal stands.
LEMMA RecoverKeeps ==
  ASSUME Inv, NEW who \in {"hostd", "unit"}, Recover(who)
  PROVE  Inv'
<1>1. CASE terminal(journal.state)
  <2>1. Idles
    BY <1>1 DEF Recover, terminal, Idles, Inv, TypeOK, Saves, disk, env, exceptJournal,
    exceptGates, exceptCompose, exceptData, exceptSnap, exceptSandbox
  <2> QED BY <2>1, IdlesKeep
<1>2. CASE ~terminal(journal.state) /\ journal.phase = "cleaning"
  <2>1. /\ pc = "free" /\ pc' = "clean" /\ caller' = who
    BY <1>2 DEF Recover, Resume
  <2>2. UNCHANGED <<journal, history, compose, cont, data, mounted, snap, newer,
        tags, sandbox, gate, run, due, unit, crashes, faults, actions>>
    BY <1>2, Zenon DEF Recover, Saves, disk, env, exceptJournal, exceptGates,
    exceptCompose, exceptData, exceptSnap, exceptSandbox
  <2>3. TypeOK'
    BY <2>1, <2>2 DEF Inv, TypeOK, Steps, After, Callers
  <2>4. RollbackPointKept' /\ Recorded' /\ Outcome'
    BY <2>1, <2>2 DEF Inv, RollbackPointKept, Recorded, Outcome, Planning, Undisturbed,
    Real, terminal
  <2>5. Gated' /\ Unchanged' /\ Changed' /\ AuthorizedRuns'
    BY <2>1, <2>2 DEF Inv, Gated, Unchanged, Changed, AuthorizedRuns, Holds, Settled,
    Planning, Undisturbed, Runs, Updating, terminal, AllMounted
  <2>6. InPlanning' /\ InSuppress' /\ InUpdate'
    BY <2>1, <2>2 DEF Inv, InPlanning, InSuppress, InUpdate, Runs, Updating, RollingBack,
    AllMounted
  <2>7. InRollback' /\ InAuthorize' /\ InCleanup'
    BY <1>2, <2>1, <2>2 DEF Inv, Recorded, InRollback, InAuthorize, InCleanup, Holds,
    Planning, Undisturbed, Real, RollingBack, terminal, Unpruned
  <2> QED BY <2>3, <2>4, <2>5, <2>6, <2>7 DEF Inv
<1>3. CASE ~terminal(journal.state) /\ journal.phase # "cleaning" /\ journal.auth
  <2>1. /\ pc = "free" /\ pc' = "policyFile" /\ caller' = who
    BY <1>3 DEF Recover, Resume
  <2>2. UNCHANGED <<journal, history, compose, cont, data, mounted, snap, newer,
        tags, sandbox, gate, run, due, unit, crashes, faults, actions>>
    BY <1>3, Zenon DEF Recover, Saves, disk, env, exceptJournal, exceptGates,
    exceptCompose, exceptData, exceptSnap, exceptSandbox
  <2>3. TypeOK'
    BY <2>1, <2>2 DEF Inv, TypeOK, Steps, After, Callers
  <2>4. RollbackPointKept' /\ Recorded' /\ Outcome'
    BY <2>1, <2>2 DEF Inv, RollbackPointKept, Recorded, Outcome, Planning, Undisturbed,
    Real, terminal
  <2>5. Gated' /\ Unchanged' /\ Changed' /\ AuthorizedRuns'
    BY <2>1, <2>2 DEF Inv, Gated, Unchanged, Changed, AuthorizedRuns, Holds, Settled,
    Planning, Undisturbed, Runs, Updating, terminal, AllMounted
  <2>6. InPlanning' /\ InSuppress' /\ InUpdate'
    BY <2>1, <2>2 DEF Inv, InPlanning, InSuppress, InUpdate, Runs, Updating, RollingBack,
    AllMounted
  <2>7. InRollback' /\ InAuthorize' /\ InCleanup'
    BY <1>3, <2>1, <2>2 DEF Inv, Recorded, InRollback, InAuthorize, InCleanup, Holds,
    Planning, Undisturbed, Real, RollingBack, terminal, Unpruned
  <2> QED BY <2>3, <2>4, <2>5, <2>6, <2>7 DEF Inv
<1>4. CASE ~terminal(journal.state) /\ ~journal.auth /\ journal.phase \in {"prepare",
      "preflight"}
  <2>1. /\ pc = "free" /\ pc' = "abandonClean" /\ caller' = who
    BY <1>4 DEF Recover, Resume
  <2>2. UNCHANGED <<journal, history, compose, cont, data, mounted, snap, newer,
        tags, sandbox, gate, run, due, unit, crashes, faults, actions>>
    BY <1>4, Zenon DEF Recover, Saves, disk, env, exceptJournal, exceptGates,
    exceptCompose, exceptData, exceptSnap, exceptSandbox
  <2>3. TypeOK'
    BY <2>1, <2>2 DEF Inv, TypeOK, Steps, After, Callers
  <2>4. RollbackPointKept' /\ Recorded' /\ Outcome'
    BY <2>1, <2>2 DEF Inv, RollbackPointKept, Recorded, Outcome, Planning, Undisturbed,
    Real, terminal
  <2>5. Gated' /\ Unchanged' /\ Changed' /\ AuthorizedRuns'
    BY <2>1, <2>2 DEF Inv, Gated, Unchanged, Changed, AuthorizedRuns, Holds, Settled,
    Planning, Undisturbed, Runs, Updating, terminal, AllMounted
  <2>6. InPlanning' /\ InSuppress' /\ InUpdate'
    BY <1>4, <2>1, <2>2 DEF Inv, Recorded, InPlanning, InSuppress, InUpdate, Planning,
    Undisturbed, Real, Runs, Updating, RollingBack, terminal, AllMounted
  <2>7. InRollback' /\ InAuthorize' /\ InCleanup'
    BY <2>1, <2>2 DEF Inv, InRollback, InAuthorize, InCleanup, Holds, Planning,
    Undisturbed, RollingBack, terminal, Unpruned
  <2> QED BY <2>3, <2>4, <2>5, <2>6, <2>7 DEF Inv
<1>5. CASE ~terminal(journal.state) /\ ~journal.auth /\ journal.phase \notin
      {"cleaning", "prepare", "preflight"}
  <2>1. /\ pc = "free" /\ pc' = "restoring" /\ caller' = who
    BY <1>5 DEF Recover, Resume
  <2>2. UNCHANGED <<journal, history, compose, cont, data, mounted, snap, newer,
        tags, sandbox, gate, run, due, unit, crashes, faults, actions>>
    BY <1>5, Zenon DEF Recover, Saves, disk, env, exceptJournal, exceptGates,
    exceptCompose, exceptData, exceptSnap, exceptSandbox
  <2>3. TypeOK'
    BY <2>1, <2>2 DEF Inv, TypeOK, Steps, After, Callers
  <2>4. RollbackPointKept' /\ Recorded' /\ Outcome'
    BY <2>1, <2>2 DEF Inv, RollbackPointKept, Recorded, Outcome, Planning, Undisturbed,
    Real, terminal
  <2>5. Gated' /\ Unchanged' /\ Changed' /\ AuthorizedRuns'
    BY <2>1, <2>2 DEF Inv, Gated, Unchanged, Changed, AuthorizedRuns, Holds, Settled,
    Planning, Undisturbed, Runs, Updating, terminal, AllMounted
  <2>6. InPlanning' /\ InSuppress' /\ InUpdate'
    BY <2>1, <2>2 DEF Inv, InPlanning, InSuppress, InUpdate, Runs, Updating, RollingBack,
    AllMounted
  <2>7. InRollback' /\ InAuthorize' /\ InCleanup'
    BY <1>5, <2>1, <2>2 DEF Inv, InRollback, InAuthorize, InCleanup, Holds, Planning,
    Undisturbed, RollingBack, terminal, Unpruned
  <2> QED BY <2>3, <2>4, <2>5, <2>6, <2>7 DEF Inv
<1> QED BY <1>1, <1>2, <1>3, <1>4, <1>5 DEF Recover

\* The launcher starts the services where the gate is open and the lock free.
LEMMA LaunchKeeps ==
  ASSUME Inv, Launch
  PROVE  Inv'
<1>1. CASE pc # "free" \/ gate
  <2>1. /\ unit' = "reconcile" /\ cont' = cont /\ data' = data
    BY <1>1 DEF Launch
  <2>2. UNCHANGED <<journal, history, compose, mounted, snap, newer, tags, sandbox,
        gate, run, pc, caller, due, crashes, faults, actions>>
    BY <1>1, Zenon DEF Launch, Saves, disk, env, exceptJournal, exceptGates, exceptCompose,
    exceptData, exceptSnap, exceptSandbox
  <2>3. TypeOK'
    BY <2>1, <2>2 DEF Inv, TypeOK
  <2>4. RollbackPointKept' /\ Recorded' /\ Outcome'
    BY <2>1, <2>2 DEF Inv, RollbackPointKept, Recorded, Outcome, Planning, Undisturbed,
    Real, terminal
  <2>5. Gated' /\ Unchanged' /\ Changed' /\ AuthorizedRuns'
    BY <2>1, <2>2 DEF Inv, Gated, Unchanged, Changed, AuthorizedRuns, Holds, Settled,
    Planning, Undisturbed, Runs, Updating, terminal, AllMounted
  <2>6. InPlanning' /\ InSuppress' /\ InUpdate'
    BY <2>1, <2>2 DEF Inv, InPlanning, InSuppress, InUpdate, InRollback, Holds, Planning,
    Undisturbed, Runs, Updating, RollingBack, terminal, AllMounted
  <2>7. InRollback' /\ InAuthorize' /\ InCleanup'
    BY <2>1, <2>2 DEF Inv, InRollback, InAuthorize, InCleanup, Holds, Planning,
    Undisturbed, RollingBack, terminal, Unpruned
  <2> QED BY <2>3, <2>4, <2>5, <2>6, <2>7 DEF Inv
<1>2. CASE ~(pc # "free" \/ gate) /\ cont.up
  <2>1. /\ unit' = "done" /\ cont' = cont /\ data' = data
    BY <1>2 DEF Launch
  <2>2. UNCHANGED <<journal, history, compose, mounted, snap, newer, tags, sandbox,
        gate, run, pc, caller, due, crashes, faults, actions>>
    BY <1>2, Zenon DEF Launch, Saves, disk, env, exceptJournal, exceptGates, exceptCompose,
    exceptData, exceptSnap, exceptSandbox
  <2>3. TypeOK'
    BY <2>1, <2>2 DEF Inv, TypeOK
  <2>4. RollbackPointKept' /\ Recorded' /\ Outcome'
    BY <2>1, <2>2 DEF Inv, RollbackPointKept, Recorded, Outcome, Planning, Undisturbed,
    Real, terminal
  <2>5. Gated' /\ Unchanged' /\ Changed' /\ AuthorizedRuns'
    BY <2>1, <2>2 DEF Inv, Gated, Unchanged, Changed, AuthorizedRuns, Holds, Settled,
    Planning, Undisturbed, Runs, Updating, terminal, AllMounted
  <2>6. InPlanning' /\ InSuppress' /\ InUpdate'
    BY <1>2, <2>1, <2>2 DEF Inv, InPlanning, InSuppress, InUpdate, Runs, Updating,
    RollingBack, AllMounted
  <2>7. InRollback' /\ InAuthorize' /\ InCleanup'
    BY <2>1, <2>2 DEF Inv, InRollback, InAuthorize, InCleanup, Holds, Planning,
    Undisturbed, RollingBack, terminal, Unpruned
  <2> QED BY <2>3, <2>4, <2>5, <2>6, <2>7 DEF Inv
<1>3. CASE ~(pc # "free" \/ gate) /\ ~cont.up
  <2>1. /\ unit' = "done" /\ pc = "free" /\ ~gate
    BY <1>3 DEF Launch
  <2>2. /\ cont.rel = compose.rel /\ AllMounted /\ Holds(compose.rel)
    BY <2>1 DEF Inv, Gated, Settled
  <2>3. /\ Up /\ compose \in ComposeFiles
    BY <1>3 DEF Launch, Inv, TypeOK
  <2>4. /\ cont' \in Containers /\ cont'.rel = compose.rel /\ cont'.up
        /\ cont'.norestart <=> compose.norestart
    BY <2>3 DEF Up, Inv, TypeOK, Containers, ComposeFiles
  <2>5. data' = data
    BY <1>3, <2>2 DEF Launch, Up, Holds, Inv, TypeOK
  <2>6. UNCHANGED <<journal, history, compose, mounted, snap, newer, tags, sandbox,
        gate, run, pc, caller, due, crashes, faults, actions>>
    BY <1>3, Zenon DEF Launch, Saves, disk, env, exceptJournal, exceptGates, exceptCompose,
    exceptData, exceptSnap, exceptSandbox
  <2>7. TypeOK'
    BY <2>1, <2>2, <2>3, <2>4, <2>5, <2>6 DEF Inv, TypeOK
  <2>8. RollbackPointKept' /\ Recorded' /\ Outcome'
    BY <2>1, <2>2, <2>3, <2>4, <2>5, <2>6 DEF Inv, RollbackPointKept, Recorded, Outcome,
    Planning, Undisturbed, Real, terminal
  <2>9. Gated' /\ Unchanged' /\ Changed' /\ AuthorizedRuns'
    BY <2>1, <2>2, <2>3, <2>4, <2>5, <2>6, ManagementAssumption DEF Inv, TypeOK, Gated,
    Unchanged, Changed, AuthorizedRuns, Holds, Settled, Planning, Undisturbed, Runs,
    Updating, terminal, AllMounted
  <2>10. InPlanning' /\ InSuppress' /\ InUpdate'
    BY <2>1, <2>2, <2>3, <2>4, <2>5, <2>6 DEF Inv, InPlanning, InSuppress, InUpdate, Runs,
    Updating, RollingBack, AllMounted
  <2>11. InRollback' /\ InAuthorize' /\ InCleanup'
    BY <2>1, <2>2, <2>3, <2>4, <2>5, <2>6 DEF Inv, InRollback, InAuthorize, InCleanup,
    Holds, Planning, Undisturbed, RollingBack, terminal, Unpruned
  <2> QED BY <2>7, <2>8, <2>9, <2>10, <2>11 DEF Inv
<1> QED BY <1>1, <1>2, <1>3 DEF Launch

\* A host update leaves or removes a newer snapshot.
LEMMA HostUpdateKeeps ==
  ASSUME Inv, HostUpdate
  PROVE  Inv'
<1>1. newer' \in BOOLEAN
  BY DEF HostUpdate
<1>2. UNCHANGED <<journal, history, compose, cont, data, mounted, snap, tags,
      sandbox, gate, run, pc, caller, due, unit, crashes, faults, actions>>
  BY Zenon DEF HostUpdate, Saves, disk, env, exceptJournal, exceptGates, exceptCompose,
  exceptData, exceptSnap, exceptSandbox
<1>3. TypeOK'
  BY <1>1, <1>2 DEF Inv, TypeOK
<1>4. RollbackPointKept' /\ Recorded' /\ Outcome'
  BY <1>1, <1>2 DEF Inv, RollbackPointKept, Recorded, Outcome, Planning, Undisturbed, Real,
  terminal
<1>5. Gated' /\ Unchanged' /\ Changed' /\ AuthorizedRuns'
  BY <1>1, <1>2 DEF Inv, Gated, Unchanged, Changed, AuthorizedRuns, Holds, Settled,
  Planning, Undisturbed, Runs, Updating, terminal, AllMounted
<1>6. InPlanning' /\ InSuppress' /\ InUpdate'
  BY <1>1, <1>2 DEF Inv, InPlanning, InSuppress, InUpdate, InRollback, Holds, Planning,
  Undisturbed, Runs, Updating, RollingBack, terminal, AllMounted
<1>7. InRollback' /\ InAuthorize' /\ InCleanup'
  BY <1>1, <1>2 DEF Inv, InRollback, InAuthorize, InCleanup, Holds, Planning, Undisturbed,
  RollingBack, terminal, Unpruned
<1> QED BY <1>3, <1>4, <1>5, <1>6, <1>7 DEF Inv

\* Containers may stop at any time.
LEMMA ContainersExitKeeps ==
  ASSUME Inv, ContainersExit
  PROVE  Inv'
<1>1. faults' \in 0 .. MaxFaults
  BY ManagementAssumption DEF ContainersExit, Inv, TypeOK
<1>2. /\ cont' \in Containers /\ cont'.rel = cont.rel /\ ~cont'.up
      /\ cont'.norestart <=> cont.norestart
  BY Zenon DEF ContainersExit, Inv, TypeOK, Containers
<1>3. UNCHANGED <<journal, history, compose, data, mounted, snap, newer, tags,
      sandbox, gate, run, pc, caller, due, unit, crashes, actions>>
  BY Zenon DEF ContainersExit, Saves, disk, env, exceptJournal, exceptGates, exceptCompose,
  exceptData, exceptSnap, exceptSandbox
<1>4. TypeOK'
  BY <1>1, <1>2, <1>3 DEF Inv, TypeOK
<1>5. RollbackPointKept' /\ Recorded' /\ Outcome'
  BY <1>1, <1>2, <1>3 DEF Inv, RollbackPointKept, Recorded, Outcome, Planning, Undisturbed,
  Real, terminal
<1>6. Gated' /\ Unchanged' /\ Changed' /\ AuthorizedRuns'
  BY <1>1, <1>2, <1>3 DEF Inv, Gated, Unchanged, Changed, AuthorizedRuns, Holds, Settled,
  Planning, Undisturbed, Runs, Updating, terminal, AllMounted
<1>7. InPlanning' /\ InSuppress' /\ InUpdate'
  BY <1>1, <1>2, <1>3 DEF Inv, InPlanning, InSuppress, InUpdate, InRollback, Holds,
  Planning, Undisturbed, Runs, Updating, RollingBack, terminal, AllMounted
<1>8. InRollback' /\ InAuthorize' /\ InCleanup'
  BY <1>1, <1>2, <1>3 DEF Inv, InRollback, InAuthorize, InCleanup, Holds, Planning,
  Undisturbed, RollingBack, terminal, Unpruned
<1> QED BY <1>4, <1>5, <1>6, <1>7, <1>8 DEF Inv

\* hostd may die between any two commands.
LEMMA HostdDiesKeeps ==
  ASSUME Inv, HostdDies
  PROVE  Inv'
<1>1. CASE caller = "unit"
  <2>1. /\ crashes' \in 0 .. MaxCrashes /\ due' = TRUE
    BY ManagementAssumption DEF HostdDies, Inv, TypeOK
  <2>2. UNCHANGED <<journal, history, compose, cont, data, mounted, snap, newer,
        tags, sandbox, gate, run, pc, caller, unit, faults, actions>>
    BY <1>1, Zenon DEF HostdDies, Saves, disk, env, exceptJournal, exceptGates,
    exceptCompose, exceptData, exceptSnap, exceptSandbox
  <2>3. TypeOK'
    BY <2>1, <2>2 DEF Inv, TypeOK
  <2>4. RollbackPointKept' /\ Recorded' /\ Outcome'
    BY <2>1, <2>2 DEF Inv, RollbackPointKept, Recorded, Outcome, Planning, Undisturbed,
    Real, terminal
  <2>5. Gated' /\ Unchanged' /\ Changed' /\ AuthorizedRuns'
    BY <2>1, <2>2 DEF Inv, Gated, Unchanged, Changed, AuthorizedRuns, Holds, Settled,
    Planning, Undisturbed, Runs, Updating, terminal, AllMounted
  <2>6. InPlanning' /\ InSuppress' /\ InUpdate'
    BY <2>1, <2>2 DEF Inv, InPlanning, InSuppress, InUpdate, InRollback, Holds, Planning,
    Undisturbed, Runs, Updating, RollingBack, terminal, AllMounted
  <2>7. InRollback' /\ InAuthorize' /\ InCleanup'
    BY <2>1, <2>2 DEF Inv, InRollback, InAuthorize, InCleanup, Holds, Planning,
    Undisturbed, RollingBack, terminal, Unpruned
  <2> QED BY <2>3, <2>4, <2>5, <2>6, <2>7 DEF Inv
<1>2. CASE caller # "unit"
  <2>1. crashes' \in 0 .. MaxCrashes
    BY ManagementAssumption DEF HostdDies, Inv, TypeOK
  <2>2. Idles
    BY <1>2, <2>1 DEF HostdDies, Idles, Inv, TypeOK, Saves, disk, env, exceptJournal,
    exceptGates, exceptCompose, exceptData, exceptSnap, exceptSandbox
  <2> QED BY <2>2, IdlesKeep
<1> QED BY <1>1, <1>2 DEF HostdDies

\* So may the unit.
LEMMA UnitTimesOutKeeps ==
  ASSUME Inv, UnitTimesOut
  PROVE  Inv'
<1>1. crashes' \in 0 .. MaxCrashes
  BY ManagementAssumption DEF UnitTimesOut, Inv, TypeOK
<1>2. Idles
  BY <1>1 DEF UnitTimesOut, Idles, Inv, TypeOK, disk
<1> QED BY <1>2, IdlesKeep

\* A boot mounts the datasets and restarts what Docker may restart.
LEMMA PowerLossKeeps ==
  ASSUME Inv, PowerLoss
  PROVE  Inv'
<1>1. /\ pc' = "free" /\ caller' = None /\ due' = TRUE /\ unit' = "reconcile"
      /\ crashes' \in 0 .. MaxCrashes
  BY ManagementAssumption DEF PowerLoss, Inv, TypeOK
<1>2. /\ cont' \in Containers /\ cont'.rel = cont.rel
      /\ cont'.norestart <=> cont.norestart
      /\ cont'.up => cont.up
  BY DEF PowerLoss, Inv, TypeOK, Containers
<1>3. /\ mounted' \in [Datasets -> BOOLEAN]
      /\ \A d \in Datasets : mounted'[d]
  BY DEF PowerLoss
<1>4. /\ run' \in Flags /\ ~run'.blocked /\ ~run'.masked
  BY DEF PowerLoss, Flags
<1>5. UNCHANGED <<journal, history, compose, data, snap, newer, tags, sandbox, gate,
      faults, actions>>
  BY Zenon DEF PowerLoss, Saves, disk, env, exceptJournal, exceptGates, exceptCompose,
  exceptData, exceptSnap, exceptSandbox
<1>6. TypeOK'
  BY <1>1, <1>2, <1>3, <1>4, <1>5 DEF Inv, TypeOK, Steps
<1>7. RollbackPointKept' /\ Recorded' /\ Outcome'
  BY <1>1, <1>2, <1>3, <1>4, <1>5 DEF Inv, RollbackPointKept, Recorded, Outcome, Planning,
  Undisturbed, Real, terminal
<1>8. Gated' /\ Unchanged' /\ Changed' /\ AuthorizedRuns'
  BY <1>1, <1>2, <1>3, <1>4, <1>5 DEF Inv, Gated, Unchanged, Changed, AuthorizedRuns,
  Holds, Settled, Planning, Undisturbed, Runs, Updating, terminal, AllMounted
<1>9. InPlanning' /\ InSuppress' /\ InUpdate'
  BY <1>1, <1>2, <1>3, <1>4, <1>5 DEF Inv, InPlanning, InSuppress, InUpdate, Runs,
  Updating, RollingBack, AllMounted
<1>10. InRollback' /\ InAuthorize' /\ InCleanup'
  BY <1>1, <1>2, <1>3, <1>4, <1>5 DEF Inv, InRollback, InAuthorize, InCleanup, Holds,
  Planning, Undisturbed, RollingBack, terminal, Unpruned
<1> QED BY <1>6, <1>7, <1>8, <1>9, <1>10 DEF Inv

\* The installed appliance.
LEMMA InvInit == Init => Inv
<1> SUFFICES ASSUME Init PROVE Inv
  OBVIOUS
<1>1. TypeOK
  <2>1. journal \in JournalRecords
    BY DEF Init, JournalRecords, States, Phases
  <2>2. history \in [Ops -> HistoryRecords] /\ snap \in [Ops -> Snapshots]
    BY DEF Init, NoHistory, HistoryRecords, NoSnapshot, Snapshots
  <2>3. compose \in ComposeFiles /\ cont \in Containers /\ run \in Flags
    BY ManagementAssumption DEF Init, ComposeFiles, Containers, Flags
  <2>4. data \in [Datasets -> Releases] /\ mounted \in [Datasets -> BOOLEAN]
    BY ManagementAssumption DEF Init
  <2>5. newer \in BOOLEAN /\ tags \subseteq Releases /\ sandbox \subseteq Ops /\ gate \in BOOLEAN
    BY DEF Init
  <2>6. pc \in Steps /\ caller \in Callers \cup {None} /\ due \in BOOLEAN
        /\ unit \in {"reconcile", "launch", "done"}
    BY DEF Init, Steps
  <2>7. crashes \in 0 .. MaxCrashes /\ faults \in 0 .. MaxFaults /\ actions \in 0 .. MaxActions
    BY ManagementAssumption DEF Init
  <2> QED BY <2>1, <2>2, <2>3, <2>4, <2>5, <2>6, <2>7 DEF TypeOK
<1>2. RollbackPointKept /\ Recorded /\ Outcome
  BY DEF Init, RollbackPointKept, Recorded, Outcome, Undisturbed, Planning, terminal, Real
<1>3. Gated /\ Unchanged /\ Changed /\ AuthorizedRuns
  BY ManagementAssumption DEF Init, Gated, Unchanged, Changed, AuthorizedRuns, Settled, Holds,
     AllMounted
<1>4. InPlanning /\ InSuppress /\ InUpdate /\ InRollback /\ InAuthorize /\ InCleanup
  BY DEF Init, InPlanning, InSuppress, InUpdate, InRollback, InAuthorize, InCleanup
<1> QED BY <1>1, <1>2, <1>3, <1>4 DEF Inv

\* One lemma per action.
LEMMA InvStep == Inv /\ [Next]_vars => Inv'
<1> SUFFICES ASSUME Inv, [Next]_vars PROVE Inv'
  OBVIOUS
<1>1. CASE Request
  BY <1>1, StartKeeps, RequestRollbackKeeps, RequestCleanupKeeps DEF Request
<1>2. CASE Progress
  <2>1. CASE Execute
    BY <2>1, PrepareKeeps, SavePreflightKeeps, PreflightKeeps, TidyPreflightKeeps,
       SaveFencingKeeps, FenceKeeps, SaveSnapshotKeeps, SnapshotKeeps, HoldKeeps,
       SaveInstallingKeeps, WriteCandidateKeeps, UpCandidateKeeps, SaveCheckingKeeps
       DEF Execute
  <2>2. CASE Suppress
    BY <2>2, CloseGateKeeps, MaskKeeps, SuppressComposeKeeps, SuppressPoliciesKeeps, StopKeeps
       DEF Suppress
  <2>3. CASE Rollback
    BY <2>3, SaveRecoveringKeeps, RemoveKeeps, UnmountKeeps, RollbackDataKeeps, MountKeeps,
       WritePreviousKeeps, UpPreviousKeeps, SaveVerifyingKeeps DEF Rollback
  <2>4. CASE Authorize
    BY <2>4, SaveAuthorizedKeeps, RestoreComposeKeeps, RestorePoliciesKeeps, UnblockKeeps,
       OpenGateKeeps, UnmaskKeeps, SaveCommittedKeeps, SaveRolledBackKeeps DEF Authorize
  <2>5. CASE Cleanup
    BY <2>5, CleanKeeps, SaveCleanedKeeps, PruneKeeps, PruneReleaseKeeps, PruneDestroyKeeps,
       ReleaseImagesKeeps, SavePrunedKeeps, AbandonPreflightKeeps, SaveFailedKeeps DEF Cleanup
  <2> QED BY <1>2, <2>1, <2>2, <2>3, <2>4, <2>5, HealthyKeeps, FaultKeeps DEF Progress
<1>3. CASE Fault
  BY <1>3, FaultKeeps
<1>4. CASE \E who \in {"hostd", "unit"} : Recover(who)
  BY <1>4, RecoverKeeps
<1>5. CASE Launch \/ HostUpdate \/ ContainersExit
  BY <1>5, LaunchKeeps, HostUpdateKeeps, ContainersExitKeeps
<1>6. CASE HostdDies \/ UnitTimesOut \/ PowerLoss
  BY <1>6, HostdDiesKeeps, UnitTimesOutKeeps, PowerLossKeeps
<1>7. CASE UNCHANGED vars
  <2>1. UNCHANGED <<journal, history, compose, cont, data, mounted, snap, newer, tags>>
        /\ UNCHANGED <<sandbox, gate, run, pc, caller, due, unit, crashes, faults, actions>>
    BY <1>7, Zenon DEF vars, disk, env
  <2>2. TypeOK' /\ RollbackPointKept'
    BY <2>1 DEF Inv, TypeOK, RollbackPointKept
  <2>3. Recorded' /\ Outcome' /\ Gated'
    BY <2>1 DEF Inv, Recorded, Outcome, Gated, Undisturbed, Real, Settled, Holds, AllMounted
  <2>4. Unchanged' /\ Changed' /\ AuthorizedRuns'
    BY <2>1 DEF Inv, Unchanged, Changed, AuthorizedRuns, Undisturbed, Runs, Holds
  <2>5. InPlanning' /\ InSuppress' /\ InUpdate'
    BY <2>1 DEF Inv, InPlanning, InSuppress, InUpdate, Updating, RollingBack, Runs, Holds,
       AllMounted
  <2>6. InRollback' /\ InAuthorize' /\ InCleanup'
    BY <2>1 DEF Inv, InRollback, InAuthorize, InCleanup, RollingBack, Undisturbed, Holds,
       Unpruned
  <2> QED BY <2>2, <2>3, <2>4, <2>5, <2>6 DEF Inv
<1> QED BY <1>1, <1>2, <1>3, <1>4, <1>5, <1>6, <1>7 DEF Next

\* The reachable states of the update.
LEMMA InvTheorem == Spec => []Inv
BY InvInit, InvStep, PTL DEF Spec

\* Whatever fails or is interrupted, and however often, Docker and the launcher can
\* start services only on data of their own release, and a recorded outcome is what
\* the appliance runs, with no gate or mask left behind (manager.go, authorize.go).
THEOREM OutcomeIsSafe == Spec => []OutcomeSafe
<1>1. Inv => OutcomeSafe
  <2> SUFFICES ASSUME Inv PROVE OutcomeSafe
    OBVIOUS
  <2>1. StartupGated
    BY DEF Inv, StartupGated, Gated, Settled, Holds
  <2>2. OutcomeReal
    BY DEF Inv, OutcomeReal, Outcome, Undisturbed
  <2> QED BY <2>1, <2>2 DEF OutcomeSafe, Inv
<1> QED BY <1>1, InvTheorem, PTL

\* No release ever runs on data that a newer one wrote, nor on a dataset that is not
\* mounted: a rollback removes the containers first and starts the source last.
THEOREM DataStayReadable == Spec => []OldNeverReadsNew
<1>1. Inv => OldNeverReadsNew
  <2> SUFFICES ASSUME Inv, cont.up
               PROVE  AllMounted /\ \A d \in Datasets : data[d] \in Opens
    BY DEF OldNeverReadsNew
  <2>1. cont.rel # None /\ AllMounted
    BY DEF Inv, Gated
  <2>2. CASE journal.prod
    BY <2>1, <2>2 DEF Inv, Changed, Holds, Opens
  <2>3. CASE ~journal.prod /\ journal.src # None
    <3>1. \A d \in Datasets : data[d] = cont.rel
      BY <2>3 DEF Inv, Unchanged, Holds
    <3> QED BY <2>1, <3>1 DEF Opens
  <2>4. CASE ~journal.prod /\ journal.src = None
    <3>1. ~gate
      BY <2>4 DEF Inv, Recorded, Outcome
    <3> QED BY <3>1 DEF Inv, Gated, Settled, Holds, Opens
  <2> QED BY <2>1, <2>2, <2>3, <2>4
<1> QED BY <1>1, InvTheorem, PTL

\* From the moment production changes until the next update starts, the held
\* snapshot of the source's data and its images are there to go back to; pruning
\* takes only those of older operations.
THEOREM WayBackExists == Spec => []RollbackPointKept
<1>1. Inv => RollbackPointKept
  BY DEF Inv
<1> QED BY <1>1, InvTheorem, PTL

\* A step that withdraws the authorization of the journal's own operation.
Withdraws == journal.auth /\ ~journal'.auth /\ journal'.op = journal.op

\* Only a requested rollback and the start of one withdraw an authorization.
LEMMA Withdrawals ==
  ASSUME Inv, [Next]_vars, Withdraws
  PROVE  RequestRollback \/ SaveRecovering
<1> USE DEF Withdraws
<1>1. CASE \E op \in Ops, rel \in Releases \ {cont.rel} : Start(op, rel)
  BY <1>1 DEF Start
<1>2. CASE RequestCleanup
  <2>1. journal'.auth = journal.auth
    BY <1>2 DEF RequestCleanup, Save, Inv, TypeOK, JournalRecords
  <2> QED BY <2>1
<1>3. CASE Execute
  <2>1. journal'.auth = journal.auth
    BY <1>3 DEF Execute, Prepare, SavePreflight, Preflight, TidyPreflight, SaveFencing, Fence,
       SaveSnapshot, Snapshot, Hold, SaveInstalling, WriteCandidate, UpCandidate, SaveChecking,
       Saves, Save, disk, exceptSandbox, exceptSnap, exceptCompose, exceptData, Inv, TypeOK,
       JournalRecords
  <2> QED BY <2>1
<1>4. CASE Suppress \/ Healthy
  BY <1>4 DEF Suppress, CloseGate, Mask, SuppressCompose, SuppressPolicies, Stop, Healthy,
     disk, exceptGates, exceptCompose, exceptData
<1>5. CASE Rollback
  <2>1. SaveRecovering \/ journal' = journal \/ SaveVerifying
    BY <1>5 DEF Rollback, Remove, Unmount, RollbackData, Mount, WritePrevious, UpPrevious,
       disk, exceptCompose, exceptData
  <2>2. SaveVerifying => journal'.auth = journal.auth
    BY DEF SaveVerifying, Saves, Save, Inv, TypeOK, JournalRecords
  <2> QED BY <2>1, <2>2
<1>6. CASE Authorize
  <2>1. journal'.auth = journal.auth \/ SaveAuthorized
    BY <1>6 DEF Authorize, RestoreCompose, RestorePolicies, Unblock, OpenGate, Unmask,
       SaveCommitted, SaveRolledBack, Saves, Save, disk, exceptGates, exceptCompose,
       Inv, TypeOK, JournalRecords
  <2>2. SaveAuthorized => journal'.auth
    BY DEF SaveAuthorized, Saves, Save, Inv, TypeOK, JournalRecords
  <2> QED BY <2>1, <2>2
<1>7. CASE Cleanup
  <2>1. journal'.auth = journal.auth
    BY <1>7 DEF Cleanup, Clean, SaveCleaned, Prune, PruneRelease, PruneDestroy, ReleaseImages,
       SavePruned, AbandonPreflight, SaveFailed, Saves, Save, disk, exceptSandbox, exceptSnap,
       Inv, TypeOK, JournalRecords
  <2> QED BY <2>1
<1>8. CASE Refuse \/ Fault
  BY <1>8 DEF Refuse, Fault, Fails, exceptSandbox
<1>9. CASE \E who \in {"hostd", "unit"} : Recover(who)
  BY <1>9 DEF Recover, disk
<1>10. CASE Launch \/ HostUpdate \/ ContainersExit \/ HostdDies \/ UnitTimesOut \/ PowerLoss
  BY <1>10 DEF Launch, HostUpdate, ContainersExit, HostdDies, UnitTimesOut, PowerLoss, disk,
     exceptData
<1>11. CASE UNCHANGED vars
  BY <1>11 DEF vars, disk
<1> QED BY <1>1, <1>2, <1>3, <1>4, <1>5, <1>6, <1>7, <1>8, <1>9, <1>10, <1>11
        DEF Next, Request, Progress

\* An update whose authorization was saved is not undone by any recovery: only a
\* requested rollback, or a command of its own that fails, takes it back.
THEOREM AuthorizationStays == Spec => CommittedStays
<1>1. Inv /\ [Next]_vars =>
        [journal.auth /\ ~journal'.auth /\ journal'.op = journal.op
           => \/ pc = "free" /\ actions' # actions
              \/ pc = "restoring" /\ caller = "execute"]_vars
  <2> SUFFICES ASSUME Inv, [Next]_vars, Withdraws
               PROVE  \/ pc = "free" /\ actions' # actions
                      \/ pc = "restoring" /\ caller = "execute"
    BY DEF Withdraws
  <2>1. CASE RequestRollback
    BY <2>1 DEF RequestRollback, Requested, Inv, TypeOK
  <2>2. CASE SaveRecovering
    BY <2>2 DEF SaveRecovering, Go, Withdraws, Inv, InRollback
  <2> QED BY <2>1, <2>2, Withdrawals
<1> QED BY <1>1, InvTheorem, PTL DEF Spec, CommittedStays

-----------------------------------------------------------------------------
(***************************************************************************)
(* The fence of an update: DrainSafe for any number of updates, requests,  *)
(* hostd commands and crashes of the control process.                      *)
(***************************************************************************)

USE FenceAssumption

\* The steps of an update before it blocks, while it waits for the drain, and after it.
Before  == {"unmarkCtl", "unmarkApi", "block"}
Waiting == {"look", "awaitCtl", "awaitApi", "quiesce"}
Behind  == {"stop", "stopped", "started"}

\* The controllers are off, and no iteration is about to start them.
CtlQuiet == controllers = "off" /\ (up => ctl # "open")

\* The evaluator is off, no request is served, and no iteration is about to launch.
Unserved == \A r \in Requests : req[r] # "serving"
ApiQuiet == evaluator = "off" /\ Unserved /\ (up => api.pc = "read" \/ api.seen # NoUpdate)

\* "blocked" holds the id of the update from the block to the authorization.
BlockedInv ==
  /\ blocked = IF upd.pc \in Before \cup {"open"} THEN NoUpdate ELSE upd.op
  /\ upd.pc # "open" => upd.op # NoUpdate
  /\ upd.op # NoUpdate => upd.op \in upd.used
  /\ upd.pc \in Before \cup Waiting => ~upd.drained

\* A dead process has no children and no requests.
DownInv == ~up => /\ evaluator = "off" /\ controllers = "off"
                  /\ \A r \in Requests : req[r] \in {"new", "done"}

\* The loops: what an iteration read, and that it waits for what it cancelled.
LoopInv ==
  /\ api.seen # NoUpdate => api.seen \in upd.used
  /\ up /\ ctl \in {"write", "again"} => controllers = "off"
  /\ up /\ upd.pc = "open" /\ api.turned => api.seen = NoUpdate

\* Until "blocked" is written nobody acknowledges this fence.
UnmarkedInv ==
  /\ up /\ upd.pc \in Before => api.seen # upd.op
  /\ upd.pc \in {"unmarkApi", "block"} => marks.ctl # upd.op
  /\ upd.pc = "block" => marks.api # upd.op

\* Once it is written, an acknowledgement means rest, now and later.
MarkedInv ==
  /\ upd.pc \in Waiting /\ up /\ api.seen = upd.op =>
       /\ api.pc \in {"load", "write"} => evaluator = "off"
       /\ api.pc = "write" => Unserved
  /\ upd.pc \in Waiting /\ marks.ctl = upd.op => CtlQuiet
  /\ upd.pc \in Waiting /\ marks.api = upd.op => ApiQuiet
  /\ upd.pc \in {"awaitApi", "quiesce"} => CtlQuiet
  /\ upd.pc = "quiesce" => ApiQuiet

\* Behind a drained fence everything is at rest.
DrainedInv == upd.drained /\ upd.pc \in Behind => CtlQuiet /\ ApiQuiet /\ host = {}

\* The inductive invariant, beside TypeOK.
FenceInv == BlockedInv /\ DownInv /\ LoopInv /\ UnmarkedInv /\ MarkedInv /\ DrainedInv

-----------------------------------------------------------------------------
\* The requests in flight can be counted.
LEMMA FiniteInFlight == IsFiniteSet(InFlight) /\ Cardinality(InFlight) \in Nat
BY FS_Subset, FS_CardinalityType DEF InFlight

\* Both hold when the processes start.
LEMMA FenceInvInit == FenceInit => FenceTypeOK /\ FenceInv
<1>. SUFFICES ASSUME FenceInit PROVE FenceTypeOK /\ FenceInv
    OBVIOUS
<1>1. InFlight = {}
    BY DEF FenceInit, InFlight
<1>2. FenceTypeOK
    BY <1>1, FS_EmptySet DEF FenceInit, FenceTypeOK, Tokens, Fresh, ApiSteps, CtlSteps, UpdSteps
<1>3. FenceInv
    BY DEF FenceInit, Fresh, FenceInv, BlockedInv, DownInv, LoopInv, UnmarkedInv, MarkedInv, DrainedInv,
           Before, Waiting, Behind
<1>. QED BY <1>2, <1>3

\* ProcessEnds leaves nothing in flight.
LEMMA ProcessEndsType ==
    ASSUME FenceTypeOK, ProcessEnds
    PROVE  /\ req' \in [Requests -> {"new", "counted", "serving", "rejected", "done"}]
           /\ active' = Cardinality(InFlight')
           /\ up' \in BOOLEAN /\ evaluator' = "off" /\ controllers' = "off"
<1>1. InFlight' = {}
    BY DEF FenceTypeOK, ProcessEnds, InFlight
<1>. QED BY <1>1, FS_EmptySet DEF FenceTypeOK, ProcessEnds

\* Type correctness is preserved: "active" counts the requests in flight.
LEMMA FenceTypeStep == FenceTypeOK /\ [FenceNext]_fenceVars => FenceTypeOK'
<1>. SUFFICES ASSUME FenceTypeOK, [FenceNext]_fenceVars PROVE FenceTypeOK'
    OBVIOUS
<1>0. req' = req => InFlight' = InFlight
    BY DEF InFlight
<1>. USE <1>0 DEF FenceTypeOK, files, container, requests, children, loops, control,
                  Tokens, ApiSteps, CtlSteps, UpdSteps
<1>1. ASSUME NEW r \in Requests, Count(r) PROVE FenceTypeOK'
    <2>1. InFlight' = InFlight \cup {r} /\ r \notin InFlight
        BY <1>1 DEF Count, InFlight
    <2>2. active' = Cardinality(InFlight')
        BY <1>1, <2>1, FiniteInFlight, FS_AddElement DEF Count
    <2>. QED BY <1>1, <2>2 DEF Count
<1>2. ASSUME NEW r \in Requests, Admit(r) PROVE FenceTypeOK'
    <2>1. InFlight' = InFlight
        BY <1>2 DEF Admit, InFlight
    <2>. QED BY <1>2, <2>1 DEF Admit
<1>3. ASSUME NEW r \in Requests, Finish(r) PROVE FenceTypeOK'
    <2>1. InFlight' = InFlight \ {r} /\ r \in InFlight
        BY <1>3 DEF Finish, InFlight
    <2>2. active' = Cardinality(InFlight')
        BY <1>3, <2>1, FiniteInFlight, FS_RemoveElement DEF Finish
    <2>. QED BY <1>3, <2>2 DEF Finish
<1>4. ASSUME NEW h \in Mutations, BeginMutation(h) PROVE FenceTypeOK'
    BY <1>4 DEF BeginMutation
<1>5. ASSUME NEW h \in Mutations, EndMutation(h) PROVE FenceTypeOK'
    BY <1>5 DEF EndMutation
<1>6. ASSUME NEW op \in Updates, BeginFence(op) PROVE FenceTypeOK'
    BY <1>6 DEF BeginFence
<1>7. CASE ReadBlocked
    BY <1>7 DEF ReadBlocked
<1>8. CASE EvaluatorStopped
    BY <1>8 DEF EvaluatorStopped
<1>9. CASE LoadActive
    BY <1>9 DEF LoadActive
<1>10. CASE AcknowledgeApi
    BY <1>10 DEF AcknowledgeApi
<1>11. CASE OpenApi
    BY <1>11 DEF OpenApi
<1>12. CASE EvaluatorEnds
    BY <1>12 DEF EvaluatorEnds
<1>13. CASE StatBlocked
    BY <1>13 DEF StatBlocked
<1>14. CASE ControllersStopped
    BY <1>14 DEF ControllersStopped
<1>15. CASE AcknowledgeControllers
    BY <1>15 DEF AcknowledgeControllers
<1>16. CASE StartControllers
    BY <1>16 DEF StartControllers
<1>17. CASE ControllersEnd
    BY <1>17 DEF ControllersEnd
<1>18. CASE ControlDies
    BY <1>18, ProcessEndsType DEF ControlDies
<1>19. CASE ControlRestarts
    BY <1>19 DEF ControlRestarts, Fresh
<1>20. CASE RemoveMarks
    BY <1>20 DEF RemoveMarks, Updater
<1>21. CASE Block
    BY <1>21 DEF Block, Updater
<1>22. CASE LookForControl
    BY <1>22 DEF LookForControl, Updater
<1>23. CASE Await
    BY <1>23 DEF Await, Updater
<1>24. CASE Quiesce
    <2>1. upd' \in [pc : UpdSteps, op : Tokens, used : SUBSET Updates, drained : BOOLEAN]
        BY <1>24, Zenon DEF Quiesce
    <2>. QED BY <1>24, <2>1 DEF Quiesce
<1>25. CASE Deadline
    BY <1>25 DEF Deadline, Updater
<1>26. CASE RestoreCommitted
    <2>1. upd' \in [pc : UpdSteps, op : Tokens, used : SUBSET Updates, drained : BOOLEAN]
        BY <1>26, Zenon DEF RestoreCommitted
    <2>. QED BY <1>26, <2>1 DEF RestoreCommitted
<1>27. CASE StopServices
    BY <1>27, ProcessEndsType DEF StopServices, Updater
<1>28. CASE StartServices
    BY <1>28 DEF StartServices, Updater, Fresh
<1>29. CASE TrialFails
    BY <1>29 DEF TrialFails, Updater
<1>30. CASE AuthorizeServices
    BY <1>30 DEF AuthorizeServices, Open, Updater
<1>31. CASE ActivateCheckpointControllers
    BY <1>31 DEF ActivateCheckpointControllers, Open, Updater
<1>32. CASE UNCHANGED fenceVars
    BY <1>32 DEF fenceVars
<1>. QED
    BY <1>1, <1>2, <1>3, <1>4, <1>5, <1>6, <1>7, <1>8, <1>9, <1>10, <1>11, <1>12, <1>13, <1>14,
       <1>15, <1>16, <1>17, <1>18, <1>19, <1>20, <1>21, <1>22, <1>23, <1>24, <1>25, <1>26, <1>27,
       <1>28, <1>29, <1>30, <1>31, <1>32
    DEF FenceNext, ApiLoop, Supervisor, FenceSteps

\* Where no iteration of a loop stalls, every step preserves the invariant.
LEMMA FenceInvStep == ~Stall /\ FenceTypeOK /\ FenceInv /\ [FenceNext]_fenceVars => FenceInv'
<1>. SUFFICES ASSUME ~Stall, FenceTypeOK, FenceInv, [FenceNext]_fenceVars PROVE FenceInv'
    OBVIOUS
<1>. USE DEF FenceTypeOK, Tokens, ApiSteps, CtlSteps, UpdSteps, files, container, requests, children,
   loops, control, FenceInv, BlockedInv, DownInv, LoopInv,
             UnmarkedInv, MarkedInv, DrainedInv, CtlQuiet, ApiQuiet, Unserved, Before, Waiting, Behind
<1>1. ASSUME NEW r \in Requests, Count(r) PROVE FenceInv'
    BY <1>1 DEF Count
<1>2. ASSUME NEW r \in Requests, Admit(r) PROVE FenceInv'
    BY <1>2 DEF Admit
<1>3. ASSUME NEW r \in Requests, Finish(r) PROVE FenceInv'
    BY <1>3 DEF Finish
<1>4. ASSUME NEW h \in Mutations, BeginMutation(h) PROVE FenceInv'
    BY <1>4 DEF BeginMutation
<1>5. ASSUME NEW h \in Mutations, EndMutation(h) PROVE FenceInv'
    BY <1>5 DEF EndMutation
<1>6. ASSUME NEW op \in Updates, BeginFence(op) PROVE FenceInv'
    BY <1>6 DEF BeginFence
<1>7. CASE ReadBlocked
    BY <1>7 DEF ReadBlocked
<1>8. CASE EvaluatorStopped
    BY <1>8 DEF EvaluatorStopped
<1>9. CASE LoadActive
    <2>1. active = 0 => InFlight = {}
        BY FiniteInFlight, FS_EmptySet
    <2>. QED BY <1>9, <2>1 DEF LoadActive, InFlight
<1>10. CASE AcknowledgeApi
    BY <1>10 DEF AcknowledgeApi
<1>11. CASE OpenApi
    BY <1>11 DEF OpenApi
<1>12. CASE EvaluatorEnds
    BY <1>12 DEF EvaluatorEnds
<1>13. CASE StatBlocked
    BY <1>13 DEF StatBlocked
<1>14. CASE ControllersStopped
    BY <1>14 DEF ControllersStopped
<1>15. CASE AcknowledgeControllers
    BY <1>15 DEF AcknowledgeControllers
<1>16. CASE StartControllers
    BY <1>16 DEF StartControllers
<1>17. CASE ControllersEnd
    BY <1>17 DEF ControllersEnd
<1>18. CASE ControlDies
    BY <1>18 DEF ControlDies, ProcessEnds
<1>19. CASE ControlRestarts
    BY <1>19 DEF ControlRestarts, Fresh
<1>20. CASE RemoveMarks
    BY <1>20 DEF RemoveMarks, Updater
<1>21. CASE Block
    BY <1>21 DEF Block, Updater
<1>22. CASE LookForControl
    BY <1>22 DEF LookForControl, Updater
<1>23. CASE Await
    BY <1>23 DEF Await, Updater
<1>24. CASE Quiesce
    BY <1>24 DEF Quiesce
<1>25. CASE Deadline
    BY <1>25 DEF Deadline, Updater
<1>26. CASE RestoreCommitted
    BY <1>26 DEF RestoreCommitted
<1>27. CASE StopServices
    BY <1>27 DEF StopServices, ProcessEnds, Updater
<1>28. CASE StartServices
    BY <1>28 DEF StartServices, Updater, Fresh
<1>29. CASE TrialFails
    BY <1>29 DEF TrialFails, Updater
<1>30. CASE AuthorizeServices
    BY <1>30 DEF AuthorizeServices, Open, Updater
<1>31. CASE ActivateCheckpointControllers
    BY <1>31 DEF ActivateCheckpointControllers, Open, Updater
<1>32. CASE UNCHANGED fenceVars
    BY <1>32 DEF fenceVars
<1>. QED
    BY <1>1, <1>2, <1>3, <1>4, <1>5, <1>6, <1>7, <1>8, <1>9, <1>10, <1>11, <1>12, <1>13, <1>14,
       <1>15, <1>16, <1>17, <1>18, <1>19, <1>20, <1>21, <1>22, <1>23, <1>24, <1>25, <1>26, <1>27,
       <1>28, <1>29, <1>30, <1>31, <1>32
    DEF FenceNext, ApiLoop, Supervisor, FenceSteps

\* A fence that saw both acknowledgements and an idle hostd is quiet until its update
\* is authorized, if an iteration of the API loop (a tick of 100 ms) does not outlast a
\* host trial (runUpdateBackground, superviseControllers, Fence).
THEOREM DrainIsQuiet == ~Stall /\ FenceSpec => []DrainSafe
<1>. SUFFICES ASSUME ~Stall PROVE FenceSpec => []DrainSafe
    OBVIOUS
<1>1. FenceTypeOK /\ FenceInv => DrainSafe
    BY DEF DrainSafe, DrainedMeansQuiet, FenceInv, DrainedInv, CtlQuiet, ApiQuiet, Unserved, Behind
<1>2. FenceTypeOK /\ FenceInv /\ [FenceNext]_fenceVars => (FenceTypeOK /\ FenceInv)'
    BY FenceTypeStep, FenceInvStep
<1>. QED BY <1>1, <1>2, FenceInvInit, PTL DEF FenceSpec
===============================================================================

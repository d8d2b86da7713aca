------------------------------ MODULE StackMachine -----------------------------
(***************************************************************************)
(* The lifecycle state machine of a stack (pkg/run/machine.go): its        *)
(* states, the table of transitions, and the check every caller makes      *)
(* before it proposes a state change.  A stack without an FSM entry is in  *)
(* state NoState.                                                          *)
(***************************************************************************)

NoState == "NoState"

States == {"Provisioning", "Idle", "Starting", "RunningPrimary", "FailingOver",
           "RunningBackup", "Restoring", "Stopping", "Updating", "RollingBack",
           "Failed"}

\* The states in which the source says a stack is locked.
transitionalStates == {"Provisioning", "Starting", "FailingOver", "Restoring",
                       "Stopping", "Updating", "RollingBack"}

transitions ==
    {<<"Idle", "BackupRestoreStart", "Restoring">>,
     <<"Restoring", "BackupRestorePrepared", "Provisioning">>,
     <<"Idle", "CreateStack", "Provisioning">>,
     <<"Provisioning", "ProvisionDone", "Idle">>,
     <<"Provisioning", "FailStack", "Failed">>,
     <<"Idle", "StartStack", "Starting">>,
     <<"Failed", "StartStack", "Starting">>,
     <<"Starting", "StartDone", "RunningPrimary">>,
     <<"Starting", "StartFailed", "Failed">>,
     <<"RunningPrimary", "FailStack", "Failed">>,
     <<"RunningPrimary", "FailoverStart", "FailingOver">>,
     <<"FailingOver", "FailoverDone", "RunningBackup">>,
     <<"FailingOver", "FailoverFailed", "Failed">>,
     <<"RunningBackup", "RestoreStart", "Restoring">>,
     <<"Restoring", "RestoreDone", "RunningPrimary">>,
     <<"Restoring", "RestoreFailed", "Failed">>,
     <<"RunningPrimary", "StopStack", "Stopping">>,
     <<"RunningBackup", "StopStack", "Stopping">>,
     <<"Idle", "StopStack", "Idle">>,
     <<"Stopping", "StopDone", "Idle">>,
     <<"RunningPrimary", "UpdateStack", "Updating">>,
     <<"Updating", "UpdateDone", "RunningPrimary">>,
     <<"Updating", "UpdateFailed", "RollingBack">>,
     <<"RollingBack", "RollbackDone", "RunningPrimary">>,
     <<"RollingBack", "RollbackFailed", "Failed">>}

Events == {t[2] : t \in transitions}

\* machine.Apply: the states an event may lead to (none: the event is refused).
\* The table is a function of state and event; LockedBy only chooses between
\* two refusals, because the FSM never stores it.
Targets(state, event) == {to \in States : <<state, event, to>> \in transitions}
================================================================================

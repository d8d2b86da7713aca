----------------------------- MODULE UpdateFence -----------------------------
(***************************************************************************)
(* How an update gets the control process and hostd to rest before it      *)
(* stops the management services.  The updater, the API and the controller *)
(* supervisor share three files in /run/floatlab/activation: "blocked",    *)
(* which holds the id of the update, and the acknowledgements              *)
(* "api-drained" and "controllers-drained".  Nothing else orders them: the *)
(* control process runs in a container, the updater in hostd.              *)
(*                                                                         *)
(* A management update fences once per id.  A host update fences with the  *)
(* same id twice: for its checkpoint, and to stop a trial whose            *)
(* controllers it had let run.                                             *)
(***************************************************************************)
EXTENDS Naturals, FiniteSets

CONSTANTS Updates,      \* update ids
          Requests,     \* API requests that change something
          Mutations,    \* hostd commands that change something
          NoUpdate,     \* no id
          Stall,        \* may an iteration of the API loop outlast a trial?
          MaxDeaths     \* how often the control process dies on its own

ASSUME FenceAssumption ==
  /\ NoUpdate \notin Updates /\ Stall \in BOOLEAN /\ MaxDeaths \in Nat
  /\ IsFiniteSet(Requests)

VARIABLES
  blocked,      \* the id in the file "blocked"
  marks,        \* the ids in "api-drained" and "controllers-drained"
  up,           \* does the control process run?
  restarts,     \* Docker's restart policy of the management containers
  deaths,
  req,          \* where each API request is
  active,       \* activeManagementMutations
  evaluator,    \* the alert evaluator, a child of the API loop
  controllers,  \* the controllers, children of the supervisor
  api,          \* the API loop: next statement, the id it read, has it looked
                \* since the last update opened the fence?
  ctl,          \* the supervisor loop: next statement
  host,         \* hostd commands under way (Dispatcher.mutations)
  upd           \* the updater: next command, id, ids used, whether it drained

files == <<blocked, marks>>
container == <<up, restarts, deaths>>
requests == <<req, active>>
children == <<evaluator, controllers>>
loops == <<api, ctl>>
fenceVars == <<files, container, requests, children, loops, host, upd>>

Tokens == Updates \cup {NoUpdate}
ApiSteps == {"read", "cancel", "load", "write", "open"}
CtlSteps == {"stat", "cancel", "write", "again", "open"}
UpdSteps == {"open", "unmarkCtl", "unmarkApi", "block", "look", "awaitCtl", "awaitApi",
             "quiesce", "stop", "stopped", "started"}

----------------------------------------------------------------------------
\* A process just started.
Fresh == [pc |-> "read", seen |-> NoUpdate, turned |-> FALSE]

FenceInit ==
  /\ blocked = NoUpdate /\ marks = [api |-> NoUpdate, ctl |-> NoUpdate]
  /\ up = TRUE /\ restarts = TRUE /\ deaths = 0
  /\ req = [r \in Requests |-> "new"] /\ active = 0
  /\ evaluator = "off" /\ controllers = "off"
  /\ api = Fresh /\ ctl = "stat"
  /\ host = {}
  /\ upd = [pc |-> "open", op |-> NoUpdate, used |-> {}, drained |-> FALSE]

(* API requests: updateMutationFence counts a request before it looks. *)

Count(r) ==
  /\ up /\ req[r] = "new"
  /\ req' = [req EXCEPT ![r] = "counted"]
  /\ active' = active + 1
  /\ UNCHANGED <<files, container, children, loops, host, upd>>

Admit(r) ==
  /\ req[r] = "counted"
  /\ req' = [req EXCEPT ![r] = IF blocked = NoUpdate THEN "serving" ELSE "rejected"]
  /\ UNCHANGED <<files, container, active, children, loops, host, upd>>

Finish(r) ==
  /\ req[r] \in {"serving", "rejected"}
  /\ req' = [req EXCEPT ![r] = "done"]
  /\ active' = active - 1
  /\ UNCHANGED <<files, container, children, loops, host, upd>>

----------------------------------------------------------------------------
(* runUpdateBackground: one iteration per tick. *)

ReadBlocked ==
  /\ up /\ api.pc = "read"
  /\ api' = [pc |-> IF blocked # NoUpdate /\ evaluator # "off" THEN "cancel" ELSE "load",
             seen |-> blocked, turned |-> TRUE]
  /\ evaluator' = IF blocked # NoUpdate /\ evaluator = "on" THEN "stopping" ELSE evaluator
  /\ UNCHANGED <<files, container, requests, controllers, ctl, host, upd>>

\* <-done
EvaluatorStopped ==
  /\ up /\ api.pc = "cancel" /\ evaluator = "off"
  /\ api' = [api EXCEPT !.pc = "load"]
  /\ UNCHANGED <<files, container, requests, children, ctl, host, upd>>

LoadActive ==
  /\ up /\ api.pc = "load"
  /\ api' = [api EXCEPT !.pc = IF api.seen # NoUpdate /\ active = 0 THEN "write" ELSE "open"]
  /\ UNCHANGED <<files, container, requests, children, ctl, host, upd>>

AcknowledgeApi ==
  /\ up /\ api.pc = "write"
  /\ marks' = [marks EXCEPT !.api = api.seen]
  /\ api' = [api EXCEPT !.pc = "read"]
  /\ UNCHANGED <<blocked, container, requests, children, ctl, host, upd>>

\* Not drained, or not blocked: withdraw the acknowledgement; launch if not blocked.
OpenApi ==
  /\ up /\ api.pc = "open"
  /\ marks' = [marks EXCEPT !.api = NoUpdate]
  /\ evaluator' = IF api.seen = NoUpdate /\ evaluator = "off" THEN "on" ELSE evaluator
  /\ api' = [api EXCEPT !.pc = "read"]
  /\ UNCHANGED <<blocked, container, requests, controllers, ctl, host, upd>>

EvaluatorEnds ==
  /\ evaluator = "stopping" /\ evaluator' = "off"
  /\ UNCHANGED <<files, container, requests, controllers, loops, host, upd>>

----------------------------------------------------------------------------
(* superviseControllers: one iteration per tick. *)

\* Mutant: acknowledges only what it has cancelled itself.
StatSilently ==
  /\ up /\ ctl = "stat"
  /\ ctl' = IF blocked = NoUpdate THEN "open" ELSE IF controllers = "off" THEN "stat" ELSE "cancel"
  /\ controllers' = IF blocked # NoUpdate /\ controllers = "on" THEN "stopping" ELSE controllers
  /\ UNCHANGED <<files, container, requests, evaluator, api, host, upd>>

StatBlocked ==
  /\ up /\ ctl = "stat"
  /\ ctl' = IF blocked = NoUpdate THEN "open" ELSE IF controllers = "off" THEN "again" ELSE "cancel"
  /\ controllers' = IF blocked # NoUpdate /\ controllers = "on" THEN "stopping" ELSE controllers
  /\ UNCHANGED <<files, container, requests, evaluator, api, host, upd>>

\* Mutant: acknowledges the cancellation without waiting for its completion.
CancelOnly ==
  /\ up /\ ctl = "cancel"
  /\ ctl' = "write"
  /\ UNCHANGED <<files, container, requests, children, api, host, upd>>

\* <-done
ControllersStopped ==
  /\ up /\ ctl = "cancel" /\ controllers = "off"
  /\ ctl' = "write"
  /\ UNCHANGED <<files, container, requests, children, api, host, upd>>

\* The acknowledgement carries the id that the file holds by now, if any, and
\* an iteration that cancelled writes it twice.
AcknowledgeControllers ==
  /\ up /\ ctl \in {"write", "again"}
  /\ marks' = [marks EXCEPT !.ctl = blocked]
  /\ ctl' = IF ctl = "write" THEN "again" ELSE "stat"
  /\ UNCHANGED <<blocked, container, requests, children, api, host, upd>>

\* Mutant: controllers are started once per process.
StartOnce ==
  /\ up /\ ctl = "open"
  /\ marks' = IF controllers = "off" THEN [marks EXCEPT !.ctl = NoUpdate] ELSE marks
  /\ controllers' = IF upd.used = {} THEN "on" ELSE controllers
  /\ ctl' = "stat"
  /\ UNCHANGED <<blocked, container, requests, evaluator, api, host, upd>>

StartControllers ==
  /\ up /\ ctl = "open"
  /\ marks' = IF controllers = "off" THEN [marks EXCEPT !.ctl = NoUpdate] ELSE marks
  /\ controllers' = "on"
  /\ ctl' = "stat"
  /\ UNCHANGED <<blocked, container, requests, evaluator, api, host, upd>>

ControllersEnd ==
  /\ controllers = "stopping" /\ controllers' = "off"
  /\ UNCHANGED <<files, container, requests, evaluator, loops, host, upd>>

----------------------------------------------------------------------------
(* hostd: Dispatcher.handle looks and counts under one mutex. *)

BeginMutation(h) ==
  /\ h \notin host /\ blocked = NoUpdate
  /\ host' = host \cup {h}
  /\ UNCHANGED <<files, container, requests, children, loops, upd>>

EndMutation(h) ==
  /\ h \in host
  /\ host' = host \ {h}
  /\ UNCHANGED <<files, container, requests, children, loops, upd>>

----------------------------------------------------------------------------
(* The container of the control process. *)

ProcessEnds ==
  /\ up' = FALSE
  /\ req' = [r \in Requests |-> IF req[r] = "new" THEN "new" ELSE "done"] /\ active' = 0
  /\ evaluator' = "off" /\ controllers' = "off"

ControlDies ==
  /\ up /\ deaths < MaxDeaths
  /\ ProcessEnds
  /\ deaths' = deaths + 1
  /\ UNCHANGED <<files, restarts, loops, host, upd>>

ControlRestarts ==
  /\ ~up /\ restarts
  /\ up' = TRUE /\ api' = Fresh /\ ctl' = "stat"
  /\ UNCHANGED <<files, restarts, deaths, requests, children, host, upd>>

----------------------------------------------------------------------------
(* The updater: Fence, suppressAndStop, the start of services, Authorize. *)

Updater(from, to) == upd.pc = from /\ upd' = [upd EXCEPT !.pc = to]

control == <<container, requests, children, loops>>

\* A second fence with the same id ends a host trial, whose containers Docker
\* does not restart.
BeginFence(op) ==
  /\ upd.pc = "open"
  /\ op \notin upd.used \/ (op = upd.op /\ ~restarts /\ (api.turned \/ ~up \/ Stall))
  /\ op = upd.op \/ restarts
  /\ upd' = [pc |-> "unmarkCtl", op |-> op, used |-> upd.used \cup {op}, drained |-> FALSE]
  /\ UNCHANGED <<files, control, host>>

RemoveMarks ==
  /\ \/ Updater("unmarkCtl", "unmarkApi") /\ marks' = [marks EXCEPT !.ctl = NoUpdate]
     \/ Updater("unmarkApi", "block") /\ marks' = [marks EXCEPT !.api = NoUpdate]
  /\ UNCHANGED <<blocked, control, host>>

Block ==
  /\ Updater("block", "look")
  /\ blocked' = upd.op
  /\ UNCHANGED <<marks, control, host>>

\* No control container: there is nothing to wait for.
LookForControl ==
  /\ Updater("look", IF up THEN "awaitCtl" ELSE "quiesce")
  /\ UNCHANGED <<files, control, host>>

\* The two files are read one after the other, until both match.
Await ==
  /\ \/ Updater("awaitCtl", IF marks.ctl = upd.op THEN "awaitApi" ELSE "awaitCtl")
     \/ Updater("awaitApi", IF marks.api = upd.op THEN "quiesce" ELSE "awaitCtl")
  /\ UNCHANGED <<files, control, host>>

\* drainMutations
Quiesce ==
  /\ upd.pc = "quiesce" /\ host = {}
  /\ upd' = [upd EXCEPT !.pc = "stop", !.drained = TRUE]
  /\ UNCHANGED <<files, control, host>>

\* A deadline fails the step: the rollback stops the services all the same.
Deadline ==
  /\ \E pc \in {"awaitCtl", "awaitApi", "quiesce"} : Updater(pc, "stop")
  /\ UNCHANGED <<files, control, host>>

\* A requested rollback of a committed update stops the services undrained.
RestoreCommitted ==
  /\ upd.pc = "open" /\ upd.op # NoUpdate /\ restarts
  /\ upd' = [upd EXCEPT !.pc = "stop", !.drained = FALSE]
  /\ blocked' = upd.op
  /\ UNCHANGED <<marks, control, host>>

StopServices ==
  /\ Updater("stop", "stopped")
  /\ ProcessEnds
  /\ restarts' = FALSE
  /\ UNCHANGED <<files, deaths, loops, host>>

\* The services start while "blocked" is still there.
StartServices ==
  /\ Updater("stopped", "started")
  /\ up' = TRUE /\ api' = Fresh /\ ctl' = "stat"
  /\ UNCHANGED <<files, restarts, deaths, requests, children, host>>

\* They are not healthy: restore the previous ones.
TrialFails ==
  /\ Updater("started", "stop")
  /\ UNCHANGED <<files, control, host>>

\* Authorize restores the restart policy; ActivateCheckpointControllers only
\* opens the fence, for the rest of a host trial.
Open(policy) ==
  /\ Updater("started", "open")
  /\ blocked' = NoUpdate
  /\ restarts' = policy
  /\ api' = [api EXCEPT !.turned = FALSE]
  /\ UNCHANGED <<marks, up, deaths, requests, children, ctl, host>>

AuthorizeServices == Open(TRUE)

ActivateCheckpointControllers == Open(FALSE)

----------------------------------------------------------------------------
ApiLoop == ReadBlocked \/ EvaluatorStopped \/ LoadActive \/ AcknowledgeApi \/ OpenApi

Supervisor ==
  StatBlocked \/ ControllersStopped \/ AcknowledgeControllers \/ StartControllers

FenceSteps == RemoveMarks \/ Block \/ LookForControl \/ Await \/ Quiesce

FenceNext ==
  \/ \E r \in Requests : Count(r) \/ Admit(r) \/ Finish(r)
  \/ ApiLoop \/ EvaluatorEnds
  \/ Supervisor \/ ControllersEnd
  \/ \E h \in Mutations : BeginMutation(h) \/ EndMutation(h)
  \/ ControlDies \/ ControlRestarts
  \/ \E op \in Updates : BeginFence(op)
  \/ FenceSteps \/ Deadline \/ RestoreCommitted
  \/ StopServices \/ StartServices \/ TrialFails
  \/ AuthorizeServices \/ ActivateCheckpointControllers

\* Both loops tick, a cancelled child and an admitted request return, Docker
\* applies its policy and the updater goes on.  Nothing makes a deadline, a
\* crash or another update happen.
FenceFairness ==
  /\ WF_fenceVars(ApiLoop) /\ WF_fenceVars(Supervisor)
  /\ WF_fenceVars(EvaluatorEnds) /\ WF_fenceVars(ControllersEnd)
  /\ \A r \in Requests : WF_fenceVars(Admit(r) \/ Finish(r))
  /\ \A h \in Mutations : WF_fenceVars(EndMutation(h))
  /\ WF_fenceVars(ControlRestarts)
  /\ WF_fenceVars(FenceSteps)

FenceSpec == FenceInit /\ [][FenceNext]_fenceVars /\ FenceFairness

----------------------------------------------------------------------------
\* The requests between their count and their return.
InFlight == {r \in Requests : req[r] \in {"counted", "serving", "rejected"}}

(* The files hold ids, and activeManagementMutations is the number of the  *)
(* requests in flight.                                                     *)
FenceTypeOK ==
  /\ blocked \in Tokens /\ marks \in [api : Tokens, ctl : Tokens]
  /\ up \in BOOLEAN /\ restarts \in BOOLEAN /\ deaths \in 0..MaxDeaths
  /\ req \in [Requests -> {"new", "counted", "serving", "rejected", "done"}]
  /\ active = Cardinality(InFlight)
  /\ evaluator \in {"off", "on", "stopping"} /\ controllers \in {"off", "on", "stopping"}
  /\ api \in [pc : ApiSteps, seen : Tokens, turned : BOOLEAN] /\ ctl \in CtlSteps
  /\ host \subseteq Mutations
  /\ upd \in [pc : UpdSteps, op : Tokens, used : SUBSET Updates, drained : BOOLEAN]

(* Between a successful drain and the authorization of what it installed,  *)
(* also while a candidate is started, fails and is replaced, no request is *)
(* served, no evaluator, controller or hostd command runs: Fence saw both  *)
(* acknowledgements and no mutation, and nothing starts behind its back.   *)
DrainedMeansQuiet ==
  upd.drained /\ upd.pc \in {"stop", "stopped", "started"} =>
    /\ \A r \in Requests : req[r] # "serving"
    /\ evaluator = "off" /\ controllers = "off" /\ host = {}

(* While the control process lives, a waiting Fence gets its two           *)
(* acknowledgements without the help of its deadline, however the loops'   *)
(* reads and writes of the three files interleave with its own.            *)
DrainAcknowledged ==
  upd.pc \in {"awaitCtl", "awaitApi"} ~> upd.pc \notin {"awaitCtl", "awaitApi"} \/ ~up

(* Once an update has removed "blocked", the controllers and the evaluator *)
(* of a live control process come back, unless another update blocks.      *)
Resumes ==
  upd.pc = "open" /\ up ~>
    (controllers = "on" /\ evaluator = "on") \/ upd.pc # "open" \/ ~up

\* A drained fence is quiet: no request, controller, evaluator or hostd command that
\* changes state runs behind it (update_fence.go, linux.go Fence).
DrainSafe == FenceTypeOK /\ DrainedMeansQuiet
=============================================================================

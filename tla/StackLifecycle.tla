----------------------------- MODULE StackLifecycle ----------------------------
(***************************************************************************)
(* The life of one stack: API requests (internal/control/routes_stacks.go  *)
(* behind the idempotency middleware), the local lifecycle FSM (pkg/raft), *)
(* the operation records (pkg/operation) and the orchestrator              *)
(* (internal/orchestrator), whose loop reads FSM entries from a            *)
(* subscription and runs doProvision, doStart and doStop in goroutines.    *)
(*                                                                         *)
(* Every writer of the FSM reads the state, checks its event against the   *)
(* table and then applies the target state; the FSM stores it whatever the *)
(* state has become in between.  The control process may be killed at any  *)
(* moment: the FSM row, the operations, the stack row and the address      *)
(* allocation survive, everything else is lost.                            *)
(***************************************************************************)
EXTENDS Integers, Sequences, FiniteSets, StackMachine

CONSTANTS
    Requests,    \* API requests
    Kinds,       \* the kinds of request clients make
    Exclusive,   \* clients wait for an operation before they send the next
    StopIdle,    \* clients stop stacks that are already idle
    HasPorts,    \* the Compose project publishes ports and needs an address
    ChanCap,     \* capacity of a subscription channel (64 in the code)
    MaxVersion,  \* bound on FSM entries
    MaxCrashes,  \* bound on kills of the control process
    Faults,      \* the kinds of fault that occur: see FaultKinds
    MaxFaults    \* bound on the number of faults

ASSUME BoundsAssumption ==
    /\ ChanCap \in Nat \ {0} /\ MaxVersion \in Nat
    /\ MaxCrashes \in Nat /\ MaxFaults \in Nat
ASSUME RequestsAssumption == IsFiniteSet(Requests)
ASSUME FlagsAssumption ==
    /\ Exclusive \in BOOLEAN /\ StopIdle \in BOOLEAN /\ HasPorts \in BOOLEAN
    /\ Kinds \subseteq {"create", "startNew", "start", "stop"}

\* A failing dataset, source or project step; a failing network step; a failing
\* compose.up, compose.down or docker.list; a dying container; a failing database
\* call.
FaultKinds == {"prepare", "network", "up", "down", "list", "die", "store"}
ASSUME FaultsAssumption == Faults \subseteq FaultKinds

VARIABLES
    fsm,         \* the FSM entry: its state and its (unique) timestamp
    exists,      \* the stack row is in the database
    ops,         \* the operation record of each request
    order,       \* the operations in order of creation
    req,         \* the HTTP handler of each request
    loop,        \* the orchestrator loop: phase, subscription, held entry
    job,         \* job[v]: the goroutine dispatched for FSM entry v
    alloc,       \* the row in network_allocations
    ip,          \* stack_runtime has the stack's address
    containers,  \* the stack's containers on the host
    died,        \* a container.state event is on its way to the loop
    crashes, faults

reqVars == <<ops, order, req>>
netVars == <<alloc, ip>>
boundVars == <<crashes, faults>>
vars == <<fsm, exists, ops, order, req, loop, job, alloc, ip,
          containers, died, crashes, faults>>

Versions == 1..MaxVersion
NoEntry == [to |-> NoState, ver |-> 0]

\* actionFromRequest: creating by starting an unknown name is a start.
ActionOf(kind) == IF kind = "startNew" THEN "start" ELSE kind

Fault(kind) ==
    /\ kind \in Faults /\ faults < MaxFaults
    /\ faults' = faults + 1
    /\ UNCHANGED crashes

Active(r) == ops[r].state \in {"pending", "running"}

--------------------------------------------------------------------------------
(* The lifecycle FSM, pkg/raft: applyLocal and FSM.Apply under one mutex.  *)

\* FSM.Apply hands each entry to the subscriber, unless its buffer is full.
FanOut(l, entry) ==
    IF l.subscribed /\ Len(l.chan) < ChanCap THEN [l EXCEPT !.chan = Append(@, entry)] ELSE l

\* Store the entry and fan it out; after is the loop as the caller leaves it.
RaftApply(to, after) ==
    /\ fsm.ver < MaxVersion
    /\ fsm' = [state |-> to, ver |-> fsm.ver + 1]
    /\ loop' = FanOut(after, [to |-> to, ver |-> fsm.ver + 1])

--------------------------------------------------------------------------------
(* Operation records, pkg/operation/store.go. *)

\* Mutant of OldestActive: whatever its action.
OldestOfAny(action) ==
    LET open == {i \in 1..Len(order) : Active(order[i]) /\ ops[order[i]].bound}
    IN  {order[i] : i \in {k \in open : \A j \in open : k <= j}}

\* The active operation of the stack that FinishForStack would close.
OldestActive(action) ==
    LET open == {i \in 1..Len(order) : /\ Active(order[i]) /\ ops[order[i]].bound
                                       /\ ops[order[i]].action = action}
    IN  {order[i] : i \in {k \in open : \A j \in open : k <= j}}

FinishForStack(action, outcome) ==
    ops' = [r \in Requests |->
               IF r \in OldestActive(action) THEN [ops[r] EXCEPT !.state = outcome]
               ELSE ops[r]]

\* The action of the stack's oldest active operation (ActiveForStack).
ActiveForStack ==
    LET open == {i \in 1..Len(order) : Active(order[i]) /\ ops[order[i]].bound}
    IN  {ops[order[i]].action : i \in {k \in open : \A j \in open : k <= j}}

--------------------------------------------------------------------------------
(* API requests. *)

Idle(r) == req[r].pc = "new"

\* The idempotency middleware records the operation before the handler runs.
\* A creating request does not know its stack yet, so its record names none.
Accept(r, kind) ==
    /\ loop.phase # "down"
    /\ Idle(r)
    /\ kind \in {"start", "stop"} => exists
    /\ kind = "stop" /\ ~StopIdle => fsm.state # "Idle"
    /\ Exclusive => \A o \in Requests : ~Active(o) /\ req[o].pc \in {"new", "done"}
    /\ ops' = [ops EXCEPT ![r] = [state |-> "pending", action |-> ActionOf(kind),
                                  bound |-> kind \in {"start", "stop"}]]
    /\ order' = Append(order, r)
    /\ req' = [req EXCEPT ![r] = [pc |-> "handle", kind |-> kind, to |-> NoState, code |-> 0]]
    /\ UNCHANGED <<fsm, exists, loop, job, netVars, containers, died, boundVars>>

Answer(r, code) == req' = [req EXCEPT ![r].pc = "respond", ![r].code = code]

\* handleCreateStack and handleCreateAndStartStack: insert the stack row, whose
\* name is unique.
CreateStackRow(r) ==
    /\ req[r].pc = "handle" /\ req[r].kind \in {"create", "startNew"}
    /\ \/ /\ exists
          /\ Answer(r, 409)
          /\ UNCHANGED exists
       \/ /\ ~exists
          /\ exists' = TRUE
          /\ req' = [req EXCEPT ![r].pc = IF req[r].kind = "create" THEN "apply" ELSE "bind",
                                ![r].to = "Provisioning"]
    /\ UNCHANGED <<fsm, ops, order, loop, job, netVars, containers, died, boundVars>>

\* handleCreateAndStartStack then names the new stack in its operation record.
BindOperation(r) ==
    /\ req[r].pc = "bind"
    /\ req' = [req EXCEPT ![r].pc = "apply"]
    /\ ops' = [ops EXCEPT ![r].bound = TRUE]
    /\ UNCHANGED <<fsm, exists, order, loop, job, netVars, containers, died, boundVars>>

\* handleStartStack and handleStopStack: read the FSM and check the event.  A
\* start treats a stack the FSM does not know as idle, a stop refuses it.
CheckTransition(r) ==
    /\ req[r].pc = "handle" /\ req[r].kind \in {"start", "stop"}
    /\ LET read == IF fsm.ver = 0 /\ req[r].kind = "start" THEN "Idle" ELSE fsm.state
           event == IF req[r].kind = "start" THEN "StartStack" ELSE "StopStack"
       IN  \/ /\ Targets(read, event) = {}
              /\ Answer(r, 409)
           \/ \E to \in Targets(read, event) :
                 req' = [req EXCEPT ![r].pc = "apply", ![r].to = to]
    /\ UNCHANGED <<fsm, exists, ops, order, loop, job, netVars, containers, died, boundVars>>

\* The handler applies what it read some time ago.  A creation answers 201, the
\* other commands 202, and a failing write 500.
ApplyRequest(r) ==
    /\ req[r].pc = "apply"
    /\ \/ /\ RaftApply(req[r].to, loop)
          /\ Answer(r, IF req[r].kind = "create" THEN 201 ELSE 202)
          /\ UNCHANGED boundVars
       \/ /\ Fault("store")
          /\ Answer(r, 500)
          /\ UNCHANGED <<fsm, loop>>
    /\ UNCHANGED <<exists, ops, order, job, netVars, containers, died>>

\* The middleware closes or keeps open the operation by the status code, only
\* if nothing else has closed it since.
ResponseState(code) == CASE code = 202 -> "running" [] code >= 400 -> "failed" [] OTHER -> "succeeded"

\* Mutant of Respond: the record is overwritten whoever closed it.
RespondAlways(r) ==
    /\ req[r].pc = "respond"
    /\ req' = [req EXCEPT ![r].pc = "done"]
    /\ ops' = [ops EXCEPT ![r].state = ResponseState(req[r].code)]
    /\ UNCHANGED <<fsm, exists, order, loop, job, netVars, containers, died, boundVars>>

Respond(r) ==
    /\ req[r].pc = "respond"
    /\ req' = [req EXCEPT ![r].pc = "done"]
    /\ ops' = IF ops[r].state = "pending"
              THEN [ops EXCEPT ![r].state = ResponseState(req[r].code)] ELSE ops
    /\ UNCHANGED <<fsm, exists, order, loop, job, netVars, containers, died, boundVars>>

--------------------------------------------------------------------------------
(* The goroutines of the orchestrator.  A goroutine is in one of its steps  *)
(* ("prepare" ... "down") or is running a script: the calls of applyEvent   *)
(* and FinishForStack that are left before it returns.  applyEvent is an    *)
(* "event" (read the FSM, check the table) followed by a "commit".          *)

NoJob == [pc |-> "none", script |-> <<>>]
Ended == [pc |-> "ended", script |-> <<>>]

At(step) == [pc |-> step, script |-> <<>>]
Run(script) == IF script = <<>> THEN Ended ELSE [pc |-> "script", script |-> script]

Event(ev) == <<"event", ev>>
Commit(to) == <<"commit", to>>
Finish(action, outcome) == <<"finish", action, outcome>>
AfterProvision == <<"after">>

Go(v, next) == job' = [job EXCEPT ![v] = next]

\* doProvision up to the network: the stack row, the Compose source, the query
\* for a restore task, staged bind data, datasets and the source file.  The
\* error paths differ in the operation they close, if any.
Prepare(v) ==
    /\ job[v].pc = "prepare"
    /\ \/ /\ Go(v, IF HasPorts THEN At("allocate")
                  ELSE Run(<<Event("ProvisionDone"), AfterProvision>>))
          /\ UNCHANGED boundVars
       \/ /\ Fault("prepare")
          /\ \E script \in {<<>>, <<Event("FailStack")>>,
                             <<Event("FailStack"), Finish("create", "failed")>>,
                             <<Event("FailStack"), Finish("start", "failed")>>} :
                Go(v, Run(script))
    /\ UNCHANGED <<fsm, exists, reqVars, loop, netVars, containers, died>>

NetworkFailed == Run(<<Event("FailStack"), Finish("create", "failed")>>)

\* AllocateIPv4: a stack has one allocation row at most, so a stack that has one
\* finds every address of the pool refused.  The failing calls before it (list
\* and select the pool, host status, eligibility) fail in the same way.
AllocateIPv4(v) ==
    /\ job[v].pc = "allocate"
    /\ \/ /\ alloc = "none"
          /\ alloc' = "pending"
          /\ Go(v, At("record"))
          /\ UNCHANGED boundVars
       \/ /\ alloc # "none"
          /\ Go(v, NetworkFailed)
          /\ UNCHANGED <<alloc, boundVars>>
       \/ /\ Fault("network")
          /\ Go(v, NetworkFailed)
          /\ UNCHANGED alloc
    /\ UNCHANGED <<fsm, exists, reqVars, loop, ip, containers, died>>

\* Mutant of ReleaseIPv4: the stack keeps the address it has given back.
ReleaseAllocationOnly == alloc' = "none" /\ UNCHANGED ip

\* One transaction drops the allocation and the stack's address.
ReleaseIPv4 == alloc' = "none" /\ ip' = FALSE

\* provisionNetwork stores the address of the stack, or gives it back.
RecordAddress(v) ==
    /\ job[v].pc = "record"
    /\ \/ /\ ip' = TRUE
          /\ Go(v, At("service"))
          /\ UNCHANGED <<alloc, boundVars>>
       \/ /\ Fault("network")
          /\ ReleaseIPv4
          /\ Go(v, NetworkFailed)
    /\ UNCHANGED <<fsm, exists, reqVars, loop, containers, died>>

\* After a failure the address is given back only if the host confirms that it
\* no longer serves it.
CompensateNetwork(v) ==
    /\ Fault("network")
    /\ ReleaseIPv4 \/ UNCHANGED netVars
    /\ Go(v, NetworkFailed)

AddService(v) ==
    /\ job[v].pc = "service"
    /\ \/ /\ Go(v, At("activate"))
          /\ UNCHANGED <<netVars, boundVars>>
       \/ CompensateNetwork(v)
    /\ UNCHANGED <<fsm, exists, reqVars, loop, containers, died>>

ActivateIPv4(v) ==
    /\ job[v].pc = "activate"
    /\ \/ /\ alloc' = IF alloc = "pending" THEN "active" ELSE alloc
          /\ Go(v, Run(<<Event("ProvisionDone"), AfterProvision>>))
          /\ UNCHANGED <<ip, boundVars>>
       \/ CompensateNetwork(v)
    /\ UNCHANGED <<fsm, exists, reqVars, loop, containers, died>>

\* doStart.  RuntimeYAML needs the address of a stack that publishes ports; its
\* absence and a failing query return without closing the operation, a missing
\* stack row even leaves the stack in Starting.
ComposeUp(v) ==
    /\ job[v].pc = "up"
    /\ \/ /\ HasPorts /\ ~ip
          /\ Go(v, Run(<<Event("StartFailed")>>))
          /\ UNCHANGED <<containers, boundVars>>
       \/ /\ HasPorts => ip
          /\ containers' = "up"
          /\ Go(v, Run(<<Event("StartDone"), Finish("start", "succeeded")>>))
          /\ UNCHANGED boundVars
       \/ /\ Fault("store")
          /\ Go(v, Run(<<>>)) \/ Go(v, Run(<<Event("StartFailed")>>))
          /\ UNCHANGED containers
       \/ /\ Fault("up")
          /\ HasPorts => ip
          /\ containers' \in {containers, "up"}
          /\ Go(v, Run(<<Event("StartFailed"), Finish("start", "failed")>>))
    /\ UNCHANGED <<fsm, exists, reqVars, loop, netVars, died>>

\* doStop.  Removing running containers raises die events too.  A failing
\* compose.down closes the operation and leaves the stack in Stopping.
ComposeDown(v) ==
    /\ job[v].pc = "down"
    /\ \/ /\ containers' = "down"
          /\ died' \in {died, died \/ containers = "up"}
          /\ Go(v, Run(<<Event("StopDone"), Finish("stop", "succeeded")>>))
          /\ UNCHANGED boundVars
       \/ /\ Fault("store")
          /\ Go(v, Run(<<>>))
          /\ UNCHANGED <<containers, died>>
       \/ /\ Fault("down")
          /\ Go(v, Run(<<Finish("stop", "failed")>>))
          /\ UNCHANGED <<containers, died>>
    /\ UNCHANGED <<fsm, exists, reqVars, loop, netVars>>

Left(v) == Tail(job[v].script)

\* applyEvent, first half: the event is checked against the state as read.
CheckEvent(v) ==
    /\ job[v].pc = "script" /\ Head(job[v].script)[1] = "event"
    /\ LET to == Targets(fsm.state, Head(job[v].script)[2]) IN
        \/ to = {} /\ Go(v, Run(Left(v)))
        \/ \E t \in to : Go(v, Run(<<Commit(t)>> \o Left(v)))
    /\ UNCHANGED <<fsm, exists, reqVars, loop, netVars, containers, died, boundVars>>

\* applyEvent, second half; a failing write is only logged.
CommitEvent(v) ==
    /\ job[v].pc = "script" /\ Head(job[v].script)[1] = "commit"
    /\ \/ RaftApply(Head(job[v].script)[2], loop) /\ UNCHANGED boundVars
       \/ Fault("store") /\ UNCHANGED <<fsm, loop>>
    /\ Go(v, Run(Left(v)))
    /\ UNCHANGED <<exists, reqVars, netVars, containers, died>>

\* FinishForStack; a failing write is ignored.
FinishOperation(v) ==
    /\ job[v].pc = "script" /\ Head(job[v].script)[1] = "finish"
    /\ \/ /\ FinishForStack(Head(job[v].script)[2], Head(job[v].script)[3])
          /\ UNCHANGED boundVars
       \/ Fault("store") /\ UNCHANGED ops
    /\ Go(v, Run(Left(v)))
    /\ UNCHANGED <<fsm, exists, order, req, loop, netVars, containers, died>>

\* The end of doProvision: a stack whose oldest open operation is a start is
\* started at once.
StartProvisioned(v) ==
    /\ job[v].pc = "script" /\ Head(job[v].script)[1] = "after"
    /\ Go(v, Run(<<IF ActiveForStack = {"start"} THEN Event("StartStack")
                   ELSE Finish("create", "succeeded")>>))
    /\ UNCHANGED <<fsm, exists, reqVars, loop, netVars, containers, died, boundVars>>

JobStep(v) ==
    \/ Prepare(v) \/ AllocateIPv4(v) \/ RecordAddress(v) \/ AddService(v)
    \/ ActivateIPv4(v) \/ ComposeUp(v) \/ ComposeDown(v)
    \/ CheckEvent(v) \/ CommitEvent(v) \/ FinishOperation(v) \/ StartProvisioned(v)

--------------------------------------------------------------------------------
(* The orchestrator loop: one goroutine that resumes open operations and    *)
(* then takes FSM entries and container events one at a time.               *)

LoopDown == [phase |-> "down", subscribed |-> FALSE, chan |-> <<>>,
             held |-> NoEntry, dispatched |-> 0, left |-> 0, to |-> NoState]

\* The first step of the goroutine that each state is handed to.
WorkFor == [Provisioning |-> "prepare", Starting |-> "up", Stopping |-> "down"]

loopOnly == <<fsm, exists, reqVars, job, netVars, containers, boundVars>>

\* Run subscribes to the FSM before it looks for work to resume.
Subscribe ==
    /\ loop.phase = "boot"
    /\ loop' = [loop EXCEPT !.subscribed = TRUE, !.phase = "load"]
    /\ UNCHANGED <<loopOnly, died>>

\* Mutant of LoadActive: operations still pending are not resumed.
LoadRunning ==
    /\ loop.phase = "load"
    /\ loop' = [loop EXCEPT !.phase = "run",
                            !.left = Cardinality({r \in Requests : ops[r].state = "running"})]
    /\ UNCHANGED <<loopOnly, died>>

\* resume: the open operations that name the stack, if the FSM knows it.
LoadActive ==
    /\ loop.phase = "load"
    /\ loop' = [loop EXCEPT !.phase = "run",
                            !.left = Cardinality({r \in Requests : Active(r) /\ ops[r].bound})]
    /\ UNCHANGED <<loopOnly, died>>

ResumeNext ==
    /\ loop.phase = "run" /\ loop.held = NoEntry /\ loop.left > 0
    /\ loop' = [loop EXCEPT !.left = @ - 1,
                            !.held = IF fsm.ver = 0 THEN NoEntry
                                     ELSE [to |-> fsm.state, ver |-> fsm.ver]]
    /\ UNCHANGED <<loopOnly, died>>

Waiting == loop.phase = "run" /\ loop.held = NoEntry /\ loop.left = 0

Receive ==
    /\ Waiting /\ loop.chan # <<>>
    /\ loop' = [loop EXCEPT !.chan = Tail(@), !.held = Head(loop.chan)]
    /\ UNCHANGED <<loopOnly, died>>

\* Mutant of HandleStateChange: an entry is dispatched however often it comes.
HandleEveryEntry ==
    /\ loop.phase = "run" /\ loop.held # NoEntry
    /\ loop' = [loop EXCEPT !.held = NoEntry]
    /\ job' = [job EXCEPT ![loop.held.ver] =
                  IF fsm.ver = loop.held.ver /\ loop.held.to \in DOMAIN WorkFor
                  THEN At(WorkFor[loop.held.to]) ELSE @]
    /\ UNCHANGED <<fsm, exists, reqVars, netVars, containers, died, boundVars>>

\* handleStateChange: stale entries and entries already dispatched are skipped.
HandleStateChange ==
    /\ loop.phase = "run" /\ loop.held # NoEntry
    /\ LET entry == loop.held
           fresh == /\ fsm = [state |-> entry.to, ver |-> entry.ver]
                    /\ loop.dispatched # entry.ver
       IN  /\ loop' = [loop EXCEPT !.held = NoEntry,
                                   !.dispatched = IF fresh THEN entry.ver ELSE @]
           /\ job' = [job EXCEPT ![entry.ver] =
                         IF fresh /\ entry.to \in DOMAIN WorkFor
                         THEN At(WorkFor[entry.to]) ELSE @]
    /\ UNCHANGED <<fsm, exists, reqVars, netVars, containers, died, boundVars>>

\* handleContainerState: the death of a container of a running stack counts,
\* unless a stop is open, and only after the host has confirmed it.
ContainerEvent ==
    /\ Waiting /\ died
    /\ died' = FALSE
    /\ loop' = IF /\ fsm.state \in {"RunningPrimary", "RunningBackup"}
                  /\ \A r \in Requests : ~(Active(r) /\ ops[r].bound /\ ops[r].action = "stop")
               THEN [loop EXCEPT !.phase = "verify"] ELSE loop
    /\ UNCHANGED loopOnly

VerifyDeath ==
    /\ loop.phase = "verify"
    /\ \/ /\ loop' = [loop EXCEPT !.phase = IF containers = "dead" THEN "failRead" ELSE "run"]
          /\ UNCHANGED boundVars
       \/ /\ Fault("list")
          /\ loop' = [loop EXCEPT !.phase = "run"]
    /\ UNCHANGED <<fsm, exists, reqVars, job, netVars, containers, died>>

FailStackRead ==
    /\ loop.phase = "failRead"
    /\ \/ /\ Targets(fsm.state, "FailStack") = {}
          /\ loop' = [loop EXCEPT !.phase = "run"]
       \/ \E to \in Targets(fsm.state, "FailStack") :
             loop' = [loop EXCEPT !.phase = "failCommit", !.to = to]
    /\ UNCHANGED <<loopOnly, died>>

FailStackCommit ==
    /\ loop.phase = "failCommit"
    /\ LET after == [loop EXCEPT !.phase = "run", !.to = NoState] IN
        \/ RaftApply(loop.to, after) /\ UNCHANGED boundVars
        \/ Fault("store") /\ loop' = after /\ UNCHANGED fsm
    /\ UNCHANGED <<exists, reqVars, job, netVars, containers, died>>

LoopStep ==
    \/ Subscribe \/ LoadActive \/ ResumeNext \/ Receive \/ HandleStateChange
    \/ ContainerEvent \/ VerifyDeath \/ FailStackRead \/ FailStackCommit

--------------------------------------------------------------------------------
(* Containers and the control process. *)

\* A container stops on its own.
ContainerDies ==
    /\ containers = "up"
    /\ Fault("die")
    /\ containers' = "dead"
    /\ died' = (loop.phase # "down")
    /\ UNCHANGED <<fsm, exists, reqVars, loop, job, netVars>>

\* The control process is killed: handlers and goroutines vanish wherever they are.
Crash ==
    /\ loop.phase # "down" /\ crashes < MaxCrashes
    /\ crashes' = crashes + 1
    /\ loop' = LoopDown
    /\ job' = [v \in Versions |-> NoJob]
    /\ req' = [r \in Requests |-> IF req[r].pc = "new" THEN req[r]
                                  ELSE [req[r] EXCEPT !.pc = "done"]]
    /\ died' = FALSE
    /\ UNCHANGED <<fsm, exists, ops, order, netVars, containers, faults>>

\* NewLocalNode loads the persisted FSM; the API serves before the loop runs.
Restart ==
    /\ loop.phase = "down"
    /\ loop' = [LoopDown EXCEPT !.phase = "boot"]
    /\ UNCHANGED <<loopOnly, died>>

Handler(r) == CreateStackRow(r) \/ BindOperation(r) \/ CheckTransition(r) \/ ApplyRequest(r) \/ Respond(r)

Init ==
    /\ fsm = [state |-> NoState, ver |-> 0]
    /\ exists = FALSE
    /\ ops = [r \in Requests |-> [state |-> "none", action |-> "none", bound |-> FALSE]]
    /\ order = <<>>
    /\ req = [r \in Requests |-> [pc |-> "new", kind |-> "none", to |-> NoState, code |-> 0]]
    /\ loop = [LoopDown EXCEPT !.phase = "boot"]
    /\ job = [v \in Versions |-> NoJob]
    /\ alloc = "none" /\ ip = FALSE
    /\ containers = "down" /\ died = FALSE
    /\ crashes = 0 /\ faults = 0

Next ==
    \/ \E r \in Requests, kind \in Kinds : Accept(r, kind)
    \/ \E r \in Requests : Handler(r)
    \/ \E v \in Versions : JobStep(v)
    \/ LoopStep
    \/ ContainerDies \/ Crash \/ Restart

Spec == Init /\ [][Next]_vars

\* Handlers and goroutines are scheduled fairly, the service manager restarts
\* a killed process; clients owe nothing.
FairSpec ==
    /\ Spec
    /\ \A r \in Requests : WF_vars(Handler(r))
    /\ \A v \in Versions : WF_vars(JobStep(v))
    /\ WF_vars(LoopStep) /\ WF_vars(Restart)

--------------------------------------------------------------------------------
(* Properties. *)

JobSteps == {"none", "prepare", "allocate", "record", "service", "activate",
             "up", "down", "script", "ended"}

\* Every variable stays in its domain, goroutines belong to stored FSM entries
\* and the subscription never holds more than its buffer.
TypeOK ==
    /\ fsm.state \in States \cup {NoState} /\ fsm.ver \in 0..MaxVersion
    /\ exists \in BOOLEAN /\ ip \in BOOLEAN /\ died \in BOOLEAN
    /\ \A r \in Requests : ops[r].state \in {"none", "pending", "running", "succeeded", "failed"}
    /\ Len(order) <= Cardinality(Requests)
    /\ Len(loop.chan) <= ChanCap
    /\ \A v \in Versions : /\ job[v].pc \in JobSteps
                           /\ v > fsm.ver => job[v] = NoJob
                           /\ job[v].pc = "script" <=> job[v].script # <<>>
    /\ alloc \in {"none", "pending", "active"}
    /\ containers \in {"down", "up", "dead"}
    /\ crashes \in 0..MaxCrashes /\ faults \in 0..MaxFaults

\* Every state change the FSM stores is a transition of the table
\* (pkg/run/machine.go), however long ago the writer read the state.  A stack
\* that is not yet known counts as idle, as in handleCreateStack.
LegalTransitions ==
    [][fsm' # fsm =>
          \E ev \in Events : fsm'.state \in
              Targets(IF fsm.ver = 0 THEN "Idle" ELSE fsm.state, ev)]_vars

\* While this process lives, no FSM entry is handed to a second goroutine,
\* though resume and the subscription may both present it (handleStateChange).
DispatchOnce ==
    [][\A v \in Versions : job'[v] # job[v] /\ job'[v].pc \in {"prepare", "up", "down"}
                             => job[v] = NoJob]_vars

\* An operation that was reported succeeded or failed never changes again, whether
\* the goroutine or the HTTP middleware closes it first.
FinalOperationsStay ==
    [][\A r \in Requests : ops[r].state \in {"succeeded", "failed"} => ops'[r] = ops[r]]_vars

\* What the FSM says of the stack is what is on the host: an idle stack has no
\* containers, a running one has them (doStart, doStop).
StateMatchesHost ==
    /\ fsm.state = "Idle" => containers = "down"
    /\ fsm.state = "RunningPrimary" => containers # "down"

\* A running stack that publishes ports still owns the address it publishes
\* them on, whatever failed on the way (provisionNetwork, RuntimeYAML).
AddressHeld == HasPorts /\ fsm.state = "RunningPrimary" => ip /\ alloc # "none"

\* A start is reported succeeded only when containers were created, a stop only
\* when they are gone.
SuccessIsReal ==
    [][\A r \in Requests :
          ops[r].state # "succeeded" /\ ops'[r].state = "succeeded" =>
              /\ ops[r].action = "start" => containers # "down"
              /\ ops[r].action = "stop" => containers = "down"]_vars

\* Every accepted operation is eventually reported succeeded or failed, unless
\* a step of it failed or the process was killed: the resumed work may then fail
\* on the address it had allocated, and a stable state dispatches nothing.
OperationsFinish ==
    \A r \in Requests :
        Active(r) ~> ops[r].state \in {"succeeded", "failed"} \/ faults > 0 \/ crashes > 0

\* A stack never stays in a transitional state, though the process is killed
\* again and again: resume and the subscription find the work (Run, resume).
\* A failed step may leave it there (doStop, doProvision without a stack row).
LocksReleased ==
    fsm.state \in transitionalStates ~> fsm.state \notin transitionalStates \/ faults > 0

\* What the FSM, the host and the address manager each know of the stack agrees
\* (orchestrator.go doProvision, doStart, doStop).
Consistent == TypeOK /\ StateMatchesHost /\ AddressHeld

\* No step stores a state the table does not allow, and none closes an operation as
\* succeeded whose work was not done (fsm.go CheckTransition, operations FinishForStack).
StepsLegal == LegalTransitions /\ SuccessIsReal

\* Accepted work ends: its operation closes and its stack leaves the transitional state
\* (orchestrator.go Run, resume).
WorkEnds == OperationsFinish /\ LocksReleased
================================================================================

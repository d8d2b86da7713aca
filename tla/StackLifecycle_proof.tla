------------------------- MODULE StackLifecycle_proof -------------------------
(***************************************************************************)
(* What holds of a stack, for any number of requests, kills and faults.    *)
(*                                                                         *)
(* For concurrent clients and any capacity of the subscription an FSM      *)
(* entry is dispatched once per process and a closed operation stays       *)
(* closed.  For sequential clients the FSM, the host and the address       *)
(* manager agree, every stored state is a transition of the table, and an  *)
(* operation is reported succeeded only when its work was done.            *)
(***************************************************************************)
EXTENDS StackLifecycle, TLAPS, FiniteSetTheorems, SequenceTheorems

--------------------------------------------------------------------------------
(* Dispatching. *)

\* The FSM entry, the loop and the goroutines have their fields and domains.
LoopShape ==
    /\ fsm.ver \in Nat
    /\ {"dispatched", "phase"} \subseteq DOMAIN loop
    /\ loop.dispatched \in Nat
    /\ DOMAIN job = Versions

\* The loop is never ahead of the FSM, and only entries up to the one it
\* dispatched last have had a goroutine; none outlives its process.
DispatchInv ==
    /\ LoopShape
    /\ loop.dispatched <= fsm.ver
    /\ \A v \in Versions : v > loop.dispatched \/ loop.phase = "down" => job[v] = NoJob

\* A step of DispatchOnce.
OneGoroutine ==
    \A v \in Versions : job'[v] # job[v] /\ job'[v].pc \in {"prepare", "up", "down"}
                            => job[v] = NoJob

\* Fanning an entry out fills the buffer and leaves the rest of the loop alone.
LEMMA FanOutKeeps ==
    ASSUME NEW l, NEW entry, {"dispatched", "phase"} \subseteq DOMAIN l
    PROVE  /\ {"dispatched", "phase"} \subseteq DOMAIN FanOut(l, entry)
           /\ FanOut(l, entry).dispatched = l.dispatched
           /\ FanOut(l, entry).phase = l.phase
BY DEF FanOut

\* A script never begins with a first step.
LEMMA ScriptRuns == \A s : Run(s).pc \notin {"prepare", "up", "down"}
BY DEF Run, Ended

\* A running goroutine only ends, moves on or runs its script: none returns to
\* a first step, and the entries without a goroutine are left without.
LEMMA GoroutineSteps ==
    ASSUME NEW v \in Versions, JobStep(v)
    PROVE  /\ job[v] # NoJob
           /\ \E next : /\ Go(v, next)
                        /\ next.pc \notin {"prepare", "up", "down"}
           /\ \/ UNCHANGED <<fsm, loop>>
              \/ \E to : RaftApply(to, loop)
<1> USE ScriptRuns DEF Go, At, NoJob, NetworkFailed, CompensateNetwork
<1>1. CASE Prepare(v)
  BY <1>1 DEF Prepare
<1>2. CASE AllocateIPv4(v)
  BY <1>2 DEF AllocateIPv4
<1>3. CASE RecordAddress(v)
  BY <1>3 DEF RecordAddress
<1>4. CASE AddService(v)
  BY <1>4 DEF AddService
<1>5. CASE ActivateIPv4(v)
  BY <1>5 DEF ActivateIPv4
<1>6. CASE ComposeUp(v)
  BY <1>6 DEF ComposeUp
<1>7. CASE ComposeDown(v)
  BY <1>7 DEF ComposeDown
<1>8. CASE CheckEvent(v)
  <2>1. job[v] # NoJob
    BY <1>8 DEF CheckEvent
  <2>2. \E next : Go(v, next) /\ next.pc \notin {"prepare", "up", "down"}
    BY <1>8, Zenon DEF CheckEvent
  <2>3. UNCHANGED <<fsm, loop>> \/ \E to : RaftApply(to, loop)
    BY <1>8, Zenon DEF CheckEvent
  <2> QED BY <2>1, <2>2, <2>3, Zenon
<1>9. CASE CommitEvent(v)
  <2>1. job[v] # NoJob
    BY <1>9 DEF CommitEvent
  <2>2. \E next : Go(v, next) /\ next.pc \notin {"prepare", "up", "down"}
    BY <1>9, Zenon DEF CommitEvent
  <2>3. UNCHANGED <<fsm, loop>> \/ \E to : RaftApply(to, loop)
    BY <1>9, Zenon DEF CommitEvent
  <2> QED BY <2>1, <2>2, <2>3, Zenon
<1>10. CASE FinishOperation(v)
  <2>1. job[v] # NoJob
    BY <1>10 DEF FinishOperation
  <2>2. \E next : Go(v, next) /\ next.pc \notin {"prepare", "up", "down"}
    BY <1>10, Zenon DEF FinishOperation
  <2>3. UNCHANGED <<fsm, loop>> \/ \E to : RaftApply(to, loop)
    BY <1>10, Zenon DEF FinishOperation
  <2> QED BY <2>1, <2>2, <2>3, Zenon
<1>11. CASE StartProvisioned(v)
  <2>1. job[v] # NoJob
    BY <1>11 DEF StartProvisioned
  <2>2. \E next : Go(v, next) /\ next.pc \notin {"prepare", "up", "down"}
    BY <1>11, Zenon DEF StartProvisioned
  <2>3. UNCHANGED <<fsm, loop>> \/ \E to : RaftApply(to, loop)
    BY <1>11, Zenon DEF StartProvisioned
  <2> QED BY <2>1, <2>2, <2>3, Zenon
<1> QED BY <1>1, <1>2, <1>3, <1>4, <1>5, <1>6, <1>7, <1>8, <1>9, <1>10, <1>11 DEF JobStep

\* Nothing is dispatched when the process starts.
LEMMA DispatchInit == Init => DispatchInv
BY DEF Init, DispatchInv, LoopShape, LoopDown

\* Every step keeps the loop behind the FSM and hands an entry to one goroutine.
LEMMA DispatchStep == DispatchInv /\ [Next]_vars => DispatchInv' /\ OneGoroutine
<1> SUFFICES ASSUME DispatchInv, [Next]_vars
             PROVE  DispatchInv' /\ OneGoroutine
  OBVIOUS
<1> USE DEF DispatchInv, LoopShape, OneGoroutine
<1>1. ASSUME NEW r \in Requests, NEW kind \in Kinds, Accept(r, kind)
      PROVE  DispatchInv' /\ OneGoroutine
  BY <1>1 DEF Accept
<1>2. ASSUME NEW r \in Requests, Handler(r)
      PROVE  DispatchInv' /\ OneGoroutine
  <2>1. CASE UNCHANGED <<fsm, loop, job>>
    BY <2>1
  <2>2. CASE UNCHANGED job /\ \E to : RaftApply(to, loop)
    BY <2>2, FanOutKeeps DEF RaftApply
  <2> QED BY <1>2, <2>1, <2>2
          DEF Handler, CreateStackRow, BindOperation, CheckTransition, ApplyRequest, Respond
<1>3. ASSUME NEW v \in Versions, JobStep(v)
      PROVE  DispatchInv' /\ OneGoroutine
  <2>1. PICK next : Go(v, next) /\ next.pc \notin {"prepare", "up", "down"}
    BY <1>3, GoroutineSteps, Zenon
  <2>2. v <= loop.dispatched /\ loop.phase # "down"
    BY <1>3, GoroutineSteps DEF Versions
  <2>3. /\ {"dispatched", "phase"} \subseteq DOMAIN loop'
        /\ loop'.dispatched = loop.dispatched /\ loop'.phase = loop.phase
        /\ fsm'.ver \in Nat /\ fsm'.ver >= fsm.ver
    <3>1. CASE UNCHANGED <<fsm, loop>>
      BY <3>1
    <3>2. CASE \E to : RaftApply(to, loop)
      BY <3>2, FanOutKeeps DEF RaftApply
    <3> QED BY <1>3, <3>1, <3>2, GoroutineSteps, Zenon
  <2> QED BY <2>1, <2>2, <2>3 DEF Go, Versions
<1>4. CASE Subscribe \/ LoadActive \/ ResumeNext \/ Receive
  BY <1>4 DEF Subscribe, LoadActive, ResumeNext, Receive, Waiting, loopOnly
<1>5. CASE HandleStateChange
  BY <1>5 DEF HandleStateChange, Versions
<1>6. CASE ContainerEvent \/ VerifyDeath \/ FailStackRead
  <2> /\ UNCHANGED <<fsm, job>> /\ {"dispatched", "phase"} \subseteq DOMAIN loop'
      /\ loop'.dispatched = loop.dispatched
      /\ loop.phase # "down" /\ loop'.phase # "down"
    BY <1>6 DEF ContainerEvent, VerifyDeath, FailStackRead, loopOnly, Waiting
  <2> QED OBVIOUS
<1>7. CASE FailStackCommit
  <2> DEFINE after == [loop EXCEPT !.phase = "run", !.to = NoState]
  <2>1. /\ {"dispatched", "phase"} \subseteq DOMAIN after
        /\ after.dispatched = loop.dispatched /\ after.phase = "run"
    OBVIOUS
  <2> HIDE DEF after
  <2>2. UNCHANGED job /\ (RaftApply(loop.to, after) \/ (loop' = after /\ UNCHANGED fsm))
    BY <1>7 DEF FailStackCommit, after
  <2> QED BY <1>7, <2>1, <2>2, FanOutKeeps DEF FailStackCommit, RaftApply
<1>8. CASE ContainerDies
  BY <1>8 DEF ContainerDies
<1>9. CASE Crash \/ Restart
  <2>1. CASE Crash
    BY <2>1 DEF Crash, LoopDown, NoJob, Versions
  <2>2. CASE Restart
    BY <2>2 DEF Restart, LoopDown, NoJob, Versions, loopOnly
  <2> QED BY <1>9, <2>1, <2>2
<1>10. CASE UNCHANGED vars
  BY <1>10 DEF vars
<1> QED
  BY <1>1, <1>2, <1>3, <1>4, <1>5, <1>6, <1>7, <1>8, <1>9, <1>10 DEF Next, LoopStep

\* While a process lives, no FSM entry is handed to a second goroutine, though resume
\* and the subscription may both present it (handleStateChange): for any number of
\* clients, entries, kills and faults.
THEOREM DispatchesOnce == Spec => DispatchOnce
<1>1. DispatchInv /\ [Next]_vars => [OneGoroutine]_vars
  BY DispatchStep
<1> QED BY <1>1, DispatchInit, DispatchStep, PTL DEF Spec, DispatchOnce, OneGoroutine

--------------------------------------------------------------------------------
(* Operations. *)

\* The operation records and the handlers have their fields and domains.
OpsShape ==
    /\ DOMAIN ops = Requests /\ DOMAIN req = Requests
    /\ \A r \in Requests : /\ {"state", "action", "bound"} \subseteq DOMAIN ops[r]
                           /\ {"pc", "kind", "to", "code"} \subseteq DOMAIN req[r]

\* The handler of request r has not named its stack in the record yet.
Naming(r) ==
    \/ req[r].pc = "bind"
    \/ req[r].pc = "handle" /\ req[r].kind \in {"create", "startNew"}

\* A record that names no stack cannot be found by FinishForStack: until its
\* handler has named the stack, nobody else closes the operation.
OpsInv ==
    /\ OpsShape
    /\ \A r \in Requests : /\ req[r].pc = "new" => ops[r].state = "none"
                           /\ Naming(r) => ops[r].state = "pending" /\ ~ops[r].bound

\* A step of FinalOperationsStay.
ClosedStay == \A r \in Requests : ops[r].state \in {"succeeded", "failed"} => ops'[r] = ops[r]

\* No operation is recorded when the process starts.
LEMMA OpsInit == Init => OpsInv
BY DEF Init, OpsInv, OpsShape, Naming

\* FinishForStack closes operations that are open and name their stack.
LEMMA FinishesOpen ==
    \A action : \A r \in OldestActive(action) :
        ops[r].bound /\ ops[r].state \in {"pending", "running"}
BY DEF OldestActive, Active

\* Every step leaves closed operations alone and open, unnamed ones to their handler.
LEMMA OpsStep == OpsInv /\ [Next]_vars => OpsInv' /\ ClosedStay
<1> SUFFICES ASSUME OpsInv, [Next]_vars
             PROVE  OpsInv' /\ ClosedStay
  OBVIOUS
<1> USE DEF OpsInv, OpsShape, ClosedStay, Naming
<1>1. ASSUME NEW r \in Requests, NEW kind \in Kinds, Accept(r, kind)
      PROVE  OpsInv' /\ ClosedStay
  BY <1>1 DEF Accept, Idle
<1>2. ASSUME NEW r \in Requests, Handler(r)
      PROVE  OpsInv' /\ ClosedStay
  <2>1. CASE CreateStackRow(r)
    BY <2>1 DEF CreateStackRow, Answer
  <2>2. CASE BindOperation(r)
    BY <2>2 DEF BindOperation
  <2>3. CASE CheckTransition(r)
    BY <2>3 DEF CheckTransition, Answer
  <2>4. CASE ApplyRequest(r)
    BY <2>4 DEF ApplyRequest, Answer
  <2>5. CASE Respond(r)
    BY <2>5 DEF Respond
  <2> QED BY <1>2, <2>1, <2>2, <2>3, <2>4, <2>5 DEF Handler
<1>3. ASSUME NEW v \in Versions, JobStep(v)
      PROVE  OpsInv' /\ ClosedStay
  <2>1. CASE UNCHANGED <<ops, req>>
    BY <2>1
  <2>2. CASE UNCHANGED req /\ \E action, outcome : FinishForStack(action, outcome)
    BY <2>2, FinishesOpen DEF FinishForStack
  <2> QED BY <1>3, <2>1, <2>2
          DEF JobStep, Prepare, AllocateIPv4, RecordAddress, AddService, ActivateIPv4, ComposeUp,
              ComposeDown, CheckEvent, CommitEvent, FinishOperation, StartProvisioned, reqVars
<1>4. CASE LoopStep
  BY <1>4 DEF LoopStep, Subscribe, LoadActive, ResumeNext, Receive, HandleStateChange,
     ContainerEvent, VerifyDeath, FailStackRead, FailStackCommit, loopOnly, reqVars
<1>5. CASE ContainerDies \/ Restart \/ UNCHANGED vars
  BY <1>5 DEF ContainerDies, Restart, loopOnly, reqVars, vars
<1>6. CASE Crash
  BY <1>6 DEF Crash
<1> QED
  BY <1>1, <1>2, <1>3, <1>4, <1>5, <1>6 DEF Next

\* An operation reported succeeded or failed never changes again, whether a goroutine
\* or the middleware closes it first (FinishForStack, Respond), though any number of
\* requests race on the stack and the process is killed again and again.
THEOREM ClosedOperationsStay == Spec => FinalOperationsStay
<1>1. OpsInv /\ [Next]_vars => [ClosedStay]_vars
  BY OpsStep
<1> QED BY <1>1, OpsInit, OpsStep, PTL DEF Spec, FinalOperationsStay, ClosedStay

--------------------------------------------------------------------------------
(* Sequential clients. *)

\* The states a stack of sequential clients reaches, those with work to do apart.
Stable == {"Idle", "RunningPrimary", "Failed"}
Locked == {"Provisioning", "Starting", "Stopping"}
Reached == {NoState} \cup Stable \cup Locked
Entries == [to : Reached, ver : 0..MaxVersion]

\* The records of operations and of handlers.
OpRecs == [state : {"none", "pending", "running", "succeeded", "failed"},
           action : {"none", "start", "stop"}, bound : BOOLEAN]
Codes == {0, 202, 409}
HandlerSteps == {"new", "handle", "bind", "apply", "respond", "done"}
ReqRecs == [pc : HandlerSteps, kind : {"none", "startNew", "start", "stop"},
            to : Reached, code : Codes]

\* Every variable but the loop and the goroutines, which Jobs describes, has its type.
Typed ==
    /\ fsm \in [state : Reached, ver : 0..MaxVersion]
    /\ exists \in BOOLEAN /\ ip \in BOOLEAN /\ died \in BOOLEAN
    /\ ops \in [Requests -> OpRecs] /\ req \in [Requests -> ReqRecs]
    /\ alloc \in {"none", "pending", "active"} /\ containers \in {"down", "up", "dead"}
    /\ crashes \in 0..MaxCrashes /\ faults \in 0..MaxFaults

\* So has the loop, whose buffer holds no more than its capacity.
LoopRecs == [phase : {"down", "boot", "load", "run", "verify", "failRead", "failCommit"},
             subscribed : BOOLEAN, chan : Seq(Entries), held : Entries,
             dispatched : 0..MaxVersion, left : Nat, to : Reached]
LoopTyped == loop \in LoopRecs /\ Len(loop.chan) <= ChanCap

\* Every request is accepted once.
Counted ==
    /\ order \in Seq(Requests)
    /\ Len(order) = Cardinality({r \in Requests : req[r].pc # "new"})

\* Request r has an open operation or a handler.
Busy(r) == Active(r) \/ req[r].pc \notin {"new", "done"}

\* Clients wait for the one operation there is.
Single == \A r, o \in Requests : Busy(r) /\ Busy(o) => r = o

\* The handler of r has applied its state, and its operation is still open.
Serving(r) ==
    /\ Active(r)
    /\ req[r].pc = "done" \/ (req[r].pc = "respond" /\ req[r].code = 202)

\* Scripts of one and of two calls.
One(a) == [pc |-> "script", script |-> <<a>>]
Two(a, b) == [pc |-> "script", script |-> <<a, b>>]

\* The last call of a goroutine closes an operation.
Ending == {One(Finish("create", "failed")), One(Finish("create", "succeeded")),
           One(Finish("start", "failed")), One(Finish("start", "succeeded")),
           One(Finish("stop", "failed")), One(Finish("stop", "succeeded"))}

\* The end of a provisioning that goes on to start the stack.
Continuing == {One(AfterProvision), One(Event("StartStack")), One(Commit("Starting"))}

\* What doStart and doStop do after compose.up and compose.down.
Started == {Two(Event("StartDone"), Finish("start", "succeeded")),
            Two(Commit("RunningPrimary"), Finish("start", "succeeded"))}
Stopped == {Two(Event("StopDone"), Finish("stop", "succeeded")),
            Two(Commit("Idle"), Finish("stop", "succeeded"))}

\* The error paths.
Failing(ev) == {One(Event(ev)), One(Commit("Failed")),
                Two(Event(ev), Finish("create", "failed")),
                Two(Commit("Failed"), Finish("create", "failed")),
                Two(Event(ev), Finish("start", "failed")),
                Two(Commit("Failed"), Finish("start", "failed"))}

\* The steps of provisionNetwork after the allocation.
Allocated == {At("record"), At("service"), At("activate")}

\* The goroutine that works on a stack in each of its locked states.
Provisions == {At("prepare"), At("allocate"), Two(Event("ProvisionDone"), AfterProvision),
               Two(Commit("Idle"), AfterProvision)} \cup Allocated \cup Failing("FailStack")
Starts == {At("up")} \cup Started \cup Failing("StartFailed")
Stops == {At("down")} \cup Stopped

\* A goroutine from which nothing is expected.
Plain(j) == j \notin Continuing \cup Started \cup Stopped \cup Allocated

\* Goroutine v works on the present FSM entry.
AtWork(v) ==
    /\ v = fsm.ver
    /\ \/ fsm.state = "Provisioning" /\ job[v] \in Provisions
       \/ fsm.state = "Starting" /\ job[v] \in Starts
       \/ fsm.state = "Stopping" /\ job[v] \in Stops

\* Goroutine v has just provisioned the stack.
GoingOn(v) == v = 1 /\ fsm.ver = 2 /\ fsm.state = "Idle" /\ job[v] \in Continuing

\* Goroutine v has only an operation to close; after a failed compose.down the stack is still locked.
GoingOut(v) == /\ job[v] \in Ending
               /\ v < fsm.ver \/ (v = fsm.ver /\ fsm.state = "Stopping")

\* One goroutine at most works on the stack, on its newest entry; others are done with it.
Jobs == \A v \in Versions : job[v] \in {NoJob, Ended} \/ AtWork(v) \/ GoingOn(v) \/ GoingOut(v)

\* A stack is provisioned once, as the first thing.
Entered ==
    /\ fsm.ver = 0 <=> fsm.state = NoState
    /\ ~exists => fsm.ver = 0
    /\ fsm.state = "Provisioning" => fsm.ver = 1

\* Until its goroutine has gone on to start it, its operation is open.
Provisioned ==
    fsm.state = "Provisioning" \/ (\E v \in Versions : job[v] \in Continuing)
        => \E r \in Requests : Serving(r)

\* What a handler has read is still so when it applies its state; only the death of a
\* container comes in between.
Applying(r) ==
    /\ req[r].kind \in {"start", "stop"} \/ req[r].pc \in {"bind", "apply"} => exists
    /\ req[r].pc = "bind" => req[r].to = "Provisioning" /\ fsm.ver = 0
    /\ req[r].pc = "apply" =>
          \/ req[r].to = "Provisioning" /\ fsm.ver = 0 /\ Active(r)
          \/ req[r].to = "Starting" /\ fsm.state \in {NoState, "Idle", "Failed"}
          \/ /\ req[r].to = "Stopping"
             /\ fsm.state = "RunningPrimary" \/ (fsm.state = "Failed" /\ "die" \in Faults)
          \/ req[r].to = "Idle" /\ fsm.state = "Idle"
    /\ req[r].pc = "respond" => req[r].code # 0

\* That holds of every handler.
Handling == \A r \in Requests : Applying(r)

\* Who needs the address has it.
Addressed ==
    /\ ip => alloc # "none"
    /\ HasPorts /\ fsm.state = "RunningPrimary" => ip
    /\ \A v \in Versions : /\ job[v] \in Allocated => alloc # "none"
                           /\ HasPorts /\ job[v] \in Started => ip

\* The containers are as the state, or the goroutine about to store it, says.
Hosted ==
    /\ fsm.state \in {NoState, "Provisioning", "Idle"} => containers = "down"
    /\ fsm.state = "RunningPrimary" => containers # "down"
    /\ \A v \in Versions : /\ job[v] \in Started => containers # "down"
                           /\ job[v] \in Stopped => containers = "down"

\* While the loop looks into a death it dispatches nothing.
Verifying ==
    /\ loop.phase \in {"verify", "failRead", "failCommit"} =>
          /\ fsm.state \in {"RunningPrimary", "Stopping"}
          /\ fsm.state = "Stopping" => loop.dispatched < fsm.ver
    /\ loop.phase = "failCommit" => loop.to = "Failed"
    /\ "die" \notin Faults => containers # "dead" /\ loop.phase \notin {"failRead", "failCommit"}

\* The inductive invariant of sequential clients.
SeqInv == /\ Typed /\ LoopTyped /\ Counted /\ Single /\ Jobs /\ Entered
          /\ Provisioned /\ Handling /\ Addressed /\ Hosted /\ Verifying

\* Clients that wait for an operation before the next request and create a stack by
\* starting it; the database answers.
Sequential == Exclusive /\ "create" \notin Kinds /\ "store" \notin Faults

\* A call put in front of another one.
LEMMA InFront == \A a, b : <<a>> \o <<b>> = <<a, b>>
<1> SUFFICES ASSUME NEW a, NEW b PROVE <<a>> \o <<b>> = <<a, b>>
  OBVIOUS
<1> DEFINE S == {a, b}  s == <<a>>  t == <<b>>
<1>1. s \in Seq(S) /\ t \in Seq(S) /\ Len(s) = 1 /\ Len(t) = 1 /\ s[1] = a /\ t[1] = b
  OBVIOUS
<1>2. <<a, b>> \in Seq(S) /\ Len(<<a, b>>) = 2 /\ <<a, b>>[1] = a /\ <<a, b>>[2] = b
  OBVIOUS
<1> HIDE DEF S, s, t
<1>3. s \o t \in Seq(S) /\ Len(s \o t) = 2 /\ (s \o t)[1] = a /\ (s \o t)[2] = b
  BY <1>1, ConcatProperties
<1>4. \A i \in 1 .. Len(s \o t) : (s \o t)[i] = <<a, b>>[i]
  BY <1>2, <1>3
<1>5. s \o t = <<a, b>>
  BY <1>2, <1>3, <1>4, SeqEqual
<1> QED BY <1>5 DEF s, t

\* Heads, tails and concatenations of scripts of one and of two calls.
LEMMA Scripts ==
    /\ \A a : Head(<<a>>) = a /\ Tail(<<a>>) = <<>> /\ <<a>> \o <<>> = <<a>> /\ <<a>> # <<>>
    /\ \A a, b : /\ Head(<<a, b>>) = a /\ Tail(<<a, b>>) = <<b>>
                 /\ <<a>> \o <<b>> = <<a, b>> /\ <<a, b>> # <<>>
    /\ Run(<<>>) = Ended
    /\ \A a : Run(<<a>>) = One(a)
    /\ \A a, b : Run(<<a, b>>) = Two(a, b)
<1>1. \A a : Head(<<a>>) = a /\ Tail(<<a>>) = <<>> /\ <<a>> \o <<>> = <<a>> /\ <<a>> # <<>>
  OBVIOUS
<1>6. \A a, b : Head(<<a, b>>) = a /\ Tail(<<a, b>>) = <<b>> /\ <<a, b>> # <<>>
  OBVIOUS
<1>2. \A a, b : /\ Head(<<a, b>>) = a /\ Tail(<<a, b>>) = <<b>>
                /\ <<a>> \o <<b>> = <<a, b>> /\ <<a, b>> # <<>>
  BY <1>6, InFront, Zenon
<1>3. Run(<<>>) = Ended
  BY DEF Run
<1>4. \A a : Run(<<a>>) = One(a)
  BY <1>1 DEF Run, One
<1>5. \A a, b : Run(<<a, b>>) = Two(a, b)
  BY <1>6 DEF Run, Two
<1> QED BY <1>1, <1>2, <1>3, <1>4, <1>5, Zenon

\* The fields of a goroutine.
LEMMA Fields ==
    /\ NoJob.pc = "none" /\ Ended.pc = "ended" /\ NoJob.script = <<>> /\ Ended.script = <<>>
    /\ \A s : At(s).pc = s /\ At(s).script = <<>>
    /\ \A a : One(a).pc = "script" /\ One(a).script = <<a>> /\ One(a).script # <<>>
    /\ \A a, b : Two(a, b).pc = "script" /\ Two(a, b).script = <<a, b>> /\ Two(a, b).script # <<>>
BY Scripts DEF NoJob, Ended, At, One, Two

\* What is left of a script after its first call.
LEMMA Rest ==
    /\ \A a : Head(One(a).script) = a /\ Run(Tail(One(a).script)) = Ended
    /\ \A a, c : Run(<<c>> \o Tail(One(a).script)) = One(c)
    /\ \A a, b : Head(Two(a, b).script) = a /\ Run(Tail(Two(a, b).script)) = One(b)
    /\ \A a, b, c : Run(<<c>> \o Tail(Two(a, b).script)) = Two(c, b)
<1>1. \A a : One(a).script = <<a>>
  BY Fields
<1>2. \A a, b : Two(a, b).script = <<a, b>>
  BY Fields
<1>3. \A a : Head(One(a).script) = a /\ Tail(One(a).script) = <<>>
  BY <1>1, Scripts
<1>4. \A a, b : Head(Two(a, b).script) = a /\ Tail(Two(a, b).script) = <<b>>
  <2>1. \A a, b : Head(<<a, b>>) = a /\ Tail(<<a, b>>) = <<b>>
    OBVIOUS
  <2> SUFFICES ASSUME NEW a, NEW b PROVE Head(Two(a, b).script) = a /\ Tail(Two(a, b).script) = <<b>>
    OBVIOUS
  <2>2. Two(a, b).script = <<a, b>>
    BY <1>2, Zenon
  <2>3. Head(<<a, b>>) = a /\ Tail(<<a, b>>) = <<b>>
    BY <2>1, Zenon
  <2> QED BY <2>2, <2>3, Zenon
<1>5. \A c : Run(<<c>> \o <<>>) = One(c)
  BY Scripts
<1>6. \A b, c : Run(<<c>> \o <<b>>) = Two(c, b)
  <2> SUFFICES ASSUME NEW b, NEW c PROVE Run(<<c>> \o <<b>>) = Two(c, b)
    OBVIOUS
  <2>1. <<c>> \o <<b>> = <<c, b>>
    BY InFront, Zenon
  <2>2. Run(<<c, b>>) = Two(c, b)
    BY Scripts, Zenon
  <2> QED BY <2>1, <2>2, Zenon
<1>7. Run(<<>>) = Ended /\ \A b : Run(<<b>>) = One(b)
  BY Scripts, Zenon
<1> QED BY <1>3, <1>4, <1>5, <1>6, <1>7

\* Goroutines with different calls are different.
LEMMA Differ ==
    /\ \A a, b : One(a) = One(b) => a = b
    /\ \A a, b, c : One(a) # Two(b, c)
    /\ \A a, b, c, d : Two(a, b) = Two(c, d) => a = c /\ b = d
<1>1. \A a, b : <<a>> = <<b>> => a = b
  OBVIOUS
<1>2. \A a, b, c : <<a>> # <<b, c>>
  OBVIOUS
<1>3. \A a, b, c, d : <<a, b>> = <<c, d>> => a = c /\ b = d
  OBVIOUS
<1> QED BY <1>1, <1>2, <1>3 DEF One, Two

\* The parts of a call.
LEMMA Calls ==
    /\ \A ev : Event(ev)[1] = "event" /\ Event(ev)[2] = ev
    /\ \A to : Commit(to)[1] = "commit" /\ Commit(to)[2] = to
    /\ \A a, o : Finish(a, o)[1] = "finish" /\ Finish(a, o)[2] = a /\ Finish(a, o)[3] = o
    /\ AfterProvision[1] = "after"
BY DEF Event, Commit, Finish, AfterProvision

\* The rows of the table that goroutines and handlers use.
LEMMA Table ==
    /\ Targets("Provisioning", "ProvisionDone") = {"Idle"}
    /\ Targets("Provisioning", "FailStack") = {"Failed"}
    /\ Targets("Idle", "StartStack") = {"Starting"}
    /\ Targets("Failed", "StartStack") = {"Starting"}
    /\ Targets("Starting", "StartDone") = {"RunningPrimary"}
    /\ Targets("Starting", "StartFailed") = {"Failed"}
    /\ Targets("RunningPrimary", "FailStack") = {"Failed"}
    /\ Targets("RunningPrimary", "StopStack") = {"Stopping"}
    /\ Targets("Idle", "StopStack") = {"Idle"}
    /\ Targets("Stopping", "StopDone") = {"Idle"}
    /\ Targets("Stopping", "FailStack") = {}
BY DEF Targets, States, transitions

\* What a start or a stop makes of a state that can be reached.
LEMMA Commands ==
    /\ \A s \in Reached \ {"Idle", "Failed"} : Targets(s, "StartStack") = {}
    /\ \A s \in Reached \ {"Idle", "RunningPrimary"} : Targets(s, "StopStack") = {}
BY DEF Targets, States, transitions, Reached, Stable, Locked, NoState

\* The goroutines by their step.
LEMMA Steps ==
    /\ \A j \in Ending \cup Continuing \cup Started \cup Stopped : j.pc = "script"
    /\ \A ev : \A j \in Failing(ev) : j.pc = "script"
    /\ \A j \in Allocated : j.pc \in {"record", "service", "activate"}
    /\ \A j \in Provisions : j.pc \in {"script", "prepare", "allocate", "record", "service", "activate"}
    /\ \A j \in Starts : j.pc \in {"script", "up"}
    /\ \A j \in Stops : j.pc \in {"script", "down"}
    /\ Ending \cap Continuing = {}
BY Fields, Differ, Calls DEF Ending, Continuing, Started, Stopped, Failing, Allocated, Provisions, Starts, Stops

--------------------------------------------------------------------------------
(* What a step of a script does. *)

\* A goroutine that is running a script, with its first call.
LEMMA Running ==
    ASSUME SeqInv, NEW v \in Versions, job[v].pc = "script"
    PROVE  AtWork(v) \/ GoingOn(v) \/ GoingOut(v)
BY Fields DEF SeqInv, Jobs

\* applyEvent's check: the goroutine is about to store what its work leads to.
LEMMA CheckEventMoves ==
    ASSUME SeqInv, DispatchInv, NEW v \in Versions, CheckEvent(v)
    PROVE  \E next : /\ Go(v, next)
                     /\ \/ /\ AtWork(v) /\ fsm.state = "Provisioning"
                           /\ next \in {Two(Commit("Idle"), AfterProvision)} \cup Failing("FailStack")
                        \/ AtWork(v) /\ fsm.state = "Starting" /\ next \in Failing("StartFailed")
                        \/ AtWork(v) /\ fsm.state = "Starting" /\ job[v] \in Started /\ next \in Started
                        \/ AtWork(v) /\ fsm.state = "Stopping" /\ job[v] \in Stopped /\ next \in Stopped
                        \/ GoingOn(v) /\ next = One(Commit("Starting"))
<1>1. job[v].pc = "script" /\ Head(job[v].script)[1] = "event"
  BY DEF CheckEvent
<1>2. ASSUME NEW ev, job[v] = One(Event(ev)), NEW to, Targets(fsm.state, ev) = {to}
      PROVE  Go(v, One(Commit(to)))
  <2>1. Head(job[v].script)[2] = ev
    BY <1>2, Rest, Calls
  <2>2. \E t \in Targets(fsm.state, ev) : Go(v, Run(<<Commit(t)>> \o Left(v)))
    BY <1>2, <2>1 DEF CheckEvent
  <2> QED BY <1>2, <2>2, Rest DEF Left
<1>3. ASSUME NEW ev, NEW b, job[v] = Two(Event(ev), b), NEW to, Targets(fsm.state, ev) = {to}
      PROVE  Go(v, Two(Commit(to), b))
  <2>1. Head(job[v].script)[2] = ev
    BY <1>3, Rest, Calls
  <2>2. \E t \in Targets(fsm.state, ev) : Go(v, Run(<<Commit(t)>> \o Left(v)))
    BY <1>3, <2>1 DEF CheckEvent
  <2> QED BY <1>3, <2>2, Rest DEF Left
<1>4. \/ \E ev : job[v] = One(Event(ev))
      \/ \E ev, b : job[v] = Two(Event(ev), b)
  <2> job[v] \in Ending \cup Continuing \cup Provisions \cup Starts \cup Stops
    BY <1>1, Running DEF AtWork, GoingOn, GoingOut
  <2> QED BY <1>1, Fields, Rest, Calls DEF Ending, Continuing, Started, Stopped, Failing, Allocated, Provisions, Starts, Stops
<1>5. CASE AtWork(v) /\ fsm.state = "Provisioning"
  <2>1. CASE job[v] = Two(Event("ProvisionDone"), AfterProvision)
    BY <1>3, <1>5, <2>1, Table
  <2>2. CASE job[v] \in Failing("FailStack")
    BY <1>1, <1>2, <1>3, <1>4, <1>5, <2>2, Table, Differ, Calls DEF Failing
  <2> QED BY <1>1, <1>4, <1>5, <2>1, <2>2, Fields, Differ, Calls DEF AtWork, Provisions, Allocated
<1>6. CASE AtWork(v) /\ fsm.state = "Starting"
  <2>1. CASE job[v] \in Started
    BY <1>1, <1>2, <1>3, <1>4, <1>6, <2>1, Table, Differ, Calls DEF Started
  <2>2. CASE job[v] \in Failing("StartFailed")
    BY <1>1, <1>2, <1>3, <1>4, <1>6, <2>2, Table, Differ, Calls DEF Failing
  <2> QED BY <1>1, <1>4, <1>6, <2>1, <2>2, Fields DEF AtWork, Starts
<1>7. CASE AtWork(v) /\ fsm.state = "Stopping"
  <2>1. job[v] \in Stopped
    BY <1>1, <1>4, <1>7, Fields DEF AtWork, Stops
  <2> QED BY <1>1, <1>2, <1>3, <1>4, <1>7, <2>1, Table, Differ, Calls DEF Stopped
<1>8. CASE GoingOn(v)
  BY <1>1, <1>2, <1>4, <1>8, Table, Differ, Calls DEF GoingOn, Continuing
<1>9. CASE GoingOut(v)
  BY <1>4, <1>9, Differ, Calls DEF GoingOut, Ending
<1> QED BY <1>1, <1>5, <1>6, <1>7, <1>8, <1>9, Running DEF AtWork

\* applyEvent's write: the state is stored, and at most one operation is left to close.
LEMMA CommitEventMoves ==
    ASSUME SeqInv, DispatchInv, Sequential, NEW v \in Versions, CommitEvent(v)
    PROVE  \E to, next :
             /\ Go(v, next) /\ RaftApply(to, loop) /\ UNCHANGED boundVars
             /\ \/ /\ AtWork(v) /\ fsm.state = "Provisioning"
                   /\ to = "Idle" /\ next = One(AfterProvision)
                \/ /\ AtWork(v) /\ fsm.state \in {"Provisioning", "Starting"} /\ job[v] \notin Started
                   /\ to = "Failed"
                   /\ next \in {Ended, One(Finish("create", "failed")), One(Finish("start", "failed"))}
                \/ /\ AtWork(v) /\ fsm.state = "Starting" /\ job[v] \in Started
                   /\ to = "RunningPrimary" /\ next = One(Finish("start", "succeeded"))
                \/ /\ AtWork(v) /\ fsm.state = "Stopping" /\ job[v] \in Stopped
                   /\ to = "Idle" /\ next = One(Finish("stop", "succeeded"))
                \/ GoingOn(v) /\ to = "Starting" /\ next = Ended
<1> DEFINE Stored(to, next) == Go(v, next) /\ RaftApply(to, loop) /\ UNCHANGED boundVars
<1>1. /\ job[v].pc = "script" /\ Head(job[v].script)[1] = "commit"
      /\ Stored(Head(job[v].script)[2], Run(Left(v)))
  BY DEF CommitEvent, Fault, Sequential
<1>2. ASSUME NEW to, job[v] = One(Commit(to))
      PROVE  Stored(to, Ended)
  BY <1>1, <1>2, Rest, Calls DEF Left
<1>3. ASSUME NEW to, NEW b, job[v] = Two(Commit(to), b)
      PROVE  Stored(to, One(b))
  BY <1>1, <1>3, Rest, Calls DEF Left
<1> HIDE DEF Stored
<1>4. \/ \E to : job[v] = One(Commit(to))
      \/ \E to, b : job[v] = Two(Commit(to), b)
  <2> job[v] \in Ending \cup Continuing \cup Provisions \cup Starts \cup Stops
    BY <1>1, Running DEF AtWork, GoingOn, GoingOut
  <2> QED BY <1>1, Fields, Rest, Calls DEF Ending, Continuing, Started, Stopped, Failing, Allocated, Provisions, Starts, Stops
<1> SUFFICES \E to, next :
               /\ Stored(to, next)
               /\ \/ /\ AtWork(v) /\ fsm.state = "Provisioning"
                     /\ to = "Idle" /\ next = One(AfterProvision)
                  \/ /\ AtWork(v) /\ fsm.state \in {"Provisioning", "Starting"} /\ job[v] \notin Started
                     /\ to = "Failed"
                     /\ next \in {Ended, One(Finish("create", "failed")), One(Finish("start", "failed"))}
                  \/ /\ AtWork(v) /\ fsm.state = "Starting" /\ job[v] \in Started
                     /\ to = "RunningPrimary" /\ next = One(Finish("start", "succeeded"))
                  \/ /\ AtWork(v) /\ fsm.state = "Stopping" /\ job[v] \in Stopped
                     /\ to = "Idle" /\ next = One(Finish("stop", "succeeded"))
                  \/ GoingOn(v) /\ to = "Starting" /\ next = Ended
  BY Zenon DEF Stored
<1>a. ASSUME NEW ev, job[v] \in Failing(ev)
      PROVE  /\ job[v] \notin Started
             /\ \E next \in {Ended, One(Finish("create", "failed")), One(Finish("start", "failed"))} :
                   Stored("Failed", next)
  <2>1. job[v] \notin Started
    BY <1>4, <1>a, Differ, Calls DEF Failing, Started
  <2>2. \/ job[v] = One(Commit("Failed"))
        \/ job[v] = Two(Commit("Failed"), Finish("create", "failed"))
        \/ job[v] = Two(Commit("Failed"), Finish("start", "failed"))
    BY <1>4, <1>a, Differ, Calls DEF Failing
  <2> QED BY <2>1, <2>2, <1>2, <1>3
<1>5. CASE AtWork(v) /\ fsm.state = "Provisioning"
  <2>1. CASE job[v] \in Failing("FailStack")
    BY <1>5, <1>a, <2>1
  <2>2. CASE job[v] \notin Failing("FailStack")
    <3>1. job[v] = Two(Commit("Idle"), AfterProvision)
      BY <1>1, <1>4, <1>5, <2>2, Fields, Differ, Calls DEF AtWork, Provisions, Allocated
    <3> QED BY <1>3, <1>5, <3>1
  <2> QED BY <2>1, <2>2
<1>6. CASE AtWork(v) /\ fsm.state = "Starting"
  <2>1. CASE job[v] \in Started
    <3>1. job[v] = Two(Commit("RunningPrimary"), Finish("start", "succeeded"))
      BY <1>4, <2>1, Differ, Calls DEF Started
    <3> QED BY <1>3, <1>6, <2>1, <3>1
  <2>2. CASE job[v] \in Failing("StartFailed")
    BY <1>6, <1>a, <2>2
  <2> QED BY <1>1, <1>6, <2>1, <2>2, Fields DEF AtWork, Starts
<1>7. CASE AtWork(v) /\ fsm.state = "Stopping"
  <2>1. job[v] \in Stopped
    BY <1>1, <1>7, Fields DEF AtWork, Stops
  <2>2. job[v] = Two(Commit("Idle"), Finish("stop", "succeeded"))
    BY <1>4, <2>1, Differ, Calls DEF Stopped
  <2> QED BY <1>3, <1>7, <2>1, <2>2
<1>8. CASE GoingOn(v)
  <2>1. job[v] = One(Commit("Starting"))
    BY <1>4, <1>8, Differ, Calls DEF GoingOn, Continuing
  <2> QED BY <1>2, <1>8, <2>1
<1>9. CASE GoingOut(v)
  BY <1>4, <1>9, Differ, Calls DEF GoingOut, Ending
<1> QED BY <1>1, <1>5, <1>6, <1>7, <1>8, <1>9, Running DEF AtWork

\* FinishForStack is the last call of a goroutine that is done with the stack.
LEMMA FinishMoves ==
    ASSUME SeqInv, DispatchInv, Sequential, NEW v \in Versions, FinishOperation(v)
    PROVE  /\ GoingOut(v) /\ Go(v, Ended) /\ UNCHANGED boundVars
           /\ \E a, o : job[v] = One(Finish(a, o)) /\ FinishForStack(a, o)
<1>1. job[v].pc = "script" /\ Head(job[v].script)[1] = "finish" /\ Go(v, Run(Left(v)))
  BY DEF FinishOperation
<1>2. job[v] \in Ending \cup Continuing \cup Provisions \cup Starts \cup Stops
  BY <1>1, Running DEF AtWork, GoingOn, GoingOut
<1>3. job[v] \in Ending
  BY <1>1, <1>2, Fields, Rest, Calls DEF Ending, Continuing, Started, Stopped, Failing, Allocated, Provisions, Starts, Stops
<1>4. PICK a, o : job[v] = One(Finish(a, o))
  BY <1>3 DEF Ending
<1>5. Head(job[v].script) = Finish(a, o) /\ Run(Left(v)) = Ended
  BY <1>4, Rest DEF Left
<1>6. FinishForStack(a, o) /\ UNCHANGED boundVars
  BY <1>5, Calls DEF FinishOperation, Fault, Sequential
<1>7. GoingOut(v)
  <2>1. job[v] \notin Provisions /\ job[v] \notin Starts /\ job[v] \notin Stops /\ job[v] \notin Continuing
    BY <1>4, Fields, Differ, Calls DEF Continuing, Started, Stopped, Failing, Allocated, Provisions, Starts, Stops
  <2> QED BY <1>1, <2>1, Running DEF AtWork, GoingOn
<1> QED BY <1>1, <1>4, <1>5, <1>6, <1>7

\* The end of doProvision: the stack is started or its creation closed.
LEMMA AfterMoves ==
    ASSUME SeqInv, DispatchInv, NEW v \in Versions, StartProvisioned(v)
    PROVE  /\ GoingOn(v)
           /\ Go(v, One(Event("StartStack"))) \/ Go(v, One(Finish("create", "succeeded")))
<1>1. job[v].pc = "script" /\ Head(job[v].script)[1] = "after"
  BY DEF StartProvisioned
<1>2. job[v] \in Ending \cup Continuing \cup Provisions \cup Starts \cup Stops
  BY <1>1, Running DEF AtWork, GoingOn, GoingOut
<1>3. job[v] \in Continuing
  BY <1>1, <1>2, Fields, Rest, Calls DEF Ending, Continuing, Started, Stopped, Failing, Allocated, Provisions, Starts, Stops
<1>4. GoingOn(v)
  <2>1. job[v] \notin Provisions /\ job[v] \notin Starts /\ job[v] \notin Stops /\ job[v] \notin Ending
    BY <1>1, <1>3, Fields, Rest, Differ, Calls DEF Ending, Continuing, Started, Stopped, Failing, Allocated, Provisions, Starts, Stops
  <2> QED BY <1>1, <2>1, Running DEF AtWork, GoingOut
<1>5. Go(v, One(Event("StartStack"))) \/ Go(v, One(Finish("create", "succeeded")))
  BY Scripts, Zenon DEF StartProvisioned
<1> QED BY <1>4, <1>5

--------------------------------------------------------------------------------
(* The invariant of sequential clients holds at first and is kept by requests. *)

\* A stack that does not exist yet satisfies the invariant.
LEMMA SeqInit == Init => SeqInv
<1> SUFFICES ASSUME Init PROVE SeqInv
  OBVIOUS
<1> USE BoundsAssumption
<1>1. Typed
  <2>1. fsm \in [state : Reached, ver : 0..MaxVersion]
    BY DEF Init, Reached
  <2>2. ops \in [Requests -> OpRecs]
    BY DEF Init, OpRecs
  <2>3. req \in [Requests -> ReqRecs]
    BY DEF Init, ReqRecs, Codes, HandlerSteps, Reached
  <2>4. 0 \in 0..MaxCrashes /\ 0 \in 0..MaxFaults
    OBVIOUS
  <2>5. exists \in BOOLEAN /\ ip \in BOOLEAN /\ died \in BOOLEAN
    BY DEF Init
  <2>6. crashes \in 0..MaxCrashes /\ faults \in 0..MaxFaults
    BY <2>4 DEF Init
  <2>7. alloc \in {"none", "pending", "active"} /\ containers \in {"down", "up", "dead"}
    BY DEF Init
  <2> QED BY <2>1, <2>2, <2>3, <2>5, <2>6, <2>7, Zenon DEF Typed
<1>2. LoopTyped
  <2>1. NoEntry \in Entries
    BY DEF NoEntry, Entries, Reached
  <2>2. NoState \in Reached
    BY DEF Reached
  <2>3. loop = [phase |-> "boot", subscribed |-> FALSE, chan |-> <<>>, held |-> NoEntry,
                dispatched |-> 0, left |-> 0, to |-> NoState]
    BY DEF Init, LoopDown
  <2>4. <<>> \in Seq(Entries) /\ Len(<<>>) = 0 /\ 0 \in 0..MaxVersion /\ 0 <= ChanCap
    OBVIOUS
  <2> QED BY <2>1, <2>2, <2>3, <2>4 DEF LoopTyped, LoopRecs
<1>3. Counted
  <2>1. {r \in Requests : req[r].pc # "new"} = {}
    BY DEF Init
  <2>2. Cardinality({}) = 0
    BY FS_EmptySet
  <2>3. order \in Seq(Requests) /\ Len(order) = 0
    BY DEF Init
  <2> QED BY <2>1, <2>2, <2>3 DEF Counted
<1>4. Single /\ Handling
  BY DEF Init, Single, Busy, Active, Handling, Applying
<1>5. Jobs /\ Entered
  BY DEF Init, Jobs, Entered, NoState
<1>6. \A v \in Versions : job[v].pc = "none"
  BY Fields DEF Init
<1>7. \A v \in Versions : job[v] \notin Continuing \cup Allocated \cup Started \cup Stopped
  BY <1>6, Steps
<1>8. Provisioned /\ Addressed /\ Hosted /\ Verifying
  BY <1>7 DEF Init, Provisioned, Addressed, Hosted, Verifying, LoopDown, NoState
<1> QED BY <1>1, <1>2, <1>3, <1>4, <1>5, <1>8 DEF SeqInv

\* The state of a stack is kept while FSM, goroutines, loop and host are.
LEMMA StackKept ==
    ASSUME SeqInv, UNCHANGED <<fsm, job, loop, alloc, ip, containers>>
    PROVE  LoopTyped' /\ Jobs' /\ Addressed' /\ Hosted' /\ Verifying'
           /\ (UNCHANGED exists => Entered')
<1>1. LoopTyped'
  BY DEF SeqInv, LoopTyped
<1>2. Jobs'
  BY DEF SeqInv, Jobs, AtWork, GoingOn, GoingOut
<1>3. Addressed' /\ Hosted' /\ Verifying' /\ (UNCHANGED exists => Entered')
  BY DEF SeqInv, Addressed, Hosted, Verifying, Entered
<1> QED BY <1>1, <1>2, <1>3

\* A handler goes on with a state to apply.
LEMMA GoesOn ==
    ASSUME Typed, NEW r \in Requests, NEW p \in HandlerSteps, NEW t \in Reached,
           req' = [req EXCEPT ![r].pc = p, ![r].to = t]
    PROVE  /\ req' \in [Requests -> ReqRecs] /\ req'[r].pc = p
           /\ \A o \in Requests \ {r} : req'[o] = req[o]
<1> req \in [Requests -> ReqRecs]
  BY DEF Typed
<1>1. DOMAIN req' = Requests
  OBVIOUS
<1>2. \A o \in Requests \ {r} : req'[o] = req[o]
  OBVIOUS
<1>3. req'[r].pc = p
  BY DEF ReqRecs
<1>4. [req EXCEPT ![r].pc = p, ![r].to = t][r] = [req[r] EXCEPT !.pc = p, !.to = t]
  OBVIOUS
<1>5. [req[r] EXCEPT !.pc = p] \in ReqRecs
  BY DEF ReqRecs
<1>6. \A x \in ReqRecs : [x EXCEPT !.to = t] \in ReqRecs
  BY DEF ReqRecs
<1>7. [req[r] EXCEPT !.pc = p, !.to = t] = [[req[r] EXCEPT !.pc = p] EXCEPT !.to = t]
  OBVIOUS
<1>8. req'[r] \in ReqRecs
  BY <1>4, <1>5, <1>6, <1>7
<1>9. req' = [o \in Requests |-> req'[o]]
  OBVIOUS
<1> QED BY <1>1, <1>2, <1>3, <1>8, <1>9

\* A handler has its answer.
LEMMA HasAnswer ==
    ASSUME Typed, NEW r \in Requests, NEW p \in HandlerSteps, NEW c \in Codes,
           req' = [req EXCEPT ![r].pc = p, ![r].code = c]
    PROVE  /\ req' \in [Requests -> ReqRecs] /\ req'[r].pc = p
           /\ \A o \in Requests \ {r} : req'[o] = req[o]
<1> req \in [Requests -> ReqRecs]
  BY DEF Typed
<1>1. DOMAIN req' = Requests
  OBVIOUS
<1>2. \A o \in Requests \ {r} : req'[o] = req[o]
  OBVIOUS
<1>3. req'[r].pc = p
  BY DEF ReqRecs
<1>4. [req EXCEPT ![r].pc = p, ![r].code = c][r] = [req[r] EXCEPT !.pc = p, !.code = c]
  OBVIOUS
<1>5. [req[r] EXCEPT !.pc = p] \in ReqRecs
  BY DEF ReqRecs
<1>6. \A x \in ReqRecs : [x EXCEPT !.code = c] \in ReqRecs
  BY DEF ReqRecs
<1>7. [req[r] EXCEPT !.pc = p, !.code = c] = [[req[r] EXCEPT !.pc = p] EXCEPT !.code = c]
  OBVIOUS
<1>8. req'[r] \in ReqRecs
  BY <1>4, <1>5, <1>6, <1>7
<1>9. req' = [o \in Requests |-> req'[o]]
  OBVIOUS
<1> QED BY <1>1, <1>2, <1>3, <1>8, <1>9

\* A request is accepted when no operation is open and no handler runs.
LEMMA AcceptSeq ==
    ASSUME SeqInv, OpsInv, Sequential, NEW r \in Requests, NEW kind \in Kinds, Accept(r, kind)
    PROVE  SeqInv'
<1> USE DEF SeqInv
<1>1. /\ \A o \in Requests : ~Active(o) /\ req[o].pc \in {"new", "done"}
      /\ kind \in {"startNew", "start", "stop"}
  BY FlagsAssumption DEF Accept, Sequential
<1>2. Typed'
  BY <1>1 DEF Typed, OpRecs, ReqRecs, Codes, HandlerSteps, Accept, ActionOf, Reached, netVars, boundVars
<1>3. Counted'
  <2> DEFINE T == {o \in Requests : req[o].pc # "new"}
  <2>1. IsFiniteSet(T) /\ r \notin T
    BY RequestsAssumption, FS_Subset DEF Accept, Idle
  <2>2. {o \in Requests : req'[o].pc # "new"} = T \cup {r}
    BY DEF Accept, Typed, ReqRecs
  <2>3. Cardinality(T \cup {r}) = Cardinality(T) + 1
    BY <2>1, FS_AddElement
  <2>4. order' \in Seq(Requests) /\ Len(order') = Len(order) + 1
    BY DEF Accept, Counted
  <2> QED BY <2>2, <2>3, <2>4 DEF Counted
<1>4. Single'
  BY <1>1 DEF Single, Busy, Active, Accept, Typed, ReqRecs
<1>5. Handling'
  BY <1>1 DEF Handling, Applying, Active, Accept, Typed, ReqRecs
<1>6. Provisioned'
  BY <1>1 DEF Provisioned, Serving, Accept
<1>7. LoopTyped' /\ Jobs' /\ Addressed' /\ Hosted' /\ Verifying' /\ Entered'
  BY StackKept DEF Accept, netVars
<1> QED BY <1>2, <1>3, <1>4, <1>5, <1>6, <1>7

\* Requests that were accepted stay so.
LEMMA CountKept ==
    ASSUME SeqInv, UNCHANGED order, \A o \in Requests : req[o].pc = "new" <=> req'[o].pc = "new"
    PROVE  Counted'
<1>1. {o \in Requests : req[o].pc # "new"} = {o \in Requests : req'[o].pc # "new"}
  OBVIOUS
<1> QED BY <1>1 DEF SeqInv, Counted

\* The stack row is inserted.
LEMMA CreateRowSeq ==
    ASSUME SeqInv, OpsInv, Sequential, NEW r \in Requests, CreateStackRow(r)
    PROVE  SeqInv'
<1> USE DEF SeqInv
<1>1. req[r].pc = "handle" /\ req[r].kind = "startNew" /\ Active(r)
  BY DEF CreateStackRow, Typed, ReqRecs, OpsInv, Naming, Active
<1>a. \/ req' = [req EXCEPT ![r].pc = "respond", ![r].code = 409]
      \/ req' = [req EXCEPT ![r].pc = "bind", ![r].to = "Provisioning"]
  BY <1>1 DEF CreateStackRow, Answer
<1>b. /\ req' \in [Requests -> ReqRecs] /\ req'[r].pc \in {"respond", "bind"}
      /\ \A o \in Requests \ {r} : req'[o] = req[o]
  <2>1. CASE req' = [req EXCEPT ![r].pc = "respond", ![r].code = 409]
    <3> "respond" \in HandlerSteps /\ 409 \in Codes
      BY DEF HandlerSteps, Codes
    <3>1. req \in [Requests -> ReqRecs]
      BY DEF Typed
    <3>2. /\ req' \in [Requests -> ReqRecs] /\ req'[r].pc = "respond"
          /\ \A o \in Requests \ {r} : req'[o] = req[o]
      BY <2>1, <3>1, HasAnswer
    <3> QED BY <3>2
  <2>2. CASE req' = [req EXCEPT ![r].pc = "bind", ![r].to = "Provisioning"]
    <3> "bind" \in HandlerSteps /\ "Provisioning" \in Reached
      BY DEF HandlerSteps, Reached, Locked
    <3>1. req \in [Requests -> ReqRecs]
      BY DEF Typed
    <3>2. /\ req' \in [Requests -> ReqRecs] /\ req'[r].pc = "bind"
          /\ \A o \in Requests \ {r} : req'[o] = req[o]
      BY <2>2, <3>1, GoesOn
    <3> QED BY <3>2
  <2> QED BY <1>a, <2>1, <2>2
<1>2. Typed'
  BY <1>b DEF Typed, CreateStackRow, netVars, boundVars
<1>3. Counted'
  BY <1>1, <1>b, CountKept DEF CreateStackRow
<1>4. Single'
  BY <1>1 DEF Single, Busy, Active, CreateStackRow, Answer, Typed, ReqRecs
<1>5. Handling'
  BY <1>1 DEF Handling, Applying, Active, CreateStackRow, Answer, Typed, ReqRecs, Entered
<1>6. Provisioned'
  BY <1>1, <1>b DEF Provisioned, Serving, Active, CreateStackRow
<1>7. LoopTyped' /\ Jobs' /\ Addressed' /\ Hosted' /\ Verifying'
  BY StackKept DEF CreateStackRow, netVars
<1>8. Entered'
  BY DEF CreateStackRow, Entered
<1> QED BY <1>2, <1>3, <1>4, <1>5, <1>6, <1>7, <1>8

\* The operation is bound to the stack.
LEMMA BindSeq ==
    ASSUME SeqInv, OpsInv, Sequential, NEW r \in Requests, BindOperation(r)
    PROVE  SeqInv'
<1> USE DEF SeqInv
<1>1. req[r].pc = "bind" /\ Active(r)
  BY DEF BindOperation, OpsInv, Naming, Active
<1>b. /\ req' \in [Requests -> ReqRecs] /\ req'[r].pc = "apply"
      /\ \A o \in Requests \ {r} : req'[o] = req[o]
  BY DEF Typed, ReqRecs, HandlerSteps, BindOperation
<1>2. Typed'
  BY <1>b DEF Typed, OpRecs, BindOperation, netVars, boundVars
<1>3. Counted'
  BY <1>1, <1>b, CountKept DEF BindOperation
<1>4. Single'
  BY <1>1 DEF Single, Busy, Active, BindOperation, Typed, ReqRecs
<1>5. Handling'
  BY <1>1 DEF Handling, Applying, Active, BindOperation, Typed, ReqRecs
<1>6. Provisioned'
  BY <1>1 DEF Provisioned, Serving, Active, BindOperation, Typed, ReqRecs
<1>7. LoopTyped' /\ Jobs' /\ Addressed' /\ Hosted' /\ Verifying' /\ Entered'
  BY StackKept DEF BindOperation, netVars
<1> QED BY <1>2, <1>3, <1>4, <1>5, <1>6, <1>7

\* A start or a stop is checked.
LEMMA CheckSeq ==
    ASSUME SeqInv, OpsInv, Sequential, NEW r \in Requests, CheckTransition(r)
    PROVE  SeqInv'
<1> USE DEF SeqInv
<1>1. req[r].pc = "handle" /\ req[r].kind \in {"start", "stop"}
  BY DEF CheckTransition
<1>2. \/ Answer(r, 409)
      \/ /\ \/ req[r].kind = "start" /\ fsm.state \in {NoState, "Idle", "Failed"}
         /\ req' = [req EXCEPT ![r].pc = "apply", ![r].to = "Starting"]
      \/ /\ fsm.state = "RunningPrimary"
         /\ req' = [req EXCEPT ![r].pc = "apply", ![r].to = "Stopping"]
      \/ /\ fsm.state = "Idle"
         /\ req' = [req EXCEPT ![r].pc = "apply", ![r].to = "Idle"]
  <2>1. fsm.state \in Reached /\ (fsm.ver = 0 => fsm.state = NoState)
    BY DEF Typed, ReqRecs, Entered
  <2>2. CASE req[r].kind = "start"
    <3>1. CASE fsm.state \in {NoState, "Idle", "Failed"}
      BY <2>1, <2>2, <3>1, Table, Commands DEF CheckTransition, NoState, Reached
    <3>2. CASE fsm.state \notin {NoState, "Idle", "Failed"}
      BY <2>1, <2>2, <3>2, Commands, Table DEF CheckTransition, NoState, Entered
    <3> QED BY <3>1, <3>2
  <2>3. CASE req[r].kind = "stop"
    BY <2>1, <2>3, Table, Commands DEF CheckTransition
  <2> QED BY <1>1, <2>2, <2>3
<1>b. /\ req' \in [Requests -> ReqRecs] /\ req'[r].pc \in {"respond", "apply"}
      /\ \A o \in Requests \ {r} : req'[o] = req[o]
  <2>1. CASE Answer(r, 409)
    <3> "respond" \in HandlerSteps /\ 409 \in Codes
      BY DEF HandlerSteps, Codes
    <3>1. req \in [Requests -> ReqRecs]
      BY DEF Typed
    <3>2. /\ req' \in [Requests -> ReqRecs] /\ req'[r].pc = "respond"
          /\ \A o \in Requests \ {r} : req'[o] = req[o]
      BY <2>1, <3>1, HasAnswer DEF Answer
    <3> QED BY <3>2
  <2>2. CASE \E t \in Reached : req' = [req EXCEPT ![r].pc = "apply", ![r].to = t]
    <3> "apply" \in HandlerSteps
      BY DEF HandlerSteps
    <3>1. req \in [Requests -> ReqRecs]
      BY DEF Typed
    <3>2. /\ req' \in [Requests -> ReqRecs] /\ req'[r].pc = "apply"
          /\ \A o \in Requests \ {r} : req'[o] = req[o]
      BY <2>2, <3>1, GoesOn
    <3> QED BY <3>2
  <2>3. {"Starting", "Stopping", "Idle"} \subseteq Reached
    BY DEF Reached, Locked, Stable
  <2> QED BY <1>2, <2>1, <2>2, <2>3
<1>3. Typed'
  BY <1>b DEF Typed, CheckTransition, netVars, boundVars
<1>4. Counted'
  BY <1>1, <1>b, CountKept DEF CheckTransition
<1>5. Single'
  BY <1>1, <1>2 DEF Single, Busy, Active, CheckTransition, Answer, Typed, ReqRecs
<1>6. Handling'
  BY <1>1, <1>2 DEF Handling, Applying, Active, CheckTransition, Answer, Typed, ReqRecs
<1>7. Provisioned'
  BY <1>1, <1>2 DEF Provisioned, Serving, Active, CheckTransition, Answer, Typed, ReqRecs
<1>8. LoopTyped' /\ Jobs' /\ Addressed' /\ Hosted' /\ Verifying' /\ Entered'
  BY StackKept DEF CheckTransition, netVars
<1> QED BY <1>3, <1>4, <1>5, <1>6, <1>7, <1>8

\* The answer is sent.
LEMMA RespondSeq ==
    ASSUME SeqInv, OpsInv, Sequential, NEW r \in Requests, Respond(r)
    PROVE  SeqInv'
<1> USE DEF SeqInv
<1>1. req[r].pc = "respond" /\ req[r].code \in {202, 409}
  BY DEF Respond, Typed, ReqRecs, Codes, Handling, Applying
<1>2. /\ req[r].code = 202 => ResponseState(req[r].code) = "running"
      /\ req[r].code = 409 => ResponseState(req[r].code) = "failed"
  BY DEF ResponseState
<1>b. /\ req' \in [Requests -> ReqRecs] /\ req'[r].pc = "done"
      /\ \A o \in Requests \ {r} : req'[o] = req[o]
  BY DEF Typed, ReqRecs, HandlerSteps, Respond
<1>3. Typed'
  BY <1>1, <1>2, <1>b DEF Typed, OpRecs, Respond, netVars, boundVars
<1>4. Counted'
  BY <1>1, <1>b, CountKept DEF Respond
<1>5. Single'
  BY <1>1, <1>2 DEF Single, Busy, Active, Respond, Typed, ReqRecs
<1>6. Handling'
  BY <1>1, <1>2 DEF Handling, Applying, Active, Respond, Typed, ReqRecs
<1>7. Provisioned'
  BY <1>1, <1>2 DEF Provisioned, Serving, Active, Respond, Typed, ReqRecs
<1>8. LoopTyped' /\ Jobs' /\ Addressed' /\ Hosted' /\ Verifying' /\ Entered'
  BY StackKept DEF Respond, netVars
<1> QED BY <1>3, <1>4, <1>5, <1>6, <1>7, <1>8

--------------------------------------------------------------------------------
(* Steps that store a state. *)

\* The buffer takes an entry when it has room.
LEMMA FanOutTyped ==
    ASSUME NEW l \in LoopRecs, Len(l.chan) <= ChanCap, NEW entry \in Entries
    PROVE  /\ FanOut(l, entry) \in LoopRecs /\ Len(FanOut(l, entry).chan) <= ChanCap
           /\ FanOut(l, entry).phase = l.phase /\ FanOut(l, entry).to = l.to
           /\ FanOut(l, entry).dispatched = l.dispatched
<1>1. CASE l.subscribed /\ Len(l.chan) < ChanCap
  <2>1. l.chan \in Seq(Entries)
    BY DEF LoopRecs
  <2>2. Append(l.chan, entry) \in Seq(Entries) /\ Len(Append(l.chan, entry)) = Len(l.chan) + 1
    BY <2>1
  <2>3. FanOut(l, entry) = [l EXCEPT !.chan = Append(l.chan, entry)]
    BY <1>1 DEF FanOut
  <2>4. Len(l.chan) + 1 <= ChanCap
    BY <1>1, <2>1, BoundsAssumption
  <2> HIDE DEF Entries
  <2> QED BY <2>2, <2>3, <2>4 DEF LoopRecs
<1>2. CASE ~(l.subscribed /\ Len(l.chan) < ChanCap)
  BY <1>2 DEF FanOut
<1> QED BY <1>1, <1>2

\* A state is stored: the loop may hear of it.
LEMMA StoreTyped ==
    ASSUME SeqInv, NEW to \in Reached, NEW after \in LoopRecs, Len(after.chan) <= ChanCap,
           RaftApply(to, after)
    PROVE  /\ fsm' \in [state : Reached, ver : 0..MaxVersion]
           /\ fsm'.state = to /\ fsm'.ver = fsm.ver + 1 /\ fsm.ver \in Nat
           /\ LoopTyped' /\ loop'.phase = after.phase /\ loop'.to = after.to
           /\ loop'.dispatched = after.dispatched
<1>1. fsm.ver \in Nat /\ fsm.ver + 1 \in 0..MaxVersion
  BY BoundsAssumption DEF SeqInv, Typed, RaftApply
<1>2. fsm' = [state |-> to, ver |-> fsm.ver + 1]
  BY DEF RaftApply
<1>3. [to |-> to, ver |-> fsm.ver + 1] \in Entries
  BY <1>1 DEF Entries
<1>4. /\ loop' \in LoopRecs /\ Len(loop'.chan) <= ChanCap
      /\ loop'.phase = after.phase /\ loop'.to = after.to /\ loop'.dispatched = after.dispatched
  BY <1>3, FanOutTyped DEF RaftApply
<1> QED BY <1>1, <1>2, <1>4 DEF LoopTyped

\* A stored entry leaves the goroutines that are done with the stack as they are.
LEMMA OthersKept ==
    ASSUME SeqInv, fsm.ver \in Nat, fsm'.ver = fsm.ver + 1, NEW w \in Versions, job'[w] = job[w],
           ~AtWork(w), ~GoingOn(w)
    PROVE  job'[w] \in {NoJob, Ended} \/ GoingOut(w)'
<1>1. w \in Nat
  BY BoundsAssumption DEF Versions
<1> QED BY <1>1 DEF SeqInv, Jobs, GoingOut

\* What can be said of goroutines that are done with the stack.
LEMMA PlainForms ==
    /\ Plain(NoJob) /\ Plain(Ended) /\ \A j \in Ending : Plain(j)
    /\ \A ev : \A j \in Failing(ev) : j \in Continuing \/ Plain(j)
    /\ Plain(Two(Event("ProvisionDone"), AfterProvision)) /\ Plain(Two(Commit("Idle"), AfterProvision))
    /\ Plain(At("prepare")) /\ Plain(At("allocate")) /\ Plain(At("up")) /\ Plain(At("down"))
    /\ Plain(At("ended"))
    /\ Started \cap Stopped = {} /\ Started \cap Continuing = {} /\ Started \cap Allocated = {}
    /\ Stopped \cap Continuing = {} /\ Stopped \cap Allocated = {} /\ Continuing \cap Allocated = {}
BY Fields, Differ, Calls DEF Plain, Ending, Failing, Continuing, Started, Stopped, Allocated

\* The error paths of provisioning and starting are plain.
LEMMA FailingPlain == \A j \in Failing("FailStack") \cup Failing("StartFailed") : Plain(j)
BY Fields, Differ, Calls DEF Plain, Failing, Continuing, Started, Stopped, Allocated

\* A handler applies its state.
LEMMA ApplySeq ==
    ASSUME SeqInv, OpsInv, DispatchInv, Sequential, NEW r \in Requests, ApplyRequest(r)
    PROVE  SeqInv'
<1> USE DEF SeqInv
<1>1. /\ req[r].pc = "apply" /\ RaftApply(req[r].to, loop)
      /\ req' = [req EXCEPT ![r].pc = "respond", ![r].code = 202]
      /\ UNCHANGED <<exists, ops, order, job, alloc, ip, containers, died, crashes, faults>>
  BY DEF ApplyRequest, Fault, Sequential, Answer, Typed, ReqRecs, netVars, boundVars
<1>2. /\ req' \in [Requests -> ReqRecs] /\ req'[r].pc = "respond"
      /\ \A o \in Requests \ {r} : req'[o] = req[o]
  <2> "respond" \in HandlerSteps /\ 202 \in Codes
    BY DEF HandlerSteps, Codes
  <2> QED BY <1>1, HasAnswer
<1>3. req'[r].code = 202
  BY <1>1 DEF Typed, ReqRecs
<1>4. /\ fsm' \in [state : Reached, ver : 0..MaxVersion]
      /\ fsm'.state = req[r].to /\ fsm'.ver = fsm.ver + 1 /\ fsm.ver \in Nat
      /\ LoopTyped' /\ loop'.phase = loop.phase /\ loop'.to = loop.to
      /\ loop'.dispatched = loop.dispatched
  <2> req[r].to \in Reached
    BY DEF Typed, ReqRecs
  <2> QED BY <1>1, StoreTyped DEF LoopTyped
<1>5. Applying(r)
  BY DEF Handling
<1>6. \A o \in Requests : ~Serving(o)
  BY <1>1 DEF Single, Busy, Serving
<1>7. \A v \in Versions : ~AtWork(v) /\ ~GoingOn(v) /\ job[v] \notin Continuing
  BY <1>1, <1>5, <1>6 DEF AtWork, GoingOn, Applying, Provisioned, Entered, NoState
<1>8. Typed'
  BY <1>1, <1>2, <1>4 DEF Typed
<1>9. Counted'
  BY <1>1, <1>2, CountKept
<1>10. Single'
  BY <1>1, <1>2 DEF Single, Busy, Active
<1>11. Jobs'
  BY <1>1, <1>4, <1>7, OthersKept DEF Jobs
<1>12. Entered'
  BY <1>1, <1>4, <1>5 DEF Entered, Applying, NoState
<1>13. Provisioned'
  <2>1. CASE req[r].to = "Provisioning"
    BY <1>1, <1>2, <1>3, <1>5, <2>1 DEF Provisioned, Serving, Active, Applying
  <2>2. CASE req[r].to # "Provisioning"
    BY <1>1, <1>4, <1>7, <2>2 DEF Provisioned
  <2> QED BY <2>1, <2>2
<1>14. Handling'
  <2> SUFFICES ASSUME NEW o \in Requests PROVE Applying(o)'
    BY DEF Handling
  <2>1. CASE o = r
    BY <1>1, <1>2, <1>3, <1>5, <2>1 DEF Applying
  <2>2. CASE o # r
    BY <1>1, <1>2, <2>2 DEF Single, Busy, Handling, Applying
  <2> QED BY <2>1, <2>2
<1>15. Addressed'
  BY <1>1, <1>4, <1>5 DEF Addressed, Applying
<1>16. Hosted'
  BY <1>1, <1>4, <1>5 DEF Hosted, Applying, Entered, NoState
<1>17. Verifying'
  <2>1. loop.phase \in {"verify", "failRead", "failCommit"} => req[r].to = "Stopping"
    BY <1>1, <1>5 DEF Verifying, Applying, Entered, NoState
  <2>2. loop'.dispatched < fsm'.ver
    BY <1>4 DEF DispatchInv, LoopShape
  <2> QED BY <1>1, <1>4, <2>1, <2>2 DEF Verifying
<1> QED BY <1>4, <1>8, <1>9, <1>10, <1>11, <1>12, <1>13, <1>14, <1>15, <1>16, <1>17

--------------------------------------------------------------------------------
(* Steps of goroutines. *)

\* A goroutine's step changes no other.
LEMMA GoOne ==
    ASSUME DispatchInv, NEW v \in Versions, NEW next, Go(v, next)
    PROVE  job'[v] = next /\ \A w \in Versions \ {v} : job'[w] = job[w]
BY DEF Go, DispatchInv, LoopShape

\* Beside the goroutine at work, the others have at most an operation to close.
LEMMA Alone ==
    ASSUME SeqInv, NEW v \in Versions, AtWork(v), NEW w \in Versions \ {v}
    PROVE  ~AtWork(w) /\ ~GoingOn(w) /\ Plain(job[w])
<1>1. ~AtWork(w) /\ ~GoingOn(w)
  BY DEF AtWork, GoingOn
<1>2. job[w] \in {NoJob, Ended} \cup Ending
  BY <1>1 DEF SeqInv, Jobs, GoingOut
<1> QED BY <1>1, <1>2, PlainForms

\* Handlers, operations and the loop do not see a goroutine's step.
LEMMA ControlKept ==
    ASSUME SeqInv, UNCHANGED <<fsm, exists, ops, order, req, loop>>
    PROVE  LoopTyped' /\ Counted' /\ Single' /\ Handling' /\ Entered'
<1>1. LoopTyped' /\ Counted'
  BY DEF SeqInv, LoopTyped, Counted
<1>2. Single' /\ Handling' /\ Entered'
  BY DEF SeqInv, Single, Busy, Active, Handling, Applying, Entered
<1> QED BY <1>1, <1>2

\* A step of the goroutine at work that stores no state.
LEMMA WorkStep ==
    ASSUME SeqInv, DispatchInv, NEW v \in Versions, AtWork(v), NEW next, Go(v, next),
           UNCHANGED <<fsm, exists, ops, order, req, loop>>,
           Typed',
           \/ next = Ended
           \/ fsm.state = "Provisioning" /\ next \in Provisions
           \/ fsm.state = "Starting" /\ next \in Starts
           \/ fsm.state = "Stopping" /\ next \in Stops \cup Ending,
           next \notin Continuing,
           ip' => alloc' # "none", next \in Allocated => alloc' # "none",
           HasPorts /\ next \in Started => ip',
           fsm.state = "Provisioning" => containers' = "down",
           next \in Started => containers' # "down", next \in Stopped => containers' = "down",
           "die" \notin Faults => containers' # "dead"
    PROVE  SeqInv'
<1>1. job'[v] = next /\ \A w \in Versions \ {v} : job'[w] = job[w]
  BY GoOne
<1>2. \A w \in Versions \ {v} : /\ job'[w] \notin Continuing /\ job'[w] \notin Started
                                /\ job'[w] \notin Stopped /\ job'[w] \notin Allocated
  BY <1>1, Alone DEF Plain
<1>3. LoopTyped' /\ Counted' /\ Single' /\ Handling' /\ Entered'
  BY ControlKept
<1>4. Jobs'
  <2>1. \A w \in Versions \ {v} : job'[w] \in {NoJob, Ended} \/ GoingOut(w)'
    BY <1>1, Alone DEF SeqInv, Jobs, GoingOut
  <2>2. job'[v] \in {NoJob, Ended} \/ AtWork(v)' \/ GoingOut(v)'
    BY <1>1 DEF AtWork, GoingOut
  <2> QED BY <2>1, <2>2 DEF Jobs
<1>5. fsm.state \in {"Provisioning", "Starting", "Stopping"}
  BY DEF AtWork
<1>6. Provisioned'
  BY <1>1, <1>2 DEF SeqInv, Provisioned, Serving, Active
<1>7. Addressed'
  BY <1>1, <1>2, <1>5 DEF Addressed
<1>8. Hosted'
  BY <1>1, <1>2, <1>5 DEF Hosted, NoState
<1>9. Verifying'
  BY DEF SeqInv, Verifying
<1> QED BY <1>3, <1>4, <1>6, <1>7, <1>8, <1>9 DEF SeqInv

\* A fault is counted.
LEMMA FaultTyped ==
    ASSUME SeqInv, (\E kind : Fault(kind)) \/ UNCHANGED boundVars
    PROVE  crashes' \in 0..MaxCrashes /\ faults' \in 0..MaxFaults
BY BoundsAssumption DEF SeqInv, Typed, Fault, boundVars

\* Goroutines at a step of doProvision, doStart or doStop are at work.
LEMMA AtStep ==
    ASSUME SeqInv, NEW v \in Versions
    PROVE  /\ job[v].pc \in {"prepare", "allocate", "record", "service", "activate"} =>
                 AtWork(v) /\ fsm.state = "Provisioning"
           /\ job[v].pc = "up" => AtWork(v) /\ fsm.state = "Starting"
           /\ job[v].pc = "down" => AtWork(v) /\ fsm.state = "Stopping"
           /\ job[v].pc \in {"record", "service", "activate"} => job[v] \in Allocated
<1>1. ASSUME job[v].pc \notin {"none", "ended", "script"}
      PROVE  AtWork(v)
  BY <1>1, Fields, Steps DEF SeqInv, Jobs, GoingOn, GoingOut
<1>2. ASSUME AtWork(v), job[v].pc \in {"record", "service", "activate"}
      PROVE  job[v] \in Allocated
  BY <1>2, Fields, Steps DEF AtWork, Provisions, Starts, Stops
<1> QED BY <1>1, <1>2, Steps DEF AtWork

\* doProvision up to the network.
LEMMA PrepareSeq ==
    ASSUME SeqInv, DispatchInv, NEW v \in Versions, Prepare(v)
    PROVE  SeqInv'
<1>1. AtWork(v) /\ fsm.state = "Provisioning"
  BY AtStep DEF Prepare
<1>2. PICK next \in {At("allocate"), Two(Event("ProvisionDone"), AfterProvision), Ended,
                     One(Event("FailStack")), Two(Event("FailStack"), Finish("create", "failed")),
                     Two(Event("FailStack"), Finish("start", "failed"))} : Go(v, next)
  <2>1. /\ Run(<<Event("ProvisionDone"), AfterProvision>>) = Two(Event("ProvisionDone"), AfterProvision)
        /\ Run(<<>>) = Ended /\ Run(<<Event("FailStack")>>) = One(Event("FailStack"))
    BY Scripts, Zenon
  <2>2. /\ Run(<<Event("FailStack"), Finish("create", "failed")>>)
             = Two(Event("FailStack"), Finish("create", "failed"))
        /\ Run(<<Event("FailStack"), Finish("start", "failed")>>)
             = Two(Event("FailStack"), Finish("start", "failed"))
    BY Scripts, Zenon
  <2> QED BY <2>1, <2>2 DEF Prepare
<1>3. next \in Provisions \cup {Ended}
  BY <1>2 DEF Provisions, Failing
<1>4. Plain(next)
  BY <1>2, PlainForms, FailingPlain DEF Failing
<1>5. UNCHANGED <<fsm, exists, ops, order, req, loop, alloc, ip, containers, died>>
  BY DEF Prepare, reqVars, netVars
<1>6. Typed'
  BY <1>5, FaultTyped DEF SeqInv, Typed, Prepare
<1> QED BY <1>1, <1>2, <1>3, <1>4, <1>5, <1>6, WorkStep DEF Plain, SeqInv, Addressed, Hosted, Verifying

\* Where the network fails.
LEMMA NetworkFails == NetworkFailed \in Provisions /\ Plain(NetworkFailed)
<1>1. NetworkFailed = Two(Event("FailStack"), Finish("create", "failed"))
  BY Scripts, Zenon DEF NetworkFailed
<1> QED BY <1>1, FailingPlain DEF Provisions, Failing

\* A step of provisionNetwork: an address is recorded while it is allocated.
LEMMA NetworkStep ==
    ASSUME SeqInv, DispatchInv, NEW v \in Versions, AtWork(v), fsm.state = "Provisioning",
           NEW next \in Provisions, Go(v, next), next \notin Continuing, next \notin Started, next \notin Stopped,
           UNCHANGED <<fsm, exists, ops, order, req, loop, containers, died>>,
           (\E kind : Fault(kind)) \/ UNCHANGED boundVars,
           alloc' \in {"none", "pending", "active"}, ip' \in BOOLEAN,
           ip' => alloc' # "none", next \in Allocated => alloc' # "none"
    PROVE  SeqInv'
<1>1. Typed'
  BY FaultTyped DEF SeqInv, Typed
<1>2. containers' = "down"
  BY DEF SeqInv, Hosted
<1> QED BY <1>1, <1>2, WorkStep

\* The steps of provisionNetwork.
LEMMA NetworkSeq ==
    ASSUME SeqInv, DispatchInv, NEW v \in Versions,
           AllocateIPv4(v) \/ RecordAddress(v) \/ AddService(v) \/ ActivateIPv4(v)
    PROVE  SeqInv'
<1>1. AtWork(v) /\ fsm.state = "Provisioning" /\ (~AllocateIPv4(v) => alloc # "none")
  BY AtStep DEF AllocateIPv4, RecordAddress, AddService, ActivateIPv4, SeqInv, Addressed
<1>2. /\ UNCHANGED <<fsm, exists, ops, order, req, loop, containers, died>>
      /\ (\E kind : Fault(kind)) \/ UNCHANGED boundVars
  BY DEF AllocateIPv4, RecordAddress, AddService, ActivateIPv4, CompensateNetwork, reqVars
<1>3. /\ At("record") \in Provisions \cap Allocated /\ At("service") \in Provisions \cap Allocated
      /\ At("activate") \in Provisions \cap Allocated
      /\ Two(Event("ProvisionDone"), AfterProvision) \in Provisions
  BY DEF Provisions, Allocated
<1>4. \A j \in Allocated : j \notin Continuing /\ j \notin Started /\ j \notin Stopped
  BY PlainForms
<1>5. alloc \in {"none", "pending", "active"} /\ ip \in BOOLEAN /\ (ip => alloc # "none")
  BY DEF SeqInv, Typed, Addressed
<1>6. \E next \in Provisions :
         /\ Go(v, next) /\ next \notin Continuing /\ next \notin Started /\ next \notin Stopped
         /\ alloc' \in {"none", "pending", "active"} /\ ip' \in BOOLEAN
         /\ ip' => alloc' # "none"
         /\ next \in Allocated => alloc' # "none"
  <2>1. CASE AllocateIPv4(v)
    BY <1>3, <1>4, <1>5, <2>1, NetworkFails DEF AllocateIPv4, Plain
  <2>2. CASE RecordAddress(v)
    BY <1>1, <1>3, <1>4, <1>5, <2>2, NetworkFails, AtStep DEF RecordAddress, ReleaseIPv4, Plain, SeqInv, Addressed
  <2>3. CASE AddService(v)
    BY <1>3, <1>4, <1>5, <2>3, NetworkFails, AtStep DEF AddService, CompensateNetwork, ReleaseIPv4, netVars, Plain, SeqInv, Addressed
  <2>4. CASE ActivateIPv4(v)
    <3>1. Run(<<Event("ProvisionDone"), AfterProvision>>) = Two(Event("ProvisionDone"), AfterProvision)
      BY Scripts, Zenon
    <3> QED BY <1>3, <1>5, <2>4, <3>1, NetworkFails, PlainForms, AtStep DEF ActivateIPv4, CompensateNetwork, ReleaseIPv4, netVars, Plain, SeqInv, Addressed
  <2> QED BY <2>1, <2>2, <2>3, <2>4
<1> QED BY <1>1, <1>2, <1>6, NetworkStep

\* compose.up.
LEMMA UpSeq ==
    ASSUME SeqInv, DispatchInv, Sequential, NEW v \in Versions, ComposeUp(v)
    PROVE  SeqInv'
<1>1. AtWork(v) /\ fsm.state = "Starting"
  BY AtStep DEF ComposeUp
<1>2. /\ UNCHANGED <<fsm, exists, ops, order, req, loop, alloc, ip, died>>
      /\ (\E kind : Fault(kind)) \/ UNCHANGED boundVars
  BY DEF ComposeUp, reqVars, netVars
<1>3. /\ Run(<<Event("StartFailed")>>) = One(Event("StartFailed"))
      /\ Run(<<Event("StartDone"), Finish("start", "succeeded")>>)
           = Two(Event("StartDone"), Finish("start", "succeeded"))
      /\ Run(<<Event("StartFailed"), Finish("start", "failed")>>)
           = Two(Event("StartFailed"), Finish("start", "failed"))
  BY Scripts, Zenon
<1>4. \/ Go(v, One(Event("StartFailed"))) /\ UNCHANGED containers
      \/ /\ Go(v, Two(Event("StartDone"), Finish("start", "succeeded")))
         /\ HasPorts => ip
         /\ containers' = "up"
      \/ Go(v, Two(Event("StartFailed"), Finish("start", "failed"))) /\ containers' \in {containers, "up"}
  BY <1>3 DEF ComposeUp, Sequential, Fault
<1>5. containers' \in {containers, "up"}
  BY <1>4
<1>6. Typed' /\ ("die" \notin Faults => containers' # "dead") /\ (ip' => alloc' # "none")
  BY <1>2, <1>5, FaultTyped DEF SeqInv, Typed, Verifying, Addressed
<1>7. CASE Go(v, Two(Event("StartDone"), Finish("start", "succeeded"))) /\ (HasPorts => ip) /\ containers' = "up"
  <2>1. Two(Event("StartDone"), Finish("start", "succeeded")) \in Starts \cap Started
    BY DEF Starts, Started
  <2> QED BY <1>1, <1>2, <1>6, <1>7, <2>1, PlainForms, WorkStep
<1>8. ASSUME NEW next \in Failing("StartFailed"), Go(v, next)
      PROVE  SeqInv'
  <2>1. next \in Starts /\ Plain(next)
    BY <1>8, FailingPlain DEF Starts
  <2> QED BY <1>1, <1>2, <1>6, <1>8, <2>1, WorkStep DEF Plain
<1>9. /\ One(Event("StartFailed")) \in Failing("StartFailed")
      /\ Two(Event("StartFailed"), Finish("start", "failed")) \in Failing("StartFailed")
  BY DEF Failing
<1> QED BY <1>4, <1>7, <1>8, <1>9

\* compose.down.
LEMMA DownSeq ==
    ASSUME SeqInv, DispatchInv, Sequential, NEW v \in Versions, ComposeDown(v)
    PROVE  SeqInv'
<1>1. AtWork(v) /\ fsm.state = "Stopping"
  BY AtStep DEF ComposeDown
<1>2. /\ UNCHANGED <<fsm, exists, ops, order, req, loop, alloc, ip>>
      /\ (\E kind : Fault(kind)) \/ UNCHANGED boundVars
      /\ died' \in {died, died \/ containers = "up"}
  BY DEF ComposeDown, reqVars, netVars
<1>3. /\ Run(<<Event("StopDone"), Finish("stop", "succeeded")>>)
           = Two(Event("StopDone"), Finish("stop", "succeeded"))
      /\ Run(<<Finish("stop", "failed")>>) = One(Finish("stop", "failed"))
  BY Scripts, Zenon
<1>4. \/ Go(v, Two(Event("StopDone"), Finish("stop", "succeeded"))) /\ containers' = "down"
      \/ Go(v, One(Finish("stop", "failed"))) /\ UNCHANGED containers
  BY <1>3 DEF ComposeDown, Sequential, Fault
<1>5. Typed' /\ ("die" \notin Faults => containers' # "dead") /\ (ip' => alloc' # "none")
  BY <1>2, <1>4, FaultTyped DEF SeqInv, Typed, Verifying, Addressed
<1>6. CASE Go(v, Two(Event("StopDone"), Finish("stop", "succeeded"))) /\ containers' = "down"
  <2>1. Two(Event("StopDone"), Finish("stop", "succeeded")) \in Stops \cap Stopped
    BY DEF Stops, Stopped
  <2> QED BY <1>1, <1>2, <1>5, <1>6, <2>1, PlainForms, WorkStep
<1>7. CASE Go(v, One(Finish("stop", "failed"))) /\ UNCHANGED containers
  <2>1. One(Finish("stop", "failed")) \in Ending /\ Plain(One(Finish("stop", "failed")))
    BY PlainForms DEF Ending
  <2> QED BY <1>1, <1>2, <1>5, <1>7, <2>1, WorkStep DEF Plain
<1> QED BY <1>4, <1>6, <1>7

\* A step of a goroutine that is no longer at work on the stack.
LEMMA LateStep ==
    ASSUME SeqInv, DispatchInv, NEW v \in Versions, NEW next, Go(v, next),
           UNCHANGED <<fsm, exists, order, req, loop, alloc, ip, containers, died>>,
           UNCHANGED boundVars,
           \/ GoingOn(v) /\ next \in Continuing /\ UNCHANGED ops
           \/ GoingOn(v) /\ next \in Ending /\ UNCHANGED ops
           \/ GoingOut(v) /\ next = Ended
    PROVE  /\ LoopTyped' /\ Counted' /\ Entered' /\ Jobs' /\ Addressed' /\ Hosted' /\ Verifying'
           /\ UNCHANGED ops => SeqInv'
<1>1. job'[v] = next /\ \A w \in Versions \ {v} : job'[w] = job[w]
  BY GoOne
<1>2. next \notin Started /\ next \notin Stopped /\ next \notin Allocated
  BY PlainForms DEF Plain
<1>3. LoopTyped' /\ Counted' /\ Entered' /\ Verifying'
  BY DEF SeqInv, LoopTyped, Counted, Entered, Verifying
<1>4. Jobs'
  <2>1. \A w \in Versions \ {v} : job'[w] \in {NoJob, Ended} \/ AtWork(w)' \/ GoingOn(w)' \/ GoingOut(w)'
    BY <1>1 DEF SeqInv, Jobs, AtWork, GoingOn, GoingOut
  <2>2. job'[v] \in {NoJob, Ended} \/ GoingOn(v)' \/ GoingOut(v)'
    BY <1>1 DEF GoingOn, GoingOut
  <2> QED BY <2>1, <2>2 DEF Jobs
<1>5. Addressed' /\ Hosted'
  BY <1>1, <1>2 DEF SeqInv, Addressed, Hosted
<1>6. ASSUME UNCHANGED ops
      PROVE  SeqInv'
  <2>1. Typed' /\ Single' /\ Handling'
    <3>1. Single' /\ Handling'
      BY <1>6, ControlKept
    <3> QED BY <1>6, <3>1 DEF SeqInv, Typed, boundVars
  <2>2. Provisioned'
    <3>1. (\E w \in Versions : job'[w] \in Continuing) => \E w \in Versions : job[w] \in Continuing
      BY <1>1, PlainForms DEF Plain, GoingOn
    <3> QED BY <1>6, <3>1 DEF SeqInv, Provisioned, Serving, Active
  <2> QED BY <1>3, <1>4, <1>5, <2>1, <2>2 DEF SeqInv
<1> QED BY <1>3, <1>4, <1>5, <1>6

\* The check of applyEvent.
LEMMA CheckEventSeq ==
    ASSUME SeqInv, DispatchInv, NEW v \in Versions, CheckEvent(v)
    PROVE  SeqInv'
<1>1. PICK next :
        /\ Go(v, next)
        /\ \/ /\ AtWork(v) /\ fsm.state = "Provisioning"
              /\ next \in {Two(Commit("Idle"), AfterProvision)} \cup Failing("FailStack")
           \/ AtWork(v) /\ fsm.state = "Starting" /\ next \in Failing("StartFailed")
           \/ AtWork(v) /\ fsm.state = "Starting" /\ job[v] \in Started /\ next \in Started
           \/ AtWork(v) /\ fsm.state = "Stopping" /\ job[v] \in Stopped /\ next \in Stopped
           \/ GoingOn(v) /\ next = One(Commit("Starting"))
  BY CheckEventMoves
<1>2. /\ UNCHANGED <<fsm, exists, ops, order, req, loop, alloc, ip, containers, died>>
      /\ UNCHANGED boundVars
  BY DEF CheckEvent, reqVars, netVars
<1>3. Typed' /\ ("die" \notin Faults => containers' # "dead") /\ (ip' => alloc' # "none")
  BY <1>2 DEF SeqInv, Typed, boundVars, Verifying, Addressed
<1>4. CASE AtWork(v) /\ fsm.state = "Provisioning"
  <2>1. next \in Provisions /\ Plain(next)
    BY <1>1, <1>4, PlainForms, FailingPlain DEF Provisions, AtWork, GoingOn
  <2> QED BY <1>1, <1>2, <1>3, <1>4, <2>1, WorkStep DEF Plain, SeqInv, Hosted
<1>5. CASE AtWork(v) /\ fsm.state = "Starting"
  <2>1. next \in Starts /\ (Plain(next) \/ (next \in Started /\ job[v] \in Started))
    BY <1>1, <1>5, FailingPlain DEF Starts, AtWork, GoingOn
  <2>2. /\ next \notin Continuing /\ next \notin Allocated /\ next \notin Stopped
        /\ next \in Started => job[v] \in Started
    BY <2>1, PlainForms DEF Plain
  <2> QED BY <1>1, <1>2, <1>3, <1>5, <2>1, <2>2, WorkStep DEF SeqInv, Hosted, Addressed
<1>6. CASE AtWork(v) /\ fsm.state = "Stopping"
  <2>1. next \in Stops /\ next \in Stopped /\ job[v] \in Stopped
    BY <1>1, <1>6 DEF Stops, AtWork, GoingOn
  <2>2. next \notin Continuing /\ next \notin Allocated /\ next \notin Started
    BY <2>1, PlainForms
  <2> QED BY <1>1, <1>2, <1>3, <1>6, <2>1, <2>2, WorkStep DEF SeqInv, Hosted
<1>7. CASE GoingOn(v)
  <2>1. next \in Continuing
    BY <1>1, <1>7 DEF Continuing, GoingOn, AtWork
  <2> QED BY <1>1, <1>2, <1>7, <2>1, LateStep
<1> QED BY <1>1, <1>4, <1>5, <1>6, <1>7

\* The end of doProvision.
LEMMA AfterSeq ==
    ASSUME SeqInv, DispatchInv, NEW v \in Versions, StartProvisioned(v)
    PROVE  SeqInv'
<1>1. /\ GoingOn(v)
      /\ Go(v, One(Event("StartStack"))) \/ Go(v, One(Finish("create", "succeeded")))
  BY AfterMoves
<1>2. One(Event("StartStack")) \in Continuing /\ One(Finish("create", "succeeded")) \in Ending
  BY DEF Continuing, Ending
<1>3. /\ UNCHANGED <<fsm, exists, ops, order, req, loop, alloc, ip, containers, died>>
      /\ UNCHANGED boundVars
  BY DEF StartProvisioned, reqVars, netVars
<1> QED BY <1>1, <1>2, <1>3, LateStep

\* FinishForStack: only goroutines that are done with the stack close operations, and
\* none does while the stack is being provisioned.
LEMMA FinishSeq ==
    ASSUME SeqInv, DispatchInv, OpsInv, Sequential, NEW v \in Versions, FinishOperation(v)
    PROVE  SeqInv'
<1>1. PICK a, o : /\ GoingOut(v) /\ Go(v, Ended) /\ UNCHANGED boundVars
                  /\ job[v] = One(Finish(a, o)) /\ FinishForStack(a, o)
  BY FinishMoves
<1>2. UNCHANGED <<fsm, exists, order, req, loop, alloc, ip, containers, died>>
  BY DEF FinishOperation, netVars
<1>3. LoopTyped' /\ Counted' /\ Entered' /\ Jobs' /\ Addressed' /\ Hosted' /\ Verifying'
  BY <1>1, <1>2, LateStep
<1>4. o \in {"succeeded", "failed"}
  <2>1. job[v] \in Ending
    BY <1>1 DEF GoingOut
  <2>2. PICK x, y : y \in {"succeeded", "failed"} /\ job[v] = One(Finish(x, y))
    BY <2>1 DEF Ending
  <2>3. Finish(a, o) = Finish(x, y)
    BY <1>1, <2>2, Differ, Zenon
  <2>4. Finish(a, o)[3] = o /\ Finish(x, y)[3] = y
    BY DEF Finish
  <2>5. o = y
    BY <2>3, <2>4, Zenon
  <2> QED BY <2>2, <2>5, Zenon
<1>5. Typed'
  BY <1>1, <1>2, <1>4 DEF SeqInv, Typed, OpRecs, FinishForStack, boundVars
<1>6. \A r \in Requests : /\ Active(r)' => Active(r)
                          /\ ~ops[r].bound => ops'[r] = ops[r]
  BY <1>1, <1>4, FinishesOpen DEF FinishForStack, Active, SeqInv, Typed, OpRecs
<1>7. Single'
  BY <1>2, <1>6 DEF SeqInv, Single, Busy
<1>8. job'[v] = Ended /\ \A w \in Versions \ {v} : job'[w] = job[w]
  BY <1>1, GoOne
<1>9. fsm.ver # 0 /\ fsm.state # "Provisioning"
  BY <1>1, BoundsAssumption DEF GoingOut, SeqInv, Entered, Typed, Versions
<1>10. \A w \in Versions : job[w] \notin Continuing
  <2> SUFFICES ASSUME NEW w \in Versions, job[w] \in Continuing PROVE FALSE
    OBVIOUS
  <2>1. GoingOn(w)
    <3>1. job[w] \notin Ending /\ job[w] \notin {NoJob, Ended}
      BY Steps, PlainForms DEF Plain
    <3>2. ~AtWork(w)
      <4>1. job[w].pc = "script" /\ job[w] \notin Started /\ job[w] \notin Stopped /\ job[w] \notin Allocated
        BY Steps, PlainForms
      <4>2. job[w] \notin Failing("FailStack") /\ job[w] \notin Failing("StartFailed")
        BY FailingPlain DEF Plain
      <4> QED BY <4>1, <4>2, PlainForms, Fields DEF AtWork, Provisions, Starts, Stops, Plain
    <3> QED BY <3>1, <3>2 DEF SeqInv, Jobs, GoingOut
  <2>2. w # v
    BY <1>1, Steps DEF GoingOut
  <2> QED BY <1>1, <2>1, <2>2, BoundsAssumption DEF GoingOn, GoingOut, Versions
<1>11. Provisioned'
  BY <1>2, <1>8, <1>9, <1>10, PlainForms DEF Provisioned, Plain
<1>12. Handling'
  BY <1>2, <1>6, <1>9 DEF SeqInv, Handling, Applying
<1> QED BY <1>3, <1>5, <1>7, <1>11, <1>12 DEF SeqInv

\* The write of applyEvent: the goroutine at work leaves the stack in a stable state, the
\* one that has provisioned it has it started.
LEMMA CommitEventSeq ==
    ASSUME SeqInv, DispatchInv, OpsInv, Sequential, NEW v \in Versions, CommitEvent(v)
    PROVE  SeqInv'
<1>1. PICK to, next :
        /\ Go(v, next) /\ RaftApply(to, loop) /\ UNCHANGED boundVars
        /\ \/ /\ AtWork(v) /\ fsm.state = "Provisioning"
              /\ to = "Idle" /\ next = One(AfterProvision)
           \/ /\ AtWork(v) /\ fsm.state \in {"Provisioning", "Starting"} /\ job[v] \notin Started
              /\ to = "Failed"
              /\ next \in {Ended, One(Finish("create", "failed")), One(Finish("start", "failed"))}
           \/ /\ AtWork(v) /\ fsm.state = "Starting" /\ job[v] \in Started
              /\ to = "RunningPrimary" /\ next = One(Finish("start", "succeeded"))
           \/ /\ AtWork(v) /\ fsm.state = "Stopping" /\ job[v] \in Stopped
              /\ to = "Idle" /\ next = One(Finish("stop", "succeeded"))
           \/ GoingOn(v) /\ to = "Starting" /\ next = Ended
  BY CommitEventMoves
<1>2. UNCHANGED <<exists, ops, order, req, alloc, ip, containers, died>>
  BY DEF CommitEvent, reqVars, netVars
<1>3. job'[v] = next /\ \A w \in Versions \ {v} : job'[w] = job[w]
  BY <1>1, GoOne
<1>4. to \in {"Idle", "Failed", "RunningPrimary", "Starting"}
  BY <1>1
<1>5. /\ fsm' \in [state : Reached, ver : 0..MaxVersion]
      /\ fsm'.state = to /\ fsm'.ver = fsm.ver + 1 /\ fsm.ver \in Nat
      /\ LoopTyped' /\ loop'.phase = loop.phase /\ loop'.to = loop.to
      /\ loop'.dispatched = loop.dispatched
  <2> to \in Reached
    BY <1>4 DEF Reached, Stable, Locked
  <2> QED BY <1>1, StoreTyped DEF SeqInv, LoopTyped
<1>6. Typed'
  BY <1>1, <1>2, <1>5 DEF SeqInv, Typed, boundVars
<1>7. Counted' /\ Single'
  BY <1>2 DEF SeqInv, Counted, Single, Busy, Active
<1>8. \A w \in Versions \ {v} : ~AtWork(w) /\ ~GoingOn(w)
  BY <1>1, BoundsAssumption DEF AtWork, GoingOn
<1>9. \A w \in Versions \ {v} : job'[w] \in {NoJob, Ended} \/ GoingOut(w)'
  BY <1>3, <1>5, <1>8, OthersKept
<1>10. \A w \in Versions \ {v} : /\ job'[w] \notin Continuing /\ job'[w] \notin Started
                                 /\ job'[w] \notin Stopped /\ job'[w] \notin Allocated
  BY <1>9, PlainForms DEF GoingOut, Plain
<1>11. /\ next \in Continuing => AtWork(v) /\ fsm.state = "Provisioning" /\ to = "Idle"
       /\ next \notin Started /\ next \notin Stopped /\ next \notin Allocated
       /\ next \in {Ended} \cup Continuing \cup Ending
  <2>1. One(AfterProvision) \in Continuing
    BY DEF Continuing
  <2>2. /\ One(Finish("create", "failed")) \in Ending /\ One(Finish("start", "failed")) \in Ending
        /\ One(Finish("start", "succeeded")) \in Ending /\ One(Finish("stop", "succeeded")) \in Ending
    BY DEF Ending
  <2> QED BY <1>1, <2>1, <2>2, PlainForms DEF Plain
<1>12. v \in Nat /\ (fsm.state = "Provisioning" => fsm.ver = 1)
  BY BoundsAssumption DEF Versions, SeqInv, Entered
<1>13. Jobs'
  <2>1. CASE next \in Continuing
    <3>1. GoingOn(v)'
      BY <1>3, <1>5, <1>11, <1>12, <2>1 DEF GoingOn, AtWork
    <3> QED BY <1>9, <3>1 DEF Jobs
  <2>2. CASE next \notin Continuing
    <3>1. job'[v] \in {NoJob, Ended} \/ GoingOut(v)'
      BY <1>1, <1>3, <1>5, <1>11, <1>12, <2>2 DEF GoingOut, AtWork, GoingOn
    <3> QED BY <1>9, <3>1 DEF Jobs
  <2> QED BY <2>1, <2>2
<1>14. Entered'
  BY <1>1, <1>2, <1>4, <1>5, <1>12 DEF SeqInv, Entered, NoState, AtWork, GoingOn
<1>15. Provisioned'
  BY <1>2, <1>3, <1>4, <1>5, <1>10, <1>11 DEF SeqInv, Provisioned, Serving, Active
<1>16. Handling'
  <2> SUFFICES ASSUME NEW r \in Requests PROVE Applying(r)'
    BY DEF Handling
  <2>1. req[r].pc # "bind" /\ req[r].pc # "apply"
    <3>1. CASE AtWork(v)
      BY <3>1, <1>12 DEF AtWork, SeqInv, Handling, Applying, Entered, NoState
    <3>2. CASE GoingOn(v)
      <4>1. PICK o \in Requests : Serving(o)
        BY <3>2 DEF GoingOn, SeqInv, Provisioned
      <4> QED BY <4>1 DEF SeqInv, Single, Busy, Serving
    <3> QED BY <1>1, <3>1, <3>2
  <2> QED BY <1>2, <2>1 DEF SeqInv, Handling, Applying
<1>17. Addressed'
  BY <1>1, <1>2, <1>3, <1>5, <1>10, <1>11 DEF SeqInv, Addressed
<1>18. Hosted'
  BY <1>1, <1>2, <1>3, <1>4, <1>5, <1>10, <1>11 DEF SeqInv, Hosted, NoState
<1>19. Verifying'
  <2>1. loop.phase \notin {"verify", "failRead", "failCommit"}
    <3>1. CASE AtWork(v)
      <4>1. job[v] # NoJob
        BY <3>1, Steps, Fields DEF AtWork
      <4>2. v <= loop.dispatched
        BY <4>1, <1>12 DEF DispatchInv, LoopShape
      <4> QED BY <3>1, <4>2, <1>5 DEF AtWork, SeqInv, Verifying, DispatchInv, LoopShape
    <3>2. CASE GoingOn(v)
      BY <3>2 DEF GoingOn, SeqInv, Verifying
    <3> QED BY <1>1, <3>1, <3>2
  <2> QED BY <1>2, <1>5, <2>1 DEF SeqInv, Verifying
<1> QED BY <1>5, <1>6, <1>7, <1>13, <1>14, <1>15, <1>16, <1>17, <1>18, <1>19 DEF SeqInv

--------------------------------------------------------------------------------
(* Steps of the loop and of the process. *)

\* A step of the loop that neither stores a state nor dispatches one.
LEMMA LoopKept ==
    ASSUME SeqInv, UNCHANGED <<fsm, exists, ops, order, req, alloc, ip, containers>>,
           \A v \in Versions : job'[v] = job[v],
           died' \in BOOLEAN, crashes' \in 0..MaxCrashes, faults' \in 0..MaxFaults,
           LoopTyped', Verifying'
    PROVE  SeqInv'
<1>1. Typed' /\ Counted'
  BY DEF SeqInv, Typed, Counted
<1>2. Single' /\ Handling' /\ Entered' /\ Provisioned'
  BY DEF SeqInv, Single, Busy, Active, Handling, Applying, Entered, Provisioned, Serving
<1>3. Jobs'
  BY DEF SeqInv, Jobs, AtWork, GoingOn, GoingOut
<1>4. Addressed' /\ Hosted'
  BY DEF SeqInv, Addressed, Hosted
<1> QED BY <1>1, <1>2, <1>3, <1>4 DEF SeqInv

\* Outside the phases in which a death is looked into, nothing is asked of the loop.
LEMMA NotVerifying ==
    ASSUME SeqInv, UNCHANGED containers, loop'.phase \notin {"verify", "failRead", "failCommit"}
    PROVE  Verifying'
BY DEF SeqInv, Verifying

\* The loop subscribes and finds work to resume.
LEMMA ResumeSeq ==
    ASSUME SeqInv, Subscribe \/ LoadActive \/ ResumeNext \/ Receive
    PROVE  SeqInv'
<1>1. /\ UNCHANGED <<fsm, exists, ops, order, req, job, alloc, ip, containers>>
      /\ died' \in BOOLEAN /\ crashes' \in 0..MaxCrashes /\ faults' \in 0..MaxFaults
  BY DEF Subscribe, LoadActive, ResumeNext, Receive, loopOnly, reqVars, netVars, boundVars, SeqInv, Typed
<1>2. loop \in LoopRecs /\ Len(loop.chan) <= ChanCap
  BY DEF SeqInv, LoopTyped
<1>3. LoopTyped' /\ loop'.phase \in {"load", "run"}
  <2>1. CASE Subscribe
    BY <1>2, <2>1 DEF Subscribe, LoopTyped, LoopRecs
  <2>2. CASE LoadActive
    <3>1. Cardinality({r \in Requests : Active(r) /\ ops[r].bound}) \in Nat
      BY RequestsAssumption, FS_Subset, FS_CardinalityType
    <3> QED BY <1>2, <2>2, <3>1 DEF LoadActive, LoopTyped, LoopRecs
  <2>3. CASE ResumeNext
    <3> DEFINE e == IF fsm.ver = 0 THEN NoEntry ELSE [to |-> fsm.state, ver |-> fsm.ver]
    <3>1. e \in Entries
      BY BoundsAssumption DEF Entries, NoEntry, Reached, SeqInv, Typed
    <3>2. loop.left - 1 \in Nat
      BY <1>2, <2>3 DEF ResumeNext, LoopRecs
    <3>3. loop' = [loop EXCEPT !.left = loop.left - 1, !.held = e]
      BY <2>3 DEF ResumeNext
    <3> HIDE DEF e
    <3>4. loop' \in LoopRecs /\ loop'.chan = loop.chan /\ loop'.phase = loop.phase
      BY <1>2, <3>1, <3>2, <3>3 DEF LoopRecs
    <3> QED BY <1>2, <2>3, <3>4 DEF ResumeNext, LoopTyped
  <2>4. CASE Receive
    <3>1. loop.chan \in Seq(Entries) /\ loop.chan # <<>>
      BY <1>2, <2>4 DEF Receive, LoopRecs
    <3>2. Head(loop.chan) \in Entries /\ Tail(loop.chan) \in Seq(Entries)
          /\ Len(Tail(loop.chan)) = Len(loop.chan) - 1
      BY <3>1
    <3>3. loop' = [loop EXCEPT !.chan = Tail(loop.chan), !.held = Head(loop.chan)]
      BY <2>4 DEF Receive
    <3>4. loop' \in LoopRecs /\ loop'.chan = Tail(loop.chan) /\ loop'.phase = loop.phase
      BY <1>2, <3>2, <3>3 DEF LoopRecs
    <3>5. Len(loop.chan) \in Nat
      BY <3>1
    <3> QED BY <1>2, <2>4, <3>2, <3>4, <3>5, BoundsAssumption DEF Receive, Waiting, LoopTyped
  <2> QED BY <2>1, <2>2, <2>3, <2>4
<1>4. Verifying'
  BY <1>1, <1>3, NotVerifying
<1> QED BY <1>1, <1>3, <1>4, LoopKept

\* The death of a container is looked into.
LEMMA DeathSeq ==
    ASSUME SeqInv, ContainerEvent \/ VerifyDeath \/ FailStackRead
    PROVE  SeqInv'
<1>1. UNCHANGED <<fsm, exists, ops, order, req, job, alloc, ip, containers>>
  BY DEF ContainerEvent, VerifyDeath, FailStackRead, loopOnly, reqVars, netVars
<1>2. /\ died' \in BOOLEAN
      /\ crashes' \in 0..MaxCrashes /\ faults' \in 0..MaxFaults
  <2>1. (\E kind : Fault(kind)) \/ UNCHANGED boundVars
    BY DEF ContainerEvent, VerifyDeath, FailStackRead, loopOnly
  <2> QED BY <2>1, FaultTyped DEF ContainerEvent, VerifyDeath, FailStackRead, SeqInv, Typed
<1>3. loop \in LoopRecs /\ Len(loop.chan) <= ChanCap
  BY DEF SeqInv, LoopTyped
<1>4. \A p \in {"verify", "failRead", "run"} :
         loop' = [loop EXCEPT !.phase = p] => LoopTyped' /\ loop'.phase = p /\ loop'.dispatched = loop.dispatched
  BY <1>3 DEF LoopTyped, LoopRecs
<1>5. CASE ContainerEvent
  <2>1. CASE fsm.state = "RunningPrimary" /\ loop' = [loop EXCEPT !.phase = "verify"]
    BY <1>1, <1>2, <1>4, <2>1, LoopKept DEF SeqInv, Verifying
  <2>2. CASE loop' = loop
    BY <1>1, <1>2, <2>2, LoopKept, StackKept
  <2> QED BY <1>5, <2>1, <2>2 DEF ContainerEvent, SeqInv, Typed, Reached, Stable, Locked, NoState
<1>6. CASE VerifyDeath
  <2>1. CASE containers = "dead" /\ loop' = [loop EXCEPT !.phase = "failRead"]
    BY <1>1, <1>2, <1>4, <1>6, <2>1, LoopKept DEF SeqInv, Verifying, VerifyDeath
  <2>2. CASE loop' = [loop EXCEPT !.phase = "run"]
    BY <1>1, <1>2, <1>4, <2>2, LoopKept, NotVerifying
  <2> QED BY <1>6, <2>1, <2>2 DEF VerifyDeath
<1>7. CASE FailStackRead
  <2>1. CASE loop' = [loop EXCEPT !.phase = "run"]
    BY <1>1, <1>2, <1>4, <2>1, LoopKept, NotVerifying
  <2>2. CASE loop' = [loop EXCEPT !.phase = "failCommit", !.to = "Failed"]
    <3>1. /\ LoopTyped' /\ loop'.phase = "failCommit" /\ loop'.to = "Failed"
          /\ loop'.dispatched = loop.dispatched
      BY <1>3, <2>2 DEF LoopTyped, LoopRecs, Reached, Stable
    <3> QED BY <1>1, <1>2, <1>7, <3>1, LoopKept DEF SeqInv, Verifying, FailStackRead
  <2>3. fsm.state \in {"RunningPrimary", "Stopping"}
    BY <1>7 DEF SeqInv, Verifying, FailStackRead
  <2> QED BY <1>7, <2>1, <2>2, <2>3, Table DEF FailStackRead
<1> QED BY <1>5, <1>6, <1>7

\* The loop fails the stack whose container died.
LEMMA FailSeq ==
    ASSUME SeqInv, DispatchInv, OpsInv, Sequential, FailStackCommit
    PROVE  SeqInv'
<1> DEFINE after == [loop EXCEPT !.phase = "run", !.to = NoState]
<1>1. loop.phase = "failCommit" /\ loop.to = "Failed" /\ RaftApply("Failed", after) /\ UNCHANGED boundVars
  BY DEF FailStackCommit, Fault, Sequential, SeqInv, Verifying
<1>2. UNCHANGED <<exists, ops, order, req, job, alloc, ip, containers, died>>
  BY DEF FailStackCommit, reqVars, netVars
<1>3. after \in LoopRecs /\ Len(after.chan) <= ChanCap /\ after.phase = "run"
  BY DEF SeqInv, LoopTyped, LoopRecs, Reached
<1> HIDE DEF after
<1>4. /\ fsm' \in [state : Reached, ver : 0..MaxVersion]
      /\ fsm'.state = "Failed" /\ fsm'.ver = fsm.ver + 1 /\ fsm.ver \in Nat
      /\ LoopTyped' /\ loop'.phase = "run"
  <2> "Failed" \in Reached
    BY DEF Reached, Stable
  <2> QED BY <1>1, <1>3, StoreTyped
<1>5. /\ fsm.state \in {"RunningPrimary", "Stopping"} /\ "die" \in Faults
      /\ fsm.state = "Stopping" => loop.dispatched < fsm.ver
  BY <1>1 DEF SeqInv, Verifying
<1>6. \A v \in Versions : ~AtWork(v) /\ ~GoingOn(v)
  <2> SUFFICES ASSUME NEW v \in Versions, AtWork(v) PROVE FALSE
    BY <1>5 DEF GoingOn
  <2>1. fsm.state = "Stopping" /\ v = fsm.ver /\ job[v] # NoJob
    BY <1>5, Steps, Fields DEF AtWork
  <2> QED BY <1>4, <1>5, <2>1 DEF DispatchInv, LoopShape
<1>7. Typed'
  BY <1>1, <1>2, <1>4 DEF SeqInv, Typed, boundVars
<1>8. Counted' /\ Single'
  BY <1>2 DEF SeqInv, Counted, Single, Busy, Active
<1>9. Jobs'
  BY <1>2, <1>4, <1>6, OthersKept DEF Jobs
<1>10. Entered'
  BY <1>2, <1>4, <1>5 DEF SeqInv, Entered, NoState
<1>11. Provisioned'
  BY <1>2, <1>4 DEF SeqInv, Provisioned, Serving, Active
<1>12. Handling'
  <2> SUFFICES ASSUME NEW r \in Requests PROVE Applying(r)'
    BY DEF Handling
  <2>1. Applying(r) /\ fsm.ver # 0
    BY <1>5 DEF SeqInv, Handling, Entered, NoState
  <2>2. req[r].pc = "apply" => req[r].to = "Stopping"
    BY <1>5, <2>1 DEF Applying, NoState
  <2> QED BY <1>2, <1>4, <1>5, <2>1, <2>2 DEF Applying
<1>13. Addressed' /\ Hosted'
  BY <1>2, <1>4 DEF SeqInv, Addressed, Hosted, NoState
<1>14. Verifying'
  BY <1>2, <1>4, NotVerifying
<1> QED BY <1>4, <1>7, <1>8, <1>9, <1>10, <1>11, <1>12, <1>13, <1>14 DEF SeqInv

\* The loop hands an entry to a goroutine.
LEMMA DispatchSeq ==
    ASSUME SeqInv, DispatchInv, HandleStateChange
    PROVE  SeqInv'
<1> DEFINE entry == loop.held
           fresh == /\ fsm = [state |-> entry.to, ver |-> entry.ver]
                    /\ loop.dispatched # entry.ver
<1>1. /\ UNCHANGED <<fsm, exists, ops, order, req, alloc, ip, containers, died, crashes, faults>>
      /\ loop.phase = "run" /\ entry # NoEntry
  BY DEF HandleStateChange, reqVars, netVars, boundVars
<1>2. loop \in LoopRecs /\ Len(loop.chan) <= ChanCap /\ NoEntry \in Entries
  BY BoundsAssumption DEF SeqInv, LoopTyped, NoEntry, Entries, Reached
<1>3. LoopTyped' /\ loop'.phase = "run"
  <2>1. loop' = [loop EXCEPT !.held = NoEntry, !.dispatched = IF fresh THEN entry.ver ELSE loop.dispatched]
    BY DEF HandleStateChange
  <2>2. entry.ver \in 0..MaxVersion /\ loop.dispatched \in 0..MaxVersion
    BY <1>2 DEF LoopRecs, Entries
  <2>3. (IF fresh THEN entry.ver ELSE loop.dispatched) \in 0..MaxVersion
    BY <2>2
  <2> HIDE DEF fresh, entry
  <2>4. loop' \in LoopRecs /\ loop'.chan = loop.chan /\ loop'.phase = loop.phase
    BY <1>2, <2>1, <2>3 DEF LoopRecs
  <2> QED BY <1>1, <1>2, <2>4 DEF LoopTyped
<1>4. Verifying'
  BY <1>1, <1>3, NotVerifying
<1>6. CASE fresh /\ entry.to \in DOMAIN WorkFor
  <2>1. /\ job' = [job EXCEPT ![fsm.ver] = At(WorkFor[fsm.state])]
        /\ fsm.state \in DOMAIN WorkFor
        /\ loop.dispatched # fsm.ver
    <3>1. fsm.ver = entry.ver /\ fsm.state = entry.to
      BY <1>6
    <3> QED BY <1>6, <3>1 DEF HandleStateChange
  <2>2. PICK v \in Versions : v = fsm.ver
    BY <1>1, <1>6, <2>1, BoundsAssumption DEF SeqInv, Typed, Entered, Versions, WorkFor, NoState
  <2>3. PICK next : Go(v, next) /\ next = At(WorkFor[fsm.state])
    BY <2>1, <2>2 DEF Go
  <2>4. \/ fsm.state = "Provisioning" /\ next = At("prepare")
        \/ fsm.state = "Starting" /\ next = At("up")
        \/ fsm.state = "Stopping" /\ next = At("down")
    BY <2>1, <2>3 DEF WorkFor
  <2>5. job'[v] = next /\ \A w \in Versions \ {v} : job'[w] = job[w]
    BY <2>2, <2>3, GoOne
  <2>6. /\ \/ fsm.state = "Provisioning" /\ next \in Provisions
           \/ fsm.state = "Starting" /\ next \in Starts
           \/ fsm.state = "Stopping" /\ next \in Stops
        /\ Plain(next)
    BY <2>4, PlainForms DEF Provisions, Starts, Stops
  <2>7. Jobs'
    <3>1. AtWork(v)'
      BY <1>1, <2>2, <2>5, <2>6 DEF AtWork
    <3>2. \A w \in Versions \ {v} : job'[w] \in {NoJob, Ended} \/ AtWork(w)' \/ GoingOn(w)' \/ GoingOut(w)'
      BY <1>1, <2>5 DEF SeqInv, Jobs, AtWork, GoingOn, GoingOut
    <3> QED BY <3>1, <3>2 DEF Jobs
  <2>8. Counted' /\ Single' /\ Handling' /\ Entered'
    BY <1>1 DEF SeqInv, Counted, Single, Busy, Active, Handling, Applying, Entered
  <2>9. Typed'
    BY <1>1 DEF SeqInv, Typed
  <2>10. Provisioned' /\ Addressed' /\ Hosted'
    BY <1>1, <2>5, <2>6 DEF SeqInv, Provisioned, Serving, Active, Addressed, Hosted, Plain
  <2> QED BY <1>3, <1>4, <2>7, <2>8, <2>9, <2>10 DEF SeqInv
<1>7. CASE ~(fresh /\ entry.to \in DOMAIN WorkFor)
  <2>1. job' = [job EXCEPT ![entry.ver] = job[entry.ver]]
    BY <1>7 DEF HandleStateChange
  <2>2. \A w \in Versions : job'[w] = job[w]
    BY <2>1 DEF DispatchInv, LoopShape
  <2> QED BY <1>1, <1>3, <1>4, <2>2, LoopKept DEF SeqInv, Typed
<1> QED BY <1>6, <1>7

\* A container dies, the process is killed and comes back.
LEMMA ProcessSeq ==
    ASSUME SeqInv, OpsInv, ContainerDies \/ Crash \/ Restart
    PROVE  SeqInv'
<1>1. CASE ContainerDies
  <2>1. /\ UNCHANGED <<fsm, exists, ops, order, req, loop, job, alloc, ip, crashes>>
        /\ containers = "up" /\ containers' = "dead" /\ "die" \in Faults /\ Fault("die")
        /\ died' \in BOOLEAN
    BY <1>1 DEF ContainerDies, Fault, reqVars, netVars
  <2>2. Typed'
    BY <2>1, FaultTyped DEF SeqInv, Typed
  <2>3. LoopTyped' /\ Counted' /\ Single' /\ Handling' /\ Entered'
    BY <2>1, ControlKept
  <2>4. Jobs'
    BY <2>1 DEF SeqInv, Jobs, AtWork, GoingOn, GoingOut
  <2>5. Provisioned' /\ Addressed' /\ Hosted' /\ Verifying'
    BY <2>1 DEF SeqInv, Provisioned, Serving, Active, Addressed, Hosted, Verifying
  <2> QED BY <2>2, <2>3, <2>4, <2>5 DEF SeqInv
<1>2. ASSUME loop' \in {LoopDown, [LoopDown EXCEPT !.phase = "boot"]}
      PROVE  LoopTyped' /\ loop'.phase \in {"down", "boot"}
  <2>1. NoEntry \in Entries /\ NoState \in Reached /\ <<>> \in Seq(Entries) /\ Len(<<>>) = 0
        /\ 0 \in 0..MaxVersion /\ 0 <= ChanCap
    BY BoundsAssumption DEF NoEntry, Entries, Reached
  <2>2. PICK p \in {"down", "boot"} :
           loop' = [phase |-> p, subscribed |-> FALSE, chan |-> <<>>, held |-> NoEntry,
                    dispatched |-> 0, left |-> 0, to |-> NoState]
    BY <1>2 DEF LoopDown
  <2> QED BY <2>1, <2>2 DEF LoopTyped, LoopRecs
<1>3. CASE Crash
  <2>1. /\ UNCHANGED <<fsm, exists, ops, order, alloc, ip, containers, faults>>
        /\ crashes' = crashes + 1 /\ crashes < MaxCrashes /\ died' = FALSE
        /\ \A v \in Versions : job'[v] = NoJob
    BY <1>3 DEF Crash, netVars
  <2>2. LoopTyped' /\ loop'.phase \in {"down", "boot"}
    BY <1>2, <1>3 DEF Crash
  <2>3. /\ req' \in [Requests -> ReqRecs]
        /\ \A r \in Requests : /\ req'[r].pc = "new" <=> req[r].pc = "new"
                               /\ req'[r].pc \in {"new", "done"}
                               /\ req'[r].kind = req[r].kind
    BY <1>3 DEF Crash, SeqInv, Typed, ReqRecs, HandlerSteps
  <2>4. Typed'
    <3>1. crashes' \in 0..MaxCrashes
      BY <2>1, BoundsAssumption DEF SeqInv, Typed
    <3> QED BY <2>1, <2>3, <3>1 DEF SeqInv, Typed
  <2>5. Counted'
    BY <2>1, <2>3, CountKept
  <2>6. Single' /\ Handling' /\ Entered'
    BY <2>1, <2>3 DEF SeqInv, Single, Busy, Active, Handling, Applying, Entered
  <2>7. Provisioned'
    BY <2>1, <2>3, PlainForms DEF SeqInv, Provisioned, Serving, Active, Plain, OpsInv, Naming
  <2>8. Jobs' /\ Addressed' /\ Hosted'
    BY <2>1, PlainForms DEF SeqInv, Jobs, Addressed, Hosted, Plain
  <2>9. Verifying'
    BY <2>1, <2>2, NotVerifying
  <2> QED BY <2>2, <2>4, <2>5, <2>6, <2>7, <2>8, <2>9 DEF SeqInv
<1>4. CASE Restart
  <2>1. /\ UNCHANGED <<fsm, exists, ops, order, req, job, alloc, ip, containers>>
        /\ died' \in BOOLEAN /\ crashes' \in 0..MaxCrashes /\ faults' \in 0..MaxFaults
    BY <1>4 DEF Restart, loopOnly, reqVars, netVars, boundVars, SeqInv, Typed
  <2>2. LoopTyped' /\ loop'.phase \in {"down", "boot"}
    BY <1>2, <1>4 DEF Restart
  <2> QED BY <2>1, <2>2, NotVerifying, LoopKept
<1> QED BY <1>1, <1>3, <1>4

--------------------------------------------------------------------------------
(* The theorem about sequential clients. *)

\* Every step of a stack whose clients are sequential keeps the invariant.
LEMMA SeqStep ==
    ASSUME SeqInv, DispatchInv, OpsInv, Sequential, [Next]_vars
    PROVE  SeqInv'
<1>1. ASSUME NEW r \in Requests, NEW kind \in Kinds, Accept(r, kind) PROVE SeqInv'
  BY <1>1, AcceptSeq
<1>2. ASSUME NEW r \in Requests, Handler(r) PROVE SeqInv'
  BY <1>2, CreateRowSeq, BindSeq, CheckSeq, ApplySeq, RespondSeq DEF Handler
<1>3. ASSUME NEW v \in Versions, JobStep(v) PROVE SeqInv'
  BY <1>3, PrepareSeq, NetworkSeq, UpSeq, DownSeq, CheckEventSeq, CommitEventSeq,
     FinishSeq, AfterSeq DEF JobStep
<1>4. ASSUME LoopStep PROVE SeqInv'
  BY <1>4, ResumeSeq, DispatchSeq, DeathSeq, FailSeq DEF LoopStep
<1>5. ASSUME ContainerDies \/ Crash \/ Restart PROVE SeqInv'
  BY <1>5, ProcessSeq
<1>6. ASSUME UNCHANGED vars PROVE SeqInv'
  <2>1. /\ UNCHANGED <<fsm, exists, ops, order, req, job, loop, alloc, ip, containers>>
        /\ died' \in BOOLEAN /\ crashes' \in 0..MaxCrashes /\ faults' \in 0..MaxFaults
    BY <1>6 DEF vars, SeqInv, Typed
  <2> QED BY <2>1, StackKept, LoopKept
<1> QED BY <1>1, <1>2, <1>3, <1>4, <1>5, <1>6 DEF Next

\* The invariant says what the FSM, the host and the address manager agree on.
LEMMA SeqConsistent == SeqInv /\ DispatchInv => Consistent
<1> SUFFICES ASSUME SeqInv, DispatchInv PROVE Consistent
  OBVIOUS
<1>1. fsm.state \in States \cup {NoState} /\ fsm.ver \in 0..MaxVersion
  BY DEF SeqInv, Typed, Reached, Stable, Locked, States
<1>2. \A r \in Requests : ops[r].state \in {"none", "pending", "running", "succeeded", "failed"}
  BY DEF SeqInv, Typed, OpRecs
<1>3. Len(order) <= Cardinality(Requests)
  <2>1. {r \in Requests : req[r].pc # "new"} \subseteq Requests
    OBVIOUS
  <2> QED BY <2>1, RequestsAssumption, FS_Subset DEF SeqInv, Counted
<1>4. \A v \in Versions : /\ job[v].pc \in JobSteps
                          /\ v > fsm.ver => job[v] = NoJob
                          /\ job[v].pc = "script" <=> job[v].script # <<>>
  <2> SUFFICES ASSUME NEW v \in Versions
               PROVE  /\ job[v].pc \in JobSteps
                      /\ v > fsm.ver => job[v] = NoJob
                      /\ job[v].pc = "script" <=> job[v].script # <<>>
    OBVIOUS
  <2>1. v > fsm.ver => job[v] = NoJob
    BY BoundsAssumption DEF DispatchInv, LoopShape, Versions
  <2>2. job[v] \in {NoJob, Ended} \cup Ending \cup Continuing \cup Provisions \cup Starts \cup Stops
    BY DEF SeqInv, Jobs, AtWork, GoingOn, GoingOut
  <2>3. job[v].pc \in JobSteps
    BY <2>2, Steps, Fields DEF JobSteps
  <2>4. job[v].pc = "script" <=> job[v].script # <<>>
    BY <2>2, Fields DEF Ending, Continuing, Started, Stopped, Failing, Allocated, Provisions, Starts, Stops
  <2> QED BY <2>1, <2>3, <2>4
<1>5. TypeOK
  BY <1>1, <1>2, <1>3, <1>4 DEF TypeOK, SeqInv, Typed, LoopTyped
<1>6. StateMatchesHost /\ AddressHeld
  BY DEF SeqInv, Hosted, Addressed, StateMatchesHost, AddressHeld
<1> QED BY <1>5, <1>6 DEF Consistent

\* For clients that wait for an operation before the next request (and create stacks by
\* starting them, while the database answers) the FSM, the host and the address manager
\* agree for any number of requests, of kills of the process at any moment and of
\* failing or dying steps (doProvision, doStart, doStop, resume, handleStateChange).
THEOREM ConsistentWhenSequential ==
    ASSUME Sequential
    PROVE  Spec => []Consistent
<1>1. Init => DispatchInv /\ OpsInv /\ SeqInv
  BY DispatchInit, OpsInit, SeqInit
<1>2. (DispatchInv /\ OpsInv /\ SeqInv) /\ [Next]_vars => (DispatchInv /\ OpsInv /\ SeqInv)'
  BY DispatchStep, OpsStep, SeqStep
<1>3. DispatchInv /\ OpsInv /\ SeqInv => Consistent
  BY SeqConsistent
<1> QED BY <1>1, <1>2, <1>3, PTL DEF Spec

--------------------------------------------------------------------------------
(* Legal transitions. *)

\* A step of LegalTransitions.
LegalMove ==
    fsm' # fsm => \E ev \in Events : fsm'.state \in Targets(IF fsm.ver = 0 THEN "Idle" ELSE fsm.state, ev)

\* The events of goroutines and handlers are events of the table.
LEMMA EventNames ==
    {"CreateStack", "ProvisionDone", "FailStack", "StartStack", "StartDone", "StartFailed",
     "StopStack", "StopDone"} \subseteq Events
<1>1. /\ <<"Idle", "CreateStack", "Provisioning">> \in transitions
      /\ <<"Provisioning", "ProvisionDone", "Idle">> \in transitions
      /\ <<"Provisioning", "FailStack", "Failed">> \in transitions
      /\ <<"Idle", "StartStack", "Starting">> \in transitions
      /\ <<"Starting", "StartDone", "RunningPrimary">> \in transitions
      /\ <<"Starting", "StartFailed", "Failed">> \in transitions
      /\ <<"Idle", "StopStack", "Idle">> \in transitions
      /\ <<"Stopping", "StopDone", "Idle">> \in transitions
  BY DEF transitions
<1>2. \A t \in transitions : t[2] \in Events
  BY DEF Events
<1> HIDE DEF transitions
<1>3. \A a, b, c : <<a, b, c>>[2] = b
  OBVIOUS
<1> QED BY <1>1, <1>2, <1>3

\* While no container dies, no state is stored that the table does not allow.
LEMMA LegalStep ==
    ASSUME SeqInv, DispatchInv, OpsInv, Sequential, "die" \notin Faults, [Next]_vars
    PROVE  LegalMove
<1> USE EventNames, Table DEF LegalMove
<1>1. ASSUME UNCHANGED fsm PROVE LegalMove
  BY <1>1
<1>2. ASSUME NEW r \in Requests, ApplyRequest(r) PROVE LegalMove
  <2>1. req[r].pc = "apply" /\ fsm'.state = req[r].to
    BY <1>2 DEF ApplyRequest, RaftApply, Fault, Sequential
  <2>2. Applying(r) /\ (fsm.ver = 0 <=> fsm.state = NoState)
    BY DEF SeqInv, Handling, Entered
  <2>3. Targets("Idle", "CreateStack") = {"Provisioning"}
    BY DEF Targets, States, transitions
  <2>4. CASE req[r].to = "Provisioning" /\ fsm.ver = 0
    BY <2>1, <2>3, <2>4
  <2>5. CASE req[r].to = "Starting" /\ fsm.state \in {NoState, "Idle", "Failed"}
    BY <2>1, <2>2, <2>5 DEF NoState
  <2>6. CASE req[r].to = "Stopping" /\ fsm.state = "RunningPrimary"
    BY <2>1, <2>2, <2>6 DEF NoState
  <2>7. CASE req[r].to = "Idle" /\ fsm.state = "Idle"
    BY <2>1, <2>2, <2>7 DEF NoState
  <2> QED BY <2>1, <2>2, <2>4, <2>5, <2>6, <2>7 DEF Applying
<1>3. ASSUME NEW v \in Versions, CommitEvent(v) PROVE LegalMove
  <2>1. fsm.ver # 0 \/ fsm.state = NoState
    BY DEF SeqInv, Entered
  <2>2. PICK to, next :
          /\ RaftApply(to, loop)
          /\ \/ AtWork(v) /\ fsm.state = "Provisioning" /\ to = "Idle"
             \/ AtWork(v) /\ fsm.state \in {"Provisioning", "Starting"} /\ to = "Failed"
             \/ AtWork(v) /\ fsm.state = "Starting" /\ to = "RunningPrimary"
             \/ AtWork(v) /\ fsm.state = "Stopping" /\ to = "Idle"
             \/ GoingOn(v) /\ to = "Starting"
    BY <1>3, CommitEventMoves
  <2>3. fsm'.state = to
    BY <2>2 DEF RaftApply
  <2> QED BY <2>1, <2>2, <2>3 DEF NoState, GoingOn
<1>4. ~FailStackCommit
  BY DEF FailStackCommit, SeqInv, Verifying
<1>5. ASSUME NEW r \in Requests, Handler(r) PROVE LegalMove
  BY <1>1, <1>2, <1>5 DEF Handler, CreateStackRow, BindOperation, CheckTransition, Respond
<1>6. ASSUME NEW v \in Versions, JobStep(v) PROVE LegalMove
  <2>1. CheckEvent(v) \/ FinishOperation(v) \/ StartProvisioned(v) => UNCHANGED fsm
    BY DEF CheckEvent, FinishOperation, StartProvisioned
  <2>2. Prepare(v) \/ AllocateIPv4(v) \/ RecordAddress(v) \/ AddService(v) \/ ActivateIPv4(v)
          \/ ComposeUp(v) \/ ComposeDown(v) => UNCHANGED fsm
    BY DEF Prepare, AllocateIPv4, RecordAddress, AddService, ActivateIPv4, ComposeUp, ComposeDown
  <2> QED BY <1>1, <1>3, <1>6, <2>1, <2>2 DEF JobStep
<1>7. ASSUME LoopStep PROVE LegalMove
  BY <1>1, <1>4, <1>7 DEF LoopStep, Subscribe, LoadActive, ResumeNext, Receive, HandleStateChange,
     ContainerEvent, VerifyDeath, FailStackRead, loopOnly
<1>8. ASSUME \/ \E r \in Requests, kind \in Kinds : Accept(r, kind)
             \/ ContainerDies \/ Crash \/ Restart \/ UNCHANGED vars
      PROVE  LegalMove
  BY <1>1, <1>8 DEF Accept, ContainerDies, Crash, Restart, loopOnly, vars
<1> QED BY <1>5, <1>6, <1>7, <1>8 DEF Next

\* For sequential clients, and while no container dies on its own, every state the FSM
\* stores is a transition of the table from the state before it, though each writer
\* read that state some time ago (applyEvent, handleStartStack, handleStopStack).
THEOREM TransitionsLegalWhenSequential ==
    ASSUME Sequential, "die" \notin Faults
    PROVE  Spec => LegalTransitions
<1>1. Init => DispatchInv /\ OpsInv /\ SeqInv
  BY DispatchInit, OpsInit, SeqInit
<1>2. (DispatchInv /\ OpsInv /\ SeqInv) /\ [Next]_vars => (DispatchInv /\ OpsInv /\ SeqInv)'
  BY DispatchStep, OpsStep, SeqStep
<1>3. (DispatchInv /\ OpsInv /\ SeqInv) /\ [Next]_vars => LegalMove
  BY LegalStep
<1> QED BY <1>1, <1>2, <1>3, PTL DEF Spec, LegalTransitions, LegalMove

--------------------------------------------------------------------------------
(* Success is real. *)

\* A stack that is being worked on, or waits for it, has an open operation.
Attended ==
    (\E v \in Versions : job[v] \notin {NoJob, Ended}) \/ fsm.state \in Locked
        => \E r \in Requests : Serving(r)

\* A handler that has not answered has an open operation.
Unanswered == \A r \in Requests : req[r].pc \in {"handle", "bind", "apply"} => Active(r)

\* A goroutine that has an operation to close has just stored what it says of it.
Trailing ==
    \A v \in Versions : job[v] \in Ending =>
        /\ fsm.ver = v + 1 /\ fsm.state \in Stable
        /\ job[v] = One(Finish("start", "succeeded")) => fsm.state = "RunningPrimary"
        /\ job[v] = One(Finish("stop", "succeeded")) => fsm.state = "Idle"

\* What is true of sequential clients besides, while nothing goes wrong on the host.
CalmInv == Attended /\ Unanswered /\ Trailing

\* Sequential clients, no container that dies and no failing compose.down.
Calm == Sequential /\ "die" \notin Faults /\ "down" \notin Faults

\* A step of SuccessIsReal.
RealSuccess ==
    \A r \in Requests :
        ops[r].state # "succeeded" /\ ops'[r].state = "succeeded" =>
            /\ ops[r].action = "start" => containers # "down"
            /\ ops[r].action = "stop" => containers = "down"

\* Nothing is going on when a stack is created.
LEMMA CalmInit == Init => CalmInv
<1> SUFFICES ASSUME Init PROVE CalmInv
  OBVIOUS
<1>1. \A v \in Versions : job[v] = NoJob /\ job[v] \notin Ending
  BY Fields, Steps DEF Init
<1>2. Attended /\ Unanswered /\ Trailing
  BY <1>1 DEF Init, Attended, Unanswered, Trailing, Locked, NoState
<1> QED BY <1>2 DEF CalmInv

\* No goroutine is left while no operation is being served.
LEMMA Quiet ==
    ASSUME CalmInv, \A r \in Requests : ~Serving(r)
    PROVE  fsm.state \notin Locked /\ \A v \in Versions : job[v] \in {NoJob, Ended}
BY DEF CalmInv, Attended

\* An operation that is served is the only one.
LEMMA NoneServing ==
    ASSUME SeqInv, NEW r \in Requests, req[r].pc \in {"handle", "bind", "apply"}
    PROVE  \A o \in Requests : ~Serving(o)
BY DEF SeqInv, Single, Busy, Serving

\* Steps that change neither the operations nor the handlers, and leave no operation to
\* close that is not backed by the state.
LEMMA ServedStep ==
    ASSUME CalmInv, UNCHANGED <<ops, req>>,
           \/ \E v \in Versions : job[v] \notin {NoJob, Ended}
           \/ fsm.state \in Locked
           \/ (\A v \in Versions : job'[v] = job[v]) /\ UNCHANGED fsm,
           Trailing'
    PROVE  CalmInv' /\ RealSuccess
<1>1. Unanswered' /\ RealSuccess
  BY DEF CalmInv, Unanswered, Active, RealSuccess
<1>2. Attended'
  BY DEF CalmInv, Attended, Serving, Active
<1> QED BY <1>1, <1>2 DEF CalmInv

\* Steps of handlers before they answer.
LEMMA HandlerCalm ==
    ASSUME SeqInv, CalmInv, OpsInv, Calm, NEW r \in Requests,
           CreateStackRow(r) \/ BindOperation(r) \/ CheckTransition(r)
    PROVE  CalmInv' /\ RealSuccess
<1>1. /\ req[r].pc \in {"handle", "bind", "apply"}
      /\ UNCHANGED <<fsm, job>>
  BY DEF CreateStackRow, BindOperation, CheckTransition
<1>2. fsm.state \notin Locked /\ \A v \in Versions : job[v] \in {NoJob, Ended}
  BY <1>1, NoneServing, Quiet
<1>3. \A v \in Versions : job[v] \notin Ending
  BY <1>2, Fields, Steps
<1>4. Attended' /\ Trailing'
  BY <1>1, <1>2, <1>3 DEF Attended, Trailing
<1>5. \A o \in Requests : ops'[o].state = ops[o].state
  BY DEF CreateStackRow, BindOperation, CheckTransition, SeqInv, Typed, OpRecs
<1>6. Unanswered'
  <2>1. \A o \in Requests : o # r => req'[o] = req[o]
    BY DEF CreateStackRow, BindOperation, CheckTransition, Answer, SeqInv, Typed
  <2> QED BY <1>1, <1>5, <2>1 DEF CalmInv, Unanswered, Active
<1>7. RealSuccess
  BY <1>5 DEF RealSuccess
<1> QED BY <1>4, <1>6, <1>7 DEF CalmInv

\* Requests come when nothing is going on.
LEMMA AcceptCalm ==
    ASSUME SeqInv, CalmInv, Calm, NEW r \in Requests, NEW kind \in Kinds, Accept(r, kind)
    PROVE  CalmInv' /\ RealSuccess
<1>1. \A o \in Requests : ~Active(o) /\ req[o].pc \in {"new", "done"}
  BY FlagsAssumption DEF Accept, Calm, Sequential
<1>2. fsm.state \notin Locked /\ \A v \in Versions : job[v] \in {NoJob, Ended}
  BY <1>1, Quiet DEF Serving
<1>3. \A v \in Versions : job[v] \notin Ending
  BY <1>2, Fields, Steps
<1>4. Attended' /\ Trailing'
  BY <1>2, <1>3 DEF Attended, Trailing, Accept
<1>5. \A o \in Requests : IF o = r THEN ops'[o].state = "pending"
                          ELSE ops'[o] = ops[o] /\ req'[o] = req[o]
  BY DEF Accept, SeqInv, Typed
<1>6. Unanswered' /\ RealSuccess
  BY <1>1, <1>5 DEF Unanswered, Active, RealSuccess
<1> QED BY <1>4, <1>6 DEF CalmInv

\* A handler applies its state: its operation is open, and no goroutine is left.
LEMMA ApplyCalm ==
    ASSUME SeqInv, CalmInv, Calm, NEW r \in Requests, ApplyRequest(r)
    PROVE  CalmInv' /\ RealSuccess
<1>1. /\ req[r].pc = "apply" /\ UNCHANGED <<ops, job>>
      /\ req' = [req EXCEPT ![r].pc = "respond", ![r].code = 202]
  BY DEF ApplyRequest, Fault, Calm, Sequential, Answer, SeqInv, Typed, ReqRecs
<1>2. \A v \in Versions : job[v] \in {NoJob, Ended}
  BY <1>1, NoneServing, Quiet
<1>3. \A v \in Versions : job[v] \notin Ending
  BY <1>2, Fields, Steps
<1>4. /\ req'[r].pc = "respond" /\ req'[r].code = 202
      /\ \A o \in Requests : o # r => req'[o] = req[o]
  BY <1>1 DEF SeqInv, Typed, ReqRecs
<1>5. Serving(r)'
  BY <1>1, <1>4 DEF Serving, Active, CalmInv, Unanswered
<1>6. Attended' /\ Trailing'
  BY <1>1, <1>3, <1>5 DEF Attended, Trailing
<1>7. Unanswered' /\ RealSuccess
  BY <1>1, <1>4 DEF CalmInv, Unanswered, Active, RealSuccess
<1> QED BY <1>6, <1>7 DEF CalmInv

\* The answer leaves the operation open or fails it.
LEMMA RespondCalm ==
    ASSUME SeqInv, CalmInv, Calm, NEW r \in Requests, Respond(r)
    PROVE  CalmInv' /\ RealSuccess
<1>1. req[r].pc = "respond" /\ req[r].code \in {202, 409} /\ UNCHANGED <<fsm, job>>
  BY DEF Respond, SeqInv, Typed, ReqRecs, Codes, Handling, Applying
<1>2. /\ req[r].code = 202 => ResponseState(req[r].code) = "running"
      /\ req[r].code = 409 => ResponseState(req[r].code) = "failed"
  BY DEF ResponseState
<1>3. \A o \in Requests : o # r => ops'[o] = ops[o] /\ req'[o] = req[o]
  BY DEF Respond, SeqInv, Typed
<1>4. /\ req'[r].pc = "done"
      /\ ops'[r].state \in {ops[r].state, "running", "failed"}
      /\ req[r].code = 202 => (Active(r) => Active(r)')
  BY <1>1, <1>2 DEF Respond, Active, SeqInv, Typed, ReqRecs, OpRecs
<1>5. Unanswered' /\ RealSuccess
  BY <1>3, <1>4 DEF CalmInv, Unanswered, Active, RealSuccess
<1>6. \A o \in Requests : Serving(o) => Serving(o)'
  BY <1>1, <1>3, <1>4 DEF Serving, Active
<1>7. Attended' /\ Trailing'
  BY <1>1, <1>6 DEF CalmInv, Attended, Trailing
<1> QED BY <1>5, <1>7 DEF CalmInv

\* Goroutines at work have no operation to close, and no other goroutine has.
LEMMA NoneTrailing ==
    ASSUME SeqInv, CalmInv, NEW v \in Versions, AtWork(v) \/ GoingOn(v)
    PROVE  job[v] \notin {NoJob, Ended} /\ \A w \in Versions \ {v} : job[w] \notin Ending
<1>1. job[v] \notin {NoJob, Ended}
  BY Fields, Steps DEF AtWork, GoingOn
<1>2. CASE AtWork(v)
  BY <1>1, <1>2 DEF AtWork, CalmInv, Trailing, Stable
<1>3. CASE GoingOn(v)
  BY <1>1, <1>3, BoundsAssumption DEF GoingOn, CalmInv, Trailing, Versions
<1> QED BY <1>2, <1>3

\* A step of a goroutine at work that stores no state.
LEMMA WorkCalm ==
    ASSUME SeqInv, DispatchInv, CalmInv, NEW v \in Versions, AtWork(v) \/ GoingOn(v),
           NEW next, Go(v, next), next \notin Ending, UNCHANGED <<ops, req, fsm>>
    PROVE  CalmInv' /\ RealSuccess
<1>1. job'[v] = next /\ \A w \in Versions \ {v} : job'[w] = job[w]
  BY GoOne
<1>2. Trailing'
  BY <1>1, NoneTrailing DEF Trailing
<1> QED BY <1>2, NoneTrailing, ServedStep

\* The first calls of a goroutine at work do not close an operation.
LEMMA WorkForms ==
    /\ \A s : At(s) \notin Ending
    /\ \A a, b : Two(a, b) \notin Ending
    /\ \A ev : One(Event(ev)) \notin Ending
    /\ \A to : One(Commit(to)) \notin Ending
    /\ Ended \notin Ending
<1>1. \A s : At(s).script = <<>> /\ Ended.script = <<>>
  BY Fields
<1>2. \A j \in Ending : j.script # <<>>
  BY Fields DEF Ending
<1>3. \A a, b : Two(a, b) \notin Ending
  BY Differ DEF Ending
<1>4. \A ev : One(Event(ev)) \notin Ending
  BY Differ, Calls DEF Ending
<1>5. \A to : One(Commit(to)) \notin Ending
  BY Differ, Calls DEF Ending
<1> QED BY <1>1, <1>2, <1>3, <1>4, <1>5

\* The steps of doProvision, doStart and doStop.
LEMMA StepsCalm ==
    ASSUME SeqInv, DispatchInv, CalmInv, Calm, NEW v \in Versions,
           \/ Prepare(v) \/ AllocateIPv4(v) \/ RecordAddress(v) \/ AddService(v)
           \/ ActivateIPv4(v) \/ ComposeUp(v) \/ ComposeDown(v)
    PROVE  CalmInv' /\ RealSuccess
<1>1. AtWork(v)
  BY AtStep DEF Prepare, AllocateIPv4, RecordAddress, AddService, ActivateIPv4, ComposeUp, ComposeDown
<1>2. UNCHANGED <<ops, req, fsm>>
  BY DEF Prepare, AllocateIPv4, RecordAddress, AddService, ActivateIPv4, ComposeUp, ComposeDown, reqVars
<1>3. /\ Run(<<>>) = Ended
      /\ \A ev : Run(<<Event(ev)>>) = One(Event(ev))
      /\ \A a, b : Run(<<a, b>>) = Two(a, b)
  BY Scripts, Zenon
<1>4. Run(<<>>) \notin Ending /\ (\A ev : Run(<<Event(ev)>>) \notin Ending)
      /\ (\A a, b : Run(<<a, b>>) \notin Ending) /\ \A s : At(s) \notin Ending
  BY <1>3, WorkForms, Zenon
<1>5. NetworkFailed \notin Ending
  BY <1>4, Zenon DEF NetworkFailed
<1>6. \E next : Go(v, next) /\ next \notin Ending
  <2>1. CASE Prepare(v)
    <3>1. \/ Go(v, At("allocate")) \/ Go(v, Run(<<Event("ProvisionDone"), AfterProvision>>))
          \/ Go(v, Run(<<>>)) \/ Go(v, Run(<<Event("FailStack")>>))
          \/ Go(v, Run(<<Event("FailStack"), Finish("create", "failed")>>))
          \/ Go(v, Run(<<Event("FailStack"), Finish("start", "failed")>>))
      BY <2>1, Zenon DEF Prepare
    <3> QED BY <1>4, <3>1, Zenon
  <2>2. CASE AllocateIPv4(v)
    BY <1>4, <1>5, <2>2, Zenon DEF AllocateIPv4
  <2>3. CASE RecordAddress(v)
    BY <1>4, <1>5, <2>3, Zenon DEF RecordAddress
  <2>4. CASE AddService(v)
    BY <1>4, <1>5, <2>4, Zenon DEF AddService, CompensateNetwork
  <2>5. CASE ActivateIPv4(v)
    BY <1>4, <1>5, <2>5, Zenon DEF ActivateIPv4, CompensateNetwork
  <2>6. CASE ComposeUp(v)
    BY <1>4, <2>6, Zenon DEF ComposeUp
  <2>7. CASE ComposeDown(v)
    BY <1>4, <2>7, Zenon DEF ComposeDown, Calm, Fault
  <2> QED BY <2>1, <2>2, <2>3, <2>4, <2>5, <2>6, <2>7
<1> QED BY <1>1, <1>2, <1>6, WorkCalm

\* The check of applyEvent.
LEMMA CheckCalm ==
    ASSUME SeqInv, DispatchInv, CalmInv, NEW v \in Versions, CheckEvent(v)
    PROVE  CalmInv' /\ RealSuccess
<1>1. UNCHANGED <<ops, req, fsm>>
  BY DEF CheckEvent, reqVars
<1>2. PICK next : /\ Go(v, next) /\ (AtWork(v) \/ GoingOn(v))
                  /\ next \in {Two(Commit("Idle"), AfterProvision), One(Commit("Starting"))}
                              \cup Failing("FailStack") \cup Failing("StartFailed")
                              \cup Started \cup Stopped
  BY CheckEventMoves
<1>3. next \notin Ending
  BY <1>2, WorkForms DEF Failing, Started, Stopped
<1> QED BY <1>1, <1>2, <1>3, WorkCalm

\* The write of applyEvent.
LEMMA CommitCalm ==
    ASSUME SeqInv, DispatchInv, CalmInv, Calm, NEW v \in Versions, CommitEvent(v)
    PROVE  CalmInv' /\ RealSuccess
<1>1. UNCHANGED <<ops, req>>
  BY DEF CommitEvent, reqVars
<1>2. PICK to, next :
        /\ Go(v, next) /\ RaftApply(to, loop) /\ (AtWork(v) \/ GoingOn(v))
        /\ \/ AtWork(v) /\ to = "Idle" /\ next = One(AfterProvision)
           \/ /\ AtWork(v) /\ to = "Failed"
              /\ next \in {Ended, One(Finish("create", "failed")), One(Finish("start", "failed"))}
           \/ AtWork(v) /\ to = "RunningPrimary" /\ next = One(Finish("start", "succeeded"))
           \/ AtWork(v) /\ to = "Idle" /\ next = One(Finish("stop", "succeeded"))
           \/ to = "Starting" /\ next = Ended
  BY CommitEventMoves DEF Calm
<1>3. job'[v] = next /\ \A w \in Versions \ {v} : job'[w] = job[w]
  BY <1>2, GoOne
<1>4. fsm'.state = to /\ fsm'.ver = fsm.ver + 1
  BY <1>2 DEF RaftApply
<1>5. /\ next = One(Finish("start", "succeeded")) => to = "RunningPrimary"
      /\ next = One(Finish("stop", "succeeded")) => to = "Idle"
      /\ next \in Ending => AtWork(v) /\ to \in Stable
  <2>1. One(AfterProvision) \notin Ending /\ Ended \notin Ending
    BY Steps, WorkForms DEF Continuing
  <2>2. /\ One(Finish("start", "succeeded")) \in Ending /\ One(Finish("stop", "succeeded")) \in Ending
    BY DEF Ending
  <2>3. \A a, o, b, p : One(Finish(a, o)) = One(Finish(b, p)) => a = b /\ o = p
    BY Differ DEF Finish
  <2> QED BY <1>2, <2>1, <2>2, <2>3 DEF Stable
<1>6. Trailing'
  <2> SUFFICES ASSUME NEW w \in Versions, job'[w] \in Ending
               PROVE  /\ fsm'.ver = w + 1 /\ fsm'.state \in Stable
                      /\ job'[w] = One(Finish("start", "succeeded")) => fsm'.state = "RunningPrimary"
                      /\ job'[w] = One(Finish("stop", "succeeded")) => fsm'.state = "Idle"
    BY DEF Trailing
  <2>1. w = v
    BY <1>2, <1>3, NoneTrailing
  <2> QED BY <1>3, <1>4, <1>5, <2>1 DEF AtWork
<1> QED BY <1>1, <1>2, <1>6, NoneTrailing, ServedStep

\* The end of doProvision.
LEMMA AfterCalm ==
    ASSUME SeqInv, DispatchInv, CalmInv, NEW v \in Versions, StartProvisioned(v)
    PROVE  CalmInv' /\ RealSuccess
<1>1. /\ GoingOn(v) /\ UNCHANGED <<ops, req, fsm>>
      /\ Go(v, One(Event("StartStack"))) \/ Go(v, One(Finish("create", "succeeded")))
  BY AfterMoves DEF StartProvisioned, reqVars
<1>2. CASE Go(v, One(Event("StartStack")))
  BY <1>1, <1>2, WorkForms, WorkCalm
<1>3. CASE Go(v, One(Finish("create", "succeeded")))
  <2>1. job'[v] = One(Finish("create", "succeeded")) /\ \A w \in Versions \ {v} : job'[w] = job[w]
    BY <1>3, GoOne
  <2>2. \A a, o, b, p : One(Finish(a, o)) = One(Finish(b, p)) => a = b /\ o = p
    BY Differ DEF Finish
  <2>3. Trailing'
    BY <1>1, <2>1, <2>2, NoneTrailing DEF Trailing, GoingOn, Stable
  <2> QED BY <1>1, <2>3, NoneTrailing, ServedStep
<1> QED BY <1>1, <1>2, <1>3

\* FinishForStack closes what the goroutine has done, and no goroutine is left.
LEMMA FinishCalm ==
    ASSUME SeqInv, DispatchInv, OpsInv, CalmInv, Calm, NEW v \in Versions, FinishOperation(v)
    PROVE  CalmInv' /\ RealSuccess
<1>1. PICK a, o : /\ GoingOut(v) /\ Go(v, Ended)
                  /\ job[v] = One(Finish(a, o)) /\ FinishForStack(a, o)
  BY FinishMoves DEF Calm
<1>2. UNCHANGED <<fsm, req>>
  BY DEF FinishOperation
<1>3. job'[v] = Ended /\ \A w \in Versions \ {v} : job'[w] = job[w]
  BY <1>1, GoOne
<1>4. job[v] \in Ending /\ fsm.ver = v + 1 /\ fsm.state \in Stable /\ v \in Nat
  BY <1>1, BoundsAssumption DEF GoingOut, CalmInv, Trailing, Versions
<1>5. \A w \in Versions \ {v} : job[w] \in {NoJob, Ended}
  <2> SUFFICES ASSUME NEW w \in Versions \ {v}, job[w] \notin {NoJob, Ended} PROVE FALSE
    OBVIOUS
  <2>1. CASE AtWork(w)
    BY <1>4, <2>1 DEF AtWork, Stable
  <2>2. CASE GoingOn(w)
    BY <1>4, <2>2 DEF GoingOn
  <2>3. CASE GoingOut(w)
    BY <1>4, <2>3, BoundsAssumption DEF GoingOut, CalmInv, Trailing, Versions
  <2> QED BY <2>1, <2>2, <2>3 DEF SeqInv, Jobs
<1>6. \A w \in Versions : job'[w] \in {NoJob, Ended} /\ job'[w] \notin Ending
  BY <1>3, <1>5, Fields, Steps
<1>7. Attended' /\ Trailing'
  BY <1>2, <1>4, <1>6 DEF Attended, Trailing, Stable, Locked
<1>8. Unanswered'
  <2>1. \E r \in Requests : Serving(r)
    BY <1>4, Fields, Steps DEF CalmInv, Attended
  <2>2. \A r \in Requests : req[r].pc \notin {"handle", "bind", "apply"}
    BY <2>1, NoneServing
  <2> QED BY <1>2, <2>2 DEF Unanswered
<1>9. RealSuccess
  <2> SUFFICES ASSUME NEW r \in Requests, ops[r].state # "succeeded", ops'[r].state = "succeeded"
               PROVE  /\ ops[r].action = "start" => containers # "down"
                      /\ ops[r].action = "stop" => containers = "down"
    BY DEF RealSuccess
  <2>1. r \in OldestActive(a) /\ o = "succeeded"
    BY <1>1 DEF FinishForStack, SeqInv, Typed, OpRecs
  <2>2. ops[r].action = a
    BY <2>1 DEF OldestActive
  <2>3. /\ a = "start" => fsm.state = "RunningPrimary"
        /\ a = "stop" => fsm.state = "Idle"
    BY <1>1, <1>4, <2>1 DEF CalmInv, Trailing
  <2> QED BY <2>2, <2>3 DEF SeqInv, Hosted
<1> QED BY <1>7, <1>8, <1>9 DEF CalmInv

\* The loop and the process change no operation, and leave none without its work.
LEMMA LoopCalm ==
    ASSUME SeqInv, DispatchInv, CalmInv, Calm, LoopStep \/ ContainerDies \/ Crash \/ Restart
    PROVE  CalmInv' /\ RealSuccess
<1>1. ~FailStackCommit /\ ~ContainerDies
  BY DEF FailStackCommit, ContainerDies, Fault, SeqInv, Verifying, Calm
<1>2. CASE \/ Subscribe \/ LoadActive \/ ResumeNext \/ Receive
           \/ ContainerEvent \/ VerifyDeath \/ FailStackRead \/ Restart
  <2>1. UNCHANGED <<fsm, ops, req, job>>
    BY <1>2 DEF Subscribe, LoadActive, ResumeNext, Receive, ContainerEvent, VerifyDeath,
       FailStackRead, Restart, loopOnly, reqVars
  <2>2. Trailing'
    BY <2>1 DEF CalmInv, Trailing
  <2> QED BY <2>1, <2>2, ServedStep
<1>3. CASE HandleStateChange
  <2>1. UNCHANGED <<fsm, ops, req>>
    BY <1>3 DEF HandleStateChange, reqVars
  <2>2. CASE \A v \in Versions : job'[v] = job[v]
    <3>1. Trailing'
      BY <2>1, <2>2 DEF CalmInv, Trailing
    <3> QED BY <2>1, <2>2, <3>1, ServedStep
  <2>3. CASE ~\A v \in Versions : job'[v] = job[v]
    <3>1. /\ fsm = [state |-> loop.held.to, ver |-> loop.held.ver]
          /\ loop.held.to \in DOMAIN WorkFor
          /\ job' = [job EXCEPT ![loop.held.ver] = At(WorkFor[loop.held.to])]
      BY <1>3, <2>3 DEF HandleStateChange, DispatchInv, LoopShape
    <3>2. fsm.state \in Locked
      BY <3>1 DEF WorkFor, Locked
    <3>3. \A v \in Versions : job'[v] = job[v] \/ job'[v] = At(WorkFor[loop.held.to])
      BY <3>1 DEF DispatchInv, LoopShape
    <3>4. \A v \in Versions : job'[v] \notin Ending
      <4>1. \A v \in Versions : job[v] \notin Ending
        BY <3>2 DEF CalmInv, Trailing, Stable, Locked
      <4> QED BY <3>3, <4>1, WorkForms
    <3> QED BY <2>1, <3>2, <3>4, ServedStep DEF Trailing
  <2> QED BY <2>2, <2>3
<1>4. CASE Crash
  <2>1. UNCHANGED <<fsm, ops>> /\ \A v \in Versions : job'[v] = NoJob /\ NoJob \notin Ending
    BY <1>4, Fields, Steps DEF Crash
  <2>2. \A r \in Requests : req'[r].pc \in {"new", "done"} /\ (req[r].pc # "new" => req'[r].pc = "done")
    BY <1>4 DEF Crash, SeqInv, Typed, ReqRecs
  <2>3. \A r \in Requests : Serving(r) => Serving(r)'
    BY <2>1, <2>2 DEF Serving, Active
  <2>4. Unanswered' /\ RealSuccess
    BY <2>1, <2>2 DEF Unanswered, RealSuccess
  <2>5. Attended' /\ Trailing'
    BY <2>1, <2>3 DEF CalmInv, Attended, Trailing
  <2> QED BY <2>4, <2>5 DEF CalmInv
<1> QED BY <1>1, <1>2, <1>3, <1>4 DEF LoopStep

\* Every step keeps the calm invariant and reports only what is so.
LEMMA CalmStep ==
    ASSUME SeqInv, DispatchInv, OpsInv, CalmInv, Calm, [Next]_vars
    PROVE  CalmInv' /\ RealSuccess
<1>1. ASSUME NEW r \in Requests, NEW kind \in Kinds, Accept(r, kind) PROVE CalmInv' /\ RealSuccess
  BY <1>1, AcceptCalm
<1>2. ASSUME NEW r \in Requests, Handler(r) PROVE CalmInv' /\ RealSuccess
  BY <1>2, HandlerCalm, ApplyCalm, RespondCalm DEF Handler
<1>3. ASSUME NEW v \in Versions, JobStep(v) PROVE CalmInv' /\ RealSuccess
  BY <1>3, StepsCalm, CheckCalm, CommitCalm, FinishCalm, AfterCalm DEF JobStep
<1>4. ASSUME LoopStep \/ ContainerDies \/ Crash \/ Restart PROVE CalmInv' /\ RealSuccess
  BY <1>4, LoopCalm
<1>5. ASSUME UNCHANGED vars PROVE CalmInv' /\ RealSuccess
  <2>1. UNCHANGED <<fsm, ops, req, job>>
    BY <1>5 DEF vars
  <2>2. Trailing'
    BY <2>1 DEF CalmInv, Trailing
  <2> QED BY <2>1, <2>2, ServedStep
<1> QED BY <1>1, <1>2, <1>3, <1>4, <1>5 DEF Next

\* For sequential clients, and while containers neither die on their own nor refuse to go
\* down, no step stores a state the table does not allow and none reports a start or a
\* stop as succeeded whose containers are not there or not gone, however often the
\* process is killed and whatever else fails (applyEvent, FinishForStack, resume).
THEOREM StepsLegalWhenCalm ==
    ASSUME Calm
    PROVE  Spec => StepsLegal
<1> DEFINE Inv == DispatchInv /\ OpsInv /\ SeqInv /\ CalmInv
<1>1. Init => Inv
  BY DispatchInit, OpsInit, SeqInit, CalmInit
<1>2. Inv /\ [Next]_vars => Inv'
  BY DispatchStep, OpsStep, SeqStep, CalmStep DEF Calm
<1>3. Inv /\ [Next]_vars => RealSuccess
  BY CalmStep
<1>4. Spec => LegalTransitions
  BY TransitionsLegalWhenSequential DEF Calm
<1> HIDE DEF Inv
<1>5. Spec => SuccessIsReal
  BY <1>1, <1>2, <1>3, PTL DEF Spec, SuccessIsReal, RealSuccess
<1> QED BY <1>4, <1>5 DEF StepsLegal
================================================================================

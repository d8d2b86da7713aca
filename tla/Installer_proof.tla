--------------------------- MODULE Installer_proof ---------------------------
(***************************************************************************)
(* Proofs about Installer, for any number of consoles, disks, layouts,     *)
(* enrolments and faults.                                                  *)
(*                                                                         *)
(* The invariant has these parts for each client.  Session, Stepping and   *)
(* Building say what the lock, the files and the pool look like at every   *)
(* step of a worker: who has planned anything holds the lock, and whoever  *)
(* holds it without having started finds nothing started.  Talking is the  *)
(* protocol of the pipes: at most one request and a reboot are under way,  *)
(* answered in order.  Fitting says that plans, previews and confirmations *)
(* are all taken from the one inventory of the service, so that equal sets *)
(* of disks are equal plans.  Enrolling follows the code from the secret   *)
(* on the screen to the submission.                                        *)
(***************************************************************************)
EXTENDS Installer, TLAPS

-----------------------------------------------------------------------------
(* Types.                                                                  *)

\* Types of events; no reboot is ever granted by an answer.
EventTypes == (RequestTypes \ {"reboot"}) \cup {"inventory", "complete", "failed", "error"}

\* What a form says.
Forms == [totp : BOOLEAN, code : 0 .. MaxEnroll, saved : BOOLEAN]

\* Requests and events in the pipes.
RequestRecs == [type : RequestTypes, cmd : SUBSET Disks, cfg : Forms]
EventRecs == [type : EventTypes, re : RequestTypes \cup {None}, plan : Plans, enr : 0 .. MaxEnroll]

\* The terminal program, the service and the worker of a client.
Tuis == [stage : Stages, pending : RequestTypes \cup {None}, rebooting : BOOLEAN, paused : BOOLEAN,
         shown : Plans, totp : BOOLEAN, enr : 0 .. MaxEnroll, code : 0 .. MaxEnroll, saved : BOOLEAN]
Services == [mode : {"off", "serve", "terminal", "rebooting", "closing"}, inv : Plans, planned : Plans,
             started : BOOLEAN, done : BOOLEAN, accepted : BOOLEAN, terminal : BOOLEAN, stop : BOOLEAN,
             enr : 0 .. MaxEnroll, ver : 0 .. MaxEnroll]
Steps == {"none", "start", "check", "erase!", "erase", "create!", "create", "record", "pool", "image!",
          "os", "bundle", "efi", "storage", "wait", "config!", "config", "verify!", "verify", "mark",
          "finish", "cleanup", "done"}
Workers == [pc : Steps, op : Plans, found : Plans, todo : SUBSET Disks, st : Statuses,
            sub : Submissions \cup {None}, err : BOOLEAN]

\* Files.
Runtimes == [lock : Clients \cup {None}, op : Plans, key : Clients \cup {None},
             status : Statuses \cup {None}, sub : Submissions \cup {None}, finalizing : BOOLEAN]
Pools == [op : BOOLEAN, key : Clients \cup {None}, status : Statuses \cup {None}, os : BOOLEAN,
          compose : BOOLEAN, efi : SUBSET Disks, cfg : Submissions \cup {None}, installed : BOOLEAN]

\* The variables all clients share, and those that each has.
SharedTyped ==
  /\ machine \in {"off", "media", "appliance"} /\ faults \in 0 .. MaxFaults
  /\ disk \in [Disks -> Content] /\ rt \in Runtimes /\ ps \in Pools
ConsoleTyped ==
  /\ tui \in [Clients -> Tuis] /\ in \in [Clients -> Seq(RequestRecs)]
  /\ out \in [Clients -> Seq(EventRecs)]
  /\ seen \in [Clients -> Plans] /\ held \in [Clients -> 0 .. MaxEnroll]
ServiceTyped == svc \in [Clients -> Services] /\ work \in [Clients -> Workers]
Typed == SharedTyped /\ ConsoleTyped /\ ServiceTyped

-----------------------------------------------------------------------------
(* The lock, the files and the pool.                                       *)

\* No installer runs on a machine that does not run the media.
Quiet ==
  machine # "media" =>
    /\ rt = NoRuntime
    /\ \A c \in Clients : /\ svc[c] = NoService /\ work[c] = NoWorker /\ tui[c] = NoTui
                          /\ in[c] = <<>> /\ out[c] = <<>>

\* A service that has planned or started anything holds the lock, and the files are of its plan.
Session(c) ==
  /\ svc[c].mode = "off" => svc[c] = NoService /\ work[c].pc = "none" /\ rt.lock # c
  /\ svc[c].planned # NoPlan => rt.lock = c
  /\ svc[c].done \/ svc[c].terminal \/ svc[c].accepted \/ work[c].pc # "none" => svc[c].started
  /\ svc[c].done => ~svc[c].terminal
  /\ svc[c].started => svc[c].planned # NoPlan /\ rt.op = svc[c].planned /\ rt.key = c
  /\ rt.lock = c /\ ~svc[c].started => rt.status = None /\ rt.sub = None /\ ~rt.finalizing
  /\ svc[c].planned # NoPlan /\ ~svc[c].started => ~PoolExists

\* The disks of the pool.
Pooled == {d \in Disks : disk[d] = "pool"}

\* The steps before the pool is made, and before it is complete.
Unpooled == {"start", "check", "erase!", "erase", "create!", "create"}
Complete == {"storage", "wait", "config!", "config", "verify!", "verify", "mark"}

\* The place of a worker, with its status and what it has checked.
Stepping(c) ==
  /\ Active(c) /\ work[c].pc # "start" => work[c].op = rt.op
  /\ work[c].pc \in {"start", "check", "erase!"} => rt.status = None
  /\ work[c].pc \in {"erase!", "erase", "create!", "create"} =>
       \A d \in DOMAIN work[c].op : work[c].found[d] = work[c].op[d]
  /\ work[c].pc = "erase" => work[c].todo \subseteq DOMAIN work[c].op
  /\ Active(c) => ~work[c].st.error /\ (rt.status # None => ~rt.status.error)
  /\ work[c].pc \in {"config!", "config", "verify!", "verify", "mark"} =>
       work[c].sub # None /\ work[c].sub.by = c

\* What a worker has put on the pool.
Building(c) ==
  /\ work[c].pc \in Unpooled => ~PoolExists
  /\ Active(c) /\ (work[c].st.pool \/ work[c].st.storage) => PoolExists
  /\ work[c].pc \in Steps \ (Unpooled \cup {"none", "cleanup", "done"}) => Pooled = DOMAIN work[c].op
  /\ work[c].pc \in Steps \ {"none", "finish", "cleanup", "done"} => ~ps.installed
  /\ work[c].pc = "record" => ps = NoPool
  /\ work[c].pc \in {"pool", "image!", "os", "bundle"} => ps.op /\ ps.efi = {}
  /\ work[c].pc \in {"os", "bundle"} => work[c].todo = DOMAIN work[c].op
  /\ work[c].pc \in {"image!", "os", "bundle", "efi"} \cup Complete => ps.op /\ ps.key = c
  /\ work[c].pc = "bundle" => ps.os
  /\ work[c].pc \in {"efi"} \cup Complete => ps.os /\ ps.compose
  /\ work[c].pc = "efi" => /\ work[c].todo # {} /\ work[c].todo \subseteq DOMAIN work[c].op
                           /\ ps.efi = DOMAIN work[c].op \ work[c].todo
  /\ work[c].pc \in Complete => ps.efi = DOMAIN work[c].op
  /\ work[c].pc = "mark" => ps.cfg = work[c].sub

\* The pool by itself, and the files that belong together.
Stored ==
  /\ ~PoolExists => ps = NoPool
  /\ ps.compose => ps.op
  /\ rt.op = NoPlan => rt.sub = None /\ ~rt.finalizing
  /\ rt.finalizing /\ rt.status # None => ~rt.status.error
  /\ InstalledWhole

Working == Stored /\ \A c \in Clients : Session(c) /\ Stepping(c) /\ Building(c)

-----------------------------------------------------------------------------
(* The pipes.                                                              *)

\* A console that reads its pipe.
Open(c) == c \in Screens /\ tui[c].stage \notin {"off", "start", "killed", "exited"}

\* An event answers what it says, and unasked events are of their own types.
Answering(c) ==
  \A i \in DOMAIN out[c] :
    IF out[c][i].re = None THEN out[c][i].type \in {"inventory", "complete", "failed"}
                           ELSE out[c][i].type \in {"error", out[c][i].re}

\* One request is under way, and a reboot after it.
Requesting(c) ==
  /\ Len(in[c]) <= 2
  /\ in[c] # <<>> => in[c][Len(in[c])].type = tui[c].pending
  /\ Len(in[c]) = 2 => tui[c].pending = "reboot" /\ in[c][1].type # "reboot"
  /\ tui[c].pending = "reboot" => tui[c].rebooting

\* The answer to the last request is the last one, and one other may precede it.
Replying(c) ==
  \A i \in DOMAIN out[c] : out[c][i].re # None =>
    IF out[c][i].re = tui[c].pending
    THEN in[c] = <<>> /\ \A j \in DOMAIN out[c] : j > i => out[c][j].re = None
    ELSE /\ tui[c].pending = "reboot" /\ Len(in[c]) <= 1
         /\ \A j \in DOMAIN out[c] : j # i => out[c][j].re \in {None, "reboot"}

\* At most one unasked event is under way: the first one, or the outcome.
Telling(c) ==
  /\ \A i, j \in DOMAIN out[c] : out[c][i].re = None /\ out[c][j].re = None => i = j
  /\ svc[c].mode # "off" =>
       \A i \in DOMAIN out[c] : out[c][i].re = None =>
         ~svc[c].done /\ (~svc[c].started => tui[c].stage = "connecting")
  /\ tui[c].stage = "connecting" =>
       /\ svc[c].mode # "off" => ~svc[c].started
       /\ \A i \in DOMAIN in[c] : in[c][i].type = "reboot"
       /\ \A i \in DOMAIN out[c] : out[c][i].re \in {None, "reboot"}

\* How much is in the two pipes of a client.
Load(s, t) == Len(s) + Len(t)

\* Nobody reads, or the driver does, which answers an event with at most one request.
Counted(c) ==
  /\ c \in Screens => /\ Len(in[c]) <= 2 /\ Load(in[c], out[c]) <= 3
                      /\ svc[c].mode # "off" /\ ~svc[c].terminal => Load(in[c], out[c]) <= 2
  /\ c \notin Screens => /\ Load(in[c], out[c]) <= 2
                         /\ svc[c].mode # "off" /\ ~svc[c].terminal => Load(in[c], out[c]) <= 1

\* The stages a console is in before and after its session; a reboot is done before it is answered.
Staged(c) ==
  /\ tui[c].stage \in {"off", "start", "killed"} => tui[c] = [NoTui EXCEPT !.stage = tui[c].stage]
  /\ tui[c].stage \in {"off", "start"} => svc[c].mode = "off"
  /\ c \in Screens /\ tui[c].stage = "exited" => svc[c].mode = "off"
  /\ c \notin Screens => tui[c].stage \in {"off", "start", "connecting", "exited"} /\ ~tui[c].saved
                         /\ tui[c].shown = NoPlan
  /\ svc[c].mode = "rebooting" => in[c] # <<>>

Talking(c) ==
  /\ Answering(c) /\ Staged(c)
  /\ IF Open(c) THEN Requesting(c) /\ Replying(c) /\ Telling(c) ELSE Counted(c)

-----------------------------------------------------------------------------
(* The plans.                                                              *)

\* A plan is a part of an inventory.
Part(plan, inv) == plan = [d \in DOMAIN plan |-> inv[d]]

\* Everything is taken from the inventory of the service, and what was started is what was seen.
Fitting(c) ==
  svc[c].mode # "off" =>
    /\ svc[c].mode = "serve" \/ svc[c].inv # NoPlan => DOMAIN svc[c].inv = Disks
    /\ Part(svc[c].planned, svc[c].inv) /\ Part(seen[c], svc[c].inv) /\ Part(tui[c].shown, svc[c].inv)
    /\ \A i \in DOMAIN out[c] : out[c][i].type = "preview" =>
         Part(out[c][i].plan, svc[c].inv) /\ ((c \in Screens => Open(c)) => ~svc[c].started)
    /\ \A i \in DOMAIN in[c] : in[c][i].type = "confirm" =>
         in[c][i].cmd = DOMAIN seen[c] /\ (Open(c) => tui[c].shown = seen[c])
    /\ svc[c].started => seen[c] = svc[c].planned /\ (Open(c) => tui[c].shown = seen[c])

-----------------------------------------------------------------------------
(* The account.                                                            *)

\* A console that is past its enrolment.
Settled(c) ==
  /\ tui[c].stage \notin {"totp", "codes"}
  /\ Open(c) => \A i \in DOMAIN out[c] : out[c][i].type \notin {"enroll", "verify-totp"}

\* What is saved is the secret of the code that was entered.
Enrolling(c) ==
  /\ tui[c].enr # 0 => tui[c].code \in {0, tui[c].enr}
  /\ tui[c].stage \in {"totp", "codes"} => ~tui[c].saved
  /\ tui[c].saved /\ tui[c].enr # 0 /\ tui[c].code # 0 => held[c] = tui[c].code
  /\ \A i \in DOMAIN in[c] : in[c][i].type = "configure" =>
       /\ in[c][i].cfg.saved /\ in[c][i].cfg.code # 0 => held[c] = in[c][i].cfg.code
       /\ tui[c].stage \notin {"totp", "codes"}
  /\ svc[c].ver \in {0, svc[c].enr}

\* The submission that is there was the last one of its console.
Submitted ==
  rt.sub # None =>
    /\ ~FormsOpen(rt.sub.by) /\ Settled(rt.sub.by)
    /\ rt.sub.totp # 0 => held[rt.sub.by] = rt.sub.totp

-----------------------------------------------------------------------------
(* The inductive invariant.                                                *)
Talks == \A c \in Clients : Talking(c)
Fits == \A c \in Clients : Fitting(c)
Enrolls == Submitted /\ \A c \in Clients : Enrolling(c)
Inv == Typed /\ Quiet /\ Working /\ Talks /\ Fits /\ Enrolls

-----------------------------------------------------------------------------
(* Plans and types.                                                        *)

\* A plan is a function from some disks to what was found on them.
LEMMA PlansAre ==
  ASSUME NEW p
  PROVE  p \in Plans <=> DOMAIN p \subseteq Disks /\ p \in [DOMAIN p -> Content]
BY DEF Plans

\* The plan of no disks is the only one of its kind.
LEMMA EmptyPlan ==
  ASSUME NEW p \in Plans, DOMAIN p = {}
  PROVE  p = NoPlan
<1>1. p \in [{} -> Content] BY PlansAre
<1> QED BY <1>1 DEF NoPlan

\* The empty plan.
LEMMA NoPlanIsPlan == NoPlan \in Plans /\ DOMAIN NoPlan = {}
BY PlansAre DEF NoPlan

\* What the disks hold is a plan, and a part of a plan is one.
LEMMA DiskIsPlan ==
  ASSUME NEW p \in [Disks -> Content]
  PROVE  p \in Plans
BY PlansAre

\* A part of an inventory is a plan.
LEMMA PartIsPlan ==
  ASSUME NEW inv \in [Disks -> Content], NEW S \in SUBSET Disks
  PROVE  [d \in S |-> inv[d]] \in Plans
BY PlansAre

\* Parts of one inventory with the same disks are the same.
LEMMA PartsEqual ==
  ASSUME NEW p, NEW q, NEW inv, Part(p, inv), Part(q, inv), DOMAIN p = DOMAIN q
  PROVE  p = q
BY DEF Part

\* The empty plan is a part of every inventory.
LEMMA PartOfNothing ==
  ASSUME NEW inv
  PROVE  Part(NoPlan, inv)
BY DEF Part, NoPlan

\* A plan made from an inventory is a part of it.
LEMMA PartOf ==
  ASSUME NEW inv, NEW S
  PROVE  Part([d \in S |-> inv[d]], inv) /\ DOMAIN [d \in S |-> inv[d]] = S
BY DEF Part

-----------------------------------------------------------------------------
(* Pipes.                                                                  *)

\* What Append does.
LEMMA Appended ==
  ASSUME NEW S, NEW s \in Seq(S), NEW e \in S
  PROVE  /\ Append(s, e) \in Seq(S) /\ Append(s, e) # <<>>
         /\ Len(s) \in Nat /\ Len(Append(s, e)) = Len(s) + 1
         /\ Append(s, e)[Len(s) + 1] = e /\ Len(s) + 1 \in DOMAIN Append(s, e)
         /\ \A i \in DOMAIN s : i \in DOMAIN Append(s, e) /\ Append(s, e)[i] = s[i] /\ i # Len(s) + 1
                               /\ i < Len(s) + 1
         /\ \A i \in DOMAIN Append(s, e) : i = Len(s) + 1 \/ i \in DOMAIN s
         /\ s = <<>> => Append(s, e)[1] = e
OBVIOUS

\* What Head and Tail do.
LEMMA Taken ==
  ASSUME NEW S, NEW s \in Seq(S), s # <<>>
  PROVE  /\ Head(s) \in S /\ Head(s) = s[1] /\ 1 \in DOMAIN s
         /\ Tail(s) \in Seq(S) /\ Len(s) \in Nat /\ Len(Tail(s)) = Len(s) - 1
         /\ \A i \in DOMAIN Tail(s) : i \in Nat /\ i + 1 \in DOMAIN s /\ Tail(s)[i] = s[i + 1]
OBVIOUS

\* Lengths.
LEMMA Lengths ==
  ASSUME NEW S, NEW s \in Seq(S)
  PROVE  /\ Len(s) \in Nat /\ (s = <<>> <=> Len(s) = 0) /\ (s # <<>> => Len(s) >= 1 /\ Len(s) \in DOMAIN s)
         /\ Len(s) = 1 => DOMAIN s = {1}
         /\ \A i : i \in DOMAIN s <=> i \in Nat /\ 1 <= i /\ i <= Len(s)
OBVIOUS

\* Numbers up to two.
LEMMA UpToTwo ==
  ASSUME NEW n \in Nat, n <= 2
  PROVE  (n = 0 \/ n = 1 \/ n = 2) /\ (n # 2 => n <= 1)
OBVIOUS

\* Loads.
LEMMA Loaded ==
  ASSUME NEW S, NEW T, NEW s \in Seq(S), NEW t \in Seq(T)
  PROVE  /\ Load(s, t) \in Nat /\ Len(s) \in Nat /\ Len(t) \in Nat
         /\ Len(s) <= Load(s, t) /\ Len(t) <= Load(s, t)
         /\ Load(s, <<>>) = Len(s) /\ Load(<<>>, t) = Len(t)
         /\ Load(s, <<>>) <= Load(s, t) /\ Load(<<>>, t) <= Load(s, t)
         /\ \A e \in T : Load(s, Append(t, e)) = Load(s, t) + 1
         /\ s # <<>> => \A e \in T : Load(Tail(s), Append(t, e)) = Load(s, t)
         /\ t # <<>> => /\ Load(s, Tail(t)) <= Load(s, t)
                       /\ \A e \in S : Load(Append(s, e), Tail(t)) = Load(s, t)
<1>1. /\ Load(s, t) \in Nat /\ Len(s) \in Nat /\ Len(t) \in Nat
      /\ Len(s) <= Load(s, t) /\ Len(t) <= Load(s, t)
      /\ Load(s, <<>>) = Len(s) /\ Load(<<>>, t) = Len(t)
      /\ Load(s, <<>>) <= Load(s, t) /\ Load(<<>>, t) <= Load(s, t)
  BY DEF Load
<1>2. ASSUME NEW e \in T
      PROVE  Load(s, Append(t, e)) = Load(s, t) + 1 /\ (s # <<>> => Load(Tail(s), Append(t, e)) = Load(s, t))
  <2>1. Len(Append(t, e)) = Len(t) + 1 BY Appended
  <2>2. s # <<>> => Len(Tail(s)) = Len(s) - 1 BY Taken
  <2>3. Len(s) \in Nat /\ Len(t) \in Nat OBVIOUS
  <2>4. Load(s, Append(t, e)) = Len(s) + Len(Append(t, e)) BY DEF Load
  <2>5. Load(Tail(s), Append(t, e)) = Len(Tail(s)) + Len(Append(t, e)) BY DEF Load
  <2>6. Load(s, t) = Len(s) + Len(t) BY DEF Load
  <2>7. Load(s, Append(t, e)) = Load(s, t) + 1 BY <2>1, <2>3, <2>4, <2>6
  <2>8. s # <<>> => Load(Tail(s), Append(t, e)) = Load(s, t) BY <2>1, <2>2, <2>3, <2>5, <2>6
  <2> QED BY <2>7, <2>8
<1>3. ASSUME t # <<>>
      PROVE  Load(s, Tail(t)) <= Load(s, t) /\ \A e \in S : Load(Append(s, e), Tail(t)) = Load(s, t)
  BY <1>3 DEF Load
<1> QED BY <1>1, <1>2, <1>3

\* Initial values have their types.
LEMMA NoneTyped ==
  /\ NoStatus \in Statuses /\ NoRuntime \in Runtimes /\ NoPool \in Pools
  /\ NoTui \in Tuis /\ NoService \in Services /\ NoWorker \in Workers
<1> USE NoPlanIsPlan, BoundsAssumption
<1>1. NoStatus \in Statuses BY DEF NoStatus, Statuses
<1>2. NoRuntime \in Runtimes BY DEF NoRuntime, Runtimes
<1>3. NoPool \in Pools BY DEF NoPool, Pools
<1>4. NoTui \in Tuis BY DEF NoTui, Tuis, Stages
<1>5. NoService \in Services BY DEF NoService, Services
<1>6. NoWorker \in Workers BY <1>1 DEF NoWorker, Workers, Steps
<1> QED BY <1>1, <1>2, <1>3, <1>4, <1>5, <1>6

\* The invariant implies the types of the model.
LEMMA InvTypes ==
  ASSUME Inv
  PROVE  TypeOK
<1>1. ASSUME NEW c \in Clients PROVE Len(in[c]) <= 2 /\ Len(out[c]) <= 3
  <2> Talking(c) /\ in[c] \in Seq(RequestRecs) /\ out[c] \in Seq(EventRecs)
    BY DEF Inv, Talks, Typed, ConsoleTyped
  <2>1. CASE Open(c)
    <3>1. Requesting(c) /\ Replying(c) /\ Telling(c) BY <2>1 DEF Talking
    <3>2. SUFFICES ASSUME Len(out[c]) > 3 PROVE FALSE
      BY <3>1 DEF Requesting
    <3>3. 1 \in DOMAIN out[c] /\ 2 \in DOMAIN out[c] /\ 3 \in DOMAIN out[c] /\ 4 \in DOMAIN out[c]
      BY <3>2
    <3>4. \A i, j \in DOMAIN out[c] : i < j /\ out[c][i].re # None /\ out[c][j].re # None =>
            out[c][j].re = "reboot" /\ out[c][i].re # "reboot"
      <4>1. SUFFICES ASSUME NEW i \in DOMAIN out[c], NEW j \in DOMAIN out[c], i < j,
                            out[c][i].re # None, out[c][j].re # None
                     PROVE  out[c][j].re = "reboot" /\ out[c][i].re # "reboot"
        OBVIOUS
      <4>2. out[c][i].re # tui[c].pending
        BY <3>1, <4>1 DEF Replying
      <4> QED BY <3>1, <4>1, <4>2 DEF Replying
    <3>5. \A i, j \in DOMAIN out[c] : out[c][i].re = None /\ out[c][j].re = None => i = j
      BY <3>1 DEF Telling
    <3> QED BY <3>3, <3>4, <3>5
  <2>2. CASE ~Open(c)
    <3>1. Counted(c) BY <2>2 DEF Talking
    <3>2. /\ Load(in[c], out[c]) \in Nat /\ Len(in[c]) \in Nat /\ Len(out[c]) \in Nat
          /\ Len(in[c]) <= Load(in[c], out[c]) /\ Len(out[c]) <= Load(in[c], out[c])
      BY Loaded
    <3>3. Load(in[c], out[c]) <= 3 /\ Len(in[c]) <= 2
      BY <3>1, <3>2 DEF Counted
    <3> QED BY <3>2, <3>3
  <2> QED BY <2>1, <2>2
<1>2. \A c \in Clients : tui[c] \in Tuis /\ svc[c] \in Services /\ work[c] \in Workers
  BY DEF Inv, Typed, ConsoleTyped, ServiceTyped
<1>3. Inv => SharedTyped /\ seen \in [Clients -> Plans] /\ held \in [Clients -> 0 .. MaxEnroll]
  BY DEF Inv, Typed, ConsoleTyped
<1> QED BY <1>1, <1>2, <1>3 DEF TypeOK, SharedTyped, Runtimes, Pools, Tuis, Services, Workers

\* A worker that erases works on what was seen.
LEMMA InvErases ==
  ASSUME Inv
  PROVE  ErasedAsConfirmed
<1>1. SUFFICES ASSUME NEW c \in Clients, work[c].pc \in {"erase!", "erase", "create!", "create"}
               PROVE  /\ work[c].op = seen[c]
                      /\ \A d \in DOMAIN seen[c] : work[c].found[d] = seen[c][d]
  BY DEF ErasedAsConfirmed
<1>2. Session(c) /\ Stepping(c) /\ Fitting(c)
  BY DEF Inv, Working, Fits
<1>3. svc[c].started /\ svc[c].mode # "off" /\ rt.op = svc[c].planned
  BY <1>1, <1>2 DEF Session
<1>4. work[c].op = rt.op
  BY <1>1, <1>2 DEF Stepping, Active
<1>5. seen[c] = svc[c].planned
  BY <1>2, <1>3 DEF Fitting
<1> QED BY <1>1, <1>2, <1>3, <1>4, <1>5 DEF Stepping

\* The other properties are parts of the invariant.
LEMMA InvRest ==
  ASSUME Inv
  PROVE  InstallationWhole /\ AccountUsable
<1>1. InstalledWhole /\ Stored /\ Submitted /\ ps \in Pools
  BY DEF Inv, Working, Stored, Enrolls, Typed, SharedTyped
<1>2. GateClosed
  BY <1>1 DEF GateClosed, Stored
<1> QED BY <1>1, <1>2 DEF InstallationWhole, AccountUsable, Submitted

-----------------------------------------------------------------------------
(* Clients by themselves.                                                  *)

\* The parts of the invariant for one client, and its types.
LEMMA InvOf ==
  ASSUME Inv, NEW c \in Clients
  PROVE  /\ Session(c) /\ Stepping(c) /\ Building(c) /\ Talking(c) /\ Fitting(c) /\ Enrolling(c)
         /\ tui[c] \in Tuis /\ svc[c] \in Services /\ work[c] \in Workers /\ seen[c] \in Plans
         /\ in[c] \in Seq(RequestRecs) /\ out[c] \in Seq(EventRecs) /\ held[c] \in 0 .. MaxEnroll
BY DEF Inv, Working, Talks, Fits, Enrolls, Typed, ConsoleTyped, ServiceTyped

\* The parts for all of them.
LEMMA InvAll ==
  ASSUME Inv
  PROVE  Stored /\ Submitted /\ Quiet /\ SharedTyped /\ rt \in Runtimes /\ ps \in Pools
BY DEF Inv, Working, Enrolls, Typed, SharedTyped

\* A client that does anything does it on the media.
LEMMA OnMedia ==
  ASSUME Inv, NEW c \in Clients,
         \/ svc[c].mode # "off" \/ tui[c].stage # "off" \/ in[c] # <<>> \/ out[c] # <<>>
         \/ work[c].pc # "none"
  PROVE  machine = "media"
BY InvAll DEF Quiet, NoService, NoTui, NoWorker

\* Only one client has a plan, or a worker.
LEMMA Alone ==
  ASSUME Inv, NEW c \in Clients, rt.lock = c, NEW o \in Clients, o # c
  PROVE  /\ svc[o].planned = NoPlan /\ ~svc[o].started /\ work[o].pc = "none" /\ rt.lock # o
         /\ ~svc[o].done /\ ~svc[o].terminal /\ ~svc[o].accepted
BY InvOf DEF Session

\* A worker's client has the lock, and the files are of its plan.
LEMMA WorkerHolds ==
  ASSUME Inv, NEW c \in Clients, work[c].pc # "none"
  PROVE  /\ rt.lock = c /\ svc[c].started /\ svc[c].mode # "off" /\ svc[c].planned # NoPlan
         /\ rt.op = svc[c].planned /\ rt.key = c /\ rt.op # NoPlan /\ DOMAIN rt.op # {}
<1>1. Session(c) /\ svc[c] \in Services BY InvOf
<1>2. svc[c].started /\ svc[c].planned # NoPlan /\ rt.lock = c BY <1>1 DEF Session
<1>3. rt.op = svc[c].planned /\ rt.key = c /\ svc[c].mode # "off"
  BY <1>1, <1>2 DEF Session, NoService
<1>4. svc[c].planned \in Plans BY <1>1 DEF Services
<1> QED BY <1>2, <1>3, <1>4, EmptyPlan

\* A step of a client leaves the others alone.
Local(c) ==
  \A o \in Clients \ {c} :
    /\ tui'[o] = tui[o] /\ svc'[o] = svc[o] /\ in'[o] = in[o] /\ out'[o] = out[o]
    /\ work'[o] = work[o] /\ seen'[o] = seen[o] /\ held'[o] = held[o]

\* The protocol of a client holds as long as its own variables stay.
LEMMA TalkingSame ==
  ASSUME NEW c \in Clients, Talking(c),
         tui'[c] = tui[c], svc'[c] = svc[c], in'[c] = in[c], out'[c] = out[c]
  PROVE  Talking(c)'
<1>1. Answering(c)' BY DEF Talking, Answering
<1>2. Staged(c)' BY DEF Talking, Staged, NoTui, NoPlan
<1>3. Open(c)' <=> Open(c) BY DEF Open
<1>4. CASE Open(c)
  <2>1. Requesting(c)' BY <1>4 DEF Talking, Requesting
  <2>2. Replying(c)' BY <1>4 DEF Talking, Replying
  <2>3. Telling(c)' BY <1>4 DEF Talking, Telling
  <2> QED BY <1>1, <1>2, <1>3, <1>4, <2>1, <2>2, <2>3 DEF Talking
<1>5. CASE ~Open(c)
  <2>1. Counted(c)' BY <1>5 DEF Talking, Counted
  <2> QED BY <1>1, <1>2, <1>3, <1>5, <2>1 DEF Talking
<1> QED BY <1>4, <1>5

\* So do its plans.
LEMMA FittingSame ==
  ASSUME NEW c \in Clients, Fitting(c), seen'[c] = seen[c],
         tui'[c] = tui[c], svc'[c] = svc[c], in'[c] = in[c], out'[c] = out[c]
  PROVE  Fitting(c)'
BY DEF Fitting, Open, Part, NoPlan

\* So does its enrolment.
LEMMA EnrollingSame ==
  ASSUME NEW c \in Clients, Enrolling(c), held'[c] = held[c],
         tui'[c] = tui[c], svc'[c] = svc[c], in'[c] = in[c]
  PROVE  Enrolling(c)'
BY DEF Enrolling

\* The submission holds as long as those of all clients stay.
LEMMA SubmittedSame ==
  ASSUME Submitted, rt'.sub = rt.sub, rt.sub # None => rt.sub.by \in Clients,
         \A o \in Clients : /\ tui'[o] = tui[o] /\ svc'[o] = svc[o] /\ out'[o] = out[o]
                            /\ held'[o] = held[o]
  PROVE  Submitted'
BY DEF Submitted, FormsOpen, Settled, Open

\* The submission is of a client.
LEMMA SubOf ==
  ASSUME Inv, rt.sub # None
  PROVE  rt.sub.by \in Clients /\ rt.sub.totp \in 0 .. MaxEnroll
BY InvAll DEF Runtimes, Submissions

\* When the files, the disks, the services and the workers stay as they are.
LEMMA WorkingSame ==
  ASSUME Inv, UNCHANGED <<disk, rt, ps, svc, work>>
  PROVE  Working'
<1>1. Stored /\ \A c \in Clients : Session(c) /\ Stepping(c) /\ Building(c)
  BY DEF Inv, Working
<1>2. Stored'
  BY <1>1 DEF Stored, PoolExists, NoPool, NoPlan, InstalledWhole
<1>3. ASSUME NEW c \in Clients PROVE Session(c)' /\ Stepping(c)' /\ Building(c)'
  <2>1. Session(c)' BY <1>1 DEF Session, PoolExists, NoService, NoPlan
  <2>2. Stepping(c)' BY <1>1 DEF Stepping, Active
  <2>3. Building(c)' BY <1>1 DEF Building, PoolExists, Pooled, NoPool, Active
  <2> QED BY <2>1, <2>2, <2>3
<1> QED BY <1>2, <1>3 DEF Working

\* The other clients of a step whose client has the lock.
LEMMA OthersIdle ==
  ASSUME Inv, NEW c \in Clients, rt.lock = c, rt'.lock = c, Local(c),
         NEW o \in Clients, o # c
  PROVE  Session(o)' /\ Stepping(o)' /\ Building(o)'
<1>1. /\ svc[o].planned = NoPlan /\ ~svc[o].started /\ work[o].pc = "none" /\ rt.lock # o
      /\ ~svc[o].done /\ ~svc[o].terminal /\ ~svc[o].accepted
  BY Alone
<1>2. svc'[o] = svc[o] /\ work'[o] = work[o] BY DEF Local
<1>3. Session(o) BY InvOf
<1>4. Session(o)' BY <1>1, <1>2, <1>3 DEF Session, NoPlan, NoService
<1>5. Stepping(o)' BY <1>1, <1>2 DEF Stepping, Active
<1>6. Building(o)' BY <1>1, <1>2 DEF Building, Unpooled, Complete, Active
<1> QED BY <1>4, <1>5, <1>6

-----------------------------------------------------------------------------
(* The steps of a worker.                                                  *)

\* What is left to show of one.
LEMMA WorkerStep ==
  ASSUME Inv, NEW c \in Clients, work[c].pc # "none",
         UNCHANGED <<machine, tui, svc, in, out, seen, held>>,
         rt'.lock = rt.lock, rt'.op = rt.op, rt'.key = rt.key, rt'.sub \in {rt.sub, None},
         SharedTyped', NEW w \in Workers, work' = [work EXCEPT ![c] = w],
         Stored', Stepping(c)', Building(c)'
  PROVE  Inv'
<1>1. /\ rt.lock = c /\ svc[c].started /\ svc[c].mode # "off" /\ svc[c].planned # NoPlan
      /\ rt.op = svc[c].planned /\ rt.key = c
  BY WorkerHolds
<1>2. Local(c) BY DEF Local, Inv, Typed, ServiceTyped
<1>3. Session(c)'
  BY <1>1, InvOf DEF Session, NoPlan
<1>4. Working'
  BY <1>1, <1>2, <1>3, OthersIdle DEF Working
<1>5. Typed'
  BY DEF Inv, Typed, ConsoleTyped, ServiceTyped
<1>6. Quiet'
  BY OnMedia DEF Quiet
<1>7. Talks' BY InvOf, TalkingSame DEF Talks
<1>8. Fits' BY InvOf, FittingSame DEF Fits
<1>9. Submitted'
  <2>1. CASE rt'.sub = None BY <2>1 DEF Submitted
  <2>2. CASE rt'.sub = rt.sub BY <2>2, SubOf, InvAll, SubmittedSame
  <2> QED BY <2>1, <2>2
<1>10. Enrolls' BY <1>9, InvOf, EnrollingSame DEF Enrolls
<1> QED BY <1>4, <1>5, <1>6, <1>7, <1>8, <1>10 DEF Inv

\* Nobody has a pool before it is made.
LEMMA Unmade == ~PoolExists <=> Pooled = {}
BY DEF PoolExists, Pooled

\* What a worker knows.
LEMMA WorkerKnows ==
  ASSUME Inv, NEW c \in Clients, work[c].pc # "none"
  PROVE  /\ machine = "media" /\ Stepping(c) /\ Building(c) /\ Stored /\ work[c] \in Workers
         /\ rt.lock = c /\ rt.key = c /\ rt.op # NoPlan /\ DOMAIN rt.op # {} /\ rt.op \in Plans
         /\ rt \in Runtimes /\ ps \in Pools /\ disk \in [Disks -> Content] /\ faults \in 0 .. MaxFaults
         /\ work[c].st \in Statuses
<1>1. work[c] \in Workers /\ rt \in Runtimes BY InvOf, InvAll
<1>2. rt.op \in Plans BY <1>1 DEF Runtimes
<1>3. work[c].st \in Statuses BY <1>1 DEF Workers
<1> QED BY <1>1, <1>2, <1>3, OnMedia, InvOf, InvAll, WorkerHolds DEF SharedTyped

\* The worker starts, on its operation or on an earlier status of it.
LEMMA BeginKeeps ==
  ASSUME Inv, NEW c \in Clients, Begin(c)
  PROVE  Inv'
<1>1. work[c].pc = "start" /\ work[c].pc # "none" BY DEF Begin, At
<1>2. rt.status = None BY <1>1, InvOf DEF Stepping
<1>3. \A o \in Clients \ {c} : ~Active(o)
  BY <1>1, WorkerKnows, Alone DEF Active
<1> DEFINE w == [work[c] EXCEPT !.pc = "check", !.err = FALSE, !.op = rt.op, !.st = NoStatus]
<1>4. work' = [work EXCEPT ![c] = w]
  BY <1>2, <1>3 DEF Begin, NoStatus
<1>5. w \in Workers
  BY <1>1, WorkerKnows, NoneTyped DEF Workers, Steps
<1>6. /\ work'[c].pc = "check" /\ work'[c].op = rt.op /\ ~work'[c].st.error
      /\ ~work'[c].st.pool /\ ~work'[c].st.storage
  BY <1>1, <1>4, WorkerKnows DEF Inv, Typed, ServiceTyped, Workers, NoStatus
<1>7. UNCHANGED <<disk, rt, ps>> BY DEF Begin
<1>8. Stepping(c)'
  BY <1>2, <1>6, <1>7 DEF Stepping, Active
<1>9. ~ps.installed /\ ~PoolExists
  BY <1>1, WorkerKnows DEF Building, Steps, Unpooled
<1>10. Building(c)'
  BY <1>6, <1>7, <1>9 DEF Building, Active, Unpooled, Complete, PoolExists
<1>11. Stored'
  BY <1>1, <1>7, WorkerKnows DEF Stored, PoolExists, NoPool, NoPlan, InstalledWhole
<1>12. SharedTyped' BY InvAll DEF SharedTyped, Begin, WorkOnly
<1> QED BY <1>1, <1>4, <1>5, <1>7, <1>8, <1>10, <1>11, <1>12, WorkerStep DEF Begin, WorkOnly

\* Steps that leave the files and the disks alone.
LEMMA StepInMemory ==
  ASSUME Inv, NEW c \in Clients, work[c].pc # "none",
         UNCHANGED <<machine, disk, rt, ps, tui, svc, in, out, seen, held>>, faults' \in 0 .. MaxFaults,
         NEW w \in Workers, work' = [work EXCEPT ![c] = w], Stepping(c)', Building(c)'
  PROVE  Inv'
<1>1. Stored' BY WorkerKnows DEF Stored, PoolExists, NoPool, NoPlan, InstalledWhole
<1>2. SharedTyped' BY InvAll DEF SharedTyped
<1> QED BY <1>1, <1>2, WorkerStep

\* The pool and the files after a step of a worker that changes no disk.
LEMMA StoredKept ==
  ASSUME Inv, rt.op # NoPlan, rt'.op = rt.op, rt'.finalizing /\ rt'.status # None => ~rt'.status.error,
         disk' = disk, PoolExists \/ ps' = ps, ps'.compose => ps'.op, InstalledWhole'
  PROVE  Stored'
<1>1. Stored BY InvAll
<1>2. PoolExists' <=> PoolExists BY DEF PoolExists
<1>3. ~PoolExists' => ps' = NoPool' BY <1>1, <1>2 DEF Stored, NoPool
<1> QED BY <1>1, <1>3 DEF Stored, NoPlan

\* The mark stays true when what it is about stays.
LEMMA WholeKept ==
  ASSUME Inv, disk' = disk, ps'.op = ps.op, ps'.os = ps.os, ps'.compose = ps.compose, ps'.efi = ps.efi,
         ps'.cfg = ps.cfg, ps'.installed = ps.installed, ps.installed => ps'.key = ps.key
  PROVE  InstalledWhole'
BY InvAll DEF Stored, InstalledWhole

\* Work in progress means that there is a pool.
LEMMA PoolThere ==
  ASSUME Inv, NEW c \in Clients, work[c].pc \in Steps \ (Unpooled \cup {"none", "cleanup", "done"})
  PROVE  PoolExists /\ Pooled = DOMAIN work[c].op /\ work[c].op = rt.op
<1>1. work[c].pc # "none" BY DEF Steps, Unpooled
<1>2. Pooled = DOMAIN work[c].op BY <1>1, WorkerKnows DEF Building
<1>3. work[c].op = rt.op BY <1>1, WorkerKnows DEF Stepping, Active, Unpooled
<1> QED BY <1>1, <1>2, <1>3, WorkerKnows, Unmade

\* A worker that gives up.
LEMMA ToCleanup ==
  ASSUME Inv, NEW c \in Clients, Active(c), work[c].pc # "start",
         work' = [work EXCEPT ![c].pc = "cleanup"],
         UNCHANGED disk, rt'.op = rt.op, rt'.status = rt.status
  PROVE  /\ Stepping(c)' /\ Building(c)'
         /\ \E w \in Workers : work' = [work EXCEPT ![c] = w]
<1>1. work[c].pc # "none" BY DEF Active
<1>2. Stepping(c) /\ Building(c) /\ work[c] \in Workers BY <1>1, WorkerKnows
<1>3. /\ work'[c].pc = "cleanup" /\ work'[c].op = work[c].op /\ work'[c].st = work[c].st
  BY <1>2 DEF Inv, Typed, ServiceTyped, Workers
<1>4. Stepping(c)' BY <1>2, <1>3 DEF Stepping, Active
<1>5. Building(c)' BY <1>2, <1>3 DEF Building, Active, Unpooled, Complete, PoolExists
<1>6. [work[c] EXCEPT !.pc = "cleanup"] \in Workers
  BY <1>2 DEF Workers, Steps
<1>7. work' = [work EXCEPT ![c] = [work[c] EXCEPT !.pc = "cleanup"]]
  OBVIOUS
<1> QED BY <1>4, <1>5, <1>6, <1>7

\* The worker sees that it is to stop.
LEMMA StopsKeeps ==
  ASSUME Inv, NEW c \in Clients, Stops(c)
  PROVE  Inv'
<1>1. Active(c) /\ work[c].pc # "start" /\ work[c].pc # "none"
  BY DEF Stops, StopPoints, StageNumber, Active
<1>2. UNCHANGED <<machine, disk, rt, ps, tui, svc, in, out, seen, held, faults>>
  BY DEF Stops, WorkOnly
<1>3. work' = [work EXCEPT ![c].pc = "cleanup"] BY DEF Stops, Goto
<1>4. /\ Stepping(c)' /\ Building(c)'
      /\ \E w \in Workers : work' = [work EXCEPT ![c] = w]
  BY <1>1, <1>2, <1>3, ToCleanup
<1> QED BY <1>1, <1>2, <1>4, WorkerKnows, StepInMemory

\* The worker compares the disks with the plan.
LEMMA CheckKeeps ==
  ASSUME Inv, NEW c \in Clients, Check(c)
  PROVE  Inv'
<1>1. work[c].pc = "check" /\ work[c].pc # "none" BY DEF Check, At
<1>2. UNCHANGED <<machine, disk, rt, ps, tui, svc, in, out, seen, held, faults>>
  BY DEF Check, WorkOnly
<1>3. Stepping(c) /\ Building(c) /\ work[c] \in Workers /\ disk \in Plans
  BY <1>1, WorkerKnows, DiskIsPlan
<1> DEFINE w == [work[c] EXCEPT !.found = disk,
                                !.pc = IF Revalidate(work[c].op, disk) THEN "erase!" ELSE "cleanup"]
<1>4. work' = [work EXCEPT ![c] = w] BY DEF Check
<1>5. w \in Workers BY <1>3 DEF Workers, Steps
<1>6. /\ work'[c].pc = IF Revalidate(work[c].op, disk) THEN "erase!" ELSE "cleanup"
      /\ work'[c].found = disk /\ work'[c].op = work[c].op /\ work'[c].st = work[c].st
  BY <1>3, <1>4 DEF Inv, Typed, ServiceTyped, Workers
<1>7. Stepping(c)'
  BY <1>1, <1>2, <1>3, <1>6 DEF Stepping, Active, Revalidate
<1>8. Building(c)'
  BY <1>1, <1>2, <1>3, <1>6 DEF Building, Active, Unpooled, Complete, PoolExists, Steps
<1> HIDE DEF w
<1> QED BY <1>1, <1>2, <1>4, <1>5, <1>7, <1>8, WorkerKnows, StepInMemory

\* The worker finds the submission.
LEMMA ReadSubmissionKeeps ==
  ASSUME Inv, NEW c \in Clients, ReadSubmission(c)
  PROVE  Inv'
<1>1. work[c].pc = "wait" /\ work[c].pc # "none" /\ rt.sub # None BY DEF ReadSubmission, At
<1>2. UNCHANGED <<machine, disk, rt, ps, tui, svc, in, out, seen, held, faults>>
  BY DEF ReadSubmission, WorkOnly
<1>3. /\ Stepping(c) /\ Building(c) /\ work[c] \in Workers /\ rt.sub \in Submissions \cup {None}
      /\ rt.key = c
  BY <1>1, WorkerKnows DEF Runtimes
<1> DEFINE w == [work[c] EXCEPT !.sub = rt.sub, !.pc = IF rt.sub.by = rt.key THEN "config!" ELSE "cleanup"]
<1>4. work' = [work EXCEPT ![c] = w] BY DEF ReadSubmission
<1>5. w \in Workers BY <1>3 DEF Workers, Steps
<1>6. /\ work'[c].pc = IF rt.sub.by = c THEN "config!" ELSE "cleanup"
      /\ work'[c].sub = rt.sub /\ work'[c].op = work[c].op /\ work'[c].st = work[c].st
  BY <1>3, <1>4 DEF Inv, Typed, ServiceTyped, Workers
<1>7. Stepping(c)'
  BY <1>1, <1>2, <1>3, <1>6 DEF Stepping, Active
<1>8. Building(c)'
  BY <1>1, <1>2, <1>3, <1>6 DEF Building, Active, Unpooled, Complete, PoolExists, Pooled, Steps
<1> HIDE DEF w
<1> QED BY <1>1, <1>2, <1>4, <1>5, <1>7, <1>8, WorkerKnows, StepInMemory

\* The worker logs in to the stack.
LEMMA VerifyStackKeeps ==
  ASSUME Inv, NEW c \in Clients, VerifyStack(c)
  PROVE  Inv'
<1>1. work[c].pc = "verify" /\ work[c].pc # "none" BY DEF VerifyStack, At
<1>2. UNCHANGED <<machine, disk, rt, ps, tui, svc, in, out, seen, held, faults>>
  BY DEF VerifyStack, WorkOnly
<1>3. Stepping(c) /\ Building(c) /\ work[c] \in Workers
  BY <1>1, WorkerKnows
<1> DEFINE next == IF Gate /\ ps.cfg = work[c].sub /\ ps.key = work[c].sub.by THEN "mark" ELSE "cleanup"
           w == [work[c] EXCEPT !.pc = next]
<1>4. work' = [work EXCEPT ![c] = w] BY DEF VerifyStack, Goto
<1>5. w \in Workers BY <1>3 DEF Workers, Steps
<1>6. /\ work'[c].pc = next
      /\ work'[c].sub = work[c].sub /\ work'[c].op = work[c].op /\ work'[c].st = work[c].st
  BY <1>3, <1>4 DEF Inv, Typed, ServiceTyped, Workers
<1>7. Stepping(c)'
  BY <1>1, <1>2, <1>3, <1>6 DEF Stepping, Active
<1>8. Building(c)'
  BY <1>1, <1>2, <1>3, <1>6 DEF Building, Active, Unpooled, Complete, PoolExists, Pooled, Steps
<1> HIDE DEF w
<1> QED BY <1>1, <1>2, <1>4, <1>5, <1>7, <1>8, WorkerKnows, StepInMemory

\* Types after a change of single fields.
LEMMA FilesTyped ==
  ASSUME Inv
  PROVE  /\ \A st \in Statuses : [rt EXCEPT !.status = st] \in Runtimes /\ [ps EXCEPT !.status = st] \in Pools
         /\ rt \in Runtimes /\ ps \in Pools
BY InvAll DEF Runtimes, Pools

\* A stage begins.
LEMMA phaseKeeps ==
  ASSUME Inv, NEW c \in Clients, phase(c)
  PROVE  Inv'
<1>1. work[c].pc \in {"erase!", "create!", "image!", "config!", "verify!"} /\ work[c].pc # "none"
  BY DEF phase, StageNumber
<1>2. UNCHANGED <<machine, disk, tui, svc, in, out, seen, held, faults>>
  BY DEF phase, WorkOnly
<1>3. /\ Stepping(c) /\ Building(c) /\ work[c] \in Workers /\ work[c].st \in Statuses
      /\ rt.op \in Plans /\ rt.op # NoPlan /\ DOMAIN rt.op # {}
  BY <1>1, WorkerKnows
<1>4. work[c].op = rt.op /\ DOMAIN work[c].op \subseteq Disks
  BY <1>1, <1>3, PlansAre DEF Stepping, Active
<1> DEFINE n == StageNumber[work[c].pc]
           st == [work[c].st EXCEPT !.phase = n, !.error = FALSE]
           next == StageBody[work[c].pc]
           w == [work[c] EXCEPT !.st = st, !.pc = next, !.todo = DOMAIN work[c].op]
<1>5. n \in 0 .. 5 BY <1>1 DEF StageNumber
<1>6. /\ work[c].pc = "erase!" => next = "erase"
      /\ work[c].pc = "create!" => next = "create"
      /\ work[c].pc = "image!" => next = "os"
      /\ work[c].pc = "config!" => next = "config"
      /\ work[c].pc = "verify!" => next = "verify"
  BY <1>1 DEF StageBody, StageNumber
<1>7. work' = [work EXCEPT ![c] = w] /\ saveStatus(st) BY DEF phase
<1> HIDE DEF next, n
<1>8. /\ st \in Statuses /\ ~st.error /\ st.pool = work[c].st.pool /\ st.storage = work[c].st.storage
  BY <1>3, <1>5 DEF Statuses
<1> HIDE DEF st
<1>9. w \in Workers
  <2>1. next \in Steps BY <1>1, <1>6 DEF Steps
  <2> QED BY <1>3, <1>4, <1>8, <2>1 DEF Workers
<1>10. /\ work'[c].pc = next /\ work'[c].st = st /\ work'[c].todo = DOMAIN work[c].op
       /\ work'[c].op = work[c].op /\ work'[c].found = work[c].found /\ work'[c].sub = work[c].sub
  BY <1>3, <1>7 DEF Inv, Typed, ServiceTyped, Workers
<1> HIDE DEF w
<1>11. /\ rt' = [rt EXCEPT !.status = st] /\ (ps' = ps \/ ps' = [ps EXCEPT !.status = st])
       /\ (ps' # ps => st.pool \/ st.storage)
  BY <1>7 DEF saveStatus
<1>12. /\ rt'.status = st /\ rt'.op = rt.op /\ rt'.lock = rt.lock /\ rt'.key = rt.key /\ rt'.sub = rt.sub
       /\ rt' \in Runtimes /\ ps' \in Pools
       /\ ps'.op = ps.op /\ ps'.os = ps.os /\ ps'.compose = ps.compose /\ ps'.efi = ps.efi
       /\ ps'.cfg = ps.cfg /\ ps'.installed = ps.installed /\ ps'.key = ps.key
  BY <1>8, <1>11, FilesTyped DEF Runtimes, Pools
<1>13. PoolExists \/ ps' = ps
  BY <1>1, <1>3, <1>8, <1>11 DEF Building, Active
<1>14. Stepping(c)'
  BY <1>1, <1>3, <1>4, <1>6, <1>8, <1>10, <1>12 DEF Stepping, Active
<1>15. Building(c)'
  BY <1>1, <1>2, <1>3, <1>6, <1>8, <1>10, <1>12
     DEF Building, Active, Unpooled, Complete, PoolExists, Pooled, Steps
<1>16. Stored'
  <2>1. InstalledWhole' BY <1>2, <1>12, WholeKept
  <2>2. ps'.compose => ps'.op BY <1>12, InvAll DEF Stored
  <2> QED BY <1>2, <1>3, <1>8, <1>12, <1>13, <2>1, <2>2, StoredKept
<1>17. SharedTyped' BY <1>2, <1>12, InvAll DEF SharedTyped
<1> QED BY <1>1, <1>2, <1>7, <1>9, <1>12, <1>14, <1>15, <1>16, <1>17, WorkerStep

\* One disk is wiped.
LEMMA EraseKeeps ==
  ASSUME Inv, NEW c \in Clients, NEW d \in Disks, Erase(c, d)
  PROVE  Inv'
<1>1. work[c].pc = "erase" /\ work[c].pc # "none" BY DEF Erase, At
<1>2. UNCHANGED <<machine, rt, ps, tui, svc, in, out, seen, held, faults>>
  BY DEF Erase, WorkOnly
<1>3. /\ Stepping(c) /\ Building(c) /\ Stored /\ work[c] \in Workers /\ disk \in [Disks -> Content]
  BY <1>1, WorkerKnows
<1> DEFINE w == [work[c] EXCEPT !.todo = @ \ {d}, !.pc = IF work[c].todo = {d} THEN "create!" ELSE @]
<1>4. work' = [work EXCEPT ![c] = w] /\ disk' = [disk EXCEPT ![d] = "blank"] BY DEF Erase
<1>5. w \in Workers BY <1>1, <1>3 DEF Workers, Steps
<1>6. /\ work'[c].pc \in {"erase", "create!"} /\ work'[c].todo \subseteq work[c].todo
      /\ work'[c].op = work[c].op /\ work'[c].st = work[c].st /\ work'[c].found = work[c].found
  BY <1>1, <1>3, <1>4 DEF Inv, Typed, ServiceTyped, Workers
<1>7. ~PoolExists /\ ~PoolExists' /\ ps = NoPool /\ ~ps.installed
  BY <1>1, <1>3, <1>4 DEF Building, PoolExists, Stored, Unpooled, NoPool
<1>8. Stepping(c)'
  BY <1>1, <1>2, <1>3, <1>6 DEF Stepping, Active
<1>9. Building(c)'
  BY <1>1, <1>2, <1>3, <1>6, <1>7 DEF Building, Active, Unpooled, Complete, Steps
<1>10. Stored'
  BY <1>2, <1>3, <1>7 DEF Stored, NoPool, NoPlan, InstalledWhole
<1>11. SharedTyped'
  BY <1>2, <1>3, <1>4, InvAll DEF SharedTyped, Content
<1> HIDE DEF w
<1> QED BY <1>1, <1>2, <1>4, <1>5, <1>8, <1>9, <1>10, <1>11, WorkerStep

\* The pool is made of the disks of the plan.
LEMMA CreatePoolKeeps ==
  ASSUME Inv, NEW c \in Clients, CreatePool(c)
  PROVE  Inv'
<1>1. work[c].pc = "create" /\ work[c].pc # "none" /\ ~PoolExists BY DEF CreatePool, At
<1>2. UNCHANGED <<machine, rt, ps, tui, svc, in, out, seen, held, faults>>
  BY DEF CreatePool, WorkOnly
<1>3. /\ Stepping(c) /\ Building(c) /\ Stored /\ work[c] \in Workers /\ disk \in [Disks -> Content]
      /\ DOMAIN rt.op # {} /\ rt.op \in Plans
  BY <1>1, WorkerKnows
<1> DEFINE w == [work[c] EXCEPT !.pc = "record", !.found = NoPlan]
<1>4. /\ work' = [work EXCEPT ![c] = w]
      /\ disk' = [d \in Disks |-> IF d \in DOMAIN work[c].op THEN "pool" ELSE disk[d]]
  BY DEF CreatePool
<1>5. w \in Workers BY <1>1, <1>3, NoPlanIsPlan DEF Workers, Steps
<1>6. /\ work'[c].pc = "record" /\ work'[c].op = work[c].op /\ work'[c].st = work[c].st
  BY <1>1, <1>3, <1>4 DEF Inv, Typed, ServiceTyped, Workers
<1>7. ps = NoPool /\ ~ps.installed
  BY <1>1, <1>3, <1>4 DEF Stored, NoPool
<1>8. work[c].op = rt.op /\ DOMAIN rt.op \subseteq Disks
  BY <1>1, <1>3, PlansAre DEF Stepping, Active
<1>9. Pooled' = DOMAIN rt.op
  BY <1>1, <1>3, <1>4, <1>8 DEF Pooled, PoolExists
<1>10. PoolExists'
  BY <1>3, <1>9 DEF Pooled, PoolExists
<1>11. Stepping(c)'
  BY <1>1, <1>2, <1>3, <1>6 DEF Stepping, Active
<1>12. Building(c)'
  BY <1>2, <1>3, <1>6, <1>7, <1>8, <1>9, <1>10 DEF Building, Active, Unpooled, Complete, Steps, NoPool
<1>13. Stored'
  BY <1>2, <1>3, <1>7, <1>10 DEF Stored, NoPool, NoPlan, InstalledWhole
<1>14. SharedTyped'
  BY <1>2, <1>3, <1>4, InvAll DEF SharedTyped, Content
<1> HIDE DEF w
<1> QED BY <1>1, <1>2, <1>4, <1>5, <1>11, <1>12, <1>13, <1>14, WorkerStep

\* The operation is recorded on the pool.
LEMMA RecordKeeps ==
  ASSUME Inv, NEW c \in Clients, Record(c)
  PROVE  Inv'
<1>1. work[c].pc = "record" /\ work[c].pc # "none" BY DEF Record, At
<1>2. UNCHANGED <<machine, disk, rt, tui, svc, in, out, seen, held, faults>>
  BY DEF Record, WorkOnly
<1>3. /\ Stepping(c) /\ Building(c) /\ Stored /\ work[c] \in Workers /\ work[c].st \in Statuses
      /\ rt \in Runtimes /\ ps \in Pools /\ rt.key = c /\ rt.op # NoPlan /\ DOMAIN rt.op # {}
      /\ rt.op \in Plans
  BY <1>1, WorkerKnows
<1>4. PoolExists /\ Pooled = DOMAIN work[c].op /\ work[c].op = rt.op /\ DOMAIN rt.op \subseteq Disks
  BY <1>1, <1>3, PoolThere, PlansAre DEF Steps, Unpooled
<1> DEFINE w == [work[c] EXCEPT !.pc = "pool"]
<1>6. work' = [work EXCEPT ![c] = w] BY DEF Record, Goto
<1>7. w \in Workers BY <1>1, <1>3 DEF Workers, Steps
<1>8. /\ work'[c].pc = "pool" /\ work'[c].op = work[c].op /\ work'[c].st = work[c].st
      /\ work'[c].sub = work[c].sub
  BY <1>1, <1>3, <1>6 DEF Inv, Typed, ServiceTyped, Workers
<1> HIDE DEF w
<1>9. /\ rt' = rt /\ ps'.op /\ ps'.key = ps.key /\ ps'.os = ps.os /\ ps'.compose = ps.compose
      /\ ps'.efi = ps.efi /\ ps'.cfg = ps.cfg /\ ps'.installed = ps.installed
  BY <1>1, <1>3 DEF Record, Runtimes, Pools
<1>10. rt' \in Runtimes /\ ps' \in Pools
  BY <1>1, <1>2, <1>3 DEF Record, Runtimes, Pools
<1>11. Stepping(c)'
  BY <1>1, <1>2, <1>3, <1>4, <1>8, <1>9 DEF Stepping, Active
<1>12. Building(c)'
  BY <1>1, <1>2, <1>3, <1>4, <1>8, <1>9 DEF Building, Active, Unpooled, Complete, PoolExists, Pooled,
     Steps, NoPool
<1>13. Stored'
  <2>1. InstalledWhole' 
    BY <1>1, <1>3, <1>9 DEF InstalledWhole, Building, Complete, Steps
  <2>2. ps'.compose => ps'.op BY <1>1, <1>3, <1>9 DEF Stored, Building, Complete, NoPool
  <2>3. rt'.finalizing /\ rt'.status # None => ~rt'.status.error
    BY <1>1, <1>2, <1>3, <1>9 DEF Stored, Stepping, Active
  <2> QED BY <1>2, <1>3, <1>4, <1>9, <2>1, <2>2, <2>3, StoredKept
<1>14. SharedTyped' BY <1>2, <1>10, InvAll DEF SharedTyped
<1> QED BY <1>1, <1>2, <1>6, <1>7, <1>9, <1>11, <1>12, <1>13, <1>14, WorkerStep

\* The system is put on the pool.
LEMMA InstallOSKeeps ==
  ASSUME Inv, NEW c \in Clients, InstallOS(c)
  PROVE  Inv'
<1>1. work[c].pc = "os" /\ work[c].pc # "none" BY DEF InstallOS, At
<1>2. UNCHANGED <<machine, disk, rt, tui, svc, in, out, seen, held, faults>>
  BY DEF InstallOS, WorkOnly
<1>3. /\ Stepping(c) /\ Building(c) /\ Stored /\ work[c] \in Workers /\ work[c].st \in Statuses
      /\ rt \in Runtimes /\ ps \in Pools /\ rt.key = c /\ rt.op # NoPlan /\ DOMAIN rt.op # {}
      /\ rt.op \in Plans
  BY <1>1, WorkerKnows
<1>4. PoolExists /\ Pooled = DOMAIN work[c].op /\ work[c].op = rt.op /\ DOMAIN rt.op \subseteq Disks
  BY <1>1, <1>3, PoolThere, PlansAre DEF Steps, Unpooled
<1> DEFINE w == [work[c] EXCEPT !.pc = "bundle"]
<1>6. work' = [work EXCEPT ![c] = w] BY DEF InstallOS, Goto
<1>7. w \in Workers BY <1>1, <1>3 DEF Workers, Steps
<1>8. /\ work'[c].pc = "bundle" /\ work'[c].op = work[c].op /\ work'[c].st = work[c].st
      /\ work'[c].sub = work[c].sub /\ work'[c].todo = work[c].todo
  BY <1>1, <1>3, <1>6 DEF Inv, Typed, ServiceTyped, Workers
<1> HIDE DEF w
<1>9. /\ rt' = rt /\ ps'.os /\ ps'.op = ps.op /\ ps'.key = ps.key /\ ps'.compose = ps.compose
      /\ ps'.efi = ps.efi /\ ps'.cfg = ps.cfg /\ ps'.installed = ps.installed
  BY <1>1, <1>3 DEF InstallOS, Runtimes, Pools
<1>10. rt' \in Runtimes /\ ps' \in Pools
  BY <1>1, <1>2, <1>3 DEF InstallOS, Runtimes, Pools
<1>11. Stepping(c)'
  BY <1>1, <1>2, <1>3, <1>4, <1>8, <1>9 DEF Stepping, Active
<1>12. Building(c)'
  BY <1>1, <1>2, <1>3, <1>4, <1>8, <1>9 DEF Building, Active, Unpooled, Complete, PoolExists, Pooled, Steps
<1>13. Stored'
  <2>1. InstalledWhole' 
    BY <1>1, <1>3, <1>9 DEF InstalledWhole, Building, Complete, Steps
  <2>2. ps'.compose => ps'.op BY <1>1, <1>3, <1>9 DEF Stored, Building, Complete
  <2>3. rt'.finalizing /\ rt'.status # None => ~rt'.status.error
    BY <1>1, <1>2, <1>3, <1>9 DEF Stored, Stepping, Active
  <2> QED BY <1>2, <1>3, <1>4, <1>9, <2>1, <2>2, <2>3, StoredKept
<1>14. SharedTyped' BY <1>2, <1>10, InvAll DEF SharedTyped
<1> QED BY <1>1, <1>2, <1>6, <1>7, <1>9, <1>11, <1>12, <1>13, <1>14, WorkerStep

\* The images are put on the pool.
LEMMA InstallBundleKeeps ==
  ASSUME Inv, NEW c \in Clients, InstallBundle(c)
  PROVE  Inv'
<1>1. work[c].pc = "bundle" /\ work[c].pc # "none" BY DEF InstallBundle, At
<1>2. UNCHANGED <<machine, disk, rt, tui, svc, in, out, seen, held, faults>>
  BY DEF InstallBundle, WorkOnly
<1>3. /\ Stepping(c) /\ Building(c) /\ Stored /\ work[c] \in Workers /\ work[c].st \in Statuses
      /\ rt \in Runtimes /\ ps \in Pools /\ rt.key = c /\ rt.op # NoPlan /\ DOMAIN rt.op # {}
      /\ rt.op \in Plans
  BY <1>1, WorkerKnows
<1>4. PoolExists /\ Pooled = DOMAIN work[c].op /\ work[c].op = rt.op /\ DOMAIN rt.op \subseteq Disks
  BY <1>1, <1>3, PoolThere, PlansAre DEF Steps, Unpooled
<1> DEFINE w == [work[c] EXCEPT !.pc = "efi"]
<1>6. work' = [work EXCEPT ![c] = w] BY DEF InstallBundle, Goto
<1>7. w \in Workers BY <1>1, <1>3 DEF Workers, Steps
<1>8. /\ work'[c].pc = "efi" /\ work'[c].op = work[c].op /\ work'[c].st = work[c].st
      /\ work'[c].sub = work[c].sub /\ work'[c].todo = work[c].todo
  BY <1>1, <1>3, <1>6 DEF Inv, Typed, ServiceTyped, Workers
<1> HIDE DEF w
<1>9. /\ rt' = rt /\ ps'.compose /\ ps'.op = ps.op /\ ps'.key = ps.key /\ ps'.os = ps.os
      /\ ps'.efi = ps.efi /\ ps'.cfg = ps.cfg /\ ps'.installed = ps.installed
  BY <1>1, <1>3 DEF InstallBundle, Runtimes, Pools
<1>10. rt' \in Runtimes /\ ps' \in Pools
  BY <1>1, <1>2, <1>3 DEF InstallBundle, Runtimes, Pools
<1>11. Stepping(c)'
  BY <1>1, <1>2, <1>3, <1>4, <1>8, <1>9 DEF Stepping, Active
<1>12. Building(c)'
  BY <1>1, <1>2, <1>3, <1>4, <1>8, <1>9 DEF Building, Active, Unpooled, Complete, PoolExists, Pooled, Steps
<1>13. Stored'
  <2>1. InstalledWhole' 
    BY <1>1, <1>3, <1>9 DEF InstalledWhole, Building, Complete, Steps
  <2>2. ps'.compose => ps'.op BY <1>1, <1>3, <1>9 DEF Stored, Building, Complete
  <2>3. rt'.finalizing /\ rt'.status # None => ~rt'.status.error
    BY <1>1, <1>2, <1>3, <1>9 DEF Stored, Stepping, Active
  <2> QED BY <1>2, <1>3, <1>4, <1>9, <2>1, <2>2, <2>3, StoredKept
<1>14. SharedTyped' BY <1>2, <1>10, InvAll DEF SharedTyped
<1> QED BY <1>1, <1>2, <1>6, <1>7, <1>9, <1>11, <1>12, <1>13, <1>14, WorkerStep

\* One disk gets its boot loader.
LEMMA InstallEFIKeeps ==
  ASSUME Inv, NEW c \in Clients, NEW d \in Disks, InstallEFI(c, d)
  PROVE  Inv'
<1>1. work[c].pc = "efi" /\ work[c].pc # "none" /\ d \in work[c].todo BY DEF InstallEFI, At
<1>2. UNCHANGED <<machine, disk, rt, tui, svc, in, out, seen, held, faults>>
  BY DEF InstallEFI, WorkOnly
<1>3. /\ Stepping(c) /\ Building(c) /\ Stored /\ work[c] \in Workers /\ work[c].st \in Statuses
      /\ rt \in Runtimes /\ ps \in Pools /\ rt.key = c /\ rt.op # NoPlan /\ DOMAIN rt.op # {}
      /\ rt.op \in Plans
  BY <1>1, WorkerKnows
<1>4. PoolExists /\ Pooled = DOMAIN work[c].op /\ work[c].op = rt.op /\ DOMAIN rt.op \subseteq Disks
  BY <1>1, <1>3, PoolThere, PlansAre DEF Steps, Unpooled
<1> DEFINE w == [work[c] EXCEPT !.todo = @ \ {d}, !.pc = IF work[c].todo = {d} THEN "storage" ELSE @]
<1>6. work' = [work EXCEPT ![c] = w] BY DEF InstallEFI, Goto
<1>7. w \in Workers BY <1>1, <1>3 DEF Workers, Steps
<1>8. /\ work'[c].pc = (IF work[c].todo = {d} THEN "storage" ELSE "efi") /\ work'[c].todo = work[c].todo \ {d}
      /\ work'[c].op = work[c].op /\ work'[c].st = work[c].st /\ work'[c].sub = work[c].sub
  BY <1>1, <1>3, <1>6 DEF Inv, Typed, ServiceTyped, Workers
<1> HIDE DEF w
<1>9. /\ rt' = rt /\ ps'.efi = ps.efi \cup {d} /\ ps'.op = ps.op /\ ps'.key = ps.key /\ ps'.os = ps.os
      /\ ps'.compose = ps.compose /\ ps'.cfg = ps.cfg /\ ps'.installed = ps.installed
  BY <1>1, <1>3 DEF InstallEFI, Runtimes, Pools
<1>10. rt' \in Runtimes /\ ps' \in Pools
  BY <1>1, <1>2, <1>3 DEF InstallEFI, Runtimes, Pools
<1>11. Stepping(c)'
  BY <1>1, <1>2, <1>3, <1>4, <1>8, <1>9 DEF Stepping, Active
<1>12. Building(c)'
  BY <1>1, <1>2, <1>3, <1>4, <1>8, <1>9 DEF Building, Active, Unpooled, Complete, PoolExists, Pooled, Steps
<1>13. Stored'
  <2>1. InstalledWhole' 
    BY <1>1, <1>3, <1>9 DEF InstalledWhole, Building, Complete, Steps
  <2>2. ps'.compose => ps'.op BY <1>1, <1>3, <1>9 DEF Stored, Building, Complete
  <2>3. rt'.finalizing /\ rt'.status # None => ~rt'.status.error
    BY <1>1, <1>2, <1>3, <1>9 DEF Stored, Stepping, Active
  <2> QED BY <1>2, <1>3, <1>4, <1>9, <2>1, <2>2, <2>3, StoredKept
<1>14. SharedTyped' BY <1>2, <1>10, InvAll DEF SharedTyped
<1> QED BY <1>1, <1>2, <1>6, <1>7, <1>9, <1>11, <1>12, <1>13, <1>14, WorkerStep

\* The configuration is written and the gate opened.
LEMMA PersistKeeps ==
  ASSUME Inv, NEW c \in Clients, Persist(c)
  PROVE  Inv'
<1>1. work[c].pc = "config" /\ work[c].pc # "none" BY DEF Persist, At
<1>2. UNCHANGED <<machine, disk, tui, svc, in, out, seen, held, faults>>
  BY DEF Persist, WorkOnly
<1>3. /\ Stepping(c) /\ Building(c) /\ Stored /\ work[c] \in Workers /\ work[c].st \in Statuses
      /\ rt \in Runtimes /\ ps \in Pools /\ rt.key = c /\ rt.op # NoPlan /\ DOMAIN rt.op # {}
      /\ rt.op \in Plans
  BY <1>1, WorkerKnows
<1>4. PoolExists /\ Pooled = DOMAIN work[c].op /\ work[c].op = rt.op /\ DOMAIN rt.op \subseteq Disks
  BY <1>1, <1>3, PoolThere, PlansAre DEF Steps, Unpooled
<1> DEFINE w == [work[c] EXCEPT !.pc = "verify!"]
<1>6. work' = [work EXCEPT ![c] = w] BY DEF Persist, Goto
<1>7. w \in Workers BY <1>1, <1>3 DEF Workers, Steps
<1>8. /\ work'[c].pc = "verify!" /\ work'[c].op = work[c].op /\ work'[c].st = work[c].st
      /\ work'[c].sub = work[c].sub
  BY <1>1, <1>3, <1>6 DEF Inv, Typed, ServiceTyped, Workers
<1> HIDE DEF w
<1>9. /\ rt'.lock = rt.lock /\ rt'.op = rt.op /\ rt'.key = rt.key /\ rt'.sub = rt.sub
      /\ rt'.status = rt.status
      /\ ps'.cfg = work[c].sub /\ ps'.op = ps.op /\ ps'.key = ps.key /\ ps'.os = ps.os
      /\ ps'.compose = ps.compose /\ ps'.efi = ps.efi /\ ps'.installed = ps.installed
  BY <1>1, <1>3 DEF Persist, Runtimes, Pools
<1>10. rt' \in Runtimes /\ ps' \in Pools
  BY <1>1, <1>2, <1>3 DEF Persist, Runtimes, Pools, Workers
<1>11. Stepping(c)'
  BY <1>1, <1>2, <1>3, <1>4, <1>8, <1>9 DEF Stepping, Active
<1>12. Building(c)'
  BY <1>1, <1>2, <1>3, <1>4, <1>8, <1>9 DEF Building, Active, Unpooled, Complete, PoolExists, Pooled, Steps
<1>13. Stored'
  <2>1. InstalledWhole' 
    BY <1>1, <1>3, <1>9 DEF InstalledWhole, Building, Complete, Steps
  <2>2. ps'.compose => ps'.op BY <1>1, <1>3, <1>9 DEF Stored, Building, Complete
  <2>3. rt'.finalizing /\ rt'.status # None => ~rt'.status.error
    BY <1>1, <1>2, <1>3, <1>9 DEF Stored, Stepping, Active
  <2> QED BY <1>2, <1>3, <1>4, <1>9, <2>1, <2>2, <2>3, StoredKept
<1>14. SharedTyped' BY <1>2, <1>10, InvAll DEF SharedTyped
<1> QED BY <1>1, <1>2, <1>6, <1>7, <1>9, <1>11, <1>12, <1>13, <1>14, WorkerStep

\* The installation is marked as complete.
LEMMA MarkKeeps ==
  ASSUME Inv, NEW c \in Clients, Mark(c)
  PROVE  Inv'
<1>1. work[c].pc = "mark" /\ work[c].pc # "none" BY DEF Mark, At
<1>2. UNCHANGED <<machine, disk, rt, tui, svc, in, out, seen, held, faults>>
  BY DEF Mark, WorkOnly
<1>3. /\ Stepping(c) /\ Building(c) /\ Stored /\ work[c] \in Workers /\ work[c].st \in Statuses
      /\ rt \in Runtimes /\ ps \in Pools /\ rt.key = c /\ rt.op # NoPlan /\ DOMAIN rt.op # {}
      /\ rt.op \in Plans
  BY <1>1, WorkerKnows
<1>4. PoolExists /\ Pooled = DOMAIN work[c].op /\ work[c].op = rt.op /\ DOMAIN rt.op \subseteq Disks
  BY <1>1, <1>3, PoolThere, PlansAre DEF Steps, Unpooled
<1> DEFINE w == [work[c] EXCEPT !.pc = "finish"]
<1>6. work' = [work EXCEPT ![c] = w] BY DEF Mark, Goto
<1>7. w \in Workers BY <1>1, <1>3 DEF Workers, Steps
<1>8. /\ work'[c].pc = "finish" /\ work'[c].op = work[c].op /\ work'[c].st = work[c].st
      /\ work'[c].sub = work[c].sub
  BY <1>1, <1>3, <1>6 DEF Inv, Typed, ServiceTyped, Workers
<1> HIDE DEF w
<1>9. /\ rt' = rt /\ ps'.installed /\ ps'.op = ps.op /\ ps'.key = ps.key /\ ps'.os = ps.os
      /\ ps'.compose = ps.compose /\ ps'.efi = ps.efi /\ ps'.cfg = ps.cfg
  BY <1>1, <1>3 DEF Mark, Runtimes, Pools
<1>10. rt' \in Runtimes /\ ps' \in Pools
  BY <1>1, <1>2, <1>3 DEF Mark, Runtimes, Pools
<1>11. Stepping(c)'
  BY <1>1, <1>2, <1>3, <1>4, <1>8, <1>9 DEF Stepping, Active
<1>12. Building(c)'
  BY <1>1, <1>2, <1>3, <1>4, <1>8, <1>9 DEF Building, Active, Unpooled, Complete, PoolExists, Pooled, Steps
<1>13. Stored'
  <2>1. InstalledWhole' 
    BY <1>1, <1>2, <1>3, <1>4, <1>9 DEF InstalledWhole, Building, Stepping, Complete, Pooled
  <2>2. ps'.compose => ps'.op BY <1>1, <1>3, <1>9 DEF Stored, Building, Complete
  <2>3. rt'.finalizing /\ rt'.status # None => ~rt'.status.error
    BY <1>1, <1>2, <1>3, <1>9 DEF Stored, Stepping, Active
  <2> QED BY <1>2, <1>3, <1>4, <1>9, <2>1, <2>2, <2>3, StoredKept
<1>14. SharedTyped' BY <1>2, <1>10, InvAll DEF SharedTyped
<1> QED BY <1>1, <1>2, <1>6, <1>7, <1>9, <1>11, <1>12, <1>13, <1>14, WorkerStep

\* The key and the status are put on the pool.
LEMMA PoolReadyKeeps ==
  ASSUME Inv, NEW c \in Clients, PoolReady(c)
  PROVE  Inv'
<1>1. work[c].pc = "pool" /\ work[c].pc # "none" BY DEF PoolReady, At
<1>2. UNCHANGED <<machine, disk, tui, svc, in, out, seen, held, faults>>
  BY DEF PoolReady, WorkOnly
<1>3. /\ Stepping(c) /\ Building(c) /\ Stored /\ work[c] \in Workers /\ work[c].st \in Statuses
      /\ rt \in Runtimes /\ ps \in Pools /\ rt.key = c /\ rt.op # NoPlan /\ DOMAIN rt.op # {}
      /\ rt.op \in Plans
  BY <1>1, WorkerKnows
<1>4. PoolExists /\ Pooled = DOMAIN work[c].op /\ work[c].op = rt.op /\ DOMAIN rt.op \subseteq Disks
  BY <1>1, <1>3, PoolThere, PlansAre DEF Steps, Unpooled
<1> DEFINE st == [work[c].st EXCEPT !.pool = TRUE]
<1>5. st \in Statuses /\ ~st.error
  <2>1. ~work[c].st.error BY <1>1, <1>3 DEF Stepping, Active
  <2>2. 4 \in 0 .. 5 /\ 5 \in 0 .. 5 OBVIOUS
  <2> QED BY <1>3, <2>1, <2>2 DEF Statuses
<1> HIDE DEF st
<1> DEFINE w == [work[c] EXCEPT !.st = st, !.pc = "image!"]
<1>6. work' = [work EXCEPT ![c] = w] BY DEF PoolReady, Goto, st
<1>7. w \in Workers BY <1>1, <1>3, <1>5 DEF Workers, Steps
<1>8. work'[c].pc = "image!" /\ work'[c].op = work[c].op /\ work'[c].st = st
  BY <1>1, <1>3, <1>6 DEF Inv, Typed, ServiceTyped, Workers
<1> HIDE DEF w
<1>9. /\ rt'.lock = rt.lock /\ rt'.op = rt.op /\ rt'.key = rt.key /\ rt'.sub = rt.sub
      /\ rt'.finalizing = rt.finalizing /\ rt'.status = st
      /\ ps'.key = rt.key /\ ps'.op = ps.op /\ ps'.os = ps.os /\ ps'.compose = ps.compose
      /\ ps'.efi = ps.efi /\ ps'.cfg = ps.cfg /\ ps'.installed = ps.installed
  BY <1>1, <1>3, <1>5 DEF PoolReady, st, Runtimes, Pools
<1>10. rt' \in Runtimes /\ ps' \in Pools
  BY <1>1, <1>2, <1>3, <1>5 DEF PoolReady, st, Runtimes, Pools
<1>11. Stepping(c)'
  BY <1>1, <1>2, <1>3, <1>4, <1>5, <1>8, <1>9 DEF Stepping, Active
<1>12. Building(c)'
  BY <1>1, <1>2, <1>3, <1>4, <1>5, <1>8, <1>9 DEF Building, Active, Unpooled, Complete, PoolExists, Pooled,
     Steps
<1>13. Stored'
  <2>1. InstalledWhole' 
    BY <1>1, <1>3, <1>9 DEF InstalledWhole, Building, Complete, Steps
  <2>2. ps'.compose => ps'.op BY <1>1, <1>3, <1>9 DEF Stored, Building, Complete
  <2>3. rt'.finalizing /\ rt'.status # None => ~rt'.status.error
    BY <1>1, <1>2, <1>3, <1>5, <1>9 DEF Stored, Stepping, Active
  <2> QED BY <1>2, <1>3, <1>4, <1>9, <2>1, <2>2, <2>3, StoredKept
<1>14. SharedTyped' BY <1>2, <1>10, InvAll DEF SharedTyped
<1> QED BY <1>1, <1>2, <1>6, <1>7, <1>9, <1>11, <1>12, <1>13, <1>14, WorkerStep

\* The storage is complete.
LEMMA StorageReadyKeeps ==
  ASSUME Inv, NEW c \in Clients, StorageReady(c)
  PROVE  Inv'
<1>1. work[c].pc = "storage" /\ work[c].pc # "none" BY DEF StorageReady, At
<1>2. UNCHANGED <<machine, disk, tui, svc, in, out, seen, held, faults>>
  BY DEF StorageReady, WorkOnly
<1>3. /\ Stepping(c) /\ Building(c) /\ Stored /\ work[c] \in Workers /\ work[c].st \in Statuses
      /\ rt \in Runtimes /\ ps \in Pools /\ rt.key = c /\ rt.op # NoPlan /\ DOMAIN rt.op # {}
      /\ rt.op \in Plans
  BY <1>1, WorkerKnows
<1>4. PoolExists /\ Pooled = DOMAIN work[c].op /\ work[c].op = rt.op /\ DOMAIN rt.op \subseteq Disks
  BY <1>1, <1>3, PoolThere, PlansAre DEF Steps, Unpooled
<1> DEFINE st == [work[c].st EXCEPT !.storage = TRUE, !.phase = IF Runs(c) THEN 4 ELSE @]
<1>5. st \in Statuses /\ ~st.error
  <2>1. ~work[c].st.error BY <1>1, <1>3 DEF Stepping, Active
  <2>2. 4 \in 0 .. 5 /\ 5 \in 0 .. 5 OBVIOUS
  <2> QED BY <1>3, <2>1, <2>2 DEF Statuses
<1> HIDE DEF st
<1> DEFINE w == [work[c] EXCEPT !.st = st, !.pc = IF Runs(c) THEN "wait" ELSE "cleanup"]
<1>6. work' = [work EXCEPT ![c] = w] BY DEF StorageReady, Goto, st
<1>7. w \in Workers BY <1>1, <1>3, <1>5 DEF Workers, Steps
<1>8. work'[c].pc \in {"wait", "cleanup"} /\ work'[c].op = work[c].op /\ work'[c].st = st
  BY <1>1, <1>3, <1>6 DEF Inv, Typed, ServiceTyped, Workers
<1> HIDE DEF w
<1>9. /\ rt'.lock = rt.lock /\ rt'.op = rt.op /\ rt'.key = rt.key /\ rt'.sub = rt.sub
      /\ rt'.finalizing = rt.finalizing /\ rt'.status = st
      /\ ps'.op = ps.op /\ ps'.key = ps.key /\ ps'.os = ps.os /\ ps'.compose = ps.compose
      /\ ps'.efi = ps.efi /\ ps'.cfg = ps.cfg /\ ps'.installed = ps.installed
  BY <1>1, <1>3, <1>5 DEF StorageReady, saveStatus, st, Runtimes, Pools
<1>10. rt' \in Runtimes /\ ps' \in Pools
  BY <1>1, <1>2, <1>3, <1>5 DEF StorageReady, saveStatus, st, Runtimes, Pools
<1>11. Stepping(c)'
  BY <1>1, <1>2, <1>3, <1>4, <1>5, <1>8, <1>9 DEF Stepping, Active
<1>12. Building(c)'
  BY <1>1, <1>2, <1>3, <1>4, <1>5, <1>8, <1>9 DEF Building, Active, Unpooled, Complete, PoolExists, Pooled,
     Steps
<1>13. Stored'
  <2>1. InstalledWhole' 
    BY <1>2, <1>9, WholeKept
  <2>2. ps'.compose => ps'.op BY <1>1, <1>3, <1>9 DEF Stored, Building, Complete
  <2>3. rt'.finalizing /\ rt'.status # None => ~rt'.status.error
    BY <1>1, <1>2, <1>3, <1>5, <1>9 DEF Stored, Stepping, Active
  <2> QED BY <1>2, <1>3, <1>4, <1>9, <2>1, <2>2, <2>3, StoredKept
<1>14. SharedTyped' BY <1>2, <1>10, InvAll DEF SharedTyped
<1> QED BY <1>1, <1>2, <1>6, <1>7, <1>9, <1>11, <1>12, <1>13, <1>14, WorkerStep

\* The worker removes the submission and ends.
LEMMA FinishKeeps ==
  ASSUME Inv, NEW c \in Clients, Finish(c)
  PROVE  Inv'
<1>1. work[c].pc = "finish" /\ work[c].pc # "none" BY DEF Finish, At
<1>2. UNCHANGED <<machine, disk, tui, svc, in, out, seen, held, faults>>
  BY DEF Finish, WorkOnly
<1>3. /\ Stepping(c) /\ Building(c) /\ Stored /\ work[c] \in Workers /\ work[c].st \in Statuses
      /\ rt \in Runtimes /\ ps \in Pools /\ rt.key = c /\ rt.op # NoPlan /\ DOMAIN rt.op # {}
      /\ rt.op \in Plans
  BY <1>1, WorkerKnows
<1>4. PoolExists /\ Pooled = DOMAIN work[c].op /\ work[c].op = rt.op /\ DOMAIN rt.op \subseteq Disks
  BY <1>1, <1>3, PoolThere, PlansAre DEF Steps, Unpooled
<1> DEFINE st == [work[c].st EXCEPT !.ready = TRUE, !.phase = 5]
<1>5. st \in Statuses /\ ~st.error
  <2>1. ~work[c].st.error BY <1>1, <1>3 DEF Stepping, Active
  <2>2. 4 \in 0 .. 5 /\ 5 \in 0 .. 5 OBVIOUS
  <2> QED BY <1>3, <2>1, <2>2 DEF Statuses
<1> HIDE DEF st
<1> DEFINE w == [work[c] EXCEPT !.st = st, !.pc = "done"]
<1>6. work' = [work EXCEPT ![c] = w] BY DEF Finish, Goto, st
<1>7. w \in Workers BY <1>1, <1>3, <1>5 DEF Workers, Steps
<1>8. work'[c].pc = "done"
  BY <1>1, <1>3, <1>6 DEF Inv, Typed, ServiceTyped, Workers
<1> HIDE DEF w
<1>9. /\ rt'.lock = rt.lock /\ rt'.op = rt.op /\ rt'.key = rt.key /\ rt'.sub = None
      /\ rt'.finalizing = rt.finalizing /\ rt'.status = st
      /\ ps'.op = ps.op /\ ps'.key = ps.key /\ ps'.os = ps.os /\ ps'.compose = ps.compose
      /\ ps'.efi = ps.efi /\ ps'.cfg = ps.cfg /\ ps'.installed = ps.installed
  BY <1>1, <1>3, <1>5 DEF Finish, st, Runtimes, Pools
<1>10. rt' \in Runtimes /\ ps' \in Pools
  BY <1>1, <1>2, <1>3, <1>5 DEF Finish, st, Runtimes, Pools
<1>11. Stepping(c)'
  BY <1>1, <1>2, <1>3, <1>4, <1>5, <1>8, <1>9 DEF Stepping, Active
<1>12. Building(c)'
  BY <1>1, <1>2, <1>3, <1>4, <1>5, <1>8, <1>9 DEF Building, Active, Unpooled, Complete, PoolExists, Pooled,
     Steps
<1>13. Stored'
  <2>1. InstalledWhole' 
    BY <1>2, <1>9, WholeKept
  <2>2. ps'.compose => ps'.op BY <1>1, <1>3, <1>9 DEF Stored, Building, Complete
  <2>3. rt'.finalizing /\ rt'.status # None => ~rt'.status.error
    BY <1>1, <1>2, <1>3, <1>5, <1>9 DEF Stored, Stepping, Active
  <2> QED BY <1>2, <1>3, <1>4, <1>9, <2>1, <2>2, <2>3, StoredKept
<1>14. SharedTyped' BY <1>2, <1>10, InvAll DEF SharedTyped
<1> QED BY <1>1, <1>2, <1>6, <1>7, <1>9, <1>11, <1>12, <1>13, <1>14, WorkerStep

\* A worker that stops where it is.
LEMMA StepFailsKeeps ==
  ASSUME Inv, NEW c \in Clients, StepFails(c)
  PROVE  Inv'
<1>1. Active(c) /\ work[c].pc # "none" BY DEF StepFails, Active
<1>2. UNCHANGED <<machine, disk, tui, svc, in, out, seen, held>> BY DEF StepFails
<1>3. faults' \in 0 .. MaxFaults
  BY InvAll, BoundsAssumption DEF StepFails, Fault, SharedTyped
<1>4. /\ Stepping(c) /\ Building(c) /\ Stored /\ work[c] \in Workers
      /\ rt \in Runtimes /\ ps \in Pools /\ rt.op # NoPlan
  BY <1>1, WorkerKnows
<1>5. CASE work[c].pc = "start"
  <2> DEFINE w == [work[c] EXCEPT !.pc = "done", !.err = TRUE]
  <2>1. work' = [work EXCEPT ![c] = w] /\ UNCHANGED <<rt, ps>> BY <1>5 DEF StepFails
  <2>2. w \in Workers BY <1>4 DEF Workers, Steps
  <2>3. work'[c].pc = "done" BY <1>4, <2>1 DEF Inv, Typed, ServiceTyped, Workers
  <2>4. Stepping(c)' /\ Building(c)'
    BY <2>3 DEF Stepping, Building, Active, Unpooled, Complete
  <2> HIDE DEF w
  <2> QED BY <1>1, <1>2, <1>3, <2>1, <2>2, <2>4, StepInMemory
<1>6. CASE work[c].pc = "config"
  <2>1. work' = [work EXCEPT ![c].pc = "cleanup"] BY <1>6 DEF StepFails, Goto
  <2>2. PICK cfg \in {ps.cfg, work[c].sub} : ps' = [ps EXCEPT !.cfg = cfg] BY <1>6 DEF StepFails
  <2>3. PICK f \in BOOLEAN : rt' = [rt EXCEPT !.finalizing = f] BY <1>6 DEF StepFails
  <2>4. rt' \in Runtimes /\ ps' \in Pools
    BY <1>4, <2>2, <2>3 DEF Runtimes, Pools, Workers
  <2>5. /\ rt'.lock = rt.lock /\ rt'.op = rt.op /\ rt'.key = rt.key /\ rt'.sub = rt.sub
        /\ rt'.status = rt.status
        /\ ps'.op = ps.op /\ ps'.installed = ps.installed /\ ps'.compose = ps.compose
    BY <1>4, <2>2, <2>3 DEF Runtimes, Pools
  <2>6. /\ Stepping(c)' /\ Building(c)'
        /\ \E w \in Workers : work' = [work EXCEPT ![c] = w]
    BY <1>1, <1>2, <1>6, <2>1, <2>5, ToCleanup
  <2>7. PoolExists BY <1>6, PoolThere DEF Steps, Unpooled
  <2>8. ~ps.installed BY <1>4, <1>6 DEF Building, Steps
  <2>9. Stored'
    <3>1. InstalledWhole' BY <2>5, <2>8 DEF InstalledWhole
    <3>2. rt.status # None => ~rt.status.error BY <1>1, <1>4 DEF Stepping
    <3> QED BY <1>2, <1>4, <2>5, <2>7, <3>1, <3>2, StoredKept DEF Stored
  <2>10. SharedTyped' BY <1>2, <1>3, <2>4, InvAll DEF SharedTyped
  <2> QED BY <1>1, <1>2, <2>5, <2>6, <2>9, <2>10, WorkerStep
<1>7. CASE work[c].pc \notin {"start", "config"}
  <2>1. work' = [work EXCEPT ![c].pc = "cleanup"] /\ UNCHANGED <<rt, ps>> BY <1>7 DEF StepFails, Goto
  <2>2. /\ Stepping(c)' /\ Building(c)'
        /\ \E w \in Workers : work' = [work EXCEPT ![c] = w]
    BY <1>1, <1>2, <1>7, <2>1, ToCleanup
  <2> QED BY <1>1, <1>2, <1>3, <2>1, <2>2, StepInMemory
<1> QED BY <1>5, <1>6, <1>7

\* The deferred function.
LEMMA CleanupKeeps ==
  ASSUME Inv, NEW c \in Clients, Cleanup(c)
  PROVE  Inv'
<1>1. work[c].pc = "cleanup" /\ work[c].pc # "none" BY DEF Cleanup, At
<1>2. UNCHANGED <<machine, disk, tui, svc, in, out, seen, held, faults>> BY DEF Cleanup, WorkOnly
<1>3. /\ Building(c) /\ Stored /\ work[c] \in Workers /\ work[c].st \in Statuses
      /\ rt \in Runtimes /\ ps \in Pools /\ rt.op # NoPlan
  BY <1>1, WorkerKnows
<1> DEFINE st == [work[c].st EXCEPT !.error = TRUE]
           w == [work[c] EXCEPT !.st = st, !.pc = "done", !.err = TRUE]
<1>4. st \in Statuses /\ st.pool = work[c].st.pool /\ st.storage = work[c].st.storage
  BY <1>3 DEF Statuses
<1>5. /\ work' = [work EXCEPT ![c] = w] /\ rt' = [rt EXCEPT !.finalizing = FALSE, !.status = st]
      /\ ps' = IF st.pool \/ st.storage THEN [ps EXCEPT !.status = st] ELSE ps
  BY DEF Cleanup
<1> HIDE DEF st
<1>6. w \in Workers BY <1>3, <1>4 DEF Workers, Steps
<1>7. work'[c].pc = "done" BY <1>3, <1>5 DEF Inv, Typed, ServiceTyped, Workers
<1>8. Stepping(c)' /\ Building(c)'
  BY <1>7 DEF Stepping, Building, Active, Unpooled, Complete
<1>9. rt' \in Runtimes /\ ps' \in Pools
  BY <1>3, <1>4, <1>5 DEF Runtimes, Pools
<1>10. /\ rt'.lock = rt.lock /\ rt'.op = rt.op /\ rt'.key = rt.key /\ rt'.sub = rt.sub /\ ~rt'.finalizing
       /\ ps'.op = ps.op /\ ps'.os = ps.os /\ ps'.compose = ps.compose /\ ps'.efi = ps.efi
       /\ ps'.cfg = ps.cfg /\ ps'.installed = ps.installed /\ ps'.key = ps.key
  BY <1>3, <1>5 DEF Runtimes, Pools
<1>11. PoolExists \/ ps' = ps BY <1>1, <1>3, <1>4, <1>5 DEF Building, Active
<1>12. Stored'
  <2>1. InstalledWhole' BY <1>2, <1>10, WholeKept
  <2> QED BY <1>2, <1>3, <1>10, <1>11, <2>1, StoredKept DEF Stored
<1>13. SharedTyped' BY <1>2, <1>9, InvAll DEF SharedTyped
<1> HIDE DEF w
<1> QED BY <1>1, <1>2, <1>5, <1>6, <1>8, <1>10, <1>12, <1>13, WorkerStep

\* Every step of a worker.
LEMMA WorkerKeeps ==
  ASSUME Inv, NEW c \in Clients, Worker(c)
  PROVE  Inv'
BY BeginKeeps, CheckKeeps, phaseKeeps, CreatePoolKeeps, RecordKeeps, PoolReadyKeeps, InstallOSKeeps,
   InstallBundleKeeps, StorageReadyKeeps, ReadSubmissionKeeps, PersistKeeps, VerifyStackKeeps, MarkKeeps,
   FinishKeeps, StopsKeeps, CleanupKeeps, EraseKeeps, InstallEFIKeeps DEF Worker

-----------------------------------------------------------------------------
(* The steps of a user.                                                    *)

\* What is left to show of a step of one client.
LEMMA LocalStep ==
  ASSUME Inv, NEW c \in Clients, machine = "media", machine' = machine, Local(c), Typed', Working',
         Talking(c)', Fitting(c)', Enrolling(c)', Submitted'
  PROVE  Inv'
<1>1. \A o \in Clients : Talking(o)' BY InvOf, TalkingSame DEF Local
<1>2. \A o \in Clients : Fitting(o)' BY InvOf, FittingSame DEF Local
<1>3. \A o \in Clients : Enrolling(o)' BY InvOf, EnrollingSame DEF Local
<1>4. Quiet' BY DEF Quiet
<1> QED BY <1>1, <1>2, <1>3, <1>4 DEF Inv, Talks, Fits, Enrolls

\* What a step of a terminal program changes.
LEMMA ConsoleStep ==
  ASSUME Inv, NEW c \in Clients, machine = "media", UNCHANGED <<machine, disk, rt, ps, svc, work>>,
         faults' \in 0 .. MaxFaults,
         NEW m \in Tuis, tui' = [tui EXCEPT ![c] = m],
         NEW q \in Seq(RequestRecs), in' = [in EXCEPT ![c] = q],
         NEW e \in Seq(EventRecs), out' = [out EXCEPT ![c] = e],
         NEW p \in Plans, seen' = [seen EXCEPT ![c] = p],
         NEW h \in 0 .. MaxEnroll, held' = [held EXCEPT ![c] = h],
         Talking(c)', Fitting(c)', Enrolling(c)',
         rt.sub # None /\ rt.sub.by = c => Settled(c)' /\ h = held[c]
  PROVE  Inv'
<1>1. Typed'
  BY DEF Inv, Typed, SharedTyped, ConsoleTyped, ServiceTyped
<1>2. Local(c) BY DEF Local, Inv, Typed, ConsoleTyped
<1>3. Working' BY WorkingSame
<1>4. Submitted'
  <2>1. SUFFICES ASSUME rt.sub # None
                 PROVE  /\ ~FormsOpen(rt.sub.by)' /\ Settled(rt.sub.by)'
                        /\ rt.sub.totp # 0 => held'[rt.sub.by] = rt.sub.totp
    BY DEF Submitted, FormsOpen, Settled, Open
  <2>2. rt.sub.by \in Clients /\ Submitted BY <2>1, SubOf, InvAll
  <2>3. ~FormsOpen(rt.sub.by)' BY <2>1, <2>2 DEF Submitted, FormsOpen
  <2>4. CASE rt.sub.by = c
    <3>1. held'[c] = h BY DEF Inv, Typed, ConsoleTyped
    <3>2. Settled(rt.sub.by)' BY <2>1, <2>4 DEF Settled, Open
    <3> QED BY <2>1, <2>2, <2>3, <2>4, <3>1, <3>2 DEF Submitted
  <2>5. CASE rt.sub.by # c
    <3>1. held'[rt.sub.by] = held[rt.sub.by] BY <1>2, <2>2, <2>5 DEF Local
    <3>2. Settled(rt.sub.by)' BY <1>2, <2>1, <2>2, <2>5 DEF Local, Submitted, Settled, Open
    <3> QED BY <2>1, <2>2, <2>3, <3>1, <3>2 DEF Submitted
  <2> QED BY <2>4, <2>5
<1> QED BY <1>1, <1>2, <1>3, <1>4, LocalStep

\* Nothing is under way for a console that waits for its user.
LEMMA Waiting ==
  ASSUME Inv, NEW c \in Clients, Open(c), tui[c].pending = None
  PROVE  in[c] = <<>> /\ \A i \in DOMAIN out[c] : out[c][i].re = None
<1>1. Talking(c) /\ in[c] \in Seq(RequestRecs) BY InvOf
<1>2. Requesting(c) /\ Replying(c) BY <1>1 DEF Talking
<1>3. None \notin RequestTypes BY NoneApart
<1>4. None # "reboot" BY <1>3 DEF RequestTypes
<1>5. in[c] = <<>>
  <2>1. SUFFICES ASSUME in[c] # <<>> PROVE FALSE OBVIOUS
  <2>2. in[c][Len(in[c])] \in RequestRecs BY <1>1, <2>1
  <2>3. in[c][Len(in[c])].type \in RequestTypes BY <2>2 DEF RequestRecs
  <2> QED BY <1>2, <1>3, <2>1, <2>3 DEF Requesting
<1>6. \A i \in DOMAIN out[c] : out[c][i].re = None BY <1>2, <1>4 DEF Replying
<1> QED BY <1>5, <1>6

\* A request into an empty pipe.
LEMMA OnlyOne ==
  ASSUME NEW r \in RequestRecs, NEW s, s = Append(<<>>, r)
  PROVE  s \in Seq(RequestRecs) /\ Len(s) = 1 /\ s # <<>> /\ s[1] = r /\ DOMAIN s = {1}
<1>1. <<>> \in Seq(RequestRecs) /\ Len(<<>>) = 0 OBVIOUS
<1>2. s \in Seq(RequestRecs) /\ Len(s) = 1 /\ s # <<>> /\ s[1] = r
  BY <1>1, Appended
<1>3. DOMAIN s = 1 .. 1 BY <1>2
<1> QED BY <1>2, <1>3

\* A user's request.
LEMMA UserSends ==
  ASSUME Inv, NEW c \in Clients, Open(c), tui[c].pending = None, tui[c].stage # "connecting",
         NEW m \in Tuis, m.stage = tui[c].stage, m.shown = tui[c].shown,
         NEW r \in RequestRecs, r.type # "reboot", Send(c, m, r), UNCHANGED <<svc, out>>
  PROVE  /\ Talking(c)' /\ in[c] = <<>>
         /\ in'[c] \in Seq(RequestRecs) /\ in' = [in EXCEPT ![c] = in'[c]] /\ DOMAIN in'[c] = {1}
         /\ in'[c][1] = r
         /\ [m EXCEPT !.pending = r.type] \in Tuis /\ tui' = [tui EXCEPT ![c] = [m EXCEPT !.pending = r.type]]
         /\ tui'[c] = [m EXCEPT !.pending = r.type] /\ Open(c)' /\ machine = "media"
<1>1. Talking(c) /\ tui[c] \in Tuis /\ svc[c] \in Services /\ out[c] \in Seq(EventRecs) BY InvOf
<1>2. in[c] = <<>> /\ \A i \in DOMAIN out[c] : out[c][i].re = None BY Waiting
<1>3. r.type \in RequestTypes BY DEF RequestRecs
<1>4. [m EXCEPT !.pending = r.type] \in Tuis BY <1>3 DEF Tuis
<1>5. tui' = [tui EXCEPT ![c] = [m EXCEPT !.pending = r.type]] BY DEF Send
<1>6. tui'[c] = [m EXCEPT !.pending = r.type] BY <1>5 DEF Inv, Typed, ConsoleTyped
<1>7. /\ tui'[c].pending = r.type /\ tui'[c].stage = tui[c].stage
  BY <1>6 DEF Tuis
<1>8. in'[c] = Append(<<>>, r) /\ in' = [in EXCEPT ![c] = in'[c]]
  BY <1>2 DEF Send, Inv, Typed, ConsoleTyped
<1>9. in'[c] \in Seq(RequestRecs) /\ Len(in'[c]) = 1 /\ in'[c] # <<>> /\ in'[c][1] = r /\ DOMAIN in'[c] = {1}
  BY <1>8, OnlyOne
<1>10. Open(c)' BY <1>7 DEF Open
<1>11. Answering(c)' BY <1>1 DEF Talking, Answering
<1>12. Staged(c)' BY <1>7, <1>9 DEF Staged, Open
<1>13. Requesting(c)' BY <1>7, <1>9 DEF Requesting
<1>14. Replying(c)' BY <1>2 DEF Replying
<1>15. Telling(c)'
  BY <1>1, <1>7 DEF Talking, Telling
<1>16. Talking(c)' BY <1>10, <1>11, <1>12, <1>13, <1>14, <1>15 DEF Talking
<1>17. machine = "media" BY OnMedia DEF Open
<1> QED BY <1>2, <1>4, <1>5, <1>6, <1>8, <1>9, <1>10, <1>16, <1>17

\* A request that confirms nothing leaves the plans alone.
LEMMA SendFits ==
  ASSUME Inv, NEW c \in Clients, UNCHANGED <<svc, out>>, seen'[c] = seen[c],
         tui'[c].shown = tui[c].shown, Open(c), DOMAIN in'[c] = {1}, in'[c][1].type # "confirm"
  PROVE  Fitting(c)'
<1>1. Fitting(c) BY InvOf
<1>2. SUFFICES ASSUME svc[c].mode # "off" PROVE Fitting(c)'
  BY DEF Fitting
<1>3. \A i \in DOMAIN in'[c] : in'[c][i].type # "confirm" OBVIOUS
<1> QED BY <1>1, <1>2, <1>3 DEF Fitting

\* Requests are requests.
LEMMA RequestTyped ==
  ASSUME NEW t \in RequestTypes
  PROVE  /\ Request(t) \in RequestRecs /\ Request(t).type = t
         /\ \A S \in SUBSET Disks : /\ [Request(t) EXCEPT !.cmd = S] \in RequestRecs
                                    /\ [Request(t) EXCEPT !.cmd = S].type = t
                                    /\ [Request(t) EXCEPT !.cmd = S].cmd = S
         /\ \A f \in Forms : /\ [Request(t) EXCEPT !.cfg = f] \in RequestRecs
                             /\ [Request(t) EXCEPT !.cfg = f].type = t
                             /\ [Request(t) EXCEPT !.cfg = f].cfg = f
         /\ \A n \in 0 .. MaxEnroll : /\ [Request(t) EXCEPT !.cfg.code = n] \in RequestRecs
                                      /\ [Request(t) EXCEPT !.cfg.code = n].type = t
<1>1. 0 \in 0 .. MaxEnroll BY BoundsAssumption
<1>2. Request(t) \in RequestRecs /\ Request(t).type = t
  BY <1>1 DEF Request, RequestRecs, Forms
<1>3. ASSUME NEW S \in SUBSET Disks
      PROVE  /\ [Request(t) EXCEPT !.cmd = S] \in RequestRecs
             /\ [Request(t) EXCEPT !.cmd = S].type = t /\ [Request(t) EXCEPT !.cmd = S].cmd = S
  BY <1>2 DEF RequestRecs
<1>4. ASSUME NEW f \in Forms
      PROVE  /\ [Request(t) EXCEPT !.cfg = f] \in RequestRecs
             /\ [Request(t) EXCEPT !.cfg = f].type = t /\ [Request(t) EXCEPT !.cfg = f].cfg = f
  BY <1>2 DEF RequestRecs
<1>5. ASSUME NEW n \in 0 .. MaxEnroll
      PROVE  /\ [Request(t) EXCEPT !.cfg.code = n] \in RequestRecs
             /\ [Request(t) EXCEPT !.cfg.code = n].type = t
  <2>1. Request(t).cfg \in Forms BY <1>2 DEF RequestRecs
  <2>2. [Request(t).cfg EXCEPT !.code = n] \in Forms BY <2>1 DEF Forms
  <2>3. [Request(t) EXCEPT !.cfg.code = n] = [Request(t) EXCEPT !.cfg = [Request(t).cfg EXCEPT !.code = n]]
    OBVIOUS
  <2> QED BY <1>4, <2>2, <2>3
<1> QED BY <1>2, <1>3, <1>4, <1>5

\* A user's request that neither confirms nor reboots.
LEMMA SendKeeps ==
  ASSUME Inv, NEW c \in Clients, Open(c), tui[c].pending = None, tui[c].stage # "connecting",
         NEW m \in Tuis, m.stage = tui[c].stage, m.shown = tui[c].shown,
         m.enr # 0 => m.code \in {0, m.enr}, m.stage \in {"totp", "codes"} => ~m.saved,
         m.saved /\ m.enr # 0 /\ m.code # 0 => held[c] = m.code,
         NEW r \in RequestRecs, r.type \notin {"reboot", "confirm"}, Send(c, m, r),
         r.type = "configure" => /\ r.cfg.saved /\ r.cfg.code # 0 => held[c] = r.cfg.code
                                 /\ m.stage \notin {"totp", "codes"},
         UNCHANGED <<out, seen, held>>, TuiOnly
  PROVE  Inv'
<1>1. UNCHANGED <<machine, disk, rt, ps, svc, work, faults, out, seen, held>> BY DEF TuiOnly
<1>2. /\ Talking(c)' /\ in[c] = <<>>
      /\ in'[c] \in Seq(RequestRecs) /\ in' = [in EXCEPT ![c] = in'[c]] /\ DOMAIN in'[c] = {1}
      /\ in'[c][1] = r
      /\ [m EXCEPT !.pending = r.type] \in Tuis /\ tui' = [tui EXCEPT ![c] = [m EXCEPT !.pending = r.type]]
      /\ tui'[c] = [m EXCEPT !.pending = r.type] /\ Open(c)' /\ machine = "media"
  BY <1>1, UserSends
<1>3. /\ tui'[c].stage = tui[c].stage /\ tui'[c].shown = tui[c].shown /\ tui'[c].enr = m.enr
      /\ tui'[c].code = m.code /\ tui'[c].saved = m.saved
  BY <1>2 DEF Tuis
<1>4. Fitting(c)' BY <1>1, <1>2, <1>3, SendFits
<1>5. Enrolling(c)'
  <2>1. Enrolling(c) BY InvOf
  <2> QED BY <1>1, <1>2, <1>3, <2>1 DEF Enrolling
<1>6. rt.sub # None /\ rt.sub.by = c => Settled(c)'
  BY <1>1, <1>3, InvAll DEF Submitted, Settled, Open
<1>7. /\ out' = [out EXCEPT ![c] = out[c]] /\ seen' = [seen EXCEPT ![c] = seen[c]]
      /\ held' = [held EXCEPT ![c] = held[c]]
  BY <1>1 DEF Inv, Typed, ConsoleTyped
<1>8. out[c] \in Seq(EventRecs) /\ seen[c] \in Plans /\ held[c] \in 0 .. MaxEnroll
      /\ faults' \in 0 .. MaxFaults
  BY <1>1, InvOf, InvAll DEF SharedTyped
<1> QED BY <1>1, <1>2, <1>4, <1>5, <1>6, <1>7, <1>8, ConsoleStep

\* The console of a user who may go on.
LEMMA IdleIs ==
  ASSUME Inv, NEW c \in Clients, NEW stages, Idle(c, stages),
         stages \cap {"off", "start", "killed", "exited", "connecting"} = {}
  PROVE  /\ Open(c) /\ tui[c].pending = None /\ tui[c].stage # "connecting" /\ tui[c] \in Tuis
         /\ Enrolling(c)
BY InvOf DEF Idle, Open

\* The user asks for a preview.
LEMMA UserPreviewsKeeps ==
  ASSUME Inv, NEW c \in Clients, NEW S \in Layouts, UserPreviews(c, S)
  PROVE  Inv'
<1> DEFINE r == [Request("preview") EXCEPT !.cmd = S]
<1>1. r \in RequestRecs /\ r.type = "preview"
  BY RequestTyped, LayoutsOfDisks DEF RequestTypes
<1>2. /\ Open(c) /\ tui[c].pending = None /\ tui[c].stage # "connecting" /\ tui[c] \in Tuis /\ Enrolling(c)
  BY IdleIs DEF UserPreviews
<1>3. Send(c, tui[c], r) /\ UNCHANGED <<out, seen, held>> /\ TuiOnly BY DEF UserPreviews
<1> HIDE DEF r
<1> QED BY <1>1, <1>2, <1>3, SendKeeps DEF Enrolling

\* The user sends the settings of the host.
LEMMA UserSettlesKeeps ==
  ASSUME Inv, NEW c \in Clients, UserSettles(c)
  PROVE  Inv'
<1> DEFINE r == Request("validate-host")
<1>1. r \in RequestRecs /\ r.type = "validate-host" BY RequestTyped DEF RequestTypes
<1>2. /\ Open(c) /\ tui[c].pending = None /\ tui[c].stage # "connecting" /\ tui[c] \in Tuis /\ Enrolling(c)
  BY IdleIs DEF UserSettles
<1>3. Send(c, tui[c], r) /\ UNCHANGED <<out, seen, held>> /\ TuiOnly BY DEF UserSettles
<1> HIDE DEF r
<1> QED BY <1>1, <1>2, <1>3, SendKeeps DEF Enrolling

\* The user sends the account.
LEMMA UserAccountKeeps ==
  ASSUME Inv, NEW c \in Clients, NEW totp \in BOOLEAN, UserAccount(c, totp)
  PROVE  Inv'
<1> DEFINE r == Request("validate-account")
           m == [tui[c] EXCEPT !.totp = totp]
<1>1. r \in RequestRecs /\ r.type = "validate-account" BY RequestTyped DEF RequestTypes
<1>2. /\ Open(c) /\ tui[c].pending = None /\ tui[c].stage # "connecting" /\ tui[c] \in Tuis /\ Enrolling(c)
  BY IdleIs DEF UserAccount
<1>3. Send(c, m, r) /\ UNCHANGED <<out, seen, held>> /\ TuiOnly BY DEF UserAccount
<1>4. /\ m \in Tuis /\ m.stage = tui[c].stage /\ m.shown = tui[c].shown /\ m.enr = tui[c].enr
      /\ m.code = tui[c].code /\ m.saved = tui[c].saved
  BY <1>2 DEF Tuis
<1> HIDE DEF r, m
<1> QED BY <1>1, <1>2, <1>3, <1>4, SendKeeps DEF Enrolling

\* The user enters a code.
LEMMA UserCodeKeeps ==
  ASSUME Inv, NEW c \in Clients, NEW code \in 0 .. MaxEnroll, UserCode(c, code)
  PROVE  Inv'
<1> DEFINE r == [Request("verify-totp") EXCEPT !.cfg.code = code]
           m == [tui[c] EXCEPT !.code = code]
<1>1. r \in RequestRecs /\ r.type = "verify-totp" BY RequestTyped DEF RequestTypes
<1>2. /\ Open(c) /\ tui[c].pending = None /\ tui[c].stage # "connecting" /\ tui[c] \in Tuis /\ Enrolling(c)
      /\ tui[c].stage = "totp" /\ code \in {0, tui[c].enr}
  BY IdleIs DEF UserCode, Idle
<1>3. Send(c, m, r) /\ UNCHANGED <<out, seen, held>> /\ TuiOnly BY DEF UserCode
<1>4. /\ m \in Tuis /\ m.stage = tui[c].stage /\ m.shown = tui[c].shown /\ m.enr = tui[c].enr
      /\ m.code = code /\ m.saved = tui[c].saved
  BY <1>2 DEF Tuis
<1> HIDE DEF r, m
<1> QED BY <1>1, <1>2, <1>3, <1>4, SendKeeps DEF Enrolling

\* The user submits the configuration.
LEMMA UserFinishesKeeps ==
  ASSUME Inv, NEW c \in Clients, UserFinishes(c)
  PROVE  Inv'
<1> DEFINE r == [Request("configure") EXCEPT !.cfg = config(c)]
<1>1. /\ Open(c) /\ tui[c].pending = None /\ tui[c].stage # "connecting" /\ tui[c] \in Tuis /\ Enrolling(c)
      /\ tui[c].stage = "review"
  BY IdleIs DEF UserFinishes, Idle
<1>2. /\ config(c) \in Forms /\ config(c).code = tui[c].code
      /\ config(c).saved => tui[c].saved /\ tui[c].enr # 0
  BY <1>1 DEF config, Forms, Tuis
<1>3. r \in RequestRecs /\ r.type = "configure" /\ r.cfg = config(c)
  BY <1>2, RequestTyped DEF RequestTypes
<1>4. Send(c, tui[c], r) /\ UNCHANGED <<out, seen, held>> /\ TuiOnly BY DEF UserFinishes
<1> HIDE DEF r
<1> QED BY <1>1, <1>2, <1>3, <1>4, SendKeeps DEF Enrolling

\* The user confirms what is on the screen.
LEMMA UserErasesKeeps ==
  ASSUME Inv, NEW c \in Clients, UserErases(c)
  PROVE  Inv'
<1> DEFINE r == [Request("confirm") EXCEPT !.cmd = DOMAIN tui[c].shown]
<1>1. /\ Open(c) /\ tui[c].pending = None /\ tui[c].stage # "connecting" /\ tui[c] \in Tuis /\ Enrolling(c)
      /\ tui[c].stage = "confirm"
  BY IdleIs DEF UserErases, Idle
<1>2. tui[c].shown \in Plans BY <1>1 DEF Tuis
<1>3. r \in RequestRecs /\ r.type = "confirm" /\ r.cmd = DOMAIN tui[c].shown
  <2>1. DOMAIN tui[c].shown \in SUBSET Disks BY <1>2, PlansAre
  <2>2. "confirm" \in RequestTypes BY DEF RequestTypes
  <2> QED BY <2>1, <2>2, RequestTyped
<1>4. /\ Send(c, tui[c], r) /\ UNCHANGED <<machine, disk, rt, ps, svc, work, faults, out, held>>
      /\ seen' = [seen EXCEPT ![c] = tui[c].shown]
  BY DEF UserErases, TuiOnly
<1> HIDE DEF r
<1>5. /\ Talking(c)' /\ in[c] = <<>>
      /\ in'[c] \in Seq(RequestRecs) /\ in' = [in EXCEPT ![c] = in'[c]] /\ DOMAIN in'[c] = {1}
      /\ in'[c][1] = r
      /\ [tui[c] EXCEPT !.pending = r.type] \in Tuis
      /\ tui' = [tui EXCEPT ![c] = [tui[c] EXCEPT !.pending = r.type]]
      /\ tui'[c] = [tui[c] EXCEPT !.pending = r.type] /\ Open(c)' /\ machine = "media"
  BY <1>1, <1>3, <1>4, UserSends
<1>6. /\ tui'[c].stage = tui[c].stage /\ tui'[c].shown = tui[c].shown /\ tui'[c].enr = tui[c].enr
      /\ tui'[c].code = tui[c].code /\ tui'[c].saved = tui[c].saved
  BY <1>1, <1>5 DEF Tuis
<1>7. seen'[c] = tui[c].shown BY <1>4 DEF Inv, Typed, ConsoleTyped
<1>8. Fitting(c)'
  <2>1. SUFFICES ASSUME svc[c].mode # "off" PROVE Fitting(c)'
    BY <1>4 DEF Fitting
  <2>2. Fitting(c) BY InvOf
  <2> QED BY <1>1, <1>3, <1>4, <1>5, <1>6, <1>7, <2>1, <2>2 DEF Fitting
<1>9. Enrolling(c)'
  <2>1. \A i \in DOMAIN in'[c] : in'[c][i].type # "configure" BY <1>3, <1>5
  <2> QED BY <1>1, <1>4, <1>6, <2>1 DEF Enrolling
<1>10. rt.sub # None /\ rt.sub.by = c => Settled(c)'
  BY <1>4, <1>6, InvAll DEF Submitted, Settled, Open
<1>11. /\ out' = [out EXCEPT ![c] = out[c]] /\ held' = [held EXCEPT ![c] = held[c]]
  BY <1>4 DEF Inv, Typed, ConsoleTyped
<1>12. out[c] \in Seq(EventRecs) /\ held[c] \in 0 .. MaxEnroll /\ faults' \in 0 .. MaxFaults
  BY <1>4, InvOf, InvAll DEF SharedTyped
<1> QED BY <1>2, <1>4, <1>5, <1>8, <1>9, <1>10, <1>11, <1>12, ConsoleStep

\* A user who moves between screens.
LEMMA MoveKeeps ==
  ASSUME Inv, NEW c \in Clients, Open(c), tui[c].pending = None, tui[c].stage # "connecting",
         NEW m \in Tuis, m.stage \notin {"off", "start", "killed", "exited", "connecting"},
         m.pending = None, m.shown = tui[c].shown,
         NEW h \in 0 .. MaxEnroll, held' = [held EXCEPT ![c] = h],
         m.enr # 0 => m.code \in {0, m.enr}, m.stage \in {"totp", "codes"} => ~m.saved,
         m.saved /\ m.enr # 0 /\ m.code # 0 => h = m.code,
         rt.sub # None /\ rt.sub.by = c => m.stage \notin {"totp", "codes"} /\ h = held[c],
         tui' = [tui EXCEPT ![c] = m], UNCHANGED <<in, out, seen>>, TuiOnly
  PROVE  Inv'
<1>1. UNCHANGED <<machine, disk, rt, ps, svc, work, faults, in, out, seen>> BY DEF TuiOnly
<1>2. in[c] = <<>> /\ \A i \in DOMAIN out[c] : out[c][i].re = None BY Waiting
<1>3. Talking(c) /\ Fitting(c) /\ Enrolling(c) BY InvOf
<1>4. tui'[c] = m /\ held'[c] = h BY DEF Inv, Typed, ConsoleTyped
<1>5. Open(c)' BY <1>4 DEF Open
<1>6. Talking(c)'
  <2>1. None # "reboot" BY NoneApart DEF RequestTypes
  <2>2. Answering(c)' BY <1>1, <1>3 DEF Talking, Answering
  <2>3. Staged(c)' BY <1>1, <1>3, <1>4 DEF Talking, Staged, Open
  <2>4. Requesting(c)' BY <1>1, <1>2, <1>4, <2>1 DEF Requesting
  <2>5. Replying(c)' BY <1>1, <1>2 DEF Replying
  <2>6. Telling(c)' BY <1>1, <1>3, <1>4 DEF Talking, Telling
  <2> QED BY <1>5, <2>2, <2>3, <2>4, <2>5, <2>6 DEF Talking
<1>7. Fitting(c)'
  <2>1. SUFFICES ASSUME svc[c].mode # "off" PROVE Fitting(c)'
    BY <1>1 DEF Fitting
  <2> QED BY <1>1, <1>2, <1>3, <1>4, <2>1 DEF Fitting
<1>8. Enrolling(c)' BY <1>1, <1>2, <1>3, <1>4 DEF Enrolling
<1>9. rt.sub # None /\ rt.sub.by = c => Settled(c)' /\ h = held[c]
  BY <1>1, <1>4, InvAll DEF Submitted, Settled, Open
<1>10. /\ out' = [out EXCEPT ![c] = out[c]] /\ in' = [in EXCEPT ![c] = in[c]]
       /\ seen' = [seen EXCEPT ![c] = seen[c]]
  BY <1>1 DEF Inv, Typed, ConsoleTyped
<1>11. /\ out[c] \in Seq(EventRecs) /\ in[c] \in Seq(RequestRecs) /\ seen[c] \in Plans
       /\ faults' \in 0 .. MaxFaults /\ machine = "media"
  BY <1>1, InvOf, InvAll, OnMedia DEF SharedTyped, Open
<1> QED BY <1>1, <1>6, <1>7, <1>8, <1>9, <1>10, <1>11, ConsoleStep

\* A user who moves and enters nothing.
LEMMA MoveOnly ==
  ASSUME Inv, NEW c \in Clients, Open(c), tui[c].pending = None, tui[c].stage # "connecting",
         NEW m \in Tuis, m.stage \notin {"off", "start", "killed", "exited", "connecting"},
         m.pending = None, m.shown = tui[c].shown, m.enr \in {0, tui[c].enr}, m.code = tui[c].code,
         m.saved => tui[c].saved, m.stage \in {"totp", "codes"} => ~m.saved /\ tui[c].stage = "codes",
         tui' = [tui EXCEPT ![c] = m], UNCHANGED <<in, out, seen, held>>, TuiOnly
  PROVE  Inv'
<1>1. Enrolling(c) /\ held[c] \in 0 .. MaxEnroll /\ held' = [held EXCEPT ![c] = held[c]]
  BY InvOf DEF Inv, Typed, ConsoleTyped
<1>2. rt.sub # None /\ rt.sub.by = c => tui[c].stage # "codes"
  BY InvAll DEF Submitted, Settled
<1> QED BY <1>1, <1>2, MoveKeeps DEF Enrolling

\* The user opens the editor.
LEMMA UserCustomisesKeeps ==
  ASSUME Inv, NEW c \in Clients, UserCustomises(c)
  PROVE  Inv'
<1>1. Open(c) /\ tui[c].pending = None /\ tui[c].stage # "connecting" /\ tui[c] \in Tuis
  BY IdleIs DEF UserCustomises
<1> DEFINE m == [tui[c] EXCEPT !.stage = "command"]
<1>2. /\ m \in Tuis /\ m.stage = "command" /\ m.pending = None /\ m.shown = tui[c].shown
      /\ m.enr = tui[c].enr /\ m.code = tui[c].code /\ m.saved = tui[c].saved
  BY <1>1 DEF Tuis, Stages
<1>3. tui' = [tui EXCEPT ![c] = m] /\ UNCHANGED <<in, out, seen, held>> /\ TuiOnly
  BY DEF UserCustomises
<1> HIDE DEF m
<1> QED BY <1>1, <1>2, <1>3, MoveOnly

\* The user goes back.
LEMMA backKeeps ==
  ASSUME Inv, NEW c \in Clients, back(c)
  PROVE  Inv'
<1>1. /\ Open(c) /\ tui[c].pending = None /\ tui[c].stage # "connecting" /\ tui[c] \in Tuis
      /\ tui[c].stage \in {"command", "confirm", "account", "review", "totp", "codes"}
  BY IdleIs DEF back, Idle
<1> DEFINE t == tui[c]
           m == CASE t.stage = "command" ->
                       [t EXCEPT !.stage = IF tui[c].shown # NoPlan THEN "confirm" ELSE "disks"]
                  [] t.stage = "confirm" -> [t EXCEPT !.stage = "disks"]
                  [] t.stage = "account" -> [t EXCEPT !.stage = "settings"]
                  [] t.stage = "review"  -> [t EXCEPT !.stage = "account"]
                  [] t.stage = "codes"   -> [t EXCEPT !.stage = "totp", !.saved = FALSE]
                  [] OTHER               -> [t EXCEPT !.stage = "account", !.enr = 0]
<1>2. tui' = [tui EXCEPT ![c] = m] /\ UNCHANGED <<in, out, seen, held>> /\ TuiOnly
  BY DEF back
<1>3. /\ m \in Tuis /\ m.stage \notin {"off", "start", "killed", "exited", "connecting"}
      /\ m.pending = None /\ m.shown = tui[c].shown /\ m.enr \in {0, tui[c].enr} /\ m.code = tui[c].code
      /\ m.saved => tui[c].saved
      /\ m.stage \in {"totp", "codes"} => ~m.saved /\ tui[c].stage = "codes"
  <2> USE <1>1, BoundsAssumption DEF Tuis, Stages
  <2>1. CASE t.stage = "command" BY <2>1
  <2>2. CASE t.stage = "confirm" BY <2>2
  <2>3. CASE t.stage = "account" BY <2>3
  <2>4. CASE t.stage = "review" BY <2>4
  <2>5. CASE t.stage = "codes" BY <2>5
  <2>6. CASE t.stage = "totp"
    <3>1. m = [t EXCEPT !.stage = "account", !.enr = 0] BY <2>6
    <3>2. 0 \in 0 .. MaxEnroll OBVIOUS
    <3> QED BY <3>1, <3>2
  <2> QED BY <2>1, <2>2, <2>3, <2>4, <2>5, <2>6
<1> HIDE DEF m
<1> QED BY <1>1, <1>2, <1>3, MoveOnly

\* The user has saved the recovery codes.
LEMMA UserSavesKeeps ==
  ASSUME Inv, NEW c \in Clients, UserSaves(c)
  PROVE  Inv'
<1>1. /\ Open(c) /\ tui[c].pending = None /\ tui[c].stage = "codes" /\ tui[c] \in Tuis /\ Enrolling(c)
  BY IdleIs DEF UserSaves, Idle
<1> DEFINE m == [tui[c] EXCEPT !.stage = "review", !.saved = TRUE]
           h == IF tui[c].code = tui[c].enr THEN tui[c].enr ELSE 0
<1>2. /\ m \in Tuis /\ m.stage = "review" /\ m.pending = None /\ m.shown = tui[c].shown
      /\ m.enr = tui[c].enr /\ m.code = tui[c].code
  BY <1>1 DEF Tuis, Stages
<1>3. /\ tui' = [tui EXCEPT ![c] = m] /\ UNCHANGED <<in, out, seen>> /\ TuiOnly
      /\ held' = [held EXCEPT ![c] = h]
  BY DEF UserSaves
<1>4. h \in 0 .. MaxEnroll
  <2>1. tui[c].enr \in 0 .. MaxEnroll /\ 0 \in 0 .. MaxEnroll BY <1>1, BoundsAssumption DEF Tuis
  <2> QED BY <2>1
<1>5. m.enr # 0 /\ m.code # 0 => h = m.code BY <1>1, <1>2 DEF Enrolling
<1>6. m.enr # 0 => m.code \in {0, m.enr} BY <1>1, <1>2 DEF Enrolling
<1>7. ~(rt.sub # None /\ rt.sub.by = c) BY <1>1, InvAll DEF Submitted, Settled
<1> HIDE DEF m, h
<1> QED BY <1>1, <1>2, <1>3, <1>4, <1>5, <1>6, <1>7, MoveKeeps

\* The variables a step of a terminal program leaves alone, as ConsoleStep wants them.
LEMMA SameConsole ==
  ASSUME Inv, NEW c \in Clients
  PROVE  /\ in = [in EXCEPT ![c] = in[c]] /\ out = [out EXCEPT ![c] = out[c]]
         /\ seen = [seen EXCEPT ![c] = seen[c]] /\ held = [held EXCEPT ![c] = held[c]]
         /\ in[c] \in Seq(RequestRecs) /\ out[c] \in Seq(EventRecs) /\ seen[c] \in Plans
         /\ held[c] \in 0 .. MaxEnroll /\ faults \in 0 .. MaxFaults
         /\ \A m : [tui EXCEPT ![c] = m][c] = m
BY InvOf, InvAll DEF Inv, Typed, ConsoleTyped, SharedTyped

\* Ctrl+R on a console whose service is gone.
LEMMA RebootUnavailable ==
  ASSUME Inv, NEW c \in Clients, UserReboots(c), svc[c].mode = "off"
  PROVE  Inv'
<1>1. /\ Open(c) /\ tui[c] \in Tuis /\ Talking(c) /\ Enrolling(c) /\ machine = "media"
  BY InvOf, OnMedia DEF UserReboots, Open
<1> DEFINE m == [tui[c] EXCEPT !.rebooting = TRUE, !.paused = TRUE, !.stage = "unavailable"]
<1>2. /\ tui' = [tui EXCEPT ![c] = m]
      /\ UNCHANGED <<machine, disk, rt, ps, svc, work, faults, in, out, seen, held>>
  BY DEF UserReboots, TuiOnly
<1>3. /\ m \in Tuis /\ m.stage = "unavailable" /\ m.pending = tui[c].pending /\ m.rebooting
      /\ m.enr = tui[c].enr /\ m.code = tui[c].code /\ m.saved = tui[c].saved
  BY <1>1 DEF Tuis, Stages
<1> HIDE DEF m
<1>4. tui'[c] = m BY <1>2, SameConsole
<1>5. Talking(c)'
  <2>1. Requesting(c) /\ Replying(c) /\ Telling(c) BY <1>1 DEF Talking
  <2>2. Answering(c)' BY <1>1, <1>2 DEF Talking, Answering
  <2>3. Staged(c)' BY <1>1, <1>2, <1>3, <1>4 DEF Staged, Open
  <2>4. Requesting(c)' BY <1>2, <1>3, <1>4, <2>1 DEF Requesting
  <2>5. Replying(c)' BY <1>2, <1>3, <1>4, <2>1 DEF Replying
  <2>6. Telling(c)' BY <1>2, <1>3, <1>4, <2>1 DEF Telling
  <2>7. Open(c)' BY <1>1, <1>3, <1>4 DEF Open
  <2> QED BY <2>2, <2>3, <2>4, <2>5, <2>6, <2>7 DEF Talking
<1>6. Fitting(c)' BY <1>2 DEF Fitting
<1>7. Enrolling(c)' BY <1>1, <1>2, <1>3, <1>4 DEF Enrolling
<1>8. rt.sub # None /\ rt.sub.by = c => Settled(c)'
  BY <1>1, <1>2, <1>3, <1>4, InvAll DEF Submitted, Settled, Open
<1> QED BY <1>1, <1>2, <1>3, <1>5, <1>6, <1>7, <1>8, SameConsole, ConsoleStep

\* Ctrl+R is sent after a request that is under way.
LEMMA RebootSent ==
  ASSUME Inv, NEW c \in Clients, UserReboots(c), svc[c].mode # "off"
  PROVE  Inv'
<1>1. /\ Open(c) /\ tui[c] \in Tuis /\ Talking(c) /\ Fitting(c) /\ Enrolling(c) /\ machine = "media"
      /\ ~tui[c].rebooting /\ in[c] \in Seq(RequestRecs) /\ out[c] \in Seq(EventRecs)
  BY InvOf, OnMedia DEF UserReboots, Open
<1> DEFINE r == Request("reboot")
           m == [tui[c] EXCEPT !.rebooting = TRUE, !.paused = TRUE]
           n == [m EXCEPT !.pending = r.type]
           q == Append(in[c], r)
<1>2. r \in RequestRecs /\ r.type = "reboot" BY RequestTyped DEF RequestTypes
<1>3. /\ tui' = [tui EXCEPT ![c] = n] /\ in' = [in EXCEPT ![c] = q]
      /\ UNCHANGED <<machine, disk, rt, ps, svc, work, faults, out, seen, held>>
  BY DEF UserReboots, TuiOnly, Send
<1> HIDE DEF r
<1>4. /\ n \in Tuis /\ n.stage = tui[c].stage /\ n.pending = "reboot" /\ n.rebooting
      /\ n.shown = tui[c].shown /\ n.enr = tui[c].enr /\ n.code = tui[c].code /\ n.saved = tui[c].saved
  BY <1>1, <1>2 DEF Tuis, RequestTypes
<1>5. /\ q \in Seq(RequestRecs) /\ q # <<>> /\ Len(in[c]) \in Nat /\ Len(q) = Len(in[c]) + 1
      /\ q[Len(in[c]) + 1] = r
      /\ \A i \in DOMAIN in[c] : i \in DOMAIN q /\ q[i] = in[c][i]
      /\ \A i \in DOMAIN q : i = Len(in[c]) + 1 \/ i \in DOMAIN in[c]
  BY <1>1, <1>2, Appended
<1> HIDE DEF m, n, q
<1>6. tui'[c] = n /\ in'[c] = q BY <1>3, SameConsole DEF Inv, Typed, ConsoleTyped
<1>7. Requesting(c) /\ Replying(c) /\ Telling(c) BY <1>1 DEF Talking
<1>8. tui[c].pending # "reboot" /\ Len(in[c]) <= 1 /\ (in[c] # <<>> => in[c][1].type # "reboot" /\ 1 \in DOMAIN in[c])
  <2>1. tui[c].pending # "reboot" BY <1>1, <1>7 DEF Requesting
  <2>2. Len(in[c]) <= 2 /\ Len(in[c]) # 2 BY <1>7, <2>1 DEF Requesting
  <2>3. Len(in[c]) = 0 \/ Len(in[c]) = 1 BY <1>5, <2>2, UpToTwo
  <2>4. Len(in[c]) <= 1 BY <1>5, <2>2, UpToTwo
  <2>5. in[c] # <<>> => Len(in[c]) = 1 BY <1>1, <2>3, Lengths
  <2>6. in[c] # <<>> => 1 \in DOMAIN in[c] BY <1>1, Taken
  <2> QED BY <1>7, <2>1, <2>4, <2>5, <2>6 DEF Requesting
<1>9. Talking(c)'
  <2>1. Answering(c)' BY <1>1, <1>3 DEF Talking, Answering
  <2>2. Staged(c)' BY <1>1, <1>4, <1>5, <1>6 DEF Staged, Open
  <2>3. Requesting(c)'
    <3>1. Len(q) <= 2 BY <1>5, <1>8
    <3>2. q[Len(q)].type = "reboot" BY <1>2, <1>5
    <3>3. Len(q) = 2 => q[1].type # "reboot"
      <4>1. Len(q) = 2 => in[c] # <<>> BY <1>5
      <4> QED BY <1>5, <1>8, <4>1
    <3> QED BY <1>4, <1>6, <3>1, <3>2, <3>3 DEF Requesting
  <2>4. Replying(c)'
    <3>1. SUFFICES ASSUME NEW i \in DOMAIN out[c], out[c][i].re # None
                   PROVE  /\ out[c][i].re # "reboot" /\ Len(q) <= 1
                          /\ \A j \in DOMAIN out[c] : j # i => out[c][j].re \in {None, "reboot"}
      BY <1>3, <1>4, <1>6 DEF Replying
    <3>2. out[c][i].re = tui[c].pending /\ in[c] = <<>> BY <1>7, <1>8, <3>1 DEF Replying
    <3>3. Len(q) <= 1 BY <1>5, <3>2
    <3>4. ASSUME NEW j \in DOMAIN out[c], j # i PROVE out[c][j].re = None
      <4>1. SUFFICES ASSUME out[c][j].re # None PROVE FALSE OBVIOUS
      <4>2. out[c][j].re = tui[c].pending BY <1>7, <1>8, <4>1 DEF Replying
      <4>3. i \in Nat /\ j \in Nat BY <1>1, <3>1, <3>4
      <4>4. i < j \/ j < i BY <3>4, <4>3
      <4> QED BY <1>7, <3>1, <3>2, <4>1, <4>2, <4>4 DEF Replying
    <3> QED BY <1>8, <3>2, <3>3, <3>4
  <2>5. Telling(c)' BY <1>2, <1>3, <1>4, <1>5, <1>6, <1>7 DEF Telling
  <2>6. Open(c)' BY <1>1, <1>4, <1>6 DEF Open
  <2> QED BY <2>1, <2>2, <2>3, <2>4, <2>5, <2>6 DEF Talking
<1>10. \A i \in DOMAIN q : q[i].type \in {"confirm", "configure"} => i \in DOMAIN in[c] /\ q[i] = in[c][i]
  BY <1>2, <1>5
<1>11. Fitting(c)' BY <1>1, <1>3, <1>4, <1>6, <1>10 DEF Fitting
<1>12. Enrolling(c)' BY <1>1, <1>3, <1>4, <1>6, <1>10 DEF Enrolling
<1>13. rt.sub # None /\ rt.sub.by = c => Settled(c)'
  BY <1>1, <1>3, <1>4, <1>6, InvAll DEF Submitted, Settled, Open
<1> QED BY <1>1, <1>3, <1>4, <1>5, <1>9, <1>11, <1>12, <1>13, SameConsole, ConsoleStep

\* The pipe is closed.
LEMMA ClosedKeeps ==
  ASSUME Inv, NEW c \in Clients, Closed(c)
  PROVE  Inv'
<1>1. /\ Open(c) /\ tui[c] \in Tuis /\ Talking(c) /\ Enrolling(c) /\ machine = "media"
      /\ svc[c].mode = "off" /\ out[c] = <<>> /\ in[c] \in Seq(RequestRecs)
  BY InvOf DEF Closed, Open
<1> DEFINE m == [tui[c] EXCEPT !.stage = IF tui[c].rebooting THEN "exited" ELSE "unavailable"]
<1>2. /\ tui' = [tui EXCEPT ![c] = m]
      /\ UNCHANGED <<machine, disk, rt, ps, svc, work, faults, in, out, seen, held>>
  BY DEF Closed, TuiOnly
<1>3. /\ m \in Tuis /\ m.stage \in {"exited", "unavailable"} /\ m.pending = tui[c].pending
      /\ m.rebooting = tui[c].rebooting
      /\ m.enr = tui[c].enr /\ m.code = tui[c].code /\ m.saved = tui[c].saved
  BY <1>1 DEF Tuis, Stages
<1> HIDE DEF m
<1>4. tui'[c] = m BY <1>2, SameConsole
<1>5. Talking(c)'
  <2>1. Requesting(c) /\ Replying(c) /\ Telling(c) BY <1>1 DEF Talking
  <2>2. Answering(c)' BY <1>1, <1>2 DEF Talking, Answering
  <2>3. Staged(c)' BY <1>1, <1>2, <1>3, <1>4 DEF Staged, Open
  <2>4. CASE m.stage = "unavailable"
    <3>1. Requesting(c)' BY <1>2, <1>3, <1>4, <2>1 DEF Requesting
    <3>2. Replying(c)' BY <1>2, <1>3, <1>4, <2>1 DEF Replying
    <3>3. Telling(c)' BY <1>1, <1>2, <1>4, <2>1, <2>4 DEF Telling
    <3>4. Open(c)' BY <1>1, <1>4, <2>4 DEF Open
    <3> QED BY <2>2, <2>3, <3>1, <3>2, <3>3, <3>4 DEF Talking
  <2>5. CASE m.stage = "exited"
    <3>1. ~Open(c)' BY <1>4, <2>5 DEF Open
    <3>2. Load(in[c], out[c]) = Len(in[c]) /\ Len(in[c]) \in Nat BY <1>1, Loaded
    <3>3. Len(in[c]) <= 2 BY <2>1 DEF Requesting
    <3>4. c \in Screens BY <1>1 DEF Open
    <3>5. Counted(c)' BY <1>1, <1>2, <3>2, <3>3, <3>4 DEF Counted
    <3> QED BY <2>2, <2>3, <3>1, <3>5 DEF Talking
  <2> QED BY <1>3, <2>4, <2>5
<1>6. Fitting(c)' BY <1>1, <1>2 DEF Fitting
<1>7. Enrolling(c)' BY <1>1, <1>2, <1>3, <1>4 DEF Enrolling
<1>8. rt.sub # None /\ rt.sub.by = c => Settled(c)'
  BY <1>1, <1>2, <1>3, <1>4, InvAll DEF Submitted, Settled, Open
<1> QED BY <1>1, <1>2, <1>3, <1>5, <1>6, <1>7, <1>8, SameConsole, ConsoleStep

\* The terminal program is killed, and started again.
LEMMA ConsoleKilledKeeps ==
  ASSUME Inv, NEW c \in Clients, ConsoleKilled(c)
  PROVE  Inv'
<1>1. /\ Open(c) /\ tui[c] \in Tuis /\ Talking(c) /\ Fitting(c) /\ Enrolling(c) /\ machine = "media"
      /\ in[c] \in Seq(RequestRecs)
  BY InvOf, OnMedia DEF ConsoleKilled, Open
<1> DEFINE m == [NoTui EXCEPT !.stage = "killed"]
<1>2. /\ tui' = [tui EXCEPT ![c] = m] /\ out' = [out EXCEPT ![c] = <<>>]
      /\ UNCHANGED <<machine, disk, rt, ps, svc, work, in, seen, held>>
  BY DEF ConsoleKilled
<1>3. faults' \in 0 .. MaxFaults
  BY InvAll, BoundsAssumption DEF ConsoleKilled, Fault, SharedTyped
<1>4. /\ m \in Tuis /\ m.stage = "killed" /\ m.shown = NoPlan /\ m.enr = 0 /\ ~m.saved
  BY NoneTyped DEF Tuis, Stages, NoTui
<1>5. tui'[c] = m /\ out'[c] = <<>> BY <1>2, SameConsole DEF Inv, Typed, ConsoleTyped
<1>6. Talking(c)'
  <2>1. Requesting(c) BY <1>1 DEF Talking
  <2>2. Answering(c)' BY <1>5 DEF Answering
  <2>3. Staged(c)' BY <1>1, <1>2, <1>4, <1>5 DEF Talking, Staged, Open, NoTui, NoPlan
  <2>4. ~Open(c)' BY <1>4, <1>5 DEF Open
  <2>5. Load(in[c], <<>>) = Len(in[c]) /\ Len(in[c]) \in Nat
    <3>1. <<>> \in Seq(EventRecs) OBVIOUS
    <3> QED BY <1>1, <3>1, Loaded
  <2>6. Len(in[c]) <= 2 BY <2>1 DEF Requesting
  <2>7. c \in Screens BY <1>1 DEF Open
  <2>8. Counted(c)' BY <1>2, <1>5, <2>5, <2>6, <2>7 DEF Counted
  <2> QED BY <2>2, <2>3, <2>4, <2>8 DEF Talking
<1> HIDE DEF m
<1>7. Fitting(c)'
  <2>1. SUFFICES ASSUME svc[c].mode # "off" PROVE Fitting(c)' BY <1>2 DEF Fitting
  <2>2. ~Open(c)' BY <1>4, <1>5 DEF Open
  <2>3. Part(tui'[c].shown, svc[c].inv) BY <1>4, <1>5, PartOfNothing
  <2> QED BY <1>1, <1>2, <1>5, <2>1, <2>2, <2>3 DEF Fitting
<1>8. Enrolling(c)' BY <1>1, <1>2, <1>4, <1>5 DEF Enrolling
<1>9. Settled(c)' BY <1>4, <1>5 DEF Settled, Open
<1>10. <<>> \in Seq(EventRecs) OBVIOUS
<1> QED BY <1>1, <1>2, <1>3, <1>4, <1>6, <1>7, <1>8, <1>9, <1>10, SameConsole, ConsoleStep

\* The terminal program is started again.
LEMMA RestartKeeps ==
  ASSUME Inv, NEW c \in Clients, Restart(c)
  PROVE  Inv'
<1>1. /\ tui[c] \in Tuis /\ Talking(c) /\ Enrolling(c) /\ machine = "media"
      /\ svc[c].mode = "off" /\ tui[c].stage = "killed"
  BY InvOf DEF Restart
<1> DEFINE m == [tui[c] EXCEPT !.stage = "start"]
<1>2. /\ tui' = [tui EXCEPT ![c] = m]
      /\ UNCHANGED <<machine, disk, rt, ps, svc, work, faults, in, out, seen, held>>
  BY DEF Restart, TuiOnly
<1>3. m = [NoTui EXCEPT !.stage = "start"] BY <1>1 DEF Talking, Staged, NoTui
<1>4. /\ m \in Tuis /\ m.stage = "start" /\ m.shown = NoPlan /\ m.enr = 0 /\ ~m.saved
  BY <1>3, NoneTyped DEF Tuis, Stages, NoTui
<1> HIDE DEF m
<1>5. tui'[c] = m BY <1>2, SameConsole
<1>6. Talking(c)'
  <2>1. Answering(c)' BY <1>1, <1>2 DEF Talking, Answering
  <2>2. Staged(c)' BY <1>1, <1>2, <1>3, <1>4, <1>5 DEF Staged, NoTui, NoPlan
  <2>3. ~Open(c) /\ ~Open(c)' BY <1>1, <1>4, <1>5 DEF Open
  <2>4. Counted(c)' BY <1>1, <1>2, <2>3 DEF Talking, Counted
  <2> QED BY <2>1, <2>2, <2>3, <2>4 DEF Talking
<1>7. Fitting(c)' BY <1>1, <1>2 DEF Fitting
<1>8. Enrolling(c)' BY <1>1, <1>2, <1>4, <1>5 DEF Enrolling
<1>9. Settled(c)' BY <1>4, <1>5 DEF Settled, Open
<1> QED BY <1>1, <1>2, <1>4, <1>6, <1>7, <1>8, <1>9, SameConsole, ConsoleStep

\* Every step of a user.
LEMMA UserKeeps ==
  ASSUME Inv, NEW c \in Clients, User(c)
  PROVE  Inv'
BY UserPreviewsKeeps, UserErasesKeeps, UserCustomisesKeeps, backKeeps, UserSettlesKeeps, UserFinishesKeeps,
   UserSavesKeeps, RebootUnavailable, RebootSent, UserAccountKeeps, UserCodeKeeps DEF User

-----------------------------------------------------------------------------
(* The steps of a service.                                                 *)

\* The other clients of a step that changes no files, or whose client may take the lock.
LEMMA OthersSame ==
  ASSUME Inv, NEW c \in Clients, Local(c), NEW o \in Clients, o # c,
         \/ UNCHANGED <<disk, rt, ps>>
         \/ rt.lock \in {None, c} /\ rt'.lock \in {None, c}
  PROVE  Session(o)' /\ Stepping(o)' /\ Building(o)'
<1>1. svc'[o] = svc[o] /\ work'[o] = work[o] BY DEF Local
<1>2. Session(o) /\ Stepping(o) /\ Building(o) BY InvOf
<1>3. CASE UNCHANGED <<disk, rt, ps>>
  <2>1. Session(o)' BY <1>1, <1>2, <1>3 DEF Session, PoolExists, NoService, NoPlan
  <2>2. Stepping(o)' BY <1>1, <1>2, <1>3 DEF Stepping, Active
  <2>3. Building(o)' BY <1>1, <1>2, <1>3 DEF Building, PoolExists, Pooled, NoPool, Active
  <2> QED BY <2>1, <2>2, <2>3
<1>4. CASE rt.lock \in {None, c} /\ rt'.lock \in {None, c}
  <2>1. rt.lock # o /\ rt'.lock # o BY <1>4, ClientsDiffer
  <2>2. /\ svc[o].planned = NoPlan /\ ~svc[o].started /\ work[o].pc = "none"
        /\ ~svc[o].done /\ ~svc[o].terminal /\ ~svc[o].accepted
    BY <1>2, <2>1 DEF Session
  <2>3. Session(o)' BY <1>1, <1>2, <2>1, <2>2 DEF Session, NoPlan, NoService
  <2>4. Stepping(o)' BY <1>1, <2>2 DEF Stepping, Active
  <2>5. Building(o)' BY <1>1, <2>2 DEF Building, Unpooled, Complete, Active
  <2> QED BY <2>3, <2>4, <2>5
<1> QED BY <1>3, <1>4

\* What is left to show of any step of one client.
LEMMA ClientStep ==
  ASSUME Inv, NEW c \in Clients, machine = "media", UNCHANGED <<machine, disk, ps, held>>,
         faults' \in 0 .. MaxFaults, rt' \in Runtimes,
         \/ rt' = rt
         \/ rt.lock \in {None, c} /\ rt'.lock \in {None, c},
         NEW m \in Tuis, tui' = [tui EXCEPT ![c] = m],
         NEW q \in Seq(RequestRecs), in' = [in EXCEPT ![c] = q],
         NEW e \in Seq(EventRecs), out' = [out EXCEPT ![c] = e],
         NEW p \in Plans, seen' = [seen EXCEPT ![c] = p],
         NEW s \in Services, svc' = [svc EXCEPT ![c] = s],
         NEW w \in Workers, work' = [work EXCEPT ![c] = w],
         Stored', Session(c)', Stepping(c)', Building(c)', Talking(c)', Fitting(c)', Enrolling(c)',
         Submitted'
  PROVE  Inv'
<1>1. Typed'
  BY DEF Inv, Typed, SharedTyped, ConsoleTyped, ServiceTyped
<1>2. Local(c) BY DEF Local, Inv, Typed, ConsoleTyped, ServiceTyped
<1>3. \A o \in Clients : o # c => Session(o)' /\ Stepping(o)' /\ Building(o)'
  BY <1>2, OthersSame
<1>4. Working' BY <1>3 DEF Working
<1> QED BY <1>1, <1>2, <1>4, LocalStep

\* The submission stays.
LEMMA SubmittedKept ==
  ASSUME Inv, NEW c \in Clients, Local(c), rt'.sub = rt.sub, held' = held,
         rt.sub # None /\ rt.sub.by = c => ~FormsOpen(c)' /\ Settled(c)'
  PROVE  Submitted'
<1>1. SUFFICES ASSUME rt.sub # None
               PROVE  /\ ~FormsOpen(rt.sub.by)' /\ Settled(rt.sub.by)'
                      /\ rt.sub.totp # 0 => held[rt.sub.by] = rt.sub.totp
  BY DEF Submitted, FormsOpen, Settled, Open
<1>2. rt.sub.by \in Clients /\ Submitted BY <1>1, SubOf, InvAll
<1>3. CASE rt.sub.by = c
  <2>1. ~FormsOpen(rt.sub.by)' BY <1>1, <1>3 DEF FormsOpen
  <2>2. Settled(rt.sub.by)' BY <1>1, <1>3 DEF Settled, Open
  <2> QED BY <1>1, <1>2, <2>1, <2>2 DEF Submitted
<1>4. CASE rt.sub.by # c
  <2>1. ~FormsOpen(rt.sub.by)' BY <1>1, <1>2, <1>4 DEF Local, Submitted, FormsOpen
  <2>2. Settled(rt.sub.by)' BY <1>1, <1>2, <1>4 DEF Local, Submitted, Settled, Open
  <2> QED BY <1>1, <1>2, <2>1, <2>2 DEF Submitted
<1> QED BY <1>3, <1>4

\* Zero or one is not two.
LEMMA ZeroOrOne ==
  ASSUME NEW n, n = 0 \/ n = 1
  PROVE  n <= 1 /\ n # 2 /\ n <= 2
OBVIOUS

\* One request taken from one or two.
LEMMA TakenOne ==
  ASSUME NEW S, NEW s \in Seq(S), s # <<>>, Len(s) <= 2
  PROVE  /\ Len(s) = 1 \/ Len(s) = 2
         /\ Len(s) = 1 => Tail(s) = <<>> /\ Head(s) = s[Len(s)]
         /\ Len(s) = 2 => Tail(s) # <<>> /\ Len(Tail(s)) = 1 /\ Tail(s)[Len(Tail(s))] = s[Len(s)]
         /\ Len(Tail(s)) <= 1 /\ Len(Tail(s)) # 2 /\ Len(Tail(s)) <= 2
<1>1. Len(s) = 1 \/ Len(s) = 2 BY Lengths, UpToTwo
<1>2. Len(Tail(s)) = Len(s) - 1 /\ Tail(s) \in Seq(S) /\ Head(s) = s[1]
      /\ \A i \in DOMAIN Tail(s) : Tail(s)[i] = s[i + 1]
  BY Taken
<1>3. CASE Len(s) = 1
  <2>1. Len(Tail(s)) = 0 BY <1>2, <1>3
  <2>2. Tail(s) = <<>> BY <1>2, <2>1, Lengths
  <2>3. Len(s) # 2 /\ Len(Tail(s)) <= 1 /\ Len(Tail(s)) # 2 /\ Len(Tail(s)) <= 2 BY <1>3, <2>1, ZeroOrOne
  <2> QED BY <1>2, <1>3, <2>2, <2>3
<1>4. CASE Len(s) = 2
  <2>1. Len(Tail(s)) = 1 BY <1>2, <1>4
  <2>2. DOMAIN Tail(s) = {1} BY <1>2, <2>1, Lengths
  <2>3. Tail(s)[1] = s[1 + 1] BY <1>2, <2>2
  <2>4. Tail(s) # <<>> BY <1>2, <2>1, Lengths
  <2>5. Len(s) # 1 /\ Len(Tail(s)) <= 1 /\ Len(Tail(s)) # 2 /\ Len(Tail(s)) <= 2 BY <1>4, <2>1, ZeroOrOne
  <2> QED BY <1>4, <2>1, <2>3, <2>4, <2>5
<1> QED BY <1>1, <1>3, <1>4

\* What taking a request and answering it does to the pipes.
LEMMA AnsweredPipes ==
  ASSUME Inv, NEW c \in Clients, in[c] # <<>>, NEW e \in EventRecs, Take(c), Reply(c, e)
  PROVE  /\ in' = [in EXCEPT ![c] = Tail(in[c])] /\ out' = [out EXCEPT ![c] = Append(out[c], e)]
         /\ in'[c] = Tail(in[c]) /\ out'[c] = Append(out[c], e)
         /\ Tail(in[c]) \in Seq(RequestRecs) /\ Append(out[c], e) \in Seq(EventRecs)
         /\ Head(in[c]) = in[c][1] /\ 1 \in DOMAIN in[c] /\ Head(in[c]) \in RequestRecs
         /\ \A i \in DOMAIN in'[c] : i + 1 \in DOMAIN in[c] /\ in'[c][i] = in[c][i + 1]
         /\ \A i \in DOMAIN out'[c] : out'[c][i] = e \/ (i \in DOMAIN out[c] /\ out'[c][i] = out[c][i])
<1>1. in[c] \in Seq(RequestRecs) /\ out[c] \in Seq(EventRecs) BY InvOf
<1>2. /\ in' = [in EXCEPT ![c] = Tail(in[c])] /\ out' = [out EXCEPT ![c] = Append(out[c], e)]
  BY DEF Take, Reply
<1>3. in'[c] = Tail(in[c]) /\ out'[c] = Append(out[c], e)
  BY <1>2 DEF Inv, Typed, ConsoleTyped
<1>4. /\ Tail(in[c]) \in Seq(RequestRecs) /\ Head(in[c]) = in[c][1] /\ 1 \in DOMAIN in[c]
      /\ Head(in[c]) \in RequestRecs
      /\ \A i \in DOMAIN Tail(in[c]) : i + 1 \in DOMAIN in[c] /\ Tail(in[c])[i] = in[c][i + 1]
  BY <1>1, Taken
<1>5. /\ Append(out[c], e) \in Seq(EventRecs)
      /\ \A i \in DOMAIN Append(out[c], e) :
            Append(out[c], e)[i] = e \/ (i \in DOMAIN out[c] /\ Append(out[c], e)[i] = out[c][i])
  <2>1. /\ Append(out[c], e) \in Seq(EventRecs) /\ Append(out[c], e)[Len(out[c]) + 1] = e
        /\ \A i \in DOMAIN out[c] : Append(out[c], e)[i] = out[c][i]
        /\ \A i \in DOMAIN Append(out[c], e) : i = Len(out[c]) + 1 \/ i \in DOMAIN out[c]
    BY <1>1, Appended
  <2>2. ASSUME NEW i \in DOMAIN Append(out[c], e)
        PROVE  Append(out[c], e)[i] = e \/ (i \in DOMAIN out[c] /\ Append(out[c], e)[i] = out[c][i])
    <3>1. CASE i = Len(out[c]) + 1 BY <2>1, <3>1
    <3>2. CASE i \in DOMAIN out[c] BY <2>1, <3>2
    <3> QED BY <2>1, <3>1, <3>2
  <2> QED BY <2>1, <2>2
<1>6. /\ \A i \in DOMAIN in'[c] : i + 1 \in DOMAIN in[c] /\ in'[c][i] = in[c][i + 1]
      /\ \A i \in DOMAIN out'[c] : out'[c][i] = e \/ (i \in DOMAIN out[c] /\ out'[c][i] = out[c][i])
  BY <1>3, <1>4, <1>5, Zenon
<1>7. Append(out[c], e) \in Seq(EventRecs) BY <1>5
<1> QED BY <1>2, <1>3, <1>4, <1>6, <1>7, Zenon

\* An answer keeps the protocol.
LEMMA AnswerTalks ==
  ASSUME Inv, NEW c \in Clients, in[c] # <<>>, svc[c].mode # "off",
         NEW e \in EventRecs, e.re = Head(in[c]).type, e.type \in {"error", e.re},
         Take(c), Reply(c, e), tui'[c] = tui[c], svc'[c].mode \notin {"off", "rebooting"},
         svc'[c].terminal \/ ~svc[c].terminal,
         \/ svc'[c].started = svc[c].started /\ (svc'[c].done => svc[c].done)
         \/ ~svc[c].started /\ e.re # "reboot"
  PROVE  Talking(c)'
<1>1. Talking(c) /\ in[c] \in Seq(RequestRecs) /\ out[c] \in Seq(EventRecs) BY InvOf
<1> DEFINE q == Tail(in[c])
           z == Append(out[c], e)
           n == Len(out[c]) + 1
<1>2. in'[c] = q /\ out'[c] = z BY AnsweredPipes
<1>3. e.re \in RequestTypes /\ e.re # None BY <1>1, AnsweredPipes, NoneApart DEF RequestRecs
<1>4. /\ Head(in[c]) = in[c][1] /\ 1 \in DOMAIN in[c]
      /\ \A i \in DOMAIN q : i + 1 \in DOMAIN in[c] /\ q[i] = in[c][i + 1]
  BY <1>1, Taken
<1>5. /\ z[n] = e /\ n \in DOMAIN z
      /\ \A i \in DOMAIN out[c] : i \in DOMAIN z /\ z[i] = out[c][i] /\ i # n /\ i < n
      /\ \A i \in DOMAIN z : i = n \/ i \in DOMAIN out[c]
  BY <1>1, Appended
<1>6. Load(q, z) = Load(in[c], out[c]) /\ Len(q) \in Nat
  <2>1. q \in Seq(RequestRecs) BY <1>1, Taken
  <2> QED BY <1>1, <2>1, Loaded, Lengths
<1>7. Len(in[c]) <= 2 => /\ Len(in[c]) = 1 \/ Len(in[c]) = 2
                         /\ Len(in[c]) = 1 => q = <<>> /\ Head(in[c]) = in[c][Len(in[c])]
                         /\ Len(in[c]) = 2 => q # <<>> /\ Len(q) = 1 /\ q[Len(q)] = in[c][Len(in[c])]
                         /\ Len(q) <= 1 /\ Len(q) # 2 /\ Len(q) <= 2
  BY <1>1, TakenOne
<1> HIDE DEF q, z, n
<1>8. Answering(c)' BY <1>1, <1>2, <1>3, <1>5 DEF Talking, Answering
<1>9. Staged(c)' BY <1>1 DEF Talking, Staged, NoTui, NoPlan
<1>10. Open(c)' <=> Open(c) BY DEF Open
<1>11. CASE Open(c)
  <2>1. Requesting(c) /\ Replying(c) /\ Telling(c) BY <1>1, <1>11 DEF Talking
  <2>2. Len(in[c]) <= 2 BY <2>1 DEF Requesting
  <2>3. Requesting(c)'
    <3>1. Len(in[c]) = 1 => q = <<>> BY <1>7, <2>2
    <3>2. Len(in[c]) = 2 => q # <<>> /\ q[Len(q)] = in[c][Len(in[c])] BY <1>7, <2>2
    <3> QED BY <1>2, <1>7, <2>1, <2>2, <3>1, <3>2 DEF Requesting
  <2>4. Replying(c)'
    <3>1. CASE Len(in[c]) = 1
      <4>1. q = <<>> /\ e.re = tui[c].pending BY <1>7, <2>1, <2>2, <3>1 DEF Requesting
      <4>2. \A i \in DOMAIN out[c] : out[c][i].re # None =>
              /\ out[c][i].re # tui[c].pending /\ tui[c].pending = "reboot"
              /\ \A j \in DOMAIN out[c] : j # i => out[c][j].re \in {None, "reboot"}
        BY <2>1 DEF Replying
      <4>3. Len(q) <= 1 BY <1>7, <2>2
      <4>4. \A j \in DOMAIN z : ~(j > n) BY <1>1, <1>5 DEF n
      <4> QED BY <1>2, <1>5, <4>1, <4>2, <4>3, <4>4 DEF Replying
    <3>2. CASE Len(in[c]) = 2
      <4>1. tui[c].pending = "reboot" /\ e.re # "reboot" BY <1>4, <2>1, <3>2 DEF Requesting
      <4>2. ~(Len(in[c]) <= 1) BY <3>2
      <4>3. \A i \in DOMAIN out[c] : out[c][i].re = None BY <2>1, <4>2 DEF Replying
      <4>4. Len(q) <= 1 BY <1>7, <2>2
      <4> QED BY <1>2, <1>5, <4>1, <4>3, <4>4 DEF Replying
    <3> QED BY <1>7, <2>2, <3>1, <3>2
  <2>5. Telling(c)'
    <3>1. \A i, j \in DOMAIN z : z[i].re = None /\ z[j].re = None => i = j
      BY <1>3, <1>5, <2>1 DEF Telling
    <3>2. CASE ~svc[c].started /\ e.re # "reboot"
      <4>1. tui[c].stage # "connecting" BY <1>4, <2>1, <3>2 DEF Telling
      <4>2. \A i \in DOMAIN out[c] : out[c][i].re # None BY <2>1, <3>2, <4>1 DEF Telling
      <4> QED BY <1>2, <1>3, <1>5, <3>1, <4>1, <4>2 DEF Telling
    <3>3. CASE svc'[c].started = svc[c].started /\ (svc'[c].done => svc[c].done)
      <4>1. \A i \in DOMAIN z : z[i].re = None => ~svc'[c].done /\ (~svc'[c].started => tui[c].stage = "connecting")
        BY <1>3, <1>5, <2>1, <3>3 DEF Telling
      <4>2. tui[c].stage = "connecting" =>
              /\ ~svc'[c].started /\ \A i \in DOMAIN q : q[i].type = "reboot"
              /\ \A i \in DOMAIN z : z[i].re \in {None, "reboot"}
        BY <1>4, <1>5, <2>1, <3>3 DEF Telling
      <4> QED BY <1>2, <3>1, <4>1, <4>2 DEF Telling
    <3> QED BY <3>2, <3>3
  <2> QED BY <1>8, <1>9, <1>10, <1>11, <2>3, <2>4, <2>5 DEF Talking
<1>12. CASE ~Open(c)
  <2>1. Counted(c) BY <1>1, <1>12 DEF Talking
  <2>2. c \in Screens => Len(q) <= 2 BY <1>7, <2>1 DEF Counted
  <2>3. Counted(c)' BY <1>2, <1>6, <2>1, <2>2 DEF Counted
  <2> QED BY <1>8, <1>9, <1>10, <1>12, <2>3 DEF Talking
<1> QED BY <1>11, <1>12

\* What holds of a service that answers.
LEMMA AskedIs ==
  ASSUME Inv, NEW c \in Clients, NEW t, Asked(c, t), svc[c].mode # "off"
  PROVE  /\ in[c] # <<>> /\ Head(in[c]) \in RequestRecs /\ Head(in[c]).type = t /\ machine = "media"
         /\ svc[c] \in Services /\ work[c] \in Workers /\ Session(c) /\ Stepping(c) /\ Building(c)
         /\ Fitting(c) /\ Enrolling(c) /\ Talking(c) /\ Stored /\ Submitted /\ rt \in Runtimes
         /\ faults \in 0 .. MaxFaults
         /\ tui = [tui EXCEPT ![c] = tui[c]] /\ seen = [seen EXCEPT ![c] = seen[c]]
         /\ svc = [svc EXCEPT ![c] = svc[c]] /\ work = [work EXCEPT ![c] = work[c]]
         /\ tui[c] \in Tuis /\ seen[c] \in Plans
<1>1. in[c] # <<>> /\ Head(in[c]).type = t BY DEF Asked
<1>2. Head(in[c]) \in RequestRecs BY <1>1, InvOf, Taken
<1>3. machine = "media" BY OnMedia
<1>4. /\ tui = [tui EXCEPT ![c] = tui[c]] /\ seen = [seen EXCEPT ![c] = seen[c]]
      /\ svc = [svc EXCEPT ![c] = svc[c]] /\ work = [work EXCEPT ![c] = work[c]]
  BY DEF Inv, Typed, ConsoleTyped, ServiceTyped
<1> QED BY <1>1, <1>2, <1>3, <1>4, InvOf, InvAll DEF SharedTyped

\* Events are events.
LEMMA EventTyped ==
  ASSUME NEW t \in EventTypes, NEW r \in RequestTypes \cup {None}
  PROVE  /\ Event(t, r) \in EventRecs /\ Event(t, r).type = t /\ Event(t, r).re = r
         /\ \A p \in Plans : /\ [Event(t, r) EXCEPT !.plan = p] \in EventRecs
                             /\ [Event(t, r) EXCEPT !.plan = p].type = t
                             /\ [Event(t, r) EXCEPT !.plan = p].re = r
                             /\ [Event(t, r) EXCEPT !.plan = p].plan = p
         /\ \A n \in 0 .. MaxEnroll : /\ [Event(t, r) EXCEPT !.enr = n] \in EventRecs
                                      /\ [Event(t, r) EXCEPT !.enr = n].type = t
                                      /\ [Event(t, r) EXCEPT !.enr = n].re = r
<1>1. 0 \in 0 .. MaxEnroll BY BoundsAssumption
<1>2. Event(t, r) \in EventRecs /\ Event(t, r).type = t /\ Event(t, r).re = r
  BY <1>1, NoPlanIsPlan DEF Event, EventRecs
<1>3. ASSUME NEW p \in Plans
      PROVE  /\ [Event(t, r) EXCEPT !.plan = p] \in EventRecs /\ [Event(t, r) EXCEPT !.plan = p].type = t
             /\ [Event(t, r) EXCEPT !.plan = p].re = r /\ [Event(t, r) EXCEPT !.plan = p].plan = p
  BY <1>2 DEF EventRecs
<1>4. ASSUME NEW n \in 0 .. MaxEnroll
      PROVE  /\ [Event(t, r) EXCEPT !.enr = n] \in EventRecs /\ [Event(t, r) EXCEPT !.enr = n].type = t
             /\ [Event(t, r) EXCEPT !.enr = n].re = r
  BY <1>2 DEF EventRecs
<1> QED BY <1>2, <1>3, <1>4

\* A refusal and a grant are answers.
LEMMA AnswerTyped ==
  ASSUME Inv, NEW c \in Clients, in[c] # <<>>
  PROVE  /\ Event("error", Head(in[c]).type) \in EventRecs
         /\ Event("error", Head(in[c]).type).type = "error"
         /\ Event("error", Head(in[c]).type).re = Head(in[c]).type
         /\ Head(in[c]).type # "reboot" =>
              /\ Event(Head(in[c]).type, Head(in[c]).type) \in EventRecs
              /\ Event(Head(in[c]).type, Head(in[c]).type).type = Head(in[c]).type
              /\ Event(Head(in[c]).type, Head(in[c]).type).re = Head(in[c]).type
<1>1. Head(in[c]) \in RequestRecs BY InvOf, Taken
<1>2. Head(in[c]).type \in RequestTypes BY <1>1 DEF RequestRecs
<1>3. "error" \in EventTypes BY DEF EventTypes
<1>4. Head(in[c]).type # "reboot" => Head(in[c]).type \in EventTypes BY <1>2 DEF EventTypes
<1> QED BY <1>2, <1>3, <1>4, EventTyped

\* An answer that plans and starts nothing.
LEMMA AnswerKeeps ==
  ASSUME Inv, NEW c \in Clients, in[c] # <<>>, svc[c].mode # "off",
         NEW e \in EventRecs, e.re = Head(in[c]).type, e.type \in {"error", e.re}, e.type # "preview",
         e.type \in {"enroll", "verify-totp"} => FormsOpen(c),
         Take(c), Reply(c, e),
         NEW s \in Services, svc' = [svc EXCEPT ![c] = s], s.mode # "off", s.mode # "rebooting",
         s.mode = "serve" => svc[c].mode = "serve" \/ svc[c].inv # NoPlan,
         s.inv = svc[c].inv, s.planned = svc[c].planned, s.started = svc[c].started,
         s.accepted = svc[c].accepted, s.done => svc[c].done /\ ~s.terminal,
         svc[c].terminal => s.terminal, s.terminal => s.started, s.ver \in {0, s.enr},
         UNCHANGED <<machine, disk, rt, ps, tui, work, seen, held>>, faults' \in 0 .. MaxFaults
  PROVE  Inv'
<1>1. /\ Session(c) /\ Stepping(c) /\ Building(c) /\ Fitting(c) /\ Enrolling(c) /\ Stored
      /\ rt \in Runtimes /\ machine = "media" /\ tui[c] \in Tuis /\ seen[c] \in Plans /\ work[c] \in Workers
  BY InvOf, InvAll, OnMedia
<1>2. svc'[c] = s BY DEF Inv, Typed, ServiceTyped
<1>3. /\ in' = [in EXCEPT ![c] = Tail(in[c])] /\ out' = [out EXCEPT ![c] = Append(out[c], e)]
      /\ Tail(in[c]) \in Seq(RequestRecs) /\ Append(out[c], e) \in Seq(EventRecs)
      /\ \A i \in DOMAIN in'[c] : i + 1 \in DOMAIN in[c] /\ in'[c][i] = in[c][i + 1]
      /\ \A i \in DOMAIN out'[c] : out'[c][i] = e \/ (i \in DOMAIN out[c] /\ out'[c][i] = out[c][i])
  BY AnsweredPipes
<1>4. Talking(c)' BY <1>2, AnswerTalks
<1>5. Stored' BY <1>1 DEF Stored, PoolExists, NoPool, NoPlan, InstalledWhole
<1>6. Session(c)' BY <1>1, <1>2 DEF Session, PoolExists, NoPlan
<1>7. Stepping(c)' BY <1>1 DEF Stepping, Active
<1>8. Building(c)' BY <1>1 DEF Building, PoolExists, Pooled, NoPool, Active
<1>9. Fitting(c)'
  <2>1. \A i \in DOMAIN in'[c] : in'[c][i].type = "confirm" =>
          in'[c][i].cmd = DOMAIN seen[c] /\ (Open(c) => tui[c].shown = seen[c])
    BY <1>1, <1>3 DEF Fitting
  <2>2. \A i \in DOMAIN out'[c] : out'[c][i].type = "preview" =>
          Part(out'[c][i].plan, s.inv) /\ ((c \in Screens => Open(c)) => ~s.started)
    BY <1>1, <1>3 DEF Fitting
  <2> QED BY <1>1, <1>2, <2>1, <2>2 DEF Fitting, Open, Part, NoPlan
<1>10. Enrolling(c)'
  <2>1. \A i \in DOMAIN in'[c] : in'[c][i].type = "configure" =>
          /\ in'[c][i].cfg.saved /\ in'[c][i].cfg.code # 0 => held[c] = in'[c][i].cfg.code
          /\ tui[c].stage \notin {"totp", "codes"}
    BY <1>1, <1>3 DEF Enrolling
  <2> QED BY <1>1, <1>2, <2>1 DEF Enrolling
<1>11. Local(c) BY <1>3 DEF Local, Inv, Typed, ConsoleTyped, ServiceTyped
<1>12. rt.sub # None /\ rt.sub.by = c => ~FormsOpen(c)' /\ Settled(c)'
  <2>1. SUFFICES ASSUME rt.sub # None, rt.sub.by = c PROVE ~FormsOpen(c)' /\ Settled(c)'
    OBVIOUS
  <2>2. ~FormsOpen(c) /\ Settled(c) BY <2>1, InvAll DEF Submitted
  <2>3. ~FormsOpen(c)' BY <1>2, <2>2 DEF FormsOpen
  <2>4. Settled(c)' BY <1>3, <2>2 DEF Settled, Open
  <2> QED BY <2>3, <2>4
<1>13. Submitted' BY <1>11, <1>12, SubmittedKept
<1>14. /\ tui' = [tui EXCEPT ![c] = tui[c]] /\ seen' = [seen EXCEPT ![c] = seen[c]]
       /\ work' = [work EXCEPT ![c] = work[c]]
  BY DEF Inv, Typed, ConsoleTyped, ServiceTyped
<1> QED BY <1>1, <1>3, <1>4, <1>5, <1>6, <1>7, <1>8, <1>9, <1>10, <1>13, <1>14, ClientStep

\* The form of the host, the account and the codes.
LEMMA ValidateHostKeeps ==
  ASSUME Inv, NEW c \in Clients, ValidateHost(c)
  PROVE  Inv'
<1>1. /\ svc[c].mode = "serve" /\ svc[c].mode # "off" /\ Asked(c, "validate-host") /\ Take(c)
      /\ UNCHANGED <<machine, disk, rt, ps, tui, svc, work, seen, held, faults>>
      /\ \/ Reply(c, Event("error", Head(in[c]).type))
         \/ Reply(c, Event(Head(in[c]).type, Head(in[c]).type))
  BY DEF ValidateHost, Refuse, Grant
<1> QED BY <1>1, AskedIs, AnswerTyped, AnswerKeeps DEF Session, Enrolling

\* The service looks at the account.
LEMMA ValidateAccountKeeps ==
  ASSUME Inv, NEW c \in Clients, ValidateAccount(c)
  PROVE  Inv'
<1>1. /\ svc[c].mode = "serve" /\ svc[c].mode # "off" /\ Asked(c, "validate-account") /\ Take(c)
      /\ UNCHANGED <<machine, disk, rt, ps, tui, svc, work, seen, held, faults>>
      /\ \/ Reply(c, Event("error", Head(in[c]).type))
         \/ Reply(c, Event(Head(in[c]).type, Head(in[c]).type))
  BY DEF ValidateAccount, Refuse, Grant
<1> QED BY <1>1, AskedIs, AnswerTyped, AnswerKeeps DEF Session, Enrolling

\* The service compares a code.
LEMMA VerifyTOTPKeeps ==
  ASSUME Inv, NEW c \in Clients, VerifyTOTP(c)
  PROVE  Inv'
<1>1. /\ svc[c].mode = "serve" /\ svc[c].mode # "off" /\ Asked(c, "verify-totp") /\ Take(c)
      /\ UNCHANGED <<machine, disk, rt, ps, tui, work, seen, held, faults>>
  BY DEF VerifyTOTP
<1>2. CASE Refuse(c) /\ UNCHANGED svc
  BY <1>1, <1>2, AskedIs, AnswerTyped, AnswerKeeps DEF Session, Enrolling, Refuse
<1>3. CASE /\ FormsOpen(c) /\ Verifies(c, Head(in[c]).cfg.code)
           /\ svc' = [svc EXCEPT ![c].ver = Head(in[c]).cfg.code] /\ Grant(c)
  <2> DEFINE s == [svc[c] EXCEPT !.ver = Head(in[c]).cfg.code]
  <2>1. svc[c] \in Services /\ Session(c) BY InvOf
  <2>2. Head(in[c]).cfg.code = svc[c].enr /\ svc[c].enr \in 0 .. MaxEnroll
    BY <1>3, <2>1 DEF Verifies, Services
  <2>3. /\ s \in Services /\ s.mode = svc[c].mode /\ s.inv = svc[c].inv /\ s.planned = svc[c].planned
        /\ s.started = svc[c].started /\ s.accepted = svc[c].accepted /\ s.done = svc[c].done
        /\ s.terminal = svc[c].terminal /\ s.ver = s.enr
    BY <2>1, <2>2 DEF Services
  <2>4. svc' = [svc EXCEPT ![c] = s] BY <1>3
  <2> DEFINE e == Event(Head(in[c]).type, Head(in[c]).type)
  <2>5. in[c] # <<>> /\ e \in EventRecs /\ e.type = "verify-totp" /\ e.re = Head(in[c]).type /\ e.re = e.type
    BY <1>1, AskedIs, AnswerTyped
  <2>6. Reply(c, e) BY <1>3 DEF Grant
  <2> HIDE DEF s, e
  <2>7. faults' \in 0 .. MaxFaults BY <1>1, InvAll DEF SharedTyped
  <2>8. s.done => svc[c].done /\ ~s.terminal BY <2>1, <2>3 DEF Session
  <2>9. s.terminal => s.started BY <2>1, <2>3 DEF Session
  <2>10. FormsOpen(c) BY <1>3
  <2> QED BY <1>1, <2>3, <2>4, <2>5, <2>6, <2>7, <2>8, <2>9, <2>10, AnswerKeeps
<1> QED BY <1>2, <1>3 DEF VerifyTOTP

\* The service makes a secret.
LEMMA EnrollKeeps ==
  ASSUME Inv, NEW c \in Clients, Enroll(c)
  PROVE  Inv'
<1>1. /\ svc[c].mode = "serve" /\ svc[c].mode # "off" /\ Asked(c, "enroll") /\ Take(c)
      /\ UNCHANGED <<machine, disk, rt, ps, tui, work, seen, held, faults>>
  BY DEF Enroll
<1>2. CASE Refuse(c) /\ UNCHANGED svc
  BY <1>1, <1>2, AskedIs, AnswerTyped, AnswerKeeps DEF Session, Enrolling, Refuse
<1>3. CASE /\ FormsOpen(c) /\ svc[c].enr < MaxEnroll
           /\ svc' = [svc EXCEPT ![c].enr = @ + 1, ![c].ver = 0]
           /\ Reply(c, [Event("enroll", "enroll") EXCEPT !.enr = svc[c].enr + 1])
  <2> DEFINE s == [svc[c] EXCEPT !.enr = svc[c].enr + 1, !.ver = 0]
             e == [Event("enroll", "enroll") EXCEPT !.enr = svc[c].enr + 1]
  <2>1. svc[c] \in Services /\ Session(c) BY InvOf
  <2>2. svc[c].enr + 1 \in 0 .. MaxEnroll /\ 0 \in 0 .. MaxEnroll
    BY <1>3, <2>1, BoundsAssumption DEF Services
  <2>3. /\ s \in Services /\ s.mode = svc[c].mode /\ s.inv = svc[c].inv /\ s.planned = svc[c].planned
        /\ s.started = svc[c].started /\ s.accepted = svc[c].accepted /\ s.done = svc[c].done
        /\ s.terminal = svc[c].terminal /\ s.ver = 0
    BY <2>1, <2>2 DEF Services
  <2>4. svc' = [svc EXCEPT ![c] = s] BY <1>3
  <2>5. e \in EventRecs /\ e.type = "enroll" /\ e.re = "enroll"
    BY <2>2, EventTyped DEF EventTypes, RequestTypes
  <2>6. Reply(c, e) BY <1>3
  <2> HIDE DEF s, e
  <2>7. faults' \in 0 .. MaxFaults BY <1>1, InvAll DEF SharedTyped
  <2>8. s.done => svc[c].done /\ ~s.terminal BY <2>1, <2>3 DEF Session
  <2>9. s.terminal => s.started BY <2>1, <2>3 DEF Session
  <2>10. in[c] # <<>> /\ Head(in[c]).type = "enroll" BY <1>1 DEF Asked
  <2>11. FormsOpen(c) BY <1>3
  <2> QED BY <1>1, <2>3, <2>4, <2>5, <2>6, <2>7, <2>8, <2>9, <2>10, <2>11, AnswerKeeps
<1> QED BY <1>2, <1>3 DEF Enroll

\* The reboot that fails; the one that does not is Off.
LEMMA RebootFails ==
  ASSUME Inv, NEW c \in Clients, svc[c].mode = "rebooting", Fault,
         svc' = [svc EXCEPT ![c].mode = IF svc[c].inv = NoPlan THEN "terminal" ELSE "serve",
                            ![c].terminal = svc[c].terminal \/ svc[c].done, ![c].done = FALSE],
         Take(c), Refuse(c), UNCHANGED <<machine, disk, rt, ps, tui, work, seen, held>>
  PROVE  Inv'
<1> DEFINE s == [svc[c] EXCEPT !.mode = IF svc[c].inv = NoPlan THEN "terminal" ELSE "serve",
                               !.terminal = svc[c].terminal \/ svc[c].done, !.done = FALSE]
<1>1. svc[c] \in Services /\ Session(c) /\ Enrolling(c) BY InvOf
<1>2. /\ s \in Services /\ s.mode # "off" /\ s.mode # "rebooting" /\ (s.mode = "serve" => svc[c].inv # NoPlan)
      /\ s.inv = svc[c].inv /\ s.planned = svc[c].planned
      /\ s.started = svc[c].started /\ s.accepted = svc[c].accepted /\ ~s.done
      /\ s.terminal = (svc[c].terminal \/ svc[c].done) /\ s.ver = svc[c].ver /\ s.enr = svc[c].enr
  BY <1>1 DEF Services
<1>3. svc' = [svc EXCEPT ![c] = s] OBVIOUS
<1>4. faults' \in 0 .. MaxFaults BY InvAll, BoundsAssumption DEF Fault, SharedTyped
<1> HIDE DEF s
<1>5. svc[c].mode # "off" /\ s.ver \in {0, s.enr} BY <1>1, <1>2 DEF Enrolling
<1>6. s.terminal => s.started BY <1>1, <1>2 DEF Session
<1> DEFINE e == Event("error", Head(in[c]).type)
<1>7. in[c] # <<>> BY InvOf DEF Talking, Staged
<1>8. e \in EventRecs /\ e.type = "error" /\ e.re = Head(in[c]).type
  BY <1>7, AnswerTyped
<1>9. Reply(c, e) BY DEF Refuse
<1> HIDE DEF e
<1> QED BY <1>2, <1>3, <1>4, <1>5, <1>6, <1>7, <1>8, <1>9, AnswerKeeps

\* A request alone in both pipes.
LEMMA LoadOne ==
  ASSUME NEW S, NEW T, NEW s \in Seq(S), NEW t \in Seq(T), s # <<>>, Load(s, t) <= 1
  PROVE  t = <<>>
<1>1. Len(s) \in Nat /\ Len(s) # 0 /\ Len(t) \in Nat BY Lengths
<1>2. Len(t) = 0 BY <1>1 DEF Load
<1> QED BY <1>2, Lengths

\* Nothing was answered yet when a service takes a request other than a reboot.
LEMMA NothingAnswered ==
  ASSUME Inv, NEW c \in Clients, in[c] # <<>>, Head(in[c]).type # "reboot",
         \/ Open(c)
         \/ c \notin Screens /\ svc[c].mode # "off" /\ ~svc[c].terminal
  PROVE  \A i \in DOMAIN out[c] : out[c][i].re = None
<1>1. Talking(c) /\ in[c] \in Seq(RequestRecs) /\ out[c] \in Seq(EventRecs) BY InvOf
<1>2. Head(in[c]) = in[c][1] BY <1>1, Taken
<1>3. CASE Open(c)
  <2>1. Requesting(c) /\ Replying(c) BY <1>1, <1>3 DEF Talking
  <2>2. SUFFICES ASSUME NEW i \in DOMAIN out[c], out[c][i].re # None PROVE FALSE
    OBVIOUS
  <2>3. tui[c].pending = "reboot" /\ Len(in[c]) <= 1 BY <2>1, <2>2 DEF Replying
  <2>4. Len(in[c]) # 2 BY <2>3
  <2>5. Len(in[c]) = 1
    <3>1. Len(in[c]) <= 2 BY <2>1 DEF Requesting
    <3> QED BY <1>1, <2>4, <3>1, Lengths, UpToTwo
  <2> QED BY <1>2, <2>1, <2>3, <2>5 DEF Requesting
<1>4. CASE c \notin Screens /\ svc[c].mode # "off" /\ ~svc[c].terminal
  <2>1. Load(in[c], out[c]) <= 1 BY <1>1, <1>4 DEF Talking, Open, Counted
  <2>2. out[c] = <<>> BY <1>1, <2>1, LoadOne
  <2> QED BY <2>2
<1> QED BY <1>3, <1>4

\* What a service that answers leaves alone.
LEMMA AnswerParts ==
  ASSUME Inv, NEW c \in Clients, in[c] # <<>>, NEW e \in EventRecs, Take(c), Reply(c, e),
         UNCHANGED <<tui, seen, held>>
  PROVE  /\ in' = [in EXCEPT ![c] = Tail(in[c])] /\ out' = [out EXCEPT ![c] = Append(out[c], e)]
         /\ Tail(in[c]) \in Seq(RequestRecs) /\ Append(out[c], e) \in Seq(EventRecs)
         /\ \A i \in DOMAIN out'[c] : out'[c][i] = e \/ (i \in DOMAIN out[c] /\ out'[c][i] = out[c][i])
         /\ \A i \in DOMAIN in'[c] : in'[c][i].type = "confirm" =>
              (svc[c].mode # "off" => in'[c][i].cmd = DOMAIN seen[c] /\ (Open(c) => tui[c].shown = seen[c]))
         /\ svc'[c].ver \in {0, svc'[c].enr} => Enrolling(c)'
         /\ tui' = [tui EXCEPT ![c] = tui[c]] /\ seen' = [seen EXCEPT ![c] = seen[c]]
         /\ tui[c] \in Tuis /\ seen[c] \in Plans
<1>1. /\ in' = [in EXCEPT ![c] = Tail(in[c])] /\ out' = [out EXCEPT ![c] = Append(out[c], e)]
      /\ Tail(in[c]) \in Seq(RequestRecs) /\ Append(out[c], e) \in Seq(EventRecs)
  BY AnsweredPipes
<1>2. \A i \in DOMAIN in'[c] : i + 1 \in DOMAIN in[c] /\ in'[c][i] = in[c][i + 1] BY AnsweredPipes
<1>3. \A i \in DOMAIN out'[c] : out'[c][i] = e \/ (i \in DOMAIN out[c] /\ out'[c][i] = out[c][i])
  BY AnsweredPipes
<1>4. Fitting(c) /\ Enrolling(c) /\ tui[c] \in Tuis /\ seen[c] \in Plans BY InvOf
<1>5. \A i \in DOMAIN in'[c] : in'[c][i].type = "confirm" =>
        (svc[c].mode # "off" => in'[c][i].cmd = DOMAIN seen[c] /\ (Open(c) => tui[c].shown = seen[c]))
  BY <1>2, <1>4 DEF Fitting
<1>6. \A i \in DOMAIN in'[c] : in'[c][i].type = "configure" =>
        /\ in'[c][i].cfg.saved /\ in'[c][i].cfg.code # 0 => held[c] = in'[c][i].cfg.code
        /\ tui[c].stage \notin {"totp", "codes"}
  BY <1>2, <1>4 DEF Enrolling
<1>7. svc'[c].ver \in {0, svc'[c].enr} => Enrolling(c)' BY <1>4, <1>6 DEF Enrolling
<1>8. tui' = [tui EXCEPT ![c] = tui[c]] /\ seen' = [seen EXCEPT ![c] = seen[c]]
  BY DEF Inv, Typed, ConsoleTyped
<1> QED BY <1>1, <1>3, <1>4, <1>5, <1>7, <1>8

\* An answer of a service that has not started anything, nor does so.
LEMMA PlanKeeps ==
  ASSUME Inv, NEW c \in Clients, in[c] # <<>>, Head(in[c]).type # "reboot", svc[c].mode = "serve",
         ~svc[c].started, rt.lock = c \/ claimSession(c),
         NEW e \in EventRecs, e.re = Head(in[c]).type, e.type \in {"error", e.re},
         NEW p \in Plans, svc' = [svc EXCEPT ![c].planned = p], Part(p, svc[c].inv),
         p # NoPlan => ~PoolExists, e.type = "preview" => e.plan = p,
         Take(c), Reply(c, e), rt' \in Runtimes,
         rt'.lock = c, rt'.status = rt.status, rt'.sub = rt.sub, rt'.finalizing = rt.finalizing,
         UNCHANGED <<machine, disk, ps, tui, work, seen, held>>, faults' \in 0 .. MaxFaults
  PROVE  Inv'
<1> DEFINE s == [svc[c] EXCEPT !.planned = p]
<1>1. /\ Session(c) /\ Fitting(c) /\ Enrolling(c) /\ Stored /\ svc[c] \in Services
      /\ machine = "media" /\ work[c] \in Workers /\ rt \in Runtimes
  BY InvOf, InvAll, OnMedia
<1>2. /\ s \in Services /\ s.mode = "serve" /\ s.inv = svc[c].inv /\ s.planned = p /\ ~s.started
      /\ s.terminal = svc[c].terminal /\ s.done = svc[c].done /\ s.accepted = svc[c].accepted
      /\ s.ver = svc[c].ver /\ s.enr = svc[c].enr
  BY <1>1 DEF Services
<1>3. svc' = [svc EXCEPT ![c] = s] OBVIOUS
<1> HIDE DEF s
<1>4. svc'[c] = s BY <1>3 DEF Inv, Typed, ServiceTyped
<1>5. /\ in' = [in EXCEPT ![c] = Tail(in[c])] /\ out' = [out EXCEPT ![c] = Append(out[c], e)]
      /\ Tail(in[c]) \in Seq(RequestRecs) /\ Append(out[c], e) \in Seq(EventRecs)
      /\ \A i \in DOMAIN out'[c] : out'[c][i] = e \/ (i \in DOMAIN out[c] /\ out'[c][i] = out[c][i])
      /\ \A i \in DOMAIN in'[c] : in'[c][i].type = "confirm" =>
           (svc[c].mode # "off" => in'[c][i].cmd = DOMAIN seen[c] /\ (Open(c) => tui[c].shown = seen[c]))
      /\ tui' = [tui EXCEPT ![c] = tui[c]] /\ seen' = [seen EXCEPT ![c] = seen[c]]
      /\ tui[c] \in Tuis /\ seen[c] \in Plans
  BY AnswerParts
<1>6. Enrolling(c)'
  <2>1. s.ver \in {0, s.enr} BY <1>1, <1>2 DEF Enrolling
  <2> QED BY <1>4, <2>1, AnswerParts
<1>7. rt.lock \in {None, c} /\ rt.status = None /\ rt.sub = None /\ ~rt.finalizing
  <2>1. CASE rt.lock = c BY <1>1, <2>1 DEF Session
  <2>2. CASE claimSession(c) BY <1>1, <2>2 DEF claimSession, Stored
  <2> QED BY <2>1, <2>2
<1>8. work[c].pc = "none" /\ ~svc[c].done /\ ~svc[c].terminal /\ ~svc[c].accepted BY <1>1 DEF Session
<1>9. Talking(c)'
  <2>1. svc'[c].mode \notin {"off", "rebooting"} /\ svc[c].mode # "off" BY <1>2, <1>4
  <2>2. svc'[c].terminal \/ ~svc[c].terminal BY <1>8
  <2>3. ~svc[c].started /\ e.re # "reboot" OBVIOUS
  <2>4. tui'[c] = tui[c] OBVIOUS
  <2> QED BY <2>1, <2>2, <2>3, <2>4, AnswerTalks
<1>10. Stored' BY <1>1, <1>7 DEF Stored, PoolExists, NoPool, NoPlan, InstalledWhole
<1>11. Session(c)' BY <1>2, <1>4, <1>7, <1>8 DEF Session, PoolExists, NoPlan
<1>12. Stepping(c)' BY <1>8 DEF Stepping, Active
<1>13. Building(c)' BY <1>8 DEF Building, Unpooled, Complete, Active
<1>14. Fitting(c)'
  <2>1. \A i \in DOMAIN out'[c] : out'[c][i].type = "preview" => Part(out'[c][i].plan, s.inv)
    BY <1>1, <1>2, <1>5 DEF Fitting
  <2>2. /\ DOMAIN s.inv = Disks /\ Part(seen[c], s.inv) /\ Part(tui[c].shown, s.inv) /\ Part(s.planned, s.inv)
    BY <1>1, <1>2 DEF Fitting
  <2>3. \A i \in DOMAIN in'[c] : in'[c][i].type = "confirm" =>
          in'[c][i].cmd = DOMAIN seen[c] /\ (Open(c) => tui[c].shown = seen[c])
    BY <1>5
  <2>4. ~s.started BY <1>2
  <2> QED BY <1>4, <2>1, <2>2, <2>3, <2>4 DEF Fitting, Open
<1>15. Submitted' BY <1>7 DEF Submitted
<1>16. work' = [work EXCEPT ![c] = work[c]] BY DEF Inv, Typed, ServiceTyped
<1> QED BY <1>1, <1>2, <1>3, <1>5, <1>6, <1>7, <1>9, <1>10, <1>11, <1>12, <1>13, <1>14, <1>15, <1>16, ClientStep

\* A preview.
LEMMA PreviewKeeps ==
  ASSUME Inv, NEW c \in Clients, Preview(c)
  PROVE  Inv'
<1> DEFINE S == Head(in[c]).cmd
           plan == [d \in S |-> svc[c].inv[d]]
           r == Event("error", Head(in[c]).type)
           e == [Event("preview", "preview") EXCEPT !.plan = plan]
<1>1. /\ svc[c].mode = "serve" /\ svc[c].mode # "off" /\ Asked(c, "preview") /\ Take(c)
      /\ UNCHANGED <<machine, disk, ps, tui, work, seen, held, faults>>
  BY DEF Preview
<1>2. /\ in[c] # <<>> /\ Head(in[c]).type = "preview" /\ Head(in[c]) \in RequestRecs
      /\ svc[c] \in Services /\ Fitting(c) /\ Session(c) /\ Enrolling(c) /\ rt \in Runtimes
      /\ faults' \in 0 .. MaxFaults /\ svc = [svc EXCEPT ![c] = svc[c]]
  BY <1>1, AskedIs
<1>3. r \in EventRecs /\ r.type = "error" /\ r.re = Head(in[c]).type BY <1>2, AnswerTyped
<1>4. CASE Refuse(c) /\ UNCHANGED <<svc, rt>>
  <2>1. Reply(c, r) BY <1>4 DEF Refuse
  <2>2. svc[c].ver \in {0, svc[c].enr} BY <1>2 DEF Enrolling
  <2>3. svc' = [svc EXCEPT ![c] = svc[c]] BY <1>2, <1>4
  <2>4. (svc[c].done => ~svc[c].terminal) /\ (svc[c].terminal => svc[c].started) BY <1>2 DEF Session
  <2> HIDE DEF r
  <2> QED BY <1>1, <1>2, <1>3, <1>4, <2>1, <2>2, <2>3, <2>4, AnswerKeeps
<1>5. CASE /\ rt.lock = c \/ claimSession(c)
           /\ ~svc[c].started /\ rt' = [rt EXCEPT !.lock = c]
           /\ \/ /\ ParseZPool(svc[c].inv, S) /\ ~PoolExists
                 /\ svc' = [svc EXCEPT ![c].planned = plan] /\ Reply(c, e)
              \/ svc' = [svc EXCEPT ![c].planned = NoPlan] /\ Refuse(c)
  <2>1. /\ rt' \in Runtimes /\ rt'.lock = c /\ rt'.status = rt.status /\ rt'.sub = rt.sub
        /\ rt'.finalizing = rt.finalizing
    BY <1>2, <1>5 DEF Runtimes
  <2>2. CASE svc' = [svc EXCEPT ![c].planned = NoPlan] /\ Refuse(c)
    <3>1. Reply(c, r) BY <2>2 DEF Refuse
    <3>2. NoPlan \in Plans /\ Part(NoPlan, svc[c].inv) BY NoPlanIsPlan, PartOfNothing
    <3> HIDE DEF r
    <3> QED BY <1>1, <1>2, <1>3, <1>5, <2>1, <2>2, <3>1, <3>2, PlanKeeps
  <2>3. CASE /\ ParseZPool(svc[c].inv, S) /\ ~PoolExists
             /\ svc' = [svc EXCEPT ![c].planned = plan] /\ Reply(c, e)
    <3>1. svc[c].inv \in [Disks -> Content] /\ S \in SUBSET Disks
      <4>1. svc[c].inv \in Plans /\ DOMAIN svc[c].inv = Disks BY <1>1, <1>2 DEF Fitting, Services
      <4> QED BY <1>2, <4>1, PlansAre DEF RequestRecs
    <3>2. plan \in Plans BY <3>1, PartIsPlan
    <3>3. Part(plan, svc[c].inv) BY PartOf
    <3> HIDE DEF plan
    <3>4. e \in EventRecs /\ e.type = "preview" /\ e.re = "preview" /\ e.plan = plan
      BY <3>2, EventTyped DEF EventTypes, RequestTypes
    <3> HIDE DEF e
    <3> QED BY <1>1, <1>2, <1>5, <2>1, <2>3, <3>2, <3>3, <3>4, PlanKeeps
  <2> QED BY <1>5, <2>2, <2>3
<1> QED BY <1>4, <1>5 DEF Preview

\* A refused confirmation of a plan, which may have left the operation's file.
LEMMA ConfirmFails ==
  ASSUME Inv, NEW c \in Clients, svc[c].mode = "serve", Asked(c, "confirm"), Take(c), Refuse(c), Confirms(c),
         UNCHANGED <<machine, disk, ps, tui, work, seen, held>>, faults' \in 0 .. MaxFaults,
         \/ svc' = [svc EXCEPT ![c].planned = NoPlan] /\ rt' = rt
         \/ svc' = svc /\ \E op \in {rt.op, svc[c].planned} : rt' = [rt EXCEPT !.op = op]
  PROVE  Inv'
<1> DEFINE r == Event("error", Head(in[c]).type)
<1>1. /\ in[c] # <<>> /\ Head(in[c]).type = "confirm"
      /\ svc[c] \in Services /\ Fitting(c) /\ Session(c) /\ rt \in Runtimes
  BY AskedIs
<1>2. r \in EventRecs /\ r.type = "error" /\ r.re = Head(in[c]).type BY <1>1, AnswerTyped
<1>3. Reply(c, r) BY DEF Refuse
<1> HIDE DEF r
<1>4. ~svc[c].started /\ svc[c].planned # NoPlan BY DEF Confirms
<1>5. rt.lock = c /\ ~PoolExists BY <1>1, <1>4 DEF Session
<1>6. CASE svc' = [svc EXCEPT ![c].planned = NoPlan] /\ rt' = rt
  <2>1. NoPlan \in Plans /\ Part(NoPlan, svc[c].inv) BY NoPlanIsPlan, PartOfNothing
  <2> QED BY <1>1, <1>2, <1>3, <1>4, <1>5, <1>6, <2>1, PlanKeeps
<1>7. CASE svc' = svc /\ \E op \in {rt.op, svc[c].planned} : rt' = [rt EXCEPT !.op = op]
  <2>1. svc[c].planned \in Plans /\ Part(svc[c].planned, svc[c].inv) BY <1>1 DEF Services, Fitting
  <2>2. svc' = [svc EXCEPT ![c].planned = svc[c].planned] BY <1>1, <1>7 DEF Inv, Typed, ServiceTyped, Services
  <2>3. PICK op \in {rt.op, svc[c].planned} : rt' = [rt EXCEPT !.op = op] BY <1>7
  <2>4. /\ rt' \in Runtimes /\ rt'.lock = c /\ rt'.status = rt.status /\ rt'.sub = rt.sub
        /\ rt'.finalizing = rt.finalizing
    BY <1>1, <1>5, <2>1, <2>3 DEF Runtimes
  <2> QED BY <1>1, <1>2, <1>3, <1>4, <1>5, <2>1, <2>2, <2>4, PlanKeeps
<1> QED BY <1>6, <1>7

\* The confirmation that starts the worker: its plan is what was on the screen.
LEMMA ConfirmStarts ==
  ASSUME Inv, NEW c \in Clients, svc[c].mode = "serve", Asked(c, "confirm"), Take(c), Grant(c), Confirms(c),
         rt' = [rt EXCEPT !.op = svc[c].planned, !.key = c],
         svc' = [svc EXCEPT ![c].started = TRUE, ![c].done = TRUE],
         work' = [work EXCEPT ![c] = [NoWorker EXCEPT !.pc = "start"]],
         UNCHANGED <<machine, disk, ps, tui, seen, held, faults>>
  PROVE  Inv'
<1> DEFINE e == Event(Head(in[c]).type, Head(in[c]).type)
           s == [svc[c] EXCEPT !.started = TRUE, !.done = TRUE]
           w == [NoWorker EXCEPT !.pc = "start"]
<1>1. /\ in[c] # <<>> /\ Head(in[c]).type = "confirm" /\ machine = "media"
      /\ svc[c] \in Services /\ Fitting(c) /\ Session(c) /\ Enrolling(c) /\ Stored /\ rt \in Runtimes
      /\ faults' \in 0 .. MaxFaults
  BY AskedIs
<1>2. e \in EventRecs /\ e.type = "confirm" /\ e.re = Head(in[c]).type BY <1>1, AnswerTyped
<1>3. Reply(c, e) BY DEF Grant
<1> HIDE DEF e
<1>4. ~svc[c].started /\ svc[c].planned # NoPlan /\ Head(in[c]).cmd = DOMAIN svc[c].planned
  BY DEF Confirms
<1>5. /\ rt.lock = c /\ ~PoolExists /\ rt.status = None /\ rt.sub = None /\ ~rt.finalizing
      /\ ~svc[c].terminal /\ ~svc[c].accepted
  BY <1>1, <1>4 DEF Session
<1>6. svc[c].planned \in Plans BY <1>1 DEF Services
<1>7. /\ s \in Services /\ s.mode = "serve" /\ s.inv = svc[c].inv /\ s.planned = svc[c].planned /\ s.started
      /\ s.done /\ ~s.terminal /\ ~s.accepted /\ s.ver = svc[c].ver /\ s.enr = svc[c].enr
  BY <1>1, <1>5 DEF Services
<1>8. w \in Workers /\ w.pc = "start" /\ ~w.st.error /\ ~w.st.pool /\ ~w.st.storage
  BY NoneTyped DEF Workers, Steps, NoWorker, NoStatus
<1>9. svc' = [svc EXCEPT ![c] = s] /\ work' = [work EXCEPT ![c] = w] OBVIOUS
<1> HIDE DEF s, w
<1>10. svc'[c] = s /\ work'[c] = w BY <1>9 DEF Inv, Typed, ServiceTyped
<1>11. /\ rt' \in Runtimes /\ rt'.lock = c /\ rt'.status = None /\ rt'.sub = None /\ ~rt'.finalizing
       /\ rt'.op = svc[c].planned /\ rt'.key = c
  BY <1>1, <1>5, <1>6 DEF Runtimes
<1>12. /\ in' = [in EXCEPT ![c] = Tail(in[c])] /\ out' = [out EXCEPT ![c] = Append(out[c], e)]
       /\ Tail(in[c]) \in Seq(RequestRecs) /\ Append(out[c], e) \in Seq(EventRecs)
       /\ \A i \in DOMAIN out'[c] : out'[c][i] = e \/ (i \in DOMAIN out[c] /\ out'[c][i] = out[c][i])
       /\ \A i \in DOMAIN in'[c] : in'[c][i].type = "confirm" =>
            (svc[c].mode # "off" => in'[c][i].cmd = DOMAIN seen[c] /\ (Open(c) => tui[c].shown = seen[c]))
       /\ tui' = [tui EXCEPT ![c] = tui[c]] /\ seen' = [seen EXCEPT ![c] = seen[c]]
       /\ tui[c] \in Tuis /\ seen[c] \in Plans
  BY <1>1, <1>2, <1>3, AnswerParts
<1>13. Enrolling(c)'
  <2>1. s.ver \in {0, s.enr} BY <1>1, <1>7 DEF Enrolling
  <2> QED BY <1>1, <1>2, <1>3, <1>10, <2>1, AnswerParts
<1>14. Talking(c)'
  <2>1. svc'[c].mode \notin {"off", "rebooting"} /\ svc[c].mode # "off" BY <1>7, <1>10
  <2>2. ~svc[c].started /\ e.re # "reboot" BY <1>1, <1>2, <1>4
  <2>3. tui'[c] = tui[c] /\ e.type \in {"error", e.re} BY <1>1, <1>2
  <2> QED BY <1>1, <1>2, <1>3, <1>5, <2>1, <2>2, <2>3, AnswerTalks
<1>15. Stored' BY <1>1, <1>5, <1>11 DEF Stored, PoolExists, NoPool, InstalledWhole
<1>16. Session(c)' BY <1>4, <1>7, <1>10, <1>11 DEF Session, PoolExists, NoPlan
<1>17. Stepping(c)' BY <1>8, <1>10, <1>11 DEF Stepping, Active
<1>18. Building(c)'
  <2>1. ~ps.installed BY <1>1, <1>5 DEF Stored, NoPool
  <2> QED BY <1>5, <1>8, <1>10, <2>1 DEF Building, Unpooled, Complete, PoolExists, Active
<1>19. seen[c] = svc[c].planned /\ (Open(c) => tui[c].shown = seen[c])
  <2>1. Head(in[c]) = in[c][1] /\ 1 \in DOMAIN in[c] BY <1>1, InvOf, Taken
  <2>2. DOMAIN seen[c] = DOMAIN svc[c].planned /\ (Open(c) => tui[c].shown = seen[c])
    BY <1>1, <1>4, <2>1 DEF Fitting
  <2>3. Part(seen[c], svc[c].inv) /\ Part(svc[c].planned, svc[c].inv) BY <1>1 DEF Fitting
  <2> QED BY <2>2, <2>3, PartsEqual
<1>20. Fitting(c)'
  <2>1. (c \in Screens => Open(c)) => \A i \in DOMAIN out[c] : out[c][i].re = None
    BY <1>1, <1>5, NothingAnswered
  <2>2. \A i \in DOMAIN out[c] : out[c][i].re = None => out[c][i].type # "preview"
    BY InvOf DEF Talking, Answering
  <2>3. \A i \in DOMAIN out'[c] : out'[c][i].type = "preview" =>
          Part(out'[c][i].plan, s.inv) /\ ~(c \in Screens => Open(c))
    BY <1>1, <1>2, <1>7, <1>12, <2>1, <2>2 DEF Fitting
  <2>4. /\ DOMAIN s.inv = Disks /\ Part(seen[c], s.inv) /\ Part(tui[c].shown, s.inv) /\ Part(s.planned, s.inv)
    BY <1>1, <1>7 DEF Fitting
  <2>5. \A i \in DOMAIN in'[c] : in'[c][i].type = "confirm" =>
          in'[c][i].cmd = DOMAIN seen[c] /\ (Open(c) => tui[c].shown = seen[c])
    BY <1>12
  <2>6. seen[c] = s.planned BY <1>7, <1>19
  <2> QED BY <1>10, <1>19, <2>3, <2>4, <2>5, <2>6 DEF Fitting, Open
<1>21. Submitted' BY <1>11 DEF Submitted
<1>22. rt.lock \in {None, c} /\ rt'.lock \in {None, c} BY <1>5, <1>11
<1> QED BY <1>1, <1>7, <1>8, <1>9, <1>11, <1>12, <1>13, <1>14, <1>15, <1>16, <1>17, <1>18, <1>20, <1>21, <1>22, ClientStep

\* The service confirms, or refuses to.
LEMMA ConfirmKeeps ==
  ASSUME Inv, NEW c \in Clients, Confirm(c)
  PROVE  Inv'
<1> DEFINE plan == svc[c].planned
           r == Event("error", Head(in[c]).type)
<1>1. /\ svc[c].mode = "serve" /\ svc[c].mode # "off" /\ Asked(c, "confirm") /\ Take(c)
      /\ UNCHANGED <<machine, disk, ps, tui, seen, held>>
  BY DEF Confirm
<1>2. CASE Refuse(c) /\ UNCHANGED <<svc, rt, work, faults>>
  <2>1. Reply(c, r) BY <1>2 DEF Refuse
  <2>2. /\ in[c] # <<>> /\ Session(c) /\ Enrolling(c) /\ svc[c] \in Services
        /\ faults' \in 0 .. MaxFaults /\ svc' = [svc EXCEPT ![c] = svc[c]]
    BY <1>1, <1>2, AskedIs
  <2>3. r \in EventRecs /\ r.type = "error" /\ r.re = Head(in[c]).type BY <2>2, AnswerTyped
  <2>4. svc[c].ver \in {0, svc[c].enr} BY <2>2 DEF Enrolling
  <2>5. (svc[c].done => ~svc[c].terminal) /\ (svc[c].terminal => svc[c].started) BY <2>2 DEF Session
  <2> HIDE DEF r
  <2> QED BY <1>1, <1>2, <2>1, <2>2, <2>3, <2>4, <2>5, AnswerKeeps
<1>3. CASE Confirms(c) /\ svc' = [svc EXCEPT ![c].planned = NoPlan] /\ Refuse(c) /\ UNCHANGED <<rt, work, faults>>
  <2>1. faults' \in 0 .. MaxFaults BY <1>3, InvAll DEF SharedTyped
  <2> QED BY <1>1, <1>3, <2>1, ConfirmFails
<1>4. CASE /\ Confirms(c) /\ Fault /\ (\E op \in {rt.op, plan} : rt' = [rt EXCEPT !.op = op])
           /\ Refuse(c) /\ UNCHANGED <<svc, work>>
  <2>1. faults' \in 0 .. MaxFaults BY <1>4, InvAll, BoundsAssumption DEF Fault, SharedTyped
  <2> QED BY <1>1, <1>4, <2>1, ConfirmFails
<1>5. CASE /\ Confirms(c) /\ rt' = [rt EXCEPT !.op = plan, !.key = c]
           /\ svc' = [svc EXCEPT ![c].started = TRUE, ![c].done = TRUE]
           /\ work' = [work EXCEPT ![c] = [NoWorker EXCEPT !.pc = "start"]]
           /\ Grant(c) /\ UNCHANGED faults
  BY <1>1, <1>5, ConfirmStarts
<1> QED BY <1>2, <1>3, <1>4, <1>5 DEF Confirm

\* The form that is accepted: its secret is the one whose codes the user has.
LEMMA ConfigureAccepts ==
  ASSUME Inv, NEW c \in Clients, svc[c].mode = "serve", Asked(c, "configure"), Take(c), Grant(c), FormsOpen(c),
         Submittable(c, Head(in[c]).cfg),
         rt' = [rt EXCEPT !.sub = [by |-> c, totp |-> IF Head(in[c]).cfg.totp THEN svc[c].enr ELSE 0]],
         svc' = [svc EXCEPT ![c].accepted = TRUE, ![c].enr = 0, ![c].ver = 0],
         UNCHANGED <<machine, disk, ps, tui, work, seen, held, faults>>
  PROVE  Inv'
<1> DEFINE e == Event(Head(in[c]).type, Head(in[c]).type)
           s == [svc[c] EXCEPT !.accepted = TRUE, !.enr = 0, !.ver = 0]
           cfg == Head(in[c]).cfg
           n == IF cfg.totp THEN svc[c].enr ELSE 0
           b == [by |-> c, totp |-> n]
<1>1. /\ in[c] # <<>> /\ Head(in[c]).type = "configure" /\ machine = "media" /\ Head(in[c]) \in RequestRecs
      /\ svc[c] \in Services /\ Fitting(c) /\ Session(c) /\ Enrolling(c) /\ Stored /\ rt \in Runtimes
      /\ Stepping(c) /\ Building(c) /\ work[c] \in Workers /\ faults' \in 0 .. MaxFaults
      /\ work' = [work EXCEPT ![c] = work[c]]
  BY AskedIs
<1>2. e \in EventRecs /\ e.type = "configure" /\ e.re = Head(in[c]).type BY <1>1, AnswerTyped
<1>3. Reply(c, e) BY DEF Grant
<1> HIDE DEF e
<1>4. /\ svc[c].started /\ ~svc[c].terminal BY DEF FormsOpen
<1>5. /\ rt.lock = c /\ rt.op # NoPlan BY <1>1, <1>4 DEF Session
<1>6. 0 \in 0 .. MaxEnroll /\ svc[c].enr \in 0 .. MaxEnroll BY <1>1, BoundsAssumption DEF Services
<1>7. /\ s \in Services /\ s.mode = "serve" /\ s.inv = svc[c].inv /\ s.planned = svc[c].planned /\ s.started
      /\ s.done = svc[c].done /\ ~s.terminal /\ s.accepted /\ s.ver = 0
  BY <1>1, <1>4, <1>6 DEF Services
<1>8. n \in 0 .. MaxEnroll BY <1>6
<1>9. n # 0 => cfg.saved /\ cfg.code # 0 /\ cfg.code = n
  BY <1>1 DEF Submittable, Verifies, Enrolling
<1>10. svc' = [svc EXCEPT ![c] = s] /\ rt' = [rt EXCEPT !.sub = b] OBVIOUS
<1> HIDE DEF s, n
<1>11. b \in Submissions /\ b.by = c /\ b.totp = n /\ b # None
  <2>1. b \in Submissions BY <1>8 DEF Submissions
  <2> QED BY <2>1, NoneApart
<1> HIDE DEF b
<1>12. svc'[c] = s BY <1>10 DEF Inv, Typed, ServiceTyped
<1>13. /\ rt' \in Runtimes /\ rt'.lock = c /\ rt'.op = rt.op /\ rt'.key = rt.key /\ rt'.status = rt.status
       /\ rt'.finalizing = rt.finalizing /\ rt'.sub = b
  BY <1>1, <1>5, <1>10, <1>11 DEF Runtimes
<1>14. /\ in' = [in EXCEPT ![c] = Tail(in[c])] /\ out' = [out EXCEPT ![c] = Append(out[c], e)]
       /\ Tail(in[c]) \in Seq(RequestRecs) /\ Append(out[c], e) \in Seq(EventRecs)
       /\ \A i \in DOMAIN out'[c] : out'[c][i] = e \/ (i \in DOMAIN out[c] /\ out'[c][i] = out[c][i])
       /\ \A i \in DOMAIN in'[c] : in'[c][i].type = "confirm" =>
            (svc[c].mode # "off" => in'[c][i].cmd = DOMAIN seen[c] /\ (Open(c) => tui[c].shown = seen[c]))
       /\ tui' = [tui EXCEPT ![c] = tui[c]] /\ seen' = [seen EXCEPT ![c] = seen[c]]
       /\ tui[c] \in Tuis /\ seen[c] \in Plans
  BY <1>1, <1>2, <1>3, AnswerParts
<1>15. Enrolling(c)'
  <2>1. s.ver \in {0, s.enr} BY <1>7
  <2> QED BY <1>1, <1>2, <1>3, <1>12, <2>1, AnswerParts
<1>16. Talking(c)'
  <2>1. svc'[c].mode \notin {"off", "rebooting"} /\ svc[c].mode # "off" BY <1>7, <1>12
  <2>2. svc'[c].started = svc[c].started /\ (svc'[c].done => svc[c].done) BY <1>1, <1>4, <1>7, <1>12 DEF Services
  <2>3. tui'[c] = tui[c] /\ e.type \in {"error", e.re} BY <1>1, <1>2
  <2> QED BY <1>1, <1>2, <1>3, <1>4, <2>1, <2>2, <2>3, AnswerTalks
<1>17. Stored' BY <1>1, <1>5, <1>13 DEF Stored, PoolExists, NoPool, NoPlan, InstalledWhole
<1>18. Session(c)' BY <1>1, <1>4, <1>7, <1>12, <1>13 DEF Session, PoolExists, NoPlan
<1>19. Stepping(c)' BY <1>1, <1>13 DEF Stepping, Active
<1>20. Building(c)' BY <1>1 DEF Building, PoolExists, Pooled, NoPool, Active
<1>21. Fitting(c)'
  <2>1. \A i \in DOMAIN out'[c] : out'[c][i].type = "preview" =>
          Part(out'[c][i].plan, s.inv) /\ ~(c \in Screens => Open(c))
    BY <1>1, <1>2, <1>4, <1>7, <1>14 DEF Fitting
  <2>2. /\ DOMAIN s.inv = Disks /\ Part(seen[c], s.inv) /\ Part(tui[c].shown, s.inv) /\ Part(s.planned, s.inv)
        /\ seen[c] = s.planned /\ (Open(c) => tui[c].shown = seen[c])
    BY <1>1, <1>4, <1>7 DEF Fitting
  <2>3. \A i \in DOMAIN in'[c] : in'[c][i].type = "confirm" =>
          in'[c][i].cmd = DOMAIN seen[c] /\ (Open(c) => tui[c].shown = seen[c])
    BY <1>14
  <2> QED BY <1>12, <2>1, <2>2, <2>3 DEF Fitting, Open
<1>22. Submitted'
  <2>1. Head(in[c]) = in[c][1] /\ 1 \in DOMAIN in[c] BY <1>1, InvOf, Taken
  <2>2. /\ tui[c].stage \notin {"totp", "codes"}
        /\ cfg.saved /\ cfg.code # 0 => held[c] = cfg.code
    BY <1>1, <2>1 DEF Enrolling
  <2>3. Open(c) => \A i \in DOMAIN out[c] : out[c][i].re = None
    BY <1>1, NothingAnswered
  <2>4. \A i \in DOMAIN out[c] : out[c][i].re = None => out[c][i].type \notin {"enroll", "verify-totp"}
    BY InvOf DEF Talking, Answering
  <2>5. Settled(c)' BY <1>1, <1>2, <1>14, <2>2, <2>3, <2>4 DEF Settled, Open
  <2>6. ~FormsOpen(c)' BY <1>7, <1>12 DEF FormsOpen
  <2>7. n # 0 => held[c] = n BY <1>9, <2>2
  <2> HIDE DEF cfg
  <2> QED BY <1>11, <1>13, <2>5, <2>6, <2>7 DEF Submitted, Settled, FormsOpen, Open
<1>23. rt.lock \in {None, c} /\ rt'.lock \in {None, c} BY <1>5, <1>13
<1> QED BY <1>1, <1>7, <1>10, <1>13, <1>14, <1>15, <1>16, <1>17, <1>18, <1>19, <1>20, <1>21, <1>22, <1>23, ClientStep

\* The service takes the configuration, or refuses to.
LEMMA ConfigureKeeps ==
  ASSUME Inv, NEW c \in Clients, Configure(c)
  PROVE  Inv'
<1> DEFINE r == Event("error", Head(in[c]).type)
<1>1. /\ svc[c].mode = "serve" /\ svc[c].mode # "off" /\ Asked(c, "configure") /\ Take(c)
      /\ UNCHANGED <<machine, disk, ps, tui, work, seen, held, faults>>
  BY DEF Configure
<1>2. CASE Refuse(c) /\ UNCHANGED <<svc, rt>>
  <2>1. Reply(c, r) BY <1>2 DEF Refuse
  <2>2. /\ in[c] # <<>> /\ Session(c) /\ Enrolling(c) /\ svc[c] \in Services
        /\ faults' \in 0 .. MaxFaults /\ svc' = [svc EXCEPT ![c] = svc[c]]
    BY <1>1, <1>2, AskedIs
  <2>3. r \in EventRecs /\ r.type = "error" /\ r.re = Head(in[c]).type BY <2>2, AnswerTyped
  <2>4. svc[c].ver \in {0, svc[c].enr} BY <2>2 DEF Enrolling
  <2>5. (svc[c].done => ~svc[c].terminal) /\ (svc[c].terminal => svc[c].started) BY <2>2 DEF Session
  <2> HIDE DEF r
  <2> QED BY <1>1, <1>2, <2>1, <2>2, <2>3, <2>4, <2>5, AnswerKeeps
<1>3. CASE /\ FormsOpen(c) /\ Submittable(c, Head(in[c]).cfg)
           /\ rt' = [rt EXCEPT !.sub = [by |-> c, totp |-> IF Head(in[c]).cfg.totp THEN svc[c].enr ELSE 0]]
           /\ svc' = [svc EXCEPT ![c].accepted = TRUE, ![c].enr = 0, ![c].ver = 0] /\ Grant(c)
  BY <1>1, <1>3, ConfigureAccepts
<1> QED BY <1>2, <1>3 DEF Configure

\* The outcome of the worker is told, unasked.
LEMMA WorkerDoneKeeps ==
  ASSUME Inv, NEW c \in Clients, WorkerDone(c)
  PROVE  Inv'
<1> DEFINE e == Event(IF work[c].err THEN "failed" ELSE "complete", None)
           s == [svc[c] EXCEPT !.done = FALSE, !.terminal = TRUE]
           z == Append(out[c], e)
           k == Len(out[c]) + 1
<1>1. /\ svc[c].mode = "serve" /\ svc[c].done /\ Reply(c, e) /\ svc' = [svc EXCEPT ![c] = s]
      /\ UNCHANGED <<machine, disk, rt, ps, tui, in, work, seen, held, faults>>
  BY DEF WorkerDone
<1>2. /\ Session(c) /\ Stepping(c) /\ Building(c) /\ Talking(c) /\ Fitting(c) /\ Enrolling(c)
      /\ tui[c] \in Tuis /\ svc[c] \in Services /\ work[c] \in Workers /\ seen[c] \in Plans
      /\ in[c] \in Seq(RequestRecs) /\ out[c] \in Seq(EventRecs)
      /\ Stored /\ rt \in Runtimes /\ faults \in 0 .. MaxFaults /\ machine = "media"
  BY <1>1, InvOf, InvAll, OnMedia DEF SharedTyped
<1>3. e \in EventRecs /\ e.type \in {"failed", "complete"} /\ e.re = None
  <2> DEFINE t == IF work[c].err THEN "failed" ELSE "complete"
  <2>1. t \in {"failed", "complete"} OBVIOUS
  <2> HIDE DEF t
  <2>2. t \in EventTypes /\ None \in RequestTypes \cup {None} BY <2>1 DEF EventTypes
  <2> QED BY <2>1, <2>2, EventTyped DEF t
<1>4. svc[c].started /\ ~svc[c].terminal BY <1>1, <1>2 DEF Session
<1>5. /\ s \in Services /\ s.mode = "serve" /\ s.inv = svc[c].inv /\ s.planned = svc[c].planned /\ s.started
      /\ ~s.done /\ s.terminal /\ s.accepted = svc[c].accepted /\ s.ver = svc[c].ver /\ s.enr = svc[c].enr
  BY <1>1, <1>2, <1>4 DEF Services
<1>6. out' = [out EXCEPT ![c] = z] BY <1>1 DEF Reply
<1>7. /\ z \in Seq(EventRecs) /\ z[k] = e /\ k \in DOMAIN z
      /\ \A i \in DOMAIN out[c] : i \in DOMAIN z /\ z[i] = out[c][i] /\ i # k /\ i < k
      /\ \A i \in DOMAIN z : i = k \/ i \in DOMAIN out[c]
  BY <1>2, <1>3, Appended
<1>8. Load(in[c], z) = Load(in[c], out[c]) + 1 /\ Load(in[c], out[c]) \in Nat
  BY <1>2, <1>3, Loaded
<1> HIDE DEF e, s, z, k
<1>9. out'[c] = z /\ svc'[c] = s BY <1>1, <1>6 DEF Inv, Typed, ConsoleTyped, ServiceTyped
<1>10. Talking(c)'
  <2>1. Answering(c)' BY <1>2, <1>3, <1>7, <1>9 DEF Talking, Answering
  <2>2. Staged(c)' BY <1>1, <1>2, <1>5, <1>9 DEF Talking, Staged, NoTui, NoPlan
  <2>3. Open(c)' <=> Open(c) BY <1>1 DEF Open
  <2>4. CASE Open(c)
    <3>1. Requesting(c) /\ Replying(c) /\ Telling(c) BY <1>2, <2>4 DEF Talking
    <3>2. \A i \in DOMAIN out[c] : out[c][i].re # None BY <1>1, <3>1 DEF Telling
    <3>3. tui[c].stage # "connecting" BY <1>1, <1>4, <3>1 DEF Telling
    <3>4. Requesting(c)' BY <1>1, <3>1 DEF Requesting
    <3>5. Replying(c)' BY <1>1, <1>3, <1>7, <1>9, <3>1 DEF Replying
    <3>6. Telling(c)' BY <1>1, <1>5, <1>7, <1>9, <3>2, <3>3 DEF Telling
    <3> QED BY <2>1, <2>2, <2>3, <2>4, <3>4, <3>5, <3>6 DEF Talking
  <2>5. CASE ~Open(c)
    <3>1. Counted(c) BY <1>2, <2>5 DEF Talking
    <3>2. svc[c].mode # "off" /\ ~svc[c].terminal BY <1>1, <1>4
    <3>3. c \in Screens => Load(in[c], z) <= 3 /\ Len(in[c]) <= 2 BY <1>8, <3>1, <3>2 DEF Counted
    <3>4. c \notin Screens => Load(in[c], z) <= 2 BY <1>8, <3>1, <3>2 DEF Counted
    <3>5. Counted(c)' BY <1>1, <1>5, <1>9, <3>3, <3>4 DEF Counted
    <3> QED BY <2>1, <2>2, <2>3, <2>5, <3>5 DEF Talking
  <2> QED BY <2>4, <2>5
<1>11. Stored' BY <1>1, <1>2 DEF Stored, PoolExists, NoPool, NoPlan, InstalledWhole
<1>12. Session(c)' BY <1>1, <1>2, <1>4, <1>5, <1>9 DEF Session, PoolExists, NoPlan
<1>13. Stepping(c)' BY <1>1, <1>2 DEF Stepping, Active
<1>14. Building(c)' BY <1>1, <1>2 DEF Building, PoolExists, Pooled, NoPool, Active
<1>15. Fitting(c)'
  <2>1. \A i \in DOMAIN z : z[i].type = "preview" => i \in DOMAIN out[c] /\ z[i] = out[c][i]
    BY <1>3, <1>7
  <2>2. /\ DOMAIN s.inv = Disks /\ Part(seen[c], s.inv) /\ Part(tui[c].shown, s.inv) /\ Part(s.planned, s.inv)
        /\ seen[c] = s.planned /\ (Open(c) => tui[c].shown = seen[c])
        /\ \A i \in DOMAIN in[c] : in[c][i].type = "confirm" =>
              in[c][i].cmd = DOMAIN seen[c] /\ (Open(c) => tui[c].shown = seen[c])
    BY <1>1, <1>2, <1>4, <1>5 DEF Fitting
  <2>3. \A i \in DOMAIN z : z[i].type = "preview" => Part(z[i].plan, s.inv) /\ ~(c \in Screens => Open(c))
    BY <1>1, <1>2, <1>4, <1>5, <2>1 DEF Fitting
  <2> QED BY <1>1, <1>9, <2>2, <2>3 DEF Fitting, Open
<1>16. Enrolling(c)' BY <1>1, <1>2, <1>5, <1>9 DEF Enrolling
<1>17. Local(c) BY <1>1, <1>6 DEF Local, Inv, Typed, ConsoleTyped, ServiceTyped
<1>18. rt.sub # None /\ rt.sub.by = c => ~FormsOpen(c)' /\ Settled(c)'
  <2>1. ~FormsOpen(c)' BY <1>5, <1>9 DEF FormsOpen
  <2>2. rt.sub # None /\ rt.sub.by = c => Settled(c) BY InvAll DEF Submitted
  <2>3. Settled(c) => Settled(c)' BY <1>1, <1>3, <1>7, <1>9 DEF Settled, Open
  <2> QED BY <2>1, <2>2, <2>3
<1>19. Submitted' BY <1>1, <1>17, <1>18, SubmittedKept
<1>20. /\ tui' = [tui EXCEPT ![c] = tui[c]] /\ seen' = [seen EXCEPT ![c] = seen[c]]
       /\ in' = [in EXCEPT ![c] = in[c]] /\ work' = [work EXCEPT ![c] = work[c]]
  BY <1>1 DEF Inv, Typed, ConsoleTyped, ServiceTyped
<1> QED BY <1>1, <1>2, <1>5, <1>6, <1>7, <1>10, <1>11, <1>12, <1>13, <1>14, <1>15, <1>16, <1>19, <1>20, ClientStep

\* A service that stops its worker.
LEMMA ModeKeeps ==
  ASSUME Inv, NEW c \in Clients, svc[c].mode # "off",
         NEW s \in Services, svc' = [svc EXCEPT ![c] = s], s.mode \in {"rebooting", "closing"},
         s.mode = "rebooting" => in[c] # <<>>,
         s.inv = svc[c].inv, s.planned = svc[c].planned, s.started = svc[c].started,
         s.done = svc[c].done, s.terminal = svc[c].terminal, s.accepted = svc[c].accepted,
         s.ver = svc[c].ver, s.enr = svc[c].enr,
         UNCHANGED <<machine, disk, rt, ps, tui, in, out, work, seen, held, faults>>
  PROVE  Inv'
<1>1. /\ Session(c) /\ Stepping(c) /\ Building(c) /\ Talking(c) /\ Fitting(c) /\ Enrolling(c)
      /\ tui[c] \in Tuis /\ svc[c] \in Services /\ work[c] \in Workers /\ seen[c] \in Plans
      /\ in[c] \in Seq(RequestRecs) /\ out[c] \in Seq(EventRecs)
      /\ Stored /\ rt \in Runtimes /\ faults \in 0 .. MaxFaults /\ machine = "media"
  BY InvOf, InvAll, OnMedia DEF SharedTyped
<1>2. svc'[c] = s BY DEF Inv, Typed, ServiceTyped
<1>3. Talking(c)'
  <2>1. Answering(c)' BY <1>1 DEF Talking, Answering
  <2>2. Staged(c)' BY <1>1, <1>2 DEF Talking, Staged, NoTui, NoPlan
  <2>3. Open(c)' <=> Open(c) BY DEF Open
  <2>4. CASE Open(c)
    <3>1. Requesting(c)' BY <1>1, <2>4 DEF Talking, Requesting
    <3>2. Replying(c)' BY <1>1, <2>4 DEF Talking, Replying
    <3>3. Telling(c)' BY <1>1, <1>2, <2>4 DEF Talking, Telling
    <3> QED BY <2>1, <2>2, <2>3, <2>4, <3>1, <3>2, <3>3 DEF Talking
  <2>5. CASE ~Open(c)
    <3>1. Counted(c)' BY <1>1, <1>2, <2>5 DEF Talking, Counted
    <3> QED BY <2>1, <2>2, <2>3, <2>5, <3>1 DEF Talking
  <2> QED BY <2>4, <2>5
<1>4. Stored' BY <1>1 DEF Stored, PoolExists, NoPool, NoPlan, InstalledWhole
<1>5. Session(c)' BY <1>1, <1>2 DEF Session, PoolExists, NoPlan
<1>6. Stepping(c)' BY <1>1 DEF Stepping, Active
<1>7. Building(c)' BY <1>1 DEF Building, PoolExists, Pooled, NoPool, Active
<1>8. Fitting(c)' BY <1>1, <1>2 DEF Fitting, Open, NoPlan
<1>9. Enrolling(c)' BY <1>1, <1>2 DEF Enrolling
<1>10. Local(c) BY DEF Local, Inv, Typed, ServiceTyped
<1>11. rt.sub # None /\ rt.sub.by = c => ~FormsOpen(c)' /\ Settled(c)'
  BY <1>2, InvAll DEF Submitted, FormsOpen, Settled, Open
<1>12. Submitted' BY <1>10, <1>11, SubmittedKept
<1>13. /\ tui' = [tui EXCEPT ![c] = tui[c]] /\ seen' = [seen EXCEPT ![c] = seen[c]]
       /\ in' = [in EXCEPT ![c] = in[c]] /\ out' = [out EXCEPT ![c] = out[c]]
       /\ work' = [work EXCEPT ![c] = work[c]]
  BY DEF Inv, Typed, ConsoleTyped, ServiceTyped
<1> QED BY <1>1, <1>3, <1>4, <1>5, <1>6, <1>7, <1>8, <1>9, <1>12, <1>13, ClientStep

\* A reboot is asked for.
LEMMA StopForRebootKeeps ==
  ASSUME Inv, NEW c \in Clients, StopForReboot(c)
  PROVE  Inv'
<1> DEFINE s == [svc[c] EXCEPT !.mode = "rebooting", !.stop = svc[c].done]
<1>1. /\ svc[c].mode # "off" /\ in[c] # <<>> /\ svc' = [svc EXCEPT ![c] = s]
      /\ UNCHANGED <<machine, disk, rt, ps, tui, in, out, work, seen, held, faults>>
  BY DEF StopForReboot, Asked
<1>2. svc[c] \in Services BY InvOf
<1>3. /\ s \in Services /\ s.mode = "rebooting" /\ s.inv = svc[c].inv /\ s.planned = svc[c].planned
      /\ s.started = svc[c].started /\ s.done = svc[c].done /\ s.terminal = svc[c].terminal
      /\ s.accepted = svc[c].accepted /\ s.ver = svc[c].ver /\ s.enr = svc[c].enr
  BY <1>2 DEF Services
<1> HIDE DEF s
<1> QED BY <1>1, <1>3, ModeKeeps

\* A reboot is asked for after the outcome.
LEMMA RebootTerminalKeeps ==
  ASSUME Inv, NEW c \in Clients, RebootTerminal(c)
  PROVE  Inv'
<1> DEFINE s == [svc[c] EXCEPT !.mode = "rebooting"]
<1>1. /\ svc[c].mode # "off" /\ in[c] # <<>> /\ svc' = [svc EXCEPT ![c] = s]
      /\ UNCHANGED <<machine, disk, rt, ps, tui, in, out, work, seen, held, faults>>
  BY DEF RebootTerminal, Asked
<1>2. svc[c] \in Services BY InvOf
<1>3. /\ s \in Services /\ s.mode = "rebooting" /\ s.inv = svc[c].inv /\ s.planned = svc[c].planned
      /\ s.started = svc[c].started /\ s.done = svc[c].done /\ s.terminal = svc[c].terminal
      /\ s.accepted = svc[c].accepted /\ s.ver = svc[c].ver /\ s.enr = svc[c].enr
  BY <1>2 DEF Services
<1> HIDE DEF s
<1> QED BY <1>1, <1>3, ModeKeeps

\* The console is gone.
LEMMA DisconnectedKeeps ==
  ASSUME Inv, NEW c \in Clients, Disconnected(c)
  PROVE  Inv'
<1> DEFINE s == [svc[c] EXCEPT !.mode = "closing", !.stop = TRUE]
<1>1. /\ svc[c].mode # "off" /\ svc' = [svc EXCEPT ![c] = s]
      /\ UNCHANGED <<machine, disk, rt, ps, tui, in, out, work, seen, held, faults>>
  BY DEF Disconnected
<1>2. svc[c] \in Services BY InvOf
<1>3. /\ s \in Services /\ s.mode = "closing" /\ s.inv = svc[c].inv /\ s.planned = svc[c].planned
      /\ s.started = svc[c].started /\ s.done = svc[c].done /\ s.terminal = svc[c].terminal
      /\ s.accepted = svc[c].accepted /\ s.ver = svc[c].ver /\ s.enr = svc[c].enr
  BY <1>2 DEF Services
<1> HIDE DEF s
<1> QED BY <1>1, <1>3, ModeKeeps

\* A service that ends, however it does.
LEMMA EndKeeps ==
  ASSUME Inv, NEW c \in Clients, svc[c].mode # "off",
         svc' = [svc EXCEPT ![c] = NoService], work' = [work EXCEPT ![c] = NoWorker],
         rt' = [rt EXCEPT !.lock = IF @ = c THEN None ELSE @], in' = [in EXCEPT ![c] = <<>>],
         UNCHANGED <<machine, disk, ps, tui, out, seen, held>>, faults' \in 0 .. MaxFaults
  PROVE  Inv'
<1>1. /\ Session(c) /\ Talking(c) /\ Enrolling(c) /\ Stored /\ rt \in Runtimes /\ machine = "media"
      /\ tui[c] \in Tuis /\ seen[c] \in Plans /\ in[c] \in Seq(RequestRecs) /\ out[c] \in Seq(EventRecs)
  BY InvOf, InvAll, OnMedia
<1>2. svc'[c] = NoService /\ work'[c] = NoWorker /\ in'[c] = <<>>
  BY DEF Inv, Typed, ConsoleTyped, ServiceTyped
<1>3. NoService \in Services /\ NoWorker \in Workers /\ <<>> \in Seq(RequestRecs) BY NoneTyped
<1>4. /\ rt' \in Runtimes /\ rt'.lock = (IF rt.lock = c THEN None ELSE rt.lock) /\ rt'.op = rt.op
      /\ rt'.key = rt.key
      /\ rt'.status = rt.status /\ rt'.sub = rt.sub /\ rt'.finalizing = rt.finalizing
  BY <1>1 DEF Runtimes
<1>5. rt' = rt \/ (rt.lock \in {None, c} /\ rt'.lock \in {None, c})
  <2>1. CASE rt.lock = c BY <1>4, <2>1
  <2>2. CASE rt.lock # c BY <1>1, <2>2 DEF Runtimes
  <2> QED BY <2>1, <2>2
<1>6. rt'.lock # c BY <1>4, ClientsDiffer
<1>7. Talking(c)'
  <2>1. Answering(c)' BY <1>1 DEF Talking, Answering
  <2>2. Staged(c)' BY <1>1, <1>2 DEF Talking, Staged, NoTui, NoPlan, NoService
  <2>3. Open(c)' <=> Open(c) BY DEF Open
  <2>4. CASE Open(c)
    <3>1. Len(<<>>) = 0 OBVIOUS
    <3>2. Requesting(c)' BY <1>1, <1>2, <2>4, <3>1 DEF Talking, Requesting
    <3>3. Replying(c)' BY <1>1, <1>2, <2>4, <3>1 DEF Talking, Replying
    <3>4. Telling(c)' BY <1>1, <1>2, <2>4 DEF Talking, Telling, NoService
    <3> QED BY <2>1, <2>2, <2>3, <2>4, <3>2, <3>3, <3>4 DEF Talking
  <2>5. CASE ~Open(c)
    <3>1. Load(<<>>, out[c]) <= Load(in[c], out[c]) /\ Load(in[c], out[c]) \in Nat
          /\ Load(<<>>, out[c]) = Len(out[c]) /\ Len(out[c]) \in Nat
      BY <1>1, Loaded
    <3>2. Counted(c) BY <1>1, <2>5 DEF Talking
    <3>3. /\ c \in Screens => Load(<<>>, out[c]) <= 3
          /\ c \notin Screens => Load(<<>>, out[c]) <= 2
      BY <3>1, <3>2 DEF Counted
    <3>4. Len(<<>>) <= 2 OBVIOUS
    <3>5. Counted(c)' BY <1>2, <3>3, <3>4 DEF Counted, NoService
    <3> QED BY <2>1, <2>2, <2>3, <2>5, <3>5 DEF Talking
  <2> QED BY <2>4, <2>5
<1>8. Stored' BY <1>1, <1>4 DEF Stored, PoolExists, NoPool, NoPlan, InstalledWhole
<1>9. Session(c)' BY <1>2, <1>6 DEF Session, NoService, NoPlan, NoWorker
<1>10. Stepping(c)' BY <1>2 DEF Stepping, Active, NoWorker
<1>11. Building(c)' BY <1>2 DEF Building, Active, Unpooled, Complete, NoWorker
<1>12. Fitting(c)' BY <1>2 DEF Fitting, NoService
<1>13. Enrolling(c)' BY <1>1, <1>2 DEF Enrolling, NoService
<1>14. Local(c) BY DEF Local, Inv, Typed, ConsoleTyped, ServiceTyped
<1>15. rt.sub # None /\ rt.sub.by = c => ~FormsOpen(c)' /\ Settled(c)'
  <2>1. ~FormsOpen(c)' BY <1>2 DEF FormsOpen, NoService
  <2>2. rt.sub # None /\ rt.sub.by = c => Settled(c) BY InvAll DEF Submitted
  <2>3. Settled(c) => Settled(c)' BY DEF Settled, Open
  <2> QED BY <2>1, <2>2, <2>3
<1>16. Submitted' BY <1>4, <1>14, <1>15, SubmittedKept
<1>17. /\ tui' = [tui EXCEPT ![c] = tui[c]] /\ seen' = [seen EXCEPT ![c] = seen[c]]
       /\ out' = [out EXCEPT ![c] = out[c]]
  BY DEF Inv, Typed, ConsoleTyped
<1> QED BY <1>1, <1>3, <1>4, <1>5, <1>7, <1>8, <1>9, <1>10, <1>11, <1>12, <1>13, <1>16, <1>17, ClientStep

\* The service ends.
LEMMA ExitKeeps ==
  ASSUME Inv, NEW c \in Clients, Exit(c)
  PROVE  Inv'
<1>1. faults' \in 0 .. MaxFaults /\ svc[c].mode # "off" BY InvAll DEF Exit, SharedTyped
<1> QED BY <1>1, EndKeeps DEF Exit

\* The service is killed.
LEMMA ServiceKilledKeeps ==
  ASSUME Inv, NEW c \in Clients, ServiceKilled(c)
  PROVE  Inv'
<1>1. faults' \in 0 .. MaxFaults /\ svc[c].mode # "off"
  BY InvAll, BoundsAssumption DEF ServiceKilled, Fault, SharedTyped
<1> QED BY <1>1, EndKeeps DEF ServiceKilled

-----------------------------------------------------------------------------
(* The machine.                                                            *)

\* A client of which nothing runs.
LEMMA NothingRuns ==
  ASSUME NEW c \in Clients, tui'[c] \in {NoTui, [NoTui EXCEPT !.stage = "start"]}, svc'[c] = NoService,
         work'[c] = NoWorker, in'[c] = <<>>, out'[c] = <<>>, rt'.lock = None
  PROVE  Session(c)' /\ Stepping(c)' /\ Building(c)' /\ Talking(c)' /\ Fitting(c)' /\ Enrolling(c)'
<1>1. rt'.lock # c BY ClientsDiffer
<1>2. Session(c)' BY <1>1 DEF Session, NoService, NoPlan, NoWorker
<1>3. Stepping(c)' BY DEF Stepping, Active, NoWorker
<1>4. Building(c)' BY DEF Building, Active, Unpooled, Complete, NoWorker
<1>5. Fitting(c)' BY DEF Fitting, NoService
<1>6. /\ tui'[c].stage \in {"off", "start"} /\ tui'[c] = [NoTui EXCEPT !.stage = tui'[c].stage]
      /\ ~tui'[c].saved /\ tui'[c].shown = NoPlan /\ tui'[c].enr = 0
  <2>1. CASE tui'[c] = NoTui
    <3>1. \A m \in Tuis : [m EXCEPT !.stage = m.stage] = m BY DEF Tuis
    <3>2. NoTui \in Tuis BY NoneTyped
    <3>3. NoTui.stage = "off" /\ ~NoTui.saved /\ NoTui.shown = NoPlan /\ NoTui.enr = 0 BY DEF NoTui
    <3> QED BY <2>1, <3>1, <3>2, <3>3
  <2>2. CASE tui'[c] = [NoTui EXCEPT !.stage = "start"]
    <3>1. [NoTui EXCEPT !.stage = "start"].stage = "start" BY DEF NoTui
    <3> QED BY <2>2, <3>1 DEF NoTui
  <2> QED BY <2>1, <2>2
<1>7. Enrolling(c)' BY <1>6 DEF Enrolling, NoService
<1>8. Answering(c)' BY DEF Answering
<1>9. Staged(c)' BY <1>6 DEF Staged, NoService, NoTui, NoPlan
<1>10. ~Open(c)' BY <1>6 DEF Open
<1>11. Load(<<>>, <<>>) = 0 /\ Len(<<>>) = 0 BY DEF Load
<1>12. Counted(c)' BY <1>11 DEF Counted, NoService
<1>13. Talking(c)' BY <1>8, <1>9, <1>10, <1>12 DEF Talking
<1> QED BY <1>2, <1>3, <1>4, <1>5, <1>7, <1>13

\* A machine on which nothing runs.
LEMMA AllNothing ==
  ASSUME \A c \in Clients : /\ tui'[c] \in {NoTui, [NoTui EXCEPT !.stage = "start"]} /\ svc'[c] = NoService
                            /\ work'[c] = NoWorker /\ in'[c] = <<>> /\ out'[c] = <<>>,
         rt'.lock = None, rt'.sub = None, Typed', Quiet', Stored'
  PROVE  Inv'
<1>1. \A c \in Clients : /\ Session(c)' /\ Stepping(c)' /\ Building(c)' /\ Talking(c)' /\ Fitting(c)'
                         /\ Enrolling(c)'
  BY NothingRuns
<1>2. Submitted' BY DEF Submitted
<1> QED BY <1>1, <1>2 DEF Inv, Working, Talks, Fits, Enrolls

\* The power goes, or a reboot is done.
LEMMA OffKeeps ==
  ASSUME Inv, Off, faults' \in 0 .. MaxFaults
  PROVE  Inv'
<1>1. SharedTyped /\ Stored /\ disk \in [Disks -> Content] /\ ps \in Pools BY InvAll DEF SharedTyped
<1>2. /\ machine' = "off" /\ rt' = NoRuntime /\ ps' = ps
      /\ disk' = [d \in Disks |-> IF disk[d] = "pool" THEN "pool" ELSE "old"]
      /\ tui' = [c \in Clients |-> NoTui] /\ svc' = [c \in Clients |-> NoService]
      /\ in' = [c \in Clients |-> <<>>] /\ out' = [c \in Clients |-> <<>>]
      /\ work' = [c \in Clients |-> NoWorker] /\ seen' = [c \in Clients |-> NoPlan]
      /\ held' = [c \in Clients |-> 0]
  BY DEF Off
<1>3. \A c \in Clients : /\ tui'[c] = NoTui /\ svc'[c] = NoService /\ work'[c] = NoWorker
                         /\ in'[c] = <<>> /\ out'[c] = <<>>
  BY <1>2
<1>4. Typed'
  <2>1. disk' \in [Disks -> Content] BY <1>2 DEF Content
  <2>2. SharedTyped' BY <1>1, <1>2, <2>1, NoneTyped DEF SharedTyped
  <2>3. 0 \in 0 .. MaxEnroll BY BoundsAssumption
  <2>4. <<>> \in Seq(RequestRecs) /\ <<>> \in Seq(EventRecs) OBVIOUS
  <2>5. ConsoleTyped' BY <1>2, <2>3, <2>4, NoneTyped, NoPlanIsPlan DEF ConsoleTyped
  <2>6. ServiceTyped' BY <1>2, NoneTyped DEF ServiceTyped
  <2> QED BY <2>2, <2>5, <2>6 DEF Typed
<1>5. Quiet' BY <1>2, <1>3 DEF Quiet, NoRuntime, NoService, NoWorker, NoTui, NoPlan
<1>6. \A d \in Disks : disk'[d] = "pool" <=> disk[d] = "pool" BY <1>2
<1>7. Stored'
  <2>1. PoolExists' <=> PoolExists BY <1>6 DEF PoolExists
  <2>2. {d \in Disks : disk'[d] = "pool"} = {d \in Disks : disk[d] = "pool"} BY <1>6
  <2>3. InstalledWhole' BY <1>1, <1>2, <2>2 DEF Stored, InstalledWhole
  <2> QED BY <1>1, <1>2, <2>1, <2>3 DEF Stored, NoRuntime, NoPool, NoPlan
<1>8. rt'.lock = None /\ rt'.sub = None BY <1>2 DEF NoRuntime
<1> QED BY <1>3, <1>4, <1>5, <1>7, <1>8, AllNothing

\* The machine starts.
LEMMA BootKeeps ==
  ASSUME Inv, NEW unattended \in BOOLEAN, Boot(unattended)
  PROVE  Inv'
<1>1. /\ machine = "off" /\ UNCHANGED <<disk, ps, svc, in, out, work, seen, held, faults>> BY DEF Boot
<1>2. SharedTyped /\ Stored /\ ps \in Pools /\ rt \in Runtimes BY InvAll DEF SharedTyped
<1>3. /\ rt = NoRuntime
      /\ \A c \in Clients : /\ svc[c] = NoService /\ work[c] = NoWorker /\ tui[c] = NoTui
                            /\ in[c] = <<>> /\ out[c] = <<>>
  BY <1>1, InvAll DEF Quiet
<1>4. CASE machine' = "appliance" /\ UNCHANGED <<rt, tui>>
  <2>1. Typed' BY <1>1, <1>4 DEF Inv, Typed, SharedTyped, ConsoleTyped, ServiceTyped
  <2>2. Quiet' BY <1>1, <1>3, <1>4 DEF Quiet, NoRuntime, NoService, NoWorker, NoTui, NoPlan
  <2>3. Stored' BY <1>1, <1>2, <1>4 DEF Stored, PoolExists, NoPool, NoPlan, InstalledWhole
  <2>4. rt'.lock = None /\ rt'.sub = None BY <1>3, <1>4 DEF NoRuntime
  <2> QED BY <1>1, <1>3, <1>4, <2>1, <2>2, <2>3, <2>4, AllNothing
<1>5. CASE /\ machine' = "media" /\ rt' = [rt EXCEPT !.status = ps.status]
           /\ tui' = [c \in Clients |->
                        IF (c = Batch) = unattended
                        THEN [NoTui EXCEPT !.stage = "start"] ELSE NoTui]
  <2>1. /\ rt' \in Runtimes /\ rt'.lock = None /\ rt'.sub = None /\ ~rt'.finalizing
    BY <1>2, <1>3, <1>5 DEF Runtimes, Pools, NoRuntime
  <2>2. \A c \in Clients : tui'[c] \in {NoTui, [NoTui EXCEPT !.stage = "start"]} BY <1>5
  <2>3. NoTui \in Tuis /\ [NoTui EXCEPT !.stage = "start"] \in Tuis BY NoneTyped DEF Tuis, Stages
  <2>4. tui' \in [Clients -> Tuis] BY <1>5, <2>3
  <2>5. Typed' BY <1>1, <1>5, <2>1, <2>4 DEF Inv, Typed, SharedTyped, ConsoleTyped, ServiceTyped
  <2>6. Quiet' BY <1>5 DEF Quiet
  <2>7. Stored' BY <1>1, <1>2, <2>1 DEF Stored, PoolExists, NoPool, NoPlan, InstalledWhole
  <2> QED BY <1>1, <1>3, <2>1, <2>2, <2>5, <2>6, <2>7, AllNothing
<1> QED BY <1>4, <1>5 DEF Boot

\* Somebody else changes a disk that is not of the pool.
LEMMA DiskChangesKeeps ==
  ASSUME Inv, NEW d \in Disks, DiskChanges(d)
  PROVE  Inv'
<1>1. /\ machine = "media" /\ disk[d] = "old" /\ disk' = [disk EXCEPT ![d] = "changed"]
      /\ UNCHANGED <<machine, rt, ps, tui, svc, in, out, work, seen, held>>
  BY DEF DiskChanges
<1>2. faults' \in 0 .. MaxFaults BY InvAll, BoundsAssumption DEF DiskChanges, Fault, SharedTyped
<1>3. disk \in [Disks -> Content] BY InvAll DEF SharedTyped
<1>4. disk' \in [Disks -> Content] BY <1>1, <1>3 DEF Content
<1>5. \A x \in Disks : disk'[x] = "pool" <=> disk[x] = "pool" BY <1>1, <1>3
<1>6. (PoolExists' <=> PoolExists) /\ Pooled' = Pooled BY <1>5 DEF PoolExists, Pooled
<1>7. Typed' BY <1>1, <1>2, <1>4 DEF Inv, Typed, SharedTyped, ConsoleTyped, ServiceTyped
<1>8. Quiet' BY <1>1 DEF Quiet
<1>9. Stored'
  <2>1. InstalledWhole <=> (ps.installed => /\ ps.op /\ ps.os /\ ps.compose /\ ps.efi # {} /\ ps.efi = Pooled
                                            /\ ps.cfg # None /\ ps.key = ps.cfg.by)
    BY DEF InstalledWhole, Pooled
  <2>2. InstalledWhole' <=> (ps.installed => /\ ps.op /\ ps.os /\ ps.compose /\ ps.efi # {} /\ ps.efi = Pooled'
                                             /\ ps.cfg # None /\ ps.key = ps.cfg.by)
    BY <1>1 DEF InstalledWhole, Pooled
  <2> QED BY <1>1, <1>6, <2>1, <2>2, InvAll DEF Stored, NoPool, NoPlan
<1>10. ASSUME NEW c \in Clients PROVE Session(c)' /\ Stepping(c)' /\ Building(c)'
  <2>1. Session(c) /\ Stepping(c) /\ Building(c) BY InvOf
  <2>2. Session(c)' BY <1>1, <1>6, <2>1 DEF Session, NoService, NoPlan
  <2>3. Stepping(c)' BY <1>1, <2>1 DEF Stepping, Active
  <2>4. Building(c)' BY <1>1, <1>6, <2>1 DEF Building, NoPool, Active
  <2> QED BY <2>2, <2>3, <2>4
<1>11. Talks' BY <1>1, InvOf, TalkingSame DEF Talks
<1>12. Fits' BY <1>1, InvOf, FittingSame DEF Fits
<1>13. Submitted' BY <1>1, SubOf, InvAll, SubmittedSame
<1>14. Enrolls' BY <1>1, <1>13, InvOf, EnrollingSame DEF Enrolls
<1> QED BY <1>7, <1>8, <1>9, <1>10, <1>11, <1>12, <1>14 DEF Inv, Working

-----------------------------------------------------------------------------
(* The start of a service, and the steps that read its pipe.               *)

\* A service that starts, with its first event.
LEMMA Starts ==
  ASSUME Inv, NEW c \in Clients, machine = "media", connect(c),
         NEW s \in Services, svc' = [svc EXCEPT ![c] = s], s.mode \in {"serve", "terminal"},
         s.mode = "serve" \/ s.inv # NoPlan => DOMAIN s.inv = Disks,
         s.planned = NoPlan, ~s.started, ~s.done, ~s.accepted, ~s.terminal, s.ver = 0,
         NEW e \in EventRecs, out' = [out EXCEPT ![c] = <<e>>],
         e.re = None, e.type \in {"inventory", "complete", "failed"},
         UNCHANGED <<machine, disk, rt, ps, work, held>>, faults' \in 0 .. MaxFaults
  PROVE  Inv'
<1> DEFINE m == [tui[c] EXCEPT !.stage = "connecting"]
<1>1. /\ tui[c].stage = "start" /\ tui' = [tui EXCEPT ![c] = m] /\ in' = [in EXCEPT ![c] = <<>>]
      /\ seen' = [seen EXCEPT ![c] = NoPlan]
  BY DEF connect
<1>2. /\ Session(c) /\ Stepping(c) /\ Building(c) /\ Talking(c) /\ Stored /\ rt \in Runtimes
      /\ tui[c] \in Tuis /\ work[c] \in Workers
  BY InvOf, InvAll
<1>3. tui[c] = [NoTui EXCEPT !.stage = "start"] /\ svc[c].mode = "off" BY <1>1, <1>2 DEF Talking, Staged
<1>4. /\ m \in Tuis /\ m.stage = "connecting" BY <1>2 DEF Tuis, Stages
<1>5. m.pending = None /\ ~m.saved /\ m.shown = NoPlan /\ m.enr = 0
  <2>1. /\ tui[c].pending = None /\ ~tui[c].saved /\ tui[c].shown = NoPlan /\ tui[c].enr = 0
    BY <1>3 DEF NoTui
  <2> QED BY <1>2, <2>1 DEF Tuis
<1> HIDE DEF m
<1>6. /\ tui'[c] = m /\ in'[c] = <<>> /\ out'[c] = <<e>> /\ seen'[c] = NoPlan /\ svc'[c] = s
  BY <1>1 DEF Inv, Typed, ConsoleTyped, ServiceTyped
<1>7. <<>> \in Seq(RequestRecs) /\ <<e>> \in Seq(EventRecs) /\ NoPlan \in Plans BY NoPlanIsPlan
<1>8. DOMAIN <<e>> = {1} /\ <<e>>[1] = e /\ Len(<<>>) = 0 /\ Len(<<e>>) = 1 /\ Load(<<>>, <<e>>) = 1
  <2>1. Len(<<>>) = 0 /\ Len(<<e>>) = 1 /\ <<e>>[1] = e OBVIOUS
  <2>2. DOMAIN <<e>> = {1} BY <1>7, <2>1, Lengths
  <2>3. Load(<<>>, <<e>>) = 1 BY <2>1 DEF Load
  <2> QED BY <2>1, <2>2, <2>3
<1>9. \A i \in DOMAIN out'[c] : i = 1 /\ out'[c][i] = e BY <1>6, <1>8
<1>10. work[c].pc = "none" /\ rt.lock # c BY <1>2, <1>3 DEF Session
<1>11. Talking(c)'
  <2>1. Answering(c)' BY <1>9 DEF Answering
  <2>2. Staged(c)' BY <1>4, <1>5, <1>6 DEF Staged
  <2>3. CASE Open(c)'
    <3>1. None # "reboot" BY NoneApart DEF RequestTypes
    <3>2. Requesting(c)' BY <1>5, <1>6, <1>8, <3>1 DEF Requesting
    <3>3. Replying(c)' BY <1>9 DEF Replying
    <3>4. Telling(c)' BY <1>4, <1>6, <1>9 DEF Telling
    <3> QED BY <2>1, <2>2, <2>3, <3>2, <3>3, <3>4 DEF Talking
  <2>4. CASE ~Open(c)'
    <3>1. c \notin Screens BY <1>4, <1>6, <2>4 DEF Open
    <3>2. Counted(c)' BY <1>6, <1>8, <3>1 DEF Counted
    <3> QED BY <2>1, <2>2, <2>4, <3>2 DEF Talking
  <2> QED BY <2>3, <2>4
<1>12. Stored' BY <1>2 DEF Stored, PoolExists, NoPool, NoPlan, InstalledWhole
<1>13. Session(c)' BY <1>6, <1>10 DEF Session, NoPlan
<1>14. Stepping(c)' BY <1>10 DEF Stepping, Active
<1>15. Building(c)' BY <1>10 DEF Building, Unpooled, Complete, Active
<1>16. Fitting(c)'
  <2>1. Part(NoPlan, s.inv) BY PartOfNothing
  <2>2. \A i \in DOMAIN out'[c] : out'[c][i].type # "preview" BY <1>9
  <2> QED BY <1>5, <1>6, <2>1, <2>2 DEF Fitting
<1>17. Enrolling(c)' BY <1>5, <1>6 DEF Enrolling
<1>18. Local(c) BY <1>1 DEF Local, Inv, Typed, ConsoleTyped, ServiceTyped
<1>19. ~FormsOpen(c)' /\ Settled(c)' BY <1>4, <1>6, <1>9 DEF FormsOpen, Settled
<1>20. Submitted' BY <1>18, <1>19, SubmittedKept
<1>21. work' = [work EXCEPT ![c] = work[c]] BY DEF Inv, Typed, ServiceTyped
<1> QED BY <1>1, <1>2, <1>4, <1>7, <1>11, <1>12, <1>13, <1>14, <1>15, <1>16, <1>17, <1>20, <1>21, ClientStep

\* A service starts, and looks for an earlier installation.
LEMMA ConnectKeeps ==
  ASSUME Inv, NEW c \in Clients, Connect(c)
  PROVE  Inv'
<1>1. machine = "media" /\ connect(c) /\ UNCHANGED <<machine, disk, rt, ps, work, held>> BY DEF Connect
<1>2. faults \in 0 .. MaxFaults /\ disk \in [Disks -> Content] BY InvAll DEF SharedTyped
<1>3. disk \in Plans BY <1>2, DiskIsPlan
<1> DEFINE s == [NoService EXCEPT !.mode = "terminal"]
           t == [NoService EXCEPT !.mode = "serve", !.inv = disk]
           i == [Event("inventory", None) EXCEPT !.plan = disk]
<1>4. /\ s \in Services /\ s.mode = "terminal" /\ s.inv = NoPlan /\ s.planned = NoPlan /\ ~s.started
      /\ ~s.done
      /\ ~s.accepted /\ ~s.terminal /\ s.ver = 0
  BY NoneTyped DEF Services, NoService
<1>5. /\ t \in Services /\ t.mode = "serve" /\ DOMAIN t.inv = Disks /\ t.planned = NoPlan /\ ~t.started
      /\ ~t.done
      /\ ~t.accepted /\ ~t.terminal /\ t.ver = 0
  BY <1>2, <1>3, NoneTyped DEF Services, NoService
<1>6. i \in EventRecs /\ i.type = "inventory" /\ i.re = None
  <2>1. "inventory" \in EventTypes /\ None \in RequestTypes \cup {None} BY DEF EventTypes
  <2> QED BY <1>3, <2>1, EventTyped
<1>7. ASSUME NEW k \in {"complete", "failed"}
      PROVE  Event(k, None) \in EventRecs /\ Event(k, None).type = k /\ Event(k, None).re = None
  BY EventTyped DEF EventTypes
<1>8. CASE svc' = [svc EXCEPT ![c] = t] /\ out' = [out EXCEPT ![c] = <<i>>] /\ UNCHANGED faults
  <2> HIDE DEF s, t, i
  <2> QED BY <1>1, <1>2, <1>5, <1>6, <1>8, Starts
<1>9. ASSUME NEW k \in {"complete", "failed"}, svc' = [svc EXCEPT ![c] = s],
             out' = [out EXCEPT ![c] = <<Event(k, None)>>], faults' \in 0 .. MaxFaults
      PROVE  Inv'
  <2> HIDE DEF s, t, i
  <2> QED BY <1>1, <1>4, <1>7, <1>9, Starts
<1>10. CASE /\ svc' = [svc EXCEPT ![c] = s] /\ UNCHANGED faults
            /\ \E k \in {"complete", "failed"} : out' = [out EXCEPT ![c] = <<Event(k, None)>>]
  BY <1>2, <1>9, <1>10
<1>11. CASE Fault /\ svc' = [svc EXCEPT ![c] = s] /\ out' = [out EXCEPT ![c] = <<Event("failed", None)>>]
  <2>1. faults' \in 0 .. MaxFaults BY <1>2, <1>11, BoundsAssumption DEF Fault
  <2> QED BY <1>9, <1>11, <2>1
<1>12. \/ svc' = [svc EXCEPT ![c] = t] /\ out' = [out EXCEPT ![c] = <<i>>] /\ UNCHANGED faults
       \/ /\ svc' = [svc EXCEPT ![c] = s] /\ UNCHANGED faults
          /\ \E k \in {"complete", "failed"} : out' = [out EXCEPT ![c] = <<Event(k, None)>>]
       \/ Fault /\ svc' = [svc EXCEPT ![c] = s] /\ out' = [out EXCEPT ![c] = <<Event("failed", None)>>]
  BY Zenon DEF Connect
<1> QED BY <1>8, <1>10, <1>11, <1>12

\* What the terminal program makes of an event.
LEMMA ShowsTyped ==
  ASSUME NEW m \in Tuis, NEW e \in EventRecs
  PROVE  /\ Shows(m, e) \in Tuis /\ Shows(m, e).pending = m.pending
         /\ Shows(m, e).shown = (IF e.type = "preview" THEN e.plan ELSE m.shown)
         /\ Shows(m, e).stage \notin {"off", "start", "killed", "exited"} \/ Shows(m, e).stage = m.stage
         /\ Shows(m, e).stage = "connecting" => m.stage = "connecting"
         /\ Shows(m, e).stage = "connecting" => e.type \in {"error", "validate-account"}
         /\ e.type # "error" => Shows(m, e).rebooting = m.rebooting
         /\ e.type \in {"enroll", "verify-totp"} \/ Shows(m, e).stage = m.stage
              \/ Shows(m, e).stage \notin {"totp", "codes"}
         /\ \/ Shows(m, e).enr = 0 \/ Shows(m, e).code = 0
            \/ Shows(m, e).enr = m.enr /\ Shows(m, e).code = m.code
         /\ \/ ~Shows(m, e).saved
            \/ /\ Shows(m, e).saved = m.saved /\ Shows(m, e).enr = m.enr /\ Shows(m, e).code = m.code
               /\ e.type \notin {"enroll", "verify-totp"}
<1>1. /\ 0 \in 0 .. MaxEnroll /\ e.plan \in Plans /\ e.enr \in 0 .. MaxEnroll /\ e.type \in EventTypes
  BY BoundsAssumption DEF EventRecs
<1> USE <1>1 DEF Tuis, Stages
<1>2. CASE e.type = "inventory"
  <2>1. Shows(m, e) = [m EXCEPT !.stage = "disks"] BY <1>2 DEF Shows
  <2> QED BY <1>2, <2>1
<1>3. CASE e.type = "preview"
  <2>1. Shows(m, e) = [m EXCEPT !.stage = "confirm", !.shown = e.plan] BY <1>3 DEF Shows
  <2> QED BY <1>3, <2>1
<1>4. CASE e.type = "confirm"
  <2>1. Shows(m, e) = [m EXCEPT !.stage = "settings"] BY <1>4 DEF Shows
  <2> QED BY <1>4, <2>1
<1>5. CASE e.type = "validate-host"
  <2>1. Shows(m, e) = [m EXCEPT !.stage = "account"] BY <1>5 DEF Shows
  <2> QED BY <1>5, <2>1
<1>6. CASE e.type = "validate-account"
  <2> DEFINE g == IF m.totp THEN m.stage ELSE "review"
  <2>1. Shows(m, e) = [m EXCEPT !.enr = 0, !.code = 0, !.saved = FALSE, !.stage = g] BY <1>6 DEF Shows
  <2>2. g \in Stages /\ g \in {m.stage, "review"} OBVIOUS
  <2> HIDE DEF g
  <2> QED BY <1>6, <2>1, <2>2
<1>7. CASE e.type = "verify-totp"
  <2>1. Shows(m, e) = [m EXCEPT !.stage = "codes", !.saved = FALSE] BY <1>7 DEF Shows
  <2> QED BY <1>7, <2>1
<1>8. CASE e.type = "enroll"
  <2>1. Shows(m, e) = [m EXCEPT !.stage = "totp", !.enr = e.enr, !.code = 0, !.saved = FALSE] BY <1>8 DEF Shows
  <2> QED BY <1>8, <2>1
<1>9. CASE e.type = "configure"
  <2>1. Shows(m, e) = [m EXCEPT !.stage = "waiting", !.enr = 0, !.code = 0, !.saved = FALSE] BY <1>9 DEF Shows
  <2> QED BY <1>9, <2>1
<1>10. CASE e.type = "failed"
  <2>1. Shows(m, e) = [m EXCEPT !.stage = "failed", !.paused = TRUE] BY <1>10 DEF Shows
  <2> QED BY <1>10, <2>1
<1>11. CASE e.type = "complete"
  <2>1. Shows(m, e) = [m EXCEPT !.stage = "complete", !.paused = FALSE] BY <1>11 DEF Shows
  <2> QED BY <1>11, <2>1
<1>12. CASE e.type = "error"
  <2>1. Shows(m, e) = [m EXCEPT !.rebooting = FALSE] BY <1>12 DEF Shows
  <2> QED BY <1>12, <2>1
<1> QED BY <1>2, <1>3, <1>4, <1>5, <1>6, <1>7, <1>8, <1>9, <1>10, <1>11, <1>12 DEF EventTypes, RequestTypes

\* What a console knows of the event it reads.
LEMMA Reads ==
  ASSUME Inv, NEW c \in Clients, Open(c), out[c] # <<>>
  PROVE  /\ Head(out[c]) \in EventRecs /\ Head(out[c]) = out[c][1] /\ 1 \in DOMAIN out[c]
         /\ Tail(out[c]) \in Seq(EventRecs)
         /\ \A i \in DOMAIN Tail(out[c]) : i \in Nat /\ i + 1 \in DOMAIN out[c] /\ Tail(out[c])[i] = out[c][i + 1]
         /\ Head(out[c]).re = None => Head(out[c]).type \in {"inventory", "complete", "failed"}
         /\ Head(out[c]).re # None => /\ Head(out[c]).type \in {"error", Head(out[c]).re}
                                      /\ Head(out[c]).type # "reboot"
         /\ Head(out[c]).re # None /\ Head(out[c]).re = tui[c].pending =>
              in[c] = <<>> /\ \A i \in DOMAIN Tail(out[c]) : Tail(out[c])[i].re = None
         /\ Head(out[c]).re # None /\ tui[c].pending # "reboot" => Head(out[c]).re = tui[c].pending
         /\ Requesting(c) /\ Replying(c) /\ Telling(c) /\ Answering(c)
<1>1. Talking(c) /\ out[c] \in Seq(EventRecs) BY InvOf
<1>2. Requesting(c) /\ Replying(c) /\ Telling(c) /\ Answering(c) BY <1>1 DEF Talking
<1> DEFINE t == Tail(out[c])
           e == Head(out[c])
<1>3. /\ e \in EventRecs /\ e = out[c][1] /\ 1 \in DOMAIN out[c] /\ t \in Seq(EventRecs)
      /\ \A i \in DOMAIN t : i \in Nat /\ i + 1 \in DOMAIN out[c] /\ t[i] = out[c][i + 1]
  BY <1>1, Taken
<1>4. t \in Seq(EventRecs) => \A i \in DOMAIN t : i >= 1 /\ i + 1 > 1
  BY Lengths
<1> HIDE DEF t, e
<1>5. e.type \in EventTypes BY <1>3 DEF EventRecs
<1>6. e.type # "reboot" BY <1>5 DEF EventTypes
<1>7. e.re # None /\ e.re = tui[c].pending => in[c] = <<>> /\ \A i \in DOMAIN t : t[i].re = None
  BY <1>2, <1>3, <1>4 DEF Replying
<1>8. e.re # None /\ tui[c].pending # "reboot" => e.re = tui[c].pending BY <1>2, <1>3 DEF Replying
<1>9. /\ e.re = None => e.type \in {"inventory", "complete", "failed"}
      /\ e.re # None => e.type \in {"error", e.re}
  BY <1>2, <1>3 DEF Answering
<1> QED BY <1>2, <1>3, <1>6, <1>7, <1>8, <1>9 DEF t, e

\* A console that reads an event and sends nothing keeps the protocol.
LEMMA ReadTalks ==
  ASSUME Inv, NEW c \in Clients, Open(c), out[c] # <<>>, out'[c] = Tail(out[c]), in'[c] = in[c],
         svc'[c] = svc[c], NEW n \in Tuis, tui'[c] = n,
         n.pending = IF Head(out[c]).re # None
         /\ Head(out[c]).re = tui[c].pending THEN None ELSE tui[c].pending,
         n.rebooting = tui[c].rebooting \/ n.pending # "reboot",
         n.stage \notin {"off", "start", "killed", "exited"},
         n.stage = "connecting" => tui[c].stage = "connecting",
         tui[c].stage = "connecting" /\ Head(out[c]).re # None => n.stage = "connecting"
  PROVE  Talking(c)'
<1> DEFINE t == Tail(out[c])
           e == Head(out[c])
<1>1. /\ e \in EventRecs /\ e = out[c][1] /\ 1 \in DOMAIN out[c] /\ t \in Seq(EventRecs)
      /\ \A i \in DOMAIN t : i \in Nat /\ i + 1 \in DOMAIN out[c] /\ t[i] = out[c][i + 1]
      /\ e.re # None /\ e.re = tui[c].pending => in[c] = <<>> /\ \A i \in DOMAIN t : t[i].re = None
      /\ Requesting(c) /\ Replying(c) /\ Telling(c) /\ Answering(c)
  BY Reads
<1>2. n.pending = IF e.re # None /\ e.re = tui[c].pending THEN None ELSE tui[c].pending OBVIOUS
<1>3. out'[c] = t /\ (tui[c].stage = "connecting" /\ e.re # None => n.stage = "connecting") OBVIOUS
<1>4. \A i \in DOMAIN t : i + 1 # 1 BY <1>1, Lengths
<1> HIDE DEF t, e
<1>5. None # "reboot" BY NoneApart DEF RequestTypes
<1>6. Answering(c)' BY <1>1, <1>3 DEF Answering
<1>7. Staged(c)'
  <2>1. Staged(c) BY InvOf DEF Talking
  <2> QED BY <2>1 DEF Staged, Open
<1>8. Requesting(c)'
  <2>1. Len(<<>>) = 0 OBVIOUS
  <2> QED BY <1>1, <1>2, <1>5, <2>1 DEF Requesting
<1>9. Replying(c)'
  <2>1. CASE e.re # None /\ e.re = tui[c].pending BY <1>1, <1>3, <2>1 DEF Replying
  <2>2. CASE ~(e.re # None /\ e.re = tui[c].pending)
    <3>1. n.pending = tui[c].pending BY <1>2, <2>2
    <3>2. ASSUME NEW i \in DOMAIN t, t[i].re # None, t[i].re = tui[c].pending
          PROVE  in[c] = <<>> /\ \A j \in DOMAIN t : j > i => t[j].re = None
      <4>1. i + 1 \in DOMAIN out[c] /\ out[c][i + 1].re # None /\ out[c][i + 1].re = tui[c].pending
        BY <1>1, <3>2
      <4>2. in[c] = <<>> /\ \A j \in DOMAIN out[c] : j > i + 1 => out[c][j].re = None
        BY <1>1, <4>1 DEF Replying
      <4>3. ASSUME NEW j \in DOMAIN t, j > i PROVE t[j].re = None
        <5>1. j + 1 \in DOMAIN out[c] /\ j + 1 > i + 1 /\ t[j] = out[c][j + 1] BY <1>1, <3>2, <4>3
        <5> QED BY <4>2, <5>1
      <4> QED BY <4>2, <4>3
    <3>3. ASSUME NEW i \in DOMAIN t, t[i].re # None, t[i].re # tui[c].pending
          PROVE  /\ tui[c].pending = "reboot" /\ Len(in[c]) <= 1
                 /\ \A j \in DOMAIN t : j # i => t[j].re \in {None, "reboot"}
      <4>1. i + 1 \in DOMAIN out[c] /\ out[c][i + 1].re # None /\ out[c][i + 1].re # tui[c].pending
        BY <1>1, <3>3
      <4>2. /\ tui[c].pending = "reboot" /\ Len(in[c]) <= 1
            /\ \A j \in DOMAIN out[c] : j # i + 1 => out[c][j].re \in {None, "reboot"}
        BY <1>1, <4>1 DEF Replying
      <4>3. ASSUME NEW j \in DOMAIN t, j # i PROVE t[j].re \in {None, "reboot"}
        <5>1. j + 1 \in DOMAIN out[c] /\ j + 1 # i + 1 /\ t[j] = out[c][j + 1] BY <1>1, <3>3, <4>3
        <5> QED BY <4>2, <5>1
      <4> QED BY <4>2, <4>3
    <3> QED BY <1>3, <3>1, <3>2, <3>3 DEF Replying
  <2> QED BY <2>1, <2>2
<1>10. Telling(c)'
  <2>1. ASSUME NEW i \in DOMAIN t, NEW j \in DOMAIN t, t[i].re = None, t[j].re = None PROVE i = j
    <3>1. i + 1 = j + 1 BY <1>1, <2>1 DEF Telling
    <3>2. i \in Nat /\ j \in Nat BY <1>1
    <3> QED BY <3>1, <3>2
  <2>2. ASSUME NEW i \in DOMAIN t, t[i].re = None, svc[c].mode # "off"
        PROVE  ~svc[c].done /\ (~svc[c].started => n.stage = "connecting")
    <3>1. i + 1 \in DOMAIN out[c] /\ out[c][i + 1].re = None /\ i + 1 # 1 BY <1>1, <1>4, <2>2
    <3>2. ~svc[c].done /\ (~svc[c].started => tui[c].stage = "connecting") BY <1>1, <2>2, <3>1 DEF Telling
    <3>3. e.re # None BY <1>1, <3>1 DEF Telling
    <3> QED BY <1>3, <3>2, <3>3
  <2>3. n.stage = "connecting" =>
          /\ svc[c].mode # "off" => ~svc[c].started
          /\ \A i \in DOMAIN in[c] : in[c][i].type = "reboot"
          /\ \A i \in DOMAIN t : t[i].re \in {None, "reboot"}
    BY <1>1 DEF Telling
  <2> QED BY <1>3, <2>1, <2>2, <2>3 DEF Telling
<1>11. Open(c)' BY DEF Open
<1> QED BY <1>6, <1>7, <1>8, <1>9, <1>10, <1>11 DEF Talking

\* A console that reads an event and sends nothing.
LEMMA ReadKeeps ==
  ASSUME Inv, NEW c \in Clients, Open(c), out[c] # <<>>, out' = [out EXCEPT ![c] = Tail(out[c])],
         UNCHANGED <<machine, disk, rt, ps, svc, work, faults, in, seen, held>>,
         NEW n \in Tuis, tui' = [tui EXCEPT ![c] = n], NEW e, e = Head(out[c]),
         n.pending = IF e.re # None /\ e.re = tui[c].pending THEN None ELSE tui[c].pending,
         n.rebooting = tui[c].rebooting \/ n.pending # "reboot",
         n.stage \notin {"off", "start", "killed", "exited"},
         n.stage = "connecting" => tui[c].stage = "connecting",
         tui[c].stage = "connecting" /\ e.re # None => n.stage = "connecting",
         n.shown = tui[c].shown \/ (e.type = "preview" /\ e.re = tui[c].pending /\ n.shown = e.plan),
         \/ n.stage = tui[c].stage \/ n.stage \notin {"totp", "codes"}
         \/ e.type \in {"enroll", "verify-totp"} /\ e.re = tui[c].pending,
         n.enr = 0 \/ n.code = 0 \/ (n.enr = tui[c].enr /\ n.code = tui[c].code),
         \/ ~n.saved
         \/ /\ n.saved = tui[c].saved /\ n.enr = tui[c].enr /\ n.code = tui[c].code
            /\ n.stage = tui[c].stage \/ n.stage \notin {"totp", "codes"}
  PROVE  Inv'
<1> DEFINE t == Tail(out[c])
<1>1. /\ Head(out[c]) = out[c][1] /\ 1 \in DOMAIN out[c] /\ t \in Seq(EventRecs)
      /\ \A i \in DOMAIN t : i + 1 \in DOMAIN out[c] /\ t[i] = out[c][i + 1]
      /\ e.re = None => e.type \in {"inventory", "complete", "failed"}
      /\ e.re # None /\ e.re = tui[c].pending => in[c] = <<>>
  BY Reads
<1>2. machine = "media" BY OnMedia DEF Open
<1>3. tui'[c] = n /\ out'[c] = t BY SameConsole DEF Inv, Typed, ConsoleTyped
<1>4. svc'[c] = svc[c] /\ in'[c] = in[c] OBVIOUS
<1>5. Talking(c)' BY <1>3, <1>4, ReadTalks
<1>6. Open(c)' BY <1>3 DEF Open
<1>7. out[c][1] = e /\ out' = [out EXCEPT ![c] = t] BY <1>1
<1> HIDE DEF t
<1>8. Fitting(c)'
  <2>1. Fitting(c) BY InvOf
  <2>2. SUFFICES ASSUME svc[c].mode # "off" PROVE Fitting(c)' BY DEF Fitting
  <2>3. \A i \in DOMAIN t : t[i].type = "preview" => Part(t[i].plan, svc[c].inv) /\ ~svc[c].started
    BY <1>1, <2>1, <2>2 DEF Fitting
  <2>4. CASE n.shown = tui[c].shown
    BY <1>3, <1>6, <2>1, <2>2, <2>3, <2>4 DEF Fitting
  <2>5. CASE e.type = "preview" /\ e.re = tui[c].pending /\ n.shown = e.plan
    <3>1. in[c] = <<>> BY <1>1, <2>5
    <3>2. Part(e.plan, svc[c].inv) /\ ~svc[c].started BY <1>1, <1>7, <2>1, <2>2, <2>5 DEF Fitting
    <3>3. \A i \in DOMAIN in'[c] : FALSE BY <3>1
    <3> QED BY <1>3, <1>6, <2>1, <2>2, <2>3, <2>5, <3>2, <3>3 DEF Fitting
  <2> QED BY <2>4, <2>5
<1>9. e.type \in {"enroll", "verify-totp"} /\ e.re = tui[c].pending => in[c] = <<>>
  BY <1>1
<1>10. Enrolling(c)'
  <2>1. Enrolling(c) BY InvOf
  <2>2. /\ n.enr # 0 => n.code \in {0, n.enr}
        /\ n.stage \in {"totp", "codes"} => ~n.saved
        /\ n.saved /\ n.enr # 0 /\ n.code # 0 => held[c] = n.code
    BY <2>1 DEF Enrolling
  <2>3. \A i \in DOMAIN in[c] : in[c][i].type = "configure" =>
          /\ in[c][i].cfg.saved /\ in[c][i].cfg.code # 0 => held[c] = in[c][i].cfg.code
          /\ n.stage \notin {"totp", "codes"}
    BY <1>9, <2>1 DEF Enrolling
  <2> QED BY <1>3, <2>1, <2>2, <2>3 DEF Enrolling
<1>11. rt.sub # None /\ rt.sub.by = c => Settled(c)'
  <2>1. SUFFICES ASSUME rt.sub # None, rt.sub.by = c PROVE Settled(c)' OBVIOUS
  <2>2. Settled(c) BY <2>1, InvAll DEF Submitted
  <2>3. /\ tui[c].stage \notin {"totp", "codes"}
        /\ \A i \in DOMAIN out[c] : out[c][i].type \notin {"enroll", "verify-totp"}
    BY <2>2 DEF Settled
  <2> QED BY <1>1, <1>3, <1>7, <2>3 DEF Settled
<1> QED BY <1>1, <1>2, <1>5, <1>7, <1>8, <1>10, <1>11, SameConsole, ConsoleStep

\* A console that reads the acceptance of its account goes on to enrol.
LEMMA EnrolsNext ==
  ASSUME Inv, NEW c \in Clients, Open(c), out[c] # <<>>, out' = [out EXCEPT ![c] = Tail(out[c])],
         UNCHANGED <<machine, disk, rt, ps, svc, work, faults, seen, held>>,
         Head(out[c]).type = "validate-account", Head(out[c]).re = tui[c].pending,
         NEW n \in Tuis, tui' = [tui EXCEPT ![c] = n], n.pending = "enroll", n.stage = tui[c].stage,
         n.shown = tui[c].shown, n.enr = 0, ~n.saved,
         NEW q, q = Append(in[c], Request("enroll")), in' = [in EXCEPT ![c] = q]
  PROVE  Inv'
<1> DEFINE t == Tail(out[c])
           e == Head(out[c])
           r == Request("enroll")
<1>1. /\ e = out[c][1] /\ 1 \in DOMAIN out[c] /\ t \in Seq(EventRecs)
      /\ \A i \in DOMAIN t : i \in Nat /\ i + 1 \in DOMAIN out[c] /\ t[i] = out[c][i + 1]
      /\ e.re = None => e.type \in {"inventory", "complete", "failed"}
      /\ e.re # None => e.type \in {"error", e.re}
      /\ e.re # None /\ e.re = tui[c].pending => in[c] = <<>> /\ \A i \in DOMAIN t : t[i].re = None
      /\ Telling(c) /\ Answering(c)
  BY Reads
<1>2. machine = "media" /\ Talking(c) BY OnMedia, InvOf DEF Open
<1>3. r \in RequestRecs /\ r.type = "enroll" BY RequestTyped DEF RequestTypes
<1>4. e.type = "validate-account" /\ e.re = tui[c].pending OBVIOUS
<1>5. tui'[c] = n /\ out'[c] = t /\ in'[c] = q
  BY SameConsole DEF Inv, Typed, ConsoleTyped
<1> HIDE DEF r, e, t
<1>6. /\ e.re = "validate-account" /\ in[c] = <<>> /\ \A i \in DOMAIN t : t[i].re = None
  BY <1>1, <1>4
<1>7. q \in Seq(RequestRecs) /\ Len(q) = 1 /\ q # <<>> /\ q[1] = r /\ DOMAIN q = {1}
  <2>1. q = Append(<<>>, r) BY <1>6 DEF r
  <2> QED BY <1>3, <2>1, OnlyOne
<1>9. out' = [out EXCEPT ![c] = t] BY DEF t
<1>10. tui[c].stage # "connecting"
  <2>1. e.re \notin {None, "reboot"} BY <1>6, NoneApart DEF RequestTypes
  <2> QED BY <1>1, <2>1 DEF Telling
<1>11. Open(c)' BY <1>5 DEF Open
<1>12. Talking(c)'
  <2>1. Answering(c)'
    <3>1. \A i \in DOMAIN t : t[i].re = None /\ t[i].type \in {"inventory", "complete", "failed"}
      BY <1>1, <1>6 DEF Answering
    <3> QED BY <1>5, <3>1 DEF Answering
  <2>2. Staged(c)'
    <3>1. c \in Screens BY DEF Open
    <3> QED BY <1>2, <1>5, <1>7, <3>1 DEF Talking, Staged, Open
  <2>3. Requesting(c)' BY <1>3, <1>5, <1>7 DEF Requesting
  <2>4. Replying(c)' BY <1>5, <1>6 DEF Replying
  <2>5. Telling(c)'
    <3>1. ASSUME NEW i \in DOMAIN t, NEW j \in DOMAIN t, t[i].re = None, t[j].re = None PROVE i = j
      <4>1. i + 1 = j + 1 BY <1>1, <3>1 DEF Telling
      <4> QED BY <1>1, <4>1
    <3>2. svc[c].mode # "off" => \A i \in DOMAIN t : t[i].re = None =>
            ~svc[c].done /\ (~svc[c].started => tui[c].stage = "connecting")
      BY <1>1 DEF Telling
    <3> QED BY <1>5, <1>10, <3>1, <3>2 DEF Telling
  <2> QED BY <1>11, <2>1, <2>2, <2>3, <2>4, <2>5 DEF Talking
<1>13. \A i \in DOMAIN q : q[i].type = "enroll" BY <1>3, <1>7
<1>14. Fitting(c)'
  <2>1. Fitting(c) BY InvOf
  <2>2. SUFFICES ASSUME svc[c].mode # "off" PROVE Fitting(c)' BY DEF Fitting
  <2>3. \A i \in DOMAIN t : t[i].type = "preview" => Part(t[i].plan, svc[c].inv) /\ ~svc[c].started
    BY <1>1, <2>1, <2>2 DEF Fitting
  <2> QED BY <1>5, <1>11, <1>13, <2>1, <2>2, <2>3 DEF Fitting
<1>15. Enrolling(c)'
  <2>1. Enrolling(c) BY InvOf
  <2> QED BY <1>5, <1>13, <2>1 DEF Enrolling
<1>16. rt.sub # None /\ rt.sub.by = c => Settled(c)'
  <2>1. SUFFICES ASSUME rt.sub # None, rt.sub.by = c PROVE Settled(c)' OBVIOUS
  <2>2. Settled(c) BY <2>1, InvAll DEF Submitted
  <2>3. /\ tui[c].stage \notin {"totp", "codes"}
        /\ \A i \in DOMAIN out[c] : out[c][i].type \notin {"enroll", "verify-totp"}
    BY <2>2 DEF Settled
  <2> QED BY <1>1, <1>5, <2>3 DEF Settled
<1> QED BY <1>1, <1>2, <1>7, <1>9, <1>12, <1>14, <1>15, <1>16, SameConsole, ConsoleStep

\* A step of the terminal program on an event.
LEMMA UpdateKeeps ==
  ASSUME Inv, NEW c \in Clients, Update(c)
  PROVE  Inv'
<1> DEFINE e == Head(out[c])
           p == IF e.re # None /\ e.re = tui[c].pending THEN None ELSE tui[c].pending
           m == [tui[c] EXCEPT !.pending = p]
           ignored == m.rebooting /\ ~(e.type = "error" /\ e.re = tui[c].pending)
<1>1. /\ Open(c) /\ out[c] # <<>> /\ out' = [out EXCEPT ![c] = Tail(out[c])]
      /\ UNCHANGED <<machine, disk, rt, ps, svc, work, faults, seen, held>>
  BY DEF Update, Open, TuiOnly
<1>2. IF e.type = "validate-account" /\ ~ignored /\ m.totp
      THEN Send(c, Shows(m, e), Request("enroll"))
      ELSE tui' = [tui EXCEPT ![c] = IF ignored THEN m ELSE Shows(m, e)] /\ UNCHANGED in
  BY DEF Update
<1>3. tui[c] \in Tuis BY InvOf
<1>4. p \in RequestTypes \cup {None} BY <1>3 DEF Tuis
<1>5. p = IF e.re # None /\ e.re = tui[c].pending THEN None ELSE tui[c].pending OBVIOUS
<1> HIDE DEF p
<1>6. /\ m \in Tuis /\ m.pending = p /\ m.stage = tui[c].stage /\ m.rebooting = tui[c].rebooting
      /\ m.shown = tui[c].shown /\ m.totp = tui[c].totp /\ m.enr = tui[c].enr /\ m.code = tui[c].code
      /\ m.saved = tui[c].saved
  BY <1>3, <1>4 DEF Tuis
<1>7. /\ e \in EventRecs /\ e.type # "reboot"
      /\ e.re = None => e.type \in {"inventory", "complete", "failed"}
      /\ e.re # None => e.type \in {"error", e.re}
      /\ e.re # None /\ tui[c].pending # "reboot" => e.re = tui[c].pending
      /\ Requesting(c) /\ Telling(c) /\ e = out[c][1] /\ 1 \in DOMAIN out[c]
  BY <1>1, Reads, NoneApart DEF EventRecs, EventTypes
<1>8. ignored = (tui[c].rebooting /\ ~(e.type = "error" /\ e.re = tui[c].pending)) BY <1>6
<1>9. e = Head(out[c]) OBVIOUS
<1> HIDE DEF m, e, ignored
<1>10. tui[c].stage \notin {"off", "start", "killed", "exited"} BY <1>1 DEF Open
<1>11. CASE ignored
  <2>1. tui' = [tui EXCEPT ![c] = m] /\ UNCHANGED in BY <1>2, <1>11
  <2> QED BY <1>1, <1>5, <1>6, <1>9, <1>10, <2>1, ReadKeeps
<1>12. CASE ~ignored
  <2>1. e.re # None => e.re = tui[c].pending /\ p = None
    <3>1. tui[c].pending = "reboot" => tui[c].rebooting BY <1>7 DEF Requesting
    <3> QED BY <1>5, <1>7, <1>8, <1>12, <3>1
  <2>2. None # "reboot" BY NoneApart DEF RequestTypes
  <2>3. CASE e.type = "validate-account" /\ m.totp
    <3> DEFINE s == Shows(m, e)
               n == [s EXCEPT !.pending = "enroll"]
    <3>1. s = [m EXCEPT !.enr = 0, !.code = 0, !.saved = FALSE, !.stage = m.stage]
      BY <1>6, <2>3 DEF Shows
    <3>2. 0 \in 0 .. MaxEnroll BY BoundsAssumption
    <3>3. s \in Tuis /\ s.stage = m.stage /\ s.shown = m.shown /\ s.enr = 0 /\ ~s.saved
      BY <1>6, <3>1, <3>2 DEF Tuis
    <3>4. tui' = [tui EXCEPT ![c] = [s EXCEPT !.pending = Request("enroll").type]]
          /\ in' = [in EXCEPT ![c] = Append(in[c], Request("enroll"))]
      BY <1>2, <1>12, <2>3 DEF Send
    <3>5. Request("enroll").type = "enroll" BY DEF Request
    <3> HIDE DEF s
    <3>6. /\ n \in Tuis /\ n.pending = "enroll" /\ n.stage = m.stage /\ n.shown = m.shown /\ n.enr = 0
          /\ ~n.saved
      BY <3>3 DEF Tuis, RequestTypes
    <3>7. tui' = [tui EXCEPT ![c] = n] BY <3>4, <3>5
    <3> HIDE DEF n
    <3>8. e.re = tui[c].pending BY <1>7, <2>1, <2>3
    <3> QED BY <1>1, <1>6, <1>9, <2>3, <3>4, <3>6, <3>7, <3>8, EnrolsNext
  <2>4. CASE ~(e.type = "validate-account" /\ m.totp)
    <3> DEFINE n == Shows(m, e)
    <3>1. tui' = [tui EXCEPT ![c] = n] /\ UNCHANGED in BY <1>2, <1>12, <2>4
    <3>2. /\ n \in Tuis /\ n.pending = m.pending
          /\ n.shown = (IF e.type = "preview" THEN e.plan ELSE m.shown)
          /\ n.stage \notin {"off", "start", "killed", "exited"} \/ n.stage = m.stage
          /\ n.stage = "connecting" => m.stage = "connecting"
          /\ e.type # "error" => n.rebooting = m.rebooting
          /\ e.type \in {"enroll", "verify-totp"} \/ n.stage = m.stage \/ n.stage \notin {"totp", "codes"}
          /\ n.enr = 0 \/ n.code = 0 \/ (n.enr = m.enr /\ n.code = m.code)
          /\ \/ ~n.saved
             \/ /\ n.saved = m.saved /\ n.enr = m.enr /\ n.code = m.code
                /\ e.type \notin {"enroll", "verify-totp"}
      BY <1>6, <1>7, ShowsTyped
    <3>3. e.type = "error" => n.stage = m.stage
      <4>1. e.type = "error" => n = [m EXCEPT !.rebooting = FALSE] BY DEF Shows
      <4> QED BY <1>6, <4>1 DEF Tuis
    <3> HIDE DEF n
    <3>4. e.type \in {"error", "preview", "enroll", "verify-totp"} => e.re = tui[c].pending /\ p = None
      BY <1>7, <2>1
    <3>5. tui[c].stage = "connecting" /\ e.re # None => n.stage = "connecting"
      <4>1. tui[c].stage = "connecting" /\ e.re # None => e.re = "reboot" BY <1>7 DEF Telling
      <4> QED BY <1>6, <1>7, <3>3, <4>1
    <3>6. n.rebooting = tui[c].rebooting \/ n.pending # "reboot" BY <1>6, <2>2, <3>2, <3>4
    <3>7. n.pending = IF e.re # None /\ e.re = tui[c].pending THEN None ELSE tui[c].pending
      BY <1>5, <1>6, <3>2
    <3>8. n.shown = tui[c].shown \/ (e.type = "preview" /\ e.re = tui[c].pending /\ n.shown = e.plan)
      BY <1>6, <3>2, <3>4
    <3>9. /\ n.stage \notin {"off", "start", "killed", "exited"}
          /\ n.stage = "connecting" => tui[c].stage = "connecting"
      BY <1>6, <1>10, <3>2
    <3>10. \/ n.stage = tui[c].stage \/ n.stage \notin {"totp", "codes"}
           \/ e.type \in {"enroll", "verify-totp"} /\ e.re = tui[c].pending
      BY <1>6, <3>2, <3>4
    <3>11. /\ n.enr = 0 \/ n.code = 0 \/ (n.enr = tui[c].enr /\ n.code = tui[c].code)
           /\ \/ ~n.saved
              \/ /\ n.saved = tui[c].saved /\ n.enr = tui[c].enr /\ n.code = tui[c].code
                 /\ n.stage = tui[c].stage \/ n.stage \notin {"totp", "codes"}
      BY <1>6, <3>2
    <3>12. n \in Tuis BY <3>2
    <3> QED BY <1>1, <1>9, <3>1, <3>5, <3>6, <3>7, <3>8, <3>9, <3>10, <3>11, <3>12, ReadKeeps
  <2> QED BY <2>3, <2>4
<1> QED BY <1>11, <1>12

-----------------------------------------------------------------------------
(* The driver.                                                             *)

\* Loads that do not grow.
LEMMA AtMost ==
  ASSUME NEW a \in Nat, NEW b \in Nat, a <= b
  PROVE  (b <= 2 => a <= 2) /\ (b <= 1 => a <= 1)
OBVIOUS

\* A step of the driver, whatever it answers.
LEMMA DriveStep ==
  ASSUME Inv, NEW c \in Clients, c \notin Screens, out[c] # <<>>, tui[c].stage = "connecting",
         out' = [out EXCEPT ![c] = Tail(out[c])],
         UNCHANGED <<machine, disk, rt, ps, svc, work, faults, held>>,
         NEW n \in Tuis, tui' = [tui EXCEPT ![c] = n], n.stage \in {"connecting", "exited"},
         n.enr = tui[c].enr, n.code = tui[c].code, n.saved = tui[c].saved, n.shown = tui[c].shown,
         NEW q \in Seq(RequestRecs), in' = [in EXCEPT ![c] = q], in[c] # <<>> => q # <<>>,
         Load(q, Tail(out[c])) <= Load(in[c], out[c]),
         NEW p \in Plans, seen' = [seen EXCEPT ![c] = p],
         p = seen[c] \/ (p = Head(out[c]).plan /\ Head(out[c]).type = "preview"),
         svc[c].mode # "off" => \A i \in DOMAIN q : q[i].type = "confirm" => q[i].cmd = DOMAIN p,
         \A i \in DOMAIN q : q[i].type = "configure" =>
           ~q[i].cfg.saved \/ \E j \in DOMAIN in[c] : q[i] = in[c][j]
  PROVE  Inv'
<1> DEFINE t == Tail(out[c])
           e == Head(out[c])
<1>1. /\ Talking(c) /\ Fitting(c) /\ Enrolling(c) /\ in[c] \in Seq(RequestRecs) /\ out[c] \in Seq(EventRecs)
      /\ held[c] \in 0 .. MaxEnroll /\ machine = "media"
  BY InvOf, OnMedia
<1>2. /\ e = out[c][1] /\ 1 \in DOMAIN out[c] /\ t \in Seq(EventRecs)
      /\ \A i \in DOMAIN t : i + 1 \in DOMAIN out[c] /\ t[i] = out[c][i + 1]
  BY <1>1, Taken
<1>3. tui'[c] = n /\ in'[c] = q /\ out'[c] = t /\ seen'[c] = p /\ held'[c] = held[c] /\ svc'[c] = svc[c]
  BY DEF Inv, Typed, ConsoleTyped
<1>4. /\ out' = [out EXCEPT ![c] = t] /\ Load(q, t) <= Load(in[c], out[c])
      /\ p = seen[c] \/ (p = e.plan /\ e.type = "preview")
  OBVIOUS
<1> HIDE DEF t, e
<1>5. ~Open(c) /\ ~Open(c)' BY DEF Open
<1>6. Talking(c)'
  <2>1. Answering(c) /\ Staged(c) /\ Counted(c) BY <1>1, <1>5 DEF Talking
  <2>2. Answering(c)'
    <3>1. \A i \in DOMAIN t : IF t[i].re = None THEN t[i].type \in {"inventory", "complete", "failed"}
                                               ELSE t[i].type \in {"error", t[i].re}
      BY <1>2, <2>1 DEF Answering
    <3> QED BY <1>3, <3>1 DEF Answering
  <2>3. Staged(c)' BY <1>3, <2>1 DEF Staged
  <2>4. Counted(c)'
    <3>1. Load(q, t) \in Nat /\ Load(in[c], out[c]) \in Nat BY <1>1, <1>2, Loaded
    <3>2. (Load(in[c], out[c]) <= 2 => Load(q, t) <= 2) /\ (Load(in[c], out[c]) <= 1 => Load(q, t) <= 1)
      BY <1>4, <3>1, AtMost
    <3> QED BY <1>3, <2>1, <3>2 DEF Counted
  <2> QED BY <1>5, <2>2, <2>3, <2>4 DEF Talking
<1>7. Fitting(c)'
  <2>1. SUFFICES ASSUME svc[c].mode # "off" PROVE Fitting(c)' BY DEF Fitting
  <2>2. \A i \in DOMAIN out[c] : out[c][i].type = "preview" => Part(out[c][i].plan, svc[c].inv) /\ ~svc[c].started
    BY <1>1, <2>1 DEF Fitting
  <2>3. \A i \in DOMAIN t : t[i].type = "preview" => Part(t[i].plan, svc[c].inv) /\ ~svc[c].started
    BY <1>2, <2>2
  <2>4. Part(p, svc[c].inv) /\ (svc[c].started => p = seen[c])
    <3>1. Part(seen[c], svc[c].inv) BY <1>1, <2>1 DEF Fitting
    <3> QED BY <1>2, <1>4, <2>2, <3>1
  <2>5. \A i \in DOMAIN q : q[i].type = "confirm" => q[i].cmd = DOMAIN p BY <2>1
  <2> QED BY <1>1, <1>3, <1>5, <2>1, <2>3, <2>4, <2>5 DEF Fitting
<1>8. Enrolling(c)'
  <2>1. \A i \in DOMAIN q : q[i].type = "configure" =>
          (q[i].cfg.saved /\ q[i].cfg.code # 0 => held[c] = q[i].cfg.code)
    BY <1>1 DEF Enrolling
  <2>2. n.stage \notin {"totp", "codes"} OBVIOUS
  <2> QED BY <1>1, <1>3, <2>1, <2>2 DEF Enrolling
<1>9. Settled(c)' BY <1>3, <1>5 DEF Settled
<1>10. faults' \in 0 .. MaxFaults /\ held' = [held EXCEPT ![c] = held[c]] BY SameConsole
<1> QED BY <1>1, <1>2, <1>4, <1>6, <1>7, <1>8, <1>9, <1>10, ConsoleStep

\* An answer of the driver.
LEMMA DriveSends ==
  ASSUME Inv, NEW c \in Clients, c \notin Screens, out[c] # <<>>, tui[c].stage = "connecting",
         out' = [out EXCEPT ![c] = Tail(out[c])],
         UNCHANGED <<machine, disk, rt, ps, svc, work, faults, held>>,
         NEW r \in RequestRecs, Send(c, tui[c], r), ~r.cfg.saved,
         \/ r.type # "confirm" /\ seen' = seen
         \/ /\ r.type = "confirm" /\ Head(out[c]).type = "preview" /\ r.cmd = DOMAIN Head(out[c]).plan
            /\ seen' = [seen EXCEPT ![c] = Head(out[c]).plan]
  PROVE  Inv'
<1> DEFINE n == [tui[c] EXCEPT !.pending = r.type]
           q == Append(in[c], r)
           e == Head(out[c])
           p == IF r.type = "confirm" THEN e.plan ELSE seen[c]
<1>1. /\ tui[c] \in Tuis /\ in[c] \in Seq(RequestRecs) /\ out[c] \in Seq(EventRecs) /\ Session(c)
      /\ Talking(c) /\ Fitting(c) /\ seen[c] \in Plans /\ svc[c] \in Services
  BY InvOf
<1>2. /\ e \in EventRecs /\ e = out[c][1] /\ 1 \in DOMAIN out[c] BY <1>1, Taken
<1>3. /\ q \in Seq(RequestRecs) /\ q # <<>> /\ q[Len(in[c]) + 1] = r
      /\ \A i \in DOMAIN q : i = Len(in[c]) + 1 \/ (i \in DOMAIN in[c] /\ q[i] = in[c][i])
  BY <1>1, Appended
<1>4. Load(q, Tail(out[c])) = Load(in[c], out[c]) /\ Load(in[c], out[c]) \in Nat BY <1>1, Loaded
<1>5. Load(q, Tail(out[c])) <= Load(in[c], out[c]) BY <1>4
<1>6. tui' = [tui EXCEPT ![c] = n] /\ in' = [in EXCEPT ![c] = q] BY DEF Send
<1>7. /\ n \in Tuis /\ n.stage = "connecting" /\ n.enr = tui[c].enr /\ n.code = tui[c].code
      /\ n.saved = tui[c].saved /\ n.shown = tui[c].shown
  BY <1>1 DEF Tuis, RequestRecs
<1>8. seen' = [seen EXCEPT ![c] = p] BY SameConsole
<1>9. p \in Plans /\ (p = seen[c] \/ (p = e.plan /\ e.type = "preview"))
  BY <1>1, <1>2 DEF EventRecs
<1>10. r.type = "confirm" => p = e.plan /\ e.type = "preview" /\ r.cmd = DOMAIN p OBVIOUS
<1>11. r.type # "confirm" => p = seen[c] OBVIOUS
<1>12. \A i \in DOMAIN q : q[i] = r \/ \E j \in DOMAIN in[c] : q[i] = in[c][j] BY <1>3
<1> HIDE DEF n, q, e, p
<1>13. ASSUME svc[c].mode # "off", NEW i \in DOMAIN q, q[i].type = "confirm" PROVE q[i].cmd = DOMAIN p
  <2>1. CASE q[i] = r BY <1>10, <1>13, <2>1
  <2>2. CASE \E j \in DOMAIN in[c] : q[i] = in[c][j]
    <3>1. q[i].cmd = DOMAIN seen[c] BY <1>1, <1>13, <2>2 DEF Fitting
    <3>2. CASE r.type # "confirm" BY <1>11, <3>1, <3>2
    <3>3. CASE r.type = "confirm"
      <4>1. ~svc[c].started BY <1>1, <1>2, <1>10, <1>13, <3>3 DEF Fitting
      <4>2. ~svc[c].terminal BY <1>1, <4>1 DEF Session
      <4>3. Counted(c) BY <1>1 DEF Talking, Open
      <4>4. Load(in[c], out[c]) <= 1 BY <1>13, <4>2, <4>3 DEF Counted
      <4>5. in[c] # <<>> BY <2>2
      <4>6. out[c] = <<>> BY <1>1, <4>4, <4>5, LoadOne
      <4> QED BY <4>6
    <3> QED BY <3>2, <3>3
  <2> QED BY <1>12, <2>1, <2>2
<1>14. \A i \in DOMAIN q : q[i].type = "configure" =>
         ~q[i].cfg.saved \/ \E j \in DOMAIN in[c] : q[i] = in[c][j]
  BY <1>12
<1>15. p = seen[c] \/ (p = Head(out[c]).plan /\ Head(out[c]).type = "preview") BY <1>9 DEF e
<1> QED BY <1>3, <1>5, <1>6, <1>7, <1>8, <1>9, <1>13, <1>14, <1>15, DriveStep

\* The driver answers an event, or ends.
LEMMA DriveKeeps ==
  ASSUME Inv, NEW S \in Layouts, Drive(S)
  PROVE  Inv'
<1> DEFINE c == Batch
           e == Head(out[c])
<1>1. c \in Clients /\ c \notin Screens BY ClientsDiffer DEF Clients
<1>2. /\ out[c] # <<>> /\ tui[c].stage \notin {"off", "start", "exited"}
      /\ out' = [out EXCEPT ![c] = Tail(out[c])]
      /\ UNCHANGED <<machine, disk, rt, ps, svc, work, faults, held>>
      /\ seen' = IF e.type = "preview" THEN [seen EXCEPT ![c] = e.plan] ELSE seen
  BY DEF Drive, TuiOnly
<1>3. (CASE e.type = "preview" -> Send(c, tui[c], [Request("confirm") EXCEPT !.cmd = DOMAIN e.plan])
        [] e.type \in DOMAIN Answers(S) -> Send(c, tui[c], Answers(S)[e.type])
        [] e.type \in {"error", "failed"} ->
             tui' = [tui EXCEPT ![c].stage = "exited"] /\ UNCHANGED in
        [] OTHER -> UNCHANGED <<tui, in>>)
  BY DEF Drive
<1>4. /\ tui[c] \in Tuis /\ in[c] \in Seq(RequestRecs) /\ out[c] \in Seq(EventRecs) /\ Talking(c)
      /\ seen[c] \in Plans /\ Fitting(c) /\ Enrolling(c)
  BY <1>1, InvOf
<1>5. tui[c].stage = "connecting" BY <1>1, <1>2, <1>4 DEF Talking, Staged
<1>6. e \in EventRecs BY <1>2, <1>4, Taken
<1>7. DOMAIN Answers(S) = {"inventory", "confirm", "complete"} BY DEF Answers
<1>8. S \in SUBSET Disks BY LayoutsOfDisks
<1>9. \A t \in RequestTypes : ~Request(t).cfg.saved /\ \A x : ~[Request(t) EXCEPT !.cmd = x].cfg.saved
  BY DEF Request
<1>10. e = Head(out[c]) OBVIOUS
<1> HIDE DEF e, c
<1>11. CASE e.type = "preview"
  <2> DEFINE r == [Request("confirm") EXCEPT !.cmd = DOMAIN e.plan]
  <2>1. DOMAIN e.plan \in SUBSET Disks BY <1>6, PlansAre DEF EventRecs
  <2>2. r \in RequestRecs /\ r.type = "confirm" /\ r.cmd = DOMAIN e.plan /\ ~r.cfg.saved
    BY <1>9, <2>1, RequestTyped DEF RequestTypes
  <2>3. Send(c, tui[c], r) BY <1>3, <1>7, <1>11
  <2>4. seen' = [seen EXCEPT ![c] = e.plan] BY <1>2, <1>11
  <2> HIDE DEF r
  <2> QED BY <1>1, <1>2, <1>5, <1>10, <1>11, <2>2, <2>3, <2>4, DriveSends
<1>12. CASE e.type \in DOMAIN Answers(S)
  <2> DEFINE r == Answers(S)[e.type]
  <2>1. r \in RequestRecs /\ r.type # "confirm" /\ ~r.cfg.saved
    <3>1. CASE e.type = "inventory"
      <4>1. r = [Request("preview") EXCEPT !.cmd = S] BY <3>1 DEF Answers
      <4> QED BY <1>8, <1>9, <4>1, RequestTyped DEF RequestTypes
    <3>2. CASE e.type = "confirm"
      <4>1. r = Request("configure") BY <3>2 DEF Answers
      <4> QED BY <1>9, <4>1, RequestTyped DEF RequestTypes
    <3>3. CASE e.type = "complete"
      <4>1. r = Request("reboot") BY <3>3 DEF Answers
      <4> QED BY <1>9, <4>1, RequestTyped DEF RequestTypes
    <3> QED BY <1>7, <1>12, <3>1, <3>2, <3>3
  <2>2. e.type # "preview" BY <1>7, <1>12
  <2>3. Send(c, tui[c], r) BY <1>3, <1>7, <1>12, <2>2
  <2>4. seen' = seen BY <1>2, <2>2
  <2> HIDE DEF r
  <2> QED BY <1>1, <1>2, <1>5, <2>1, <2>3, <2>4, DriveSends
<1>13. CASE e.type # "preview" /\ e.type \notin DOMAIN Answers(S)
  <2> DEFINE n == [tui[c] EXCEPT !.stage = "exited"]
  <2>1. n \in Tuis /\ n.stage = "exited" /\ n.enr = tui[c].enr /\ n.code = tui[c].code
        /\ n.saved = tui[c].saved /\ n.shown = tui[c].shown
    BY <1>4 DEF Tuis, Stages
  <2>2. UNCHANGED in /\ (tui' = [tui EXCEPT ![c] = n] \/ tui' = [tui EXCEPT ![c] = tui[c]])
    <3>1. CASE e.type \in {"error", "failed"} BY <1>3, <1>7, <1>13, <3>1
    <3>2. CASE e.type \notin {"error", "failed"}
      <4>1. UNCHANGED <<tui, in>> BY <1>3, <1>13, <3>2
      <4>2. tui = [tui EXCEPT ![c] = tui[c]] BY <1>1 DEF Inv, Typed, ConsoleTyped
      <4> QED BY <4>1, <4>2
    <3> QED BY <3>1, <3>2
  <2>3. PICK k \in {n, tui[c]} : tui' = [tui EXCEPT ![c] = k] BY <2>2
  <2> HIDE DEF n
  <2>4. k \in Tuis /\ k.stage \in {"connecting", "exited"} /\ k.enr = tui[c].enr /\ k.code = tui[c].code
        /\ k.saved = tui[c].saved /\ k.shown = tui[c].shown
    BY <1>4, <1>5, <2>1, <2>3
  <2>5. in' = [in EXCEPT ![c] = in[c]] /\ seen' = [seen EXCEPT ![c] = seen[c]]
    BY <1>1, <1>2, <1>13, <2>2, SameConsole
  <2>6. Load(in[c], Tail(out[c])) <= Load(in[c], out[c]) BY <1>2, <1>4, Loaded
  <2>7. svc[c].mode # "off" => \A i \in DOMAIN in[c] : in[c][i].type = "confirm" => in[c][i].cmd = DOMAIN seen[c]
    BY <1>4 DEF Fitting
  <2>8. \A i \in DOMAIN in[c] : in[c][i].type = "configure" =>
          ~in[c][i].cfg.saved \/ \E j \in DOMAIN in[c] : in[c][i] = in[c][j]
    OBVIOUS
  <2> QED BY <1>1, <1>2, <1>4, <1>5, <2>3, <2>4, <2>5, <2>6, <2>7, <2>8, DriveStep
<1> QED BY <1>11, <1>12, <1>13

-----------------------------------------------------------------------------
(* The system.                                                             *)

\* A reboot that the service has prepared.
LEMMA RebootKeeps ==
  ASSUME Inv, NEW c \in Clients, Reboot(c)
  PROVE  Inv'
<1>1. CASE Off /\ UNCHANGED faults
  <2>1. faults' \in 0 .. MaxFaults BY <1>1, InvAll DEF SharedTyped
  <2> QED BY <1>1, <2>1, OffKeeps
<1>2. CASE ~(Off /\ UNCHANGED faults)
  <2>1. /\ svc[c].mode = "rebooting" /\ Fault
        /\ svc' = [svc EXCEPT ![c].mode = IF svc[c].inv = NoPlan THEN "terminal" ELSE "serve",
                              ![c].terminal = svc[c].terminal \/ svc[c].done, ![c].done = FALSE]
        /\ Take(c) /\ Refuse(c) /\ UNCHANGED <<machine, disk, rt, ps, tui, work, seen, held>>
    BY <1>2 DEF Reboot
  <2> QED BY <2>1, RebootFails
<1> QED BY <1>1, <1>2

\* The steps of a service.
LEMMA ServiceKeeps ==
  ASSUME Inv, NEW c \in Clients, Service(c)
  PROVE  Inv'
BY PreviewKeeps, ConfirmKeeps, ValidateHostKeeps, ValidateAccountKeeps, VerifyTOTPKeeps, EnrollKeeps,
   ConfigureKeeps, WorkerDoneKeeps, StopForRebootKeeps, RebootTerminalKeeps, RebootKeeps,
   DisconnectedKeeps, ExitKeeps DEF Service

\* The steps of a console.
LEMMA ConsoleKeeps ==
  ASSUME Inv, NEW c \in Clients, Console(c)
  PROVE  Inv'
BY ConnectKeeps, UpdateKeeps, ClosedKeeps, RestartKeeps DEF Console

\* The power fails.
LEMMA PowerLossKeeps ==
  ASSUME Inv, PowerLoss
  PROVE  Inv'
<1>1. faults' \in 0 .. MaxFaults BY InvAll, BoundsAssumption DEF SharedTyped, PowerLoss, Fault
<1> QED BY <1>1, OffKeeps DEF PowerLoss

\* Boots, faults, and what others do.
LEMMA EnvironmentKeeps ==
  ASSUME Inv, Environment
  PROVE  Inv'
BY BootKeeps, PowerLossKeeps, DiskChangesKeeps, StepFailsKeeps, ServiceKilledKeeps, ConsoleKilledKeeps
   DEF Environment

\* A step that changes nothing.
LEMMA NothingChanges ==
  ASSUME Inv, UNCHANGED vars
  PROVE  Inv'
<1> USE DEF vars
<1>1. Typed' BY DEF Inv, Typed, SharedTyped, ConsoleTyped, ServiceTyped
<1>2. Quiet' BY InvAll DEF Quiet
<1>3. Stored' BY InvAll DEF Stored, PoolExists, InstalledWhole
<1>4. ASSUME NEW c \in Clients
      PROVE  Session(c)' /\ Stepping(c)' /\ Building(c)' /\ Talking(c)' /\ Fitting(c)' /\ Enrolling(c)'
  <2>1. Session(c)' BY InvOf DEF Session, PoolExists
  <2>2. Stepping(c)' BY InvOf DEF Stepping, Active
  <2>3. Building(c)' BY InvOf DEF Building, Active, PoolExists, Pooled
  <2>4. Talking(c)'
    BY InvOf DEF Talking, Answering, Staged, Open, Requesting, Replying, Telling, Counted
  <2>5. Fitting(c)' BY InvOf DEF Fitting, Open
  <2>6. Enrolling(c)' BY InvOf DEF Enrolling
  <2> QED BY <2>1, <2>2, <2>3, <2>4, <2>5, <2>6
<1>5. Submitted' BY InvAll DEF Submitted, FormsOpen, Settled, Open
<1> QED BY <1>1, <1>2, <1>3, <1>4, <1>5 DEF Inv, Working, Talks, Fits, Enrolls

\* Every step keeps the invariant.
LEMMA InvKept ==
  ASSUME Inv, [Next]_vars
  PROVE  Inv'
<1>1. ASSUME Driver PROVE Inv' BY <1>1, DriveKeeps DEF Driver
<1> QED BY <1>1, EnvironmentKeeps, UserKeeps, ServiceKeeps, WorkerKeeps, ConsoleKeeps, NothingChanges DEF Next

\* A machine that was never on.
LEMMA InvInit ==
  ASSUME Init
  PROVE  Inv
<1>1. /\ NoRuntime \in Runtimes /\ NoPool \in Pools /\ NoTui \in Tuis /\ NoService \in Services
      /\ NoWorker \in Workers /\ NoPlan \in Plans
  BY NoneTyped, NoPlanIsPlan
<1>2. Typed
  <2>1. SharedTyped BY <1>1, BoundsAssumption DEF Init, SharedTyped, Content
  <2>2. 0 \in 0 .. MaxEnroll /\ <<>> \in Seq(RequestRecs) /\ <<>> \in Seq(EventRecs) BY BoundsAssumption
  <2>3. ConsoleTyped BY <1>1, <2>2 DEF Init, ConsoleTyped
  <2>4. ServiceTyped BY <1>1 DEF Init, ServiceTyped
  <2> QED BY <2>1, <2>3, <2>4 DEF Typed
<1>3. Quiet BY DEF Init, Quiet
<1>4. Stored BY DEF Init, Stored, NoRuntime, NoPool, InstalledWhole
<1>5. ASSUME NEW c \in Clients
      PROVE  Session(c) /\ Stepping(c) /\ Building(c) /\ Talking(c) /\ Fitting(c) /\ Enrolling(c)
  <2>1. tui[c] = NoTui /\ svc[c] = NoService /\ work[c] = NoWorker /\ in[c] = <<>> /\ out[c] = <<>>
        /\ rt = NoRuntime
    BY DEF Init
  <2>2. c # None BY ClientsDiffer
  <2>3. Session(c) BY <2>1, <2>2 DEF Session, NoService, NoWorker, NoRuntime
  <2>4. Stepping(c) BY <2>1 DEF Stepping, Active, NoWorker
  <2>5. Building(c) BY <2>1 DEF Building, Active, NoWorker, Unpooled, Complete
  <2>6. ~Open(c) BY <2>1 DEF Open, NoTui
  <2>7. Answering(c) BY <2>1 DEF Answering
  <2>8. Staged(c)
    <3>1. \A m \in Tuis : [m EXCEPT !.stage = m.stage] = m BY DEF Tuis
    <3>2. tui[c] = [NoTui EXCEPT !.stage = tui[c].stage] BY <1>1, <2>1, <3>1
    <3>3. /\ tui[c].stage = "off" /\ ~tui[c].saved /\ tui[c].shown = NoPlan /\ svc[c].mode = "off"
      BY <2>1 DEF NoTui, NoService
    <3> QED BY <3>2, <3>3 DEF Staged
  <2>9. Counted(c)
    <3>1. Len(<<>>) = 0 /\ Load(<<>>, <<>>) = 0 BY DEF Load
    <3> QED BY <2>1, <3>1 DEF Counted
  <2>10. Talking(c) BY <2>6, <2>7, <2>8, <2>9 DEF Talking
  <2>11. Fitting(c) BY <2>1 DEF Fitting, NoService
  <2>12. Enrolling(c) BY <2>1 DEF Enrolling, NoTui, NoService
  <2> QED BY <2>3, <2>4, <2>5, <2>10, <2>11, <2>12
<1>6. Submitted BY DEF Init, Submitted, NoRuntime
<1> QED BY <1>2, <1>3, <1>4, <1>5, <1>6 DEF Inv, Working, Talks, Fits, Enrolls

\* A step that changes the operation starts it, which nobody has before, or starts the machine.
LEMMA OperationStays ==
  ASSUME Inv, [Next]_vars, rt.status # None, machine' = "media"
  PROVE  rt'.op = rt.op /\ rt'.key = rt.key
<1>1. rt \in Runtimes BY InvAll
<1>2. ASSUME NEW c \in Clients, Worker(c) PROVE rt'.op = rt.op /\ rt'.key = rt.key
  BY <1>1, <1>2 DEF Worker, Begin, Check, phase, CreatePool, Record, PoolReady, InstallOS, InstallBundle,
     StorageReady, ReadSubmission, Persist, VerifyStack, Mark, Finish, Stops, Cleanup, Erase, InstallEFI,
     saveStatus, Runtimes
<1>3. ASSUME NEW c \in Clients, Confirm(c) PROVE rt'.op = rt.op /\ rt'.key = rt.key
  <2>1. Session(c) BY InvOf
  <2>2. ~Confirms(c) BY <2>1 DEF Session, Confirms
  <2> QED BY <1>3, <2>2 DEF Confirm
<1>4. ASSUME NEW c \in Clients, Service(c) PROVE rt'.op = rt.op /\ rt'.key = rt.key
  <2>1. CASE Preview(c) BY <1>1, <2>1 DEF Preview, Runtimes
  <2>2. CASE Configure(c) BY <1>1, <2>2 DEF Configure, Runtimes
  <2>3. CASE Exit(c) BY <1>1, <2>3 DEF Exit, Runtimes
  <2>4. CASE Reboot(c) BY <2>4 DEF Reboot, Off
  <2>5. CASE \/ ValidateHost(c) \/ ValidateAccount(c) \/ VerifyTOTP(c) \/ Enroll(c) \/ WorkerDone(c)
             \/ StopForReboot(c) \/ RebootTerminal(c) \/ Disconnected(c)
    BY <2>5 DEF ValidateHost, ValidateAccount, VerifyTOTP, Enroll, WorkerDone, StopForReboot,
       RebootTerminal, Disconnected
  <2> QED BY <1>3, <1>4, <2>1, <2>2, <2>3, <2>4, <2>5 DEF Service
<1>5. ASSUME NEW c \in Clients, User(c) \/ Console(c) PROVE rt' = rt
  BY <1>5 DEF User, Console, UserPreviews, UserErases, UserCustomises, back, UserSettles, UserFinishes,
     UserSaves, UserReboots, UserAccount, UserCode, Connect, Update, Closed, Restart, TuiOnly
<1>6. ASSUME Environment PROVE rt'.op = rt.op /\ rt'.key = rt.key
  <2>1. ASSUME NEW u \in BOOLEAN, Boot(u) PROVE rt'.op = rt.op /\ rt'.key = rt.key
    BY <1>1, <2>1 DEF Boot, Runtimes
  <2>2. CASE PowerLoss BY <2>2 DEF PowerLoss, Off
  <2>3. ASSUME NEW c \in Clients, StepFails(c) \/ ServiceKilled(c) \/ ConsoleKilled(c)
        PROVE  rt'.op = rt.op /\ rt'.key = rt.key
    BY <1>1, <2>3 DEF StepFails, ServiceKilled, ConsoleKilled, Runtimes
  <2> QED BY <1>6, <2>1, <2>2, <2>3 DEF Environment, DiskChanges
<1>7. ASSUME Driver PROVE rt' = rt BY <1>7 DEF Driver, Drive, TuiOnly
<1> QED BY <1>2, <1>4, <1>5, <1>6, <1>7 DEF Next, vars

-----------------------------------------------------------------------------
(* Results.                                                                *)

\* The invariant holds for every number of consoles, disks, layouts, enrolments and faults.
LEMMA Invariance == Spec => []Inv
<1>1. Init => Inv BY InvInit
<1>2. Inv /\ [Next]_vars => Inv' BY InvKept
<1> QED BY <1>1, <1>2, PTL DEF Spec

\* Whatever the consoles do at the same time, a worker wipes the disks its user had on the
\* screen, with the fingerprints that were shown (service.go startInstall, worker.go installWorker).
THEOREM OnlyConfirmedDisksErased == Spec => []ErasesSafely
<1>1. Inv => ErasesSafely BY InvTypes, InvErases DEF ErasesSafely
<1> QED BY <1>1, Invariance, PTL

\* A machine marked as installed is complete, and the gate of its stack is closed for any other
\* (worker.go installWorker, finish; installer.nix).
THEOREM InstalledMeansWhole == Spec => []InstallationWhole
<1>1. Inv => InstallationWhole BY InvRest
<1> QED BY <1>1, Invariance, PTL

\* The account that was submitted asks for the codes of the secret its user has saved
\* (service.go submission; tui.go).
THEOREM AccountAlwaysUsable == Spec => []AccountUsable
<1>1. Inv => AccountUsable BY InvRest
<1> QED BY <1>1, Invariance, PTL

\* No console starts an installation over one that has begun to change disks, even when that
\* one has died (service.go claimSession, startInstall).
THEOREM OneOperationPerBoot == Spec => OperationKept
<1>1. Inv /\ [Next]_vars =>
        [rt.status # None /\ machine' = "media" => rt'.op = rt.op /\ rt'.key = rt.key]_vars
  BY OperationStays
<1> QED BY <1>1, Invariance, PTL DEF Spec, OperationKept
=============================================================================

------------------------------ MODULE Installer ------------------------------
(***************************************************************************)
(* Installation of an appliance from the media: the terminal interface of  *)
(* a console (internal/installtui), the service it starts and talks to     *)
(* over a pipe (internal/installer/service.go), the worker that erases the *)
(* disks and installs (worker.go, os.go, storage.go), the unattended       *)
(* driver (answers.go) and the boot of the media                           *)
(* (floatlab-appliance-image/nixos/modules/installer.nix).                 *)
(*                                                                         *)
(* A media boot starts either one console per screen, all with the same    *)
(* inventory, or the unattended driver.  Each has a service of its own;    *)
(* services meet only in the files under /run (rt), the locks, the files   *)
(* on the new pool (ps) and the disks.  A disk is abstracted to what its   *)
(* fingerprint tells apart; a zpool command to the set of disks it names;  *)
(* a TOTP secret to the number of its enrolment, and a code to the number  *)
(* of the secret it was computed from.  Progress events only repaint the   *)
(* screen and are left out.                                                *)
(***************************************************************************)
EXTENDS Naturals, Sequences, FiniteSets

CONSTANTS Screens,      \* the consoles of the media: display, serial line
          Batch,        \* the unattended driver, which runs in their place
          Disks,
          Layouts,      \* the sets of disks users choose from, one zpool command for each
          None,         \* no file, nobody
          MaxFaults,    \* failed steps, killed processes, power losses, disks changed by others
          MaxEnroll     \* TOTP enrolments of one session

Clients == Screens \cup {Batch}

ASSUME ClientsDiffer == Batch \notin Screens /\ None \notin Clients
ASSUME LayoutsOfDisks == Layouts \subseteq (SUBSET Disks) \ {{}}

VARIABLES machine,   \* "off", "media" (running the media) or "appliance" (its stack starts, no installer)
          disk,      \* what the fingerprint of a disk tells: Content
          rt,        \* files of /run/floatlab-installer; gone with the power
          ps,        \* what the new pool holds
          tui,       \* the model of a console's terminal program
          svc,       \* the variables of a service
          in, out,   \* requests and events in the pipes between the two
          work,      \* a service's worker
          seen,      \* what was on the screen when its user chose to erase
          held,      \* the secret whose codes the user entered correctly and saved
          faults

vars == <<machine, disk, rt, ps, tui, svc, in, out, work, seen, held, faults>>

Content == {"old", "changed", "blank", "pool"}
Plans   == UNION {[S -> Content] : S \in SUBSET Disks}
NoPlan  == [d \in {} |-> "old"]

(* Status of worker.go; the phase is 0 before the first one.               *)
NoStatus == [phase |-> 0, pool |-> FALSE, storage |-> FALSE, ready |-> FALSE, error |-> FALSE]

NoRuntime == [lock |-> None, op |-> NoPlan, key |-> None, status |-> None,
              sub |-> None, finalizing |-> FALSE]
NoPool    == [op |-> FALSE, key |-> None, status |-> None, os |-> FALSE, compose |-> FALSE,
              efi |-> {}, cfg |-> None, installed |-> FALSE]
NoTui     == [stage |-> "off", pending |-> None, rebooting |-> FALSE, paused |-> FALSE,
              shown |-> NoPlan, totp |-> FALSE, enr |-> 0, code |-> 0, saved |-> FALSE]
NoService == [mode |-> "off", inv |-> NoPlan, planned |-> NoPlan, started |-> FALSE,
              done |-> FALSE, accepted |-> FALSE, terminal |-> FALSE, stop |-> FALSE,
              enr |-> 0, ver |-> 0]
NoWorker  == [pc |-> "none", op |-> NoPlan, found |-> NoPlan, todo |-> {},
              st |-> NoStatus, sub |-> None, err |-> FALSE]

Init ==
    /\ machine = "off" /\ faults = 0
    /\ disk = [d \in Disks |-> "old"]
    /\ rt = NoRuntime /\ ps = NoPool
    /\ tui  = [c \in Clients |-> NoTui]
    /\ svc  = [c \in Clients |-> NoService]
    /\ in   = [c \in Clients |-> <<>>]
    /\ out  = [c \in Clients |-> <<>>]
    /\ work = [c \in Clients |-> NoWorker]
    /\ seen = [c \in Clients |-> NoPlan]
    /\ held = [c \in Clients |-> 0]

Fault == faults < MaxFaults /\ faults' = faults + 1

(***************************************************************************)
(* Messages.  An event carries the request it answers (its ID), None when  *)
(* the service sends it unasked.                                           *)
(***************************************************************************)
RequestTypes == {"preview", "confirm", "validate-host", "validate-account", "verify-totp", "enroll",
                 "configure", "reboot"}

Request(type) == [type |-> type, cmd |-> {}, cfg |-> [totp |-> FALSE, code |-> 0, saved |-> FALSE]]
Event(type, re) == [type |-> type, re |-> re, plan |-> NoPlan, enr |-> 0]

Reply(c, event) == out' = [out EXCEPT ![c] = Append(@, event)]

(* config(): what the form of the console says.                            *)
config(c) == [totp |-> tui[c].totp, code |-> tui[c].code, saved |-> tui[c].enr # 0 /\ tui[c].saved]

(***************************************************************************)
(* storage.go                                                              *)
(***************************************************************************)
Eligible(inv, d) == inv[d] # "pool"

(* Known, eligible, distinct disks; a service looks only at the inventory  *)
(* it took when it started.  (A mistake in the command, or a disk that is  *)
(* too small, is a refusal Preview may always give.)                       *)
ParseZPool(inv, S) == S # {} /\ \A d \in S : Eligible(inv, d)

Revalidate(plan, current) ==
    \A d \in DOMAIN plan : Eligible(current, d) /\ current[d] = plan[d]

(* zpool create refuses a second pool of the name, in a dry run too.       *)
PoolExists == \E d \in Disks : disk[d] = "pool"

(***************************************************************************)
(* The boot of the media: floatlab-install-discovery.                      *)
(***************************************************************************)

(* The gate of the stack.                                                  *)
Gate == ps.installed \/ rt.finalizing \/ (ps.compose /\ ~ps.op)

Boot(unattended) ==
    /\ machine = "off"
    /\ IF Gate
       THEN machine' = "appliance" /\ UNCHANGED <<rt, tui>>
       ELSE /\ machine' = "media"
            /\ rt' = [rt EXCEPT !.status = ps.status]
            /\ tui' = [c \in Clients |->
                        IF (c = Batch) = unattended
                        THEN [NoTui EXCEPT !.stage = "start"] ELSE NoTui]
    /\ UNCHANGED <<disk, ps, svc, in, out, work, seen, held, faults>>

(* Everything in memory is gone, the fingerprints to compare with too: the *)
(* next boot calls what it finds "old".                                    *)
Off == /\ machine' = "off"
       /\ rt' = NoRuntime
       /\ tui'  = [c \in Clients |-> NoTui]
       /\ svc'  = [c \in Clients |-> NoService]
       /\ in'   = [c \in Clients |-> <<>>]
       /\ out'  = [c \in Clients |-> <<>>]
       /\ work' = [c \in Clients |-> NoWorker]
       /\ seen' = [c \in Clients |-> NoPlan]
       /\ held' = [c \in Clients |-> 0]
       /\ disk' = [d \in Disks |-> IF disk[d] = "pool" THEN "pool" ELSE "old"]
       /\ UNCHANGED ps

PowerLoss == machine = "media" /\ Fault /\ Off

(* Somebody else repartitions a disk, or another one is plugged in.        *)
DiskChanges(d) ==
    /\ machine = "media" /\ disk[d] = "old" /\ Fault
    /\ disk' = [disk EXCEPT ![d] = "changed"]
    /\ UNCHANGED <<machine, rt, ps, tui, svc, in, out, work, seen, held>>

(***************************************************************************)
(* The service: its start, and its loop.                                   *)
(***************************************************************************)

(* The terminal program starts the service, with pipes of its own.         *)
connect(c) ==
    /\ tui[c].stage = "start"
    /\ tui' = [tui EXCEPT ![c].stage = "connecting"]
    /\ in' = [in EXCEPT ![c] = <<>>]
    /\ seen' = [seen EXCEPT ![c] = NoPlan]

(* Serve looks for an earlier installation before it reads the inventory;  *)
(* the start may fail too.                                                 *)
Connect(c) ==
    /\ machine = "media" /\ connect(c)
    /\ LET previous == rt.status
           finished == (previous # None /\ previous.phase # 0) \/ ps.op
           complete == previous # None /\ previous.phase # 0 /\ previous.ready
       IN \/ /\ finished
             /\ svc' = [svc EXCEPT ![c] = [NoService EXCEPT !.mode = "terminal"]]
             /\ out' = [out EXCEPT ![c] = <<Event(IF complete THEN "complete" ELSE "failed", None)>>]
             /\ UNCHANGED faults
          \/ /\ ~finished
             /\ svc' = [svc EXCEPT ![c] = [NoService EXCEPT !.mode = "serve", !.inv = disk]]
             /\ out' = [out EXCEPT ![c] = <<[Event("inventory", None) EXCEPT !.plan = disk]>>]
             /\ UNCHANGED faults
          \/ /\ ~finished /\ Fault      \* firmware, manifest or inventory
             /\ svc' = [svc EXCEPT ![c] = [NoService EXCEPT !.mode = "terminal"]]
             /\ out' = [out EXCEPT ![c] = <<Event("failed", None)>>]
    /\ UNCHANGED <<machine, disk, rt, ps, work, held>>

Asked(c, type) == in[c] # <<>> /\ Head(in[c]).type = type
Take(c)        == in' = [in EXCEPT ![c] = Tail(@)]
Refuse(c)      == Reply(c, Event("error", Head(in[c]).type))
Grant(c)       == Reply(c, Event(Head(in[c]).type, Head(in[c]).type))

(* Mutant: the lock alone, without a look at what was started before.      *)
ClaimsLock(c) == rt.lock \in {None, c}

(* claimSession: nobody holds the lock and nothing was started in this     *)
(* boot, or on the pool.                                                   *)
claimSession(c) ==
    /\ rt.lock \in {None, c}
    /\ rt.op = NoPlan /\ rt.status = None /\ ~ps.op

Preview(c) ==
    /\ svc[c].mode = "serve" /\ Asked(c, "preview") /\ Take(c)
    /\ LET held1 == rt.lock = c
           S == Head(in[c]).cmd
           plan == [d \in S |-> svc[c].inv[d]]
       IN \/ /\ (~held1 /\ ~claimSession(c)) \/ svc[c].started
             /\ Refuse(c) /\ UNCHANGED <<svc, rt>>
          \/ /\ held1 \/ claimSession(c)
             /\ ~svc[c].started
             /\ rt' = [rt EXCEPT !.lock = c]
             /\ \/ /\ ParseZPool(svc[c].inv, S) /\ ~PoolExists
                   /\ svc' = [svc EXCEPT ![c].planned = plan]
                   /\ Reply(c, [Event("preview", "preview") EXCEPT !.plan = plan])
                \/ /\ svc' = [svc EXCEPT ![c].planned = NoPlan]   \* also a failed dry run
                   /\ Refuse(c)
    /\ UNCHANGED <<machine, disk, ps, tui, work, seen, held, faults>>

(* Mutant: any plan will do.                                               *)
ConfirmsAny(c) == ~svc[c].started /\ svc[c].planned # NoPlan

(* The confirmation must be for the layout the service planned last.       *)
Confirms(c) ==
    ~svc[c].started /\ svc[c].planned # NoPlan /\ Head(in[c]).cmd = DOMAIN svc[c].planned

Confirm(c) ==
    /\ svc[c].mode = "serve" /\ Asked(c, "confirm") /\ Take(c)
    /\ LET plan == svc[c].planned
       IN \/ /\ ~Confirms(c)
             /\ Refuse(c) /\ UNCHANGED <<svc, rt, work, faults>>
          \/ /\ Confirms(c) /\ ~Revalidate(plan, disk)
             /\ svc' = [svc EXCEPT ![c].planned = NoPlan]
             /\ Refuse(c) /\ UNCHANGED <<rt, work, faults>>
          \/ /\ Confirms(c) /\ Revalidate(plan, disk) /\ Fault   \* one of the two files
             /\ \E op \in {rt.op, plan} : rt' = [rt EXCEPT !.op = op]
             /\ Refuse(c) /\ UNCHANGED <<svc, work>>
          \/ /\ Confirms(c) /\ Revalidate(plan, disk)
             /\ rt' = [rt EXCEPT !.op = plan, !.key = c]
             /\ svc' = [svc EXCEPT ![c].started = TRUE, ![c].done = TRUE]
             /\ work' = [work EXCEPT ![c] = [NoWorker EXCEPT !.pc = "start"]]
             /\ Grant(c) /\ UNCHANGED faults
    /\ UNCHANGED <<machine, disk, ps, tui, seen, held>>

(* Forms are taken while the installation runs and none has been accepted. *)
FormsOpen(c) == svc[c].started /\ ~svc[c].terminal /\ ~svc[c].accepted

ValidateHost(c) ==
    /\ svc[c].mode = "serve" /\ Asked(c, "validate-host") /\ Take(c)
    /\ \/ Refuse(c)                        \* closed, or an invalid field
       \/ FormsOpen(c) /\ Grant(c)
    /\ UNCHANGED <<machine, disk, rt, ps, tui, svc, work, seen, held, faults>>

ValidateAccount(c) ==
    /\ svc[c].mode = "serve" /\ Asked(c, "validate-account") /\ Take(c)
    /\ \/ Refuse(c)                        \* closed, or unacceptable credentials
       \/ FormsOpen(c) /\ Grant(c)
    /\ UNCHANGED <<machine, disk, rt, ps, tui, svc, work, seen, held, faults>>

(* Mutant: the code is not compared.                                       *)
VerifiesAny(c, code) == svc[c].enr # 0

(* A code is good for the secret of the enrolment, and for a while.        *)
Verifies(c, code) == svc[c].enr # 0 /\ code = svc[c].enr

VerifyTOTP(c) ==
    /\ svc[c].mode = "serve" /\ Asked(c, "verify-totp") /\ Take(c)
    /\ LET code == Head(in[c]).cfg.code
       IN \/ Refuse(c) /\ UNCHANGED svc    \* closed, wrong or too late
          \/ /\ FormsOpen(c) /\ Verifies(c, code)
             /\ svc' = [svc EXCEPT ![c].ver = code]
             /\ Grant(c)
    /\ UNCHANGED <<machine, disk, rt, ps, tui, work, seen, held, faults>>

Enroll(c) ==
    /\ svc[c].mode = "serve" /\ Asked(c, "enroll") /\ Take(c)
    /\ \/ Refuse(c) /\ UNCHANGED svc       \* closed, invalid, or the clock is not synchronised
       \/ /\ FormsOpen(c) /\ svc[c].enr < MaxEnroll
          /\ svc' = [svc EXCEPT ![c].enr = @ + 1, ![c].ver = 0]
          /\ Reply(c, [Event("enroll", "enroll") EXCEPT !.enr = svc[c].enr + 1])
    /\ UNCHANGED <<machine, disk, rt, ps, tui, work, seen, held, faults>>

(* submission(): what the account needs of the enrolment.  A code that was *)
(* verified once is not asked to be fresh again.                           *)
Submittable(c, cfg) ==
    cfg.totp => /\ svc[c].enr # 0 /\ cfg.saved
                /\ (svc[c].ver # 0 /\ svc[c].ver = cfg.code) \/ Verifies(c, cfg.code)

Configure(c) ==
    /\ svc[c].mode = "serve" /\ Asked(c, "configure") /\ Take(c)
    /\ LET cfg == Head(in[c]).cfg
           sub == [by |-> c, totp |-> IF cfg.totp THEN svc[c].enr ELSE 0]
       IN \/ Refuse(c) /\ UNCHANGED <<svc, rt>>     \* closed, invalid, no SSH keys, not written
          \/ /\ FormsOpen(c) /\ Submittable(c, cfg)
             /\ rt' = [rt EXCEPT !.sub = sub]
             /\ svc' = [svc EXCEPT ![c].accepted = TRUE, ![c].enr = 0, ![c].ver = 0]
             /\ Grant(c)
    /\ UNCHANGED <<machine, disk, ps, tui, work, seen, held, faults>>

(* The worker's result reaches the loop.                                   *)
WorkerDone(c) ==
    /\ svc[c].mode = "serve" /\ svc[c].done /\ work[c].pc = "done"
    /\ svc' = [svc EXCEPT ![c].done = FALSE, ![c].terminal = TRUE]
    /\ Reply(c, Event(IF work[c].err THEN "failed" ELSE "complete", None))
    /\ UNCHANGED <<machine, disk, rt, ps, tui, in, work, seen, held, faults>>

(* A reboot stops the worker and waits for it first.                       *)
StopForReboot(c) ==
    /\ svc[c].mode = "serve" /\ Asked(c, "reboot")
    /\ svc' = [svc EXCEPT ![c].mode = "rebooting", ![c].stop = svc[c].done]
    /\ UNCHANGED <<machine, disk, rt, ps, tui, in, out, work, seen, held, faults>>

(* terminal(): only the reboot is left, and a console that was told so at  *)
(* its start asks for nothing else.                                        *)
RebootTerminal(c) ==
    /\ svc[c].mode = "terminal" /\ Asked(c, "reboot")
    /\ svc' = [svc EXCEPT ![c].mode = "rebooting"]
    /\ UNCHANGED <<machine, disk, rt, ps, tui, in, out, work, seen, held, faults>>

WorkerStopped(c) == svc[c].done => work[c].pc = "done"

Reboot(c) ==
    /\ svc[c].mode = "rebooting" /\ WorkerStopped(c)
    /\ \/ Off /\ UNCHANGED faults
       \/ /\ Fault                          \* the pool could not be exported
          /\ svc' = [svc EXCEPT ![c].mode = IF svc[c].inv = NoPlan THEN "terminal" ELSE "serve",
                                ![c].terminal = svc[c].terminal \/ svc[c].done, ![c].done = FALSE]
          /\ Take(c) /\ Refuse(c)
          /\ UNCHANGED <<machine, disk, rt, ps, tui, work, seen, held>>

(* The pipe of a console that is gone: stop the worker, wait, exit.        *)
Disconnected(c) ==
    /\ svc[c].mode \in {"serve", "terminal"} /\ tui[c].stage \in {"killed", "exited"}
    /\ svc' = [svc EXCEPT ![c].mode = "closing", ![c].stop = TRUE]
    /\ UNCHANGED <<machine, disk, rt, ps, tui, in, out, work, seen, held, faults>>

Exit(c) ==
    /\ svc[c].mode = "closing" /\ WorkerStopped(c)
    /\ svc' = [svc EXCEPT ![c] = NoService]
    /\ work' = [work EXCEPT ![c] = NoWorker]
    /\ rt' = [rt EXCEPT !.lock = IF @ = c THEN None ELSE @]
    /\ in' = [in EXCEPT ![c] = <<>>]
    /\ UNCHANGED <<machine, disk, ps, tui, out, seen, held, faults>>

(* The process is killed, the worker with it; its locks are released.      *)
ServiceKilled(c) ==
    /\ svc[c].mode # "off" /\ Fault
    /\ svc' = [svc EXCEPT ![c] = NoService]
    /\ work' = [work EXCEPT ![c] = NoWorker]
    /\ rt' = [rt EXCEPT !.lock = IF @ = c THEN None ELSE @]
    /\ in' = [in EXCEPT ![c] = <<>>]
    /\ UNCHANGED <<machine, disk, ps, tui, out, seen, held>>

(***************************************************************************)
(* The worker: installWorker.  A step is one operation between two places  *)
(* where the code may stop, fail or lose the power; a name "x!" is the     *)
(* beginning of a stage, phase().                                          *)
(***************************************************************************)
Active(c) == work[c].pc \notin {"none", "done"}

At(c, pc) == machine = "media" /\ work[c].pc = pc

(* The context is looked at before an operation starts.                    *)
Runs(c) == ~svc[c].stop

WorkOnly == UNCHANGED <<machine, tui, svc, in, out, seen, held, faults>>

(* saveStatusAt: on the pool too once it is ready.                         *)
saveStatus(st) ==
    /\ rt' = [rt EXCEPT !.status = st]
    /\ ps' = IF st.pool \/ st.storage THEN [ps EXCEPT !.status = st] ELSE ps

Goto(c, pc) == work' = [work EXCEPT ![c].pc = pc]

(* worker.lock, operation.json, the manifest and an earlier status.        *)
Begin(c) ==
    /\ At(c, "start")
    /\ LET st == IF rt.status = None THEN NoStatus ELSE rt.status
           refused == \/ \E o \in Clients \ {c} : Active(o)
                      \/ st.phase # 0 /\ ~st.pool /\ ~st.storage /\ ~st.ready
           next == CASE st.ready   -> "done"
                     [] st.storage -> "wait"
                     [] st.pool    -> "image!"
                     [] OTHER      -> "check"
       IN work' = [work EXCEPT ![c].pc = IF refused THEN "done" ELSE next,
                               ![c].err = refused, ![c].op = rt.op, ![c].st = st]
    /\ UNCHANGED <<disk, rt, ps>> /\ WorkOnly

(* The disks are compared with the inventory once more.                    *)
Check(c) ==
    /\ At(c, "check")
    /\ work' = [work EXCEPT ![c].found = disk,
                            ![c].pc = IF Revalidate(work[c].op, disk) THEN "erase!" ELSE "cleanup"]
    /\ UNCHANGED <<disk, rt, ps>> /\ WorkOnly

StageNumber == [s \in {"erase!", "create!", "image!", "config!", "verify!"} |->
                 CASE s = "erase!" -> 1 [] s = "create!" -> 2 [] s = "image!" -> 3
                   [] s = "config!" -> 4 [] OTHER -> 5]
StageBody   == [s \in DOMAIN StageNumber |->
                 CASE s = "erase!" -> "erase" [] s = "create!" -> "create" [] s = "image!" -> "os"
                   [] s = "config!" -> "config" [] OTHER -> "verify"]

phase(c) ==
    /\ machine = "media" /\ work[c].pc \in DOMAIN StageNumber /\ Runs(c)
    /\ LET st == [work[c].st EXCEPT !.phase = StageNumber[work[c].pc], !.error = FALSE]
       IN /\ saveStatus(st)
          /\ work' = [work EXCEPT ![c].st = st, ![c].pc = StageBody[work[c].pc],
                                  ![c].todo = DOMAIN work[c].op]
    /\ UNCHANGED disk /\ WorkOnly

(* wipefs, sfdisk and mkfs of one disk.                                    *)
Erase(c, d) ==
    /\ At(c, "erase") /\ Runs(c) /\ d \in work[c].todo
    /\ disk' = [disk EXCEPT ![d] = "blank"]
    /\ work' = [work EXCEPT ![c].todo = @ \ {d}, ![c].pc = IF work[c].todo = {d} THEN "create!" ELSE @]
    /\ UNCHANGED <<rt, ps>> /\ WorkOnly

(* zpool create and the services that mount its datasets.                  *)
CreatePool(c) ==
    /\ At(c, "create") /\ Runs(c) /\ ~PoolExists
    /\ disk' = [d \in Disks |-> IF d \in DOMAIN work[c].op THEN "pool" ELSE disk[d]]
    /\ work' = [work EXCEPT ![c].pc = "record", ![c].found = NoPlan]
    /\ UNCHANGED <<rt, ps>> /\ WorkOnly

(* The operation is recorded on the pool before anything else is put there.*)
Record(c) ==
    /\ At(c, "record") /\ Runs(c)
    /\ ps' = [ps EXCEPT !.op = TRUE]
    /\ Goto(c, "pool")
    /\ UNCHANGED <<disk, rt>> /\ WorkOnly

(* The key, then the status, which is on the pool from now on.             *)
PoolReady(c) ==
    /\ At(c, "pool")
    /\ LET st == [work[c].st EXCEPT !.pool = TRUE]
       IN /\ rt' = [rt EXCEPT !.status = st]
          /\ ps' = [ps EXCEPT !.key = rt.key, !.status = st]
          /\ work' = [work EXCEPT ![c].st = st, ![c].pc = "image!"]
    /\ UNCHANGED disk /\ WorkOnly

(* installOS: version data set, snapshot, current clone, bootfs.           *)
InstallOS(c) ==
    /\ At(c, "os") /\ Runs(c)
    /\ ps' = [ps EXCEPT !.os = TRUE]
    /\ Goto(c, "bundle")
    /\ UNCHANGED <<disk, rt>> /\ WorkOnly

InstallBundle(c) ==
    /\ At(c, "bundle")
    /\ ps' = [ps EXCEPT !.compose = TRUE]
    /\ Goto(c, "efi")
    /\ UNCHANGED <<disk, rt>> /\ WorkOnly

(* Mutant: the first disk only.                                            *)
FirstEFI(c, d) ==
    /\ At(c, "efi") /\ Runs(c) /\ d \in work[c].todo
    /\ ps' = [ps EXCEPT !.efi = @ \cup {d}]
    /\ Goto(c, "storage")
    /\ UNCHANGED <<disk, rt>> /\ WorkOnly

(* The boot loader of one disk.                                            *)
InstallEFI(c, d) ==
    /\ At(c, "efi") /\ Runs(c) /\ d \in work[c].todo
    /\ ps' = [ps EXCEPT !.efi = @ \cup {d}]
    /\ work' = [work EXCEPT ![c].todo = @ \ {d}, ![c].pc = IF work[c].todo = {d} THEN "storage" ELSE @]
    /\ UNCHANGED <<disk, rt>> /\ WorkOnly

(* Mutant: a submission that is already there is taken for an old one.     *)
StorageReadyClears(c) ==
    /\ At(c, "storage")
    /\ LET st == [work[c].st EXCEPT !.storage = TRUE, !.phase = 4]
       IN /\ rt' = [rt EXCEPT !.status = st, !.sub = None]
          /\ ps' = [ps EXCEPT !.status = st]
          /\ work' = [work EXCEPT ![c].st = st, ![c].pc = IF Runs(c) THEN "wait" ELSE "cleanup"]
    /\ UNCHANGED disk /\ WorkOnly

(* Storage is ready; the wait for the form is announced (as phase 4)       *)
(* unless the worker is told to stop.                                      *)
StorageReady(c) ==
    /\ At(c, "storage")
    /\ LET st == [work[c].st EXCEPT !.storage = TRUE, !.phase = IF Runs(c) THEN 4 ELSE @]
       IN /\ saveStatus(st)
          /\ work' = [work EXCEPT ![c].st = st, ![c].pc = IF Runs(c) THEN "wait" ELSE "cleanup"]
    /\ UNCHANGED disk /\ WorkOnly

(* It is read again every second; it must carry the confirmed identity.    *)
ReadSubmission(c) ==
    /\ At(c, "wait") /\ rt.sub # None
    /\ work' = [work EXCEPT ![c].sub = rt.sub,
                            ![c].pc = IF rt.sub.by = rt.key THEN "config!" ELSE "cleanup"]
    /\ UNCHANGED <<disk, rt, ps>> /\ WorkOnly

(* The files of the appliance, and the temporary gate of the stack.        *)
Persist(c) ==
    /\ At(c, "config") /\ Runs(c)
    /\ ps' = [ps EXCEPT !.cfg = work[c].sub]
    /\ rt' = [rt EXCEPT !.finalizing = TRUE]
    /\ Goto(c, "verify!")
    /\ UNCHANGED disk /\ WorkOnly

(* verifyStack logs in with the submitted account: the stack must find     *)
(* the configuration and be able to open it.                               *)
VerifyStack(c) ==
    /\ At(c, "verify") /\ Runs(c)
    /\ Goto(c, IF Gate /\ ps.cfg = work[c].sub /\ ps.key = work[c].sub.by THEN "mark" ELSE "cleanup")
    /\ UNCHANGED <<disk, rt, ps>> /\ WorkOnly

Mark(c) ==
    /\ At(c, "mark") /\ Runs(c)
    /\ ps' = [ps EXCEPT !.installed = TRUE]
    /\ Goto(c, "finish")
    /\ UNCHANGED <<disk, rt>> /\ WorkOnly

Finish(c) ==
    /\ At(c, "finish")
    /\ LET st == [work[c].st EXCEPT !.ready = TRUE, !.phase = 5]
       IN /\ rt' = [rt EXCEPT !.sub = None, !.status = st]
          /\ ps' = [ps EXCEPT !.status = st]
          /\ work' = [work EXCEPT ![c].st = st, ![c].pc = "done"]
    /\ UNCHANGED disk /\ WorkOnly

(* The operations before which the context is looked at.                   *)
StopPoints == DOMAIN StageNumber \cup
    {"erase", "create", "record", "os", "efi", "wait", "config", "verify", "mark"}

Stops(c) ==
    /\ machine = "media" /\ work[c].pc \in StopPoints /\ svc[c].stop
    /\ Goto(c, "cleanup")
    /\ UNCHANGED <<disk, rt, ps>> /\ WorkOnly

(* An operation fails; the configuration may be half written, the gate too.*)
StepFails(c) ==
    /\ machine = "media" /\ Active(c) /\ work[c].pc # "cleanup" /\ Fault
    /\ IF work[c].pc = "start"
       THEN work' = [work EXCEPT ![c].pc = "done", ![c].err = TRUE]
       ELSE Goto(c, "cleanup")
    /\ IF work[c].pc = "config"
       THEN /\ \E cfg \in {ps.cfg, work[c].sub} : ps' = [ps EXCEPT !.cfg = cfg]
            /\ \E f \in BOOLEAN : rt' = [rt EXCEPT !.finalizing = f]
       ELSE UNCHANGED <<ps, rt>>
    /\ UNCHANGED <<machine, disk, tui, svc, in, out, seen, held>>

(* The deferred function: close the gate, stop the temporary root, save    *)
(* and report the error.                                                   *)
Cleanup(c) ==
    /\ At(c, "cleanup")
    /\ LET st == [work[c].st EXCEPT !.error = TRUE]
       IN /\ rt' = [rt EXCEPT !.finalizing = FALSE, !.status = st]
          /\ ps' = IF st.pool \/ st.storage THEN [ps EXCEPT !.status = st] ELSE ps
          /\ work' = [work EXCEPT ![c].st = st, ![c].pc = "done", ![c].err = TRUE]
    /\ UNCHANGED disk /\ WorkOnly

(***************************************************************************)
(* The terminal program: Update and the keys of the wizard.                *)
(***************************************************************************)
TuiOnly == UNCHANGED <<machine, disk, rt, ps, svc, work, faults>>

(* send(): one request at a time, except that Ctrl+R is always accepted.   *)
Send(c, model, request) ==
    /\ tui' = [tui EXCEPT ![c] = [model EXCEPT !.pending = request.type]]
    /\ in'  = [in EXCEPT ![c] = Append(@, request)]

Idle(c, stages) == c \in Screens /\ tui[c].stage \in stages /\ tui[c].pending = None

(* Disks are ticked from the inventory; the editor takes any command.      *)
UserPreviews(c, S) ==
    /\ Idle(c, {"disks", "command"})
    /\ Send(c, tui[c], [Request("preview") EXCEPT !.cmd = S])
    /\ UNCHANGED <<out, seen, held>> /\ TuiOnly

UserErases(c) ==
    /\ Idle(c, {"confirm"})
    /\ Send(c, tui[c], [Request("confirm") EXCEPT !.cmd = DOMAIN tui[c].shown])
    /\ seen' = [seen EXCEPT ![c] = tui[c].shown]
    /\ UNCHANGED <<out, held>> /\ TuiOnly

UserCustomises(c) ==
    /\ Idle(c, {"confirm"})
    /\ tui' = [tui EXCEPT ![c].stage = "command"]
    /\ UNCHANGED <<in, out, seen, held>> /\ TuiOnly

(* back(): leaving the editor shows the last preview again.                *)
back(c) ==
    /\ Idle(c, {"command", "confirm", "account", "review", "totp", "codes"}) /\ ~tui[c].rebooting
    /\ tui' = [tui EXCEPT ![c] =
         CASE @.stage = "command" ->
                [@ EXCEPT !.stage = IF tui[c].shown # NoPlan THEN "confirm" ELSE "disks"]
           [] @.stage = "confirm" -> [@ EXCEPT !.stage = "disks"]
           [] @.stage = "account" -> [@ EXCEPT !.stage = "settings"]
           [] @.stage = "review"  -> [@ EXCEPT !.stage = "account"]
           [] @.stage = "codes"   -> [@ EXCEPT !.stage = "totp", !.saved = FALSE]
           [] OTHER               -> [@ EXCEPT !.stage = "account", !.enr = 0]]
    /\ UNCHANGED <<in, out, seen, held>> /\ TuiOnly

UserSettles(c) ==
    /\ Idle(c, {"settings"})
    /\ Send(c, tui[c], Request("validate-host"))
    /\ UNCHANGED <<out, seen, held>> /\ TuiOnly

UserAccount(c, totp) ==
    /\ Idle(c, {"account"})
    /\ Send(c, [tui[c] EXCEPT !.totp = totp], Request("validate-account"))
    /\ UNCHANGED <<out, seen, held>> /\ TuiOnly

(* The code of the secret on the screen, or a wrong one.                   *)
UserCode(c, code) ==
    /\ Idle(c, {"totp"}) /\ code \in {0, tui[c].enr}
    /\ LET m == [tui[c] EXCEPT !.code = code]
       IN Send(c, m, [Request("verify-totp") EXCEPT !.cfg.code = code])
    /\ UNCHANGED <<out, seen, held>> /\ TuiOnly

(* The user has written the recovery codes down and types SAVED.           *)
UserSaves(c) ==
    /\ Idle(c, {"codes"})
    /\ tui' = [tui EXCEPT ![c].stage = "review", ![c].saved = TRUE]
    /\ held' = [held EXCEPT ![c] = IF tui[c].code = tui[c].enr THEN tui[c].enr ELSE 0]
    /\ UNCHANGED <<in, out, seen>> /\ TuiOnly

UserFinishes(c) ==
    /\ Idle(c, {"review"})
    /\ Send(c, tui[c], [Request("configure") EXCEPT !.cfg = config(c)])
    /\ UNCHANGED <<out, seen, held>> /\ TuiOnly

(* Ctrl+R, the button of the last screen, or the end of its countdown.     *)
UserReboots(c) ==
    /\ c \in Screens /\ tui[c].stage \notin {"off", "start", "killed", "exited"} /\ ~tui[c].rebooting
    /\ LET m == [tui[c] EXCEPT !.rebooting = TRUE, !.paused = TRUE]
       IN IF svc[c].mode = "off"
          THEN /\ tui' = [tui EXCEPT ![c] = [m EXCEPT !.stage = "unavailable"]]
               /\ UNCHANGED in
          ELSE Send(c, m, Request("reboot"))
    /\ UNCHANGED <<out, seen, held>> /\ TuiOnly

(* What the terminal program makes of an event once pending is cleared.    *)
Shows(m, e) ==
    CASE e.type = "inventory"     -> [m EXCEPT !.stage = "disks"]
      [] e.type = "preview"       -> [m EXCEPT !.stage = "confirm", !.shown = e.plan]
      [] e.type = "confirm"       -> [m EXCEPT !.stage = "settings"]
      [] e.type = "validate-host" -> [m EXCEPT !.stage = "account"]
      [] e.type = "validate-account" ->
            [m EXCEPT !.enr = 0, !.code = 0, !.saved = FALSE,
                      !.stage = IF m.totp THEN @ ELSE "review"]
      [] e.type = "verify-totp"   -> [m EXCEPT !.stage = "codes", !.saved = FALSE]
      [] e.type = "enroll"        -> [m EXCEPT !.stage = "totp", !.enr = e.enr, !.code = 0, !.saved = FALSE]
      [] e.type = "configure"     -> [m EXCEPT !.stage = "waiting", !.enr = 0, !.code = 0, !.saved = FALSE]
      [] e.type = "failed"        -> [m EXCEPT !.stage = "failed", !.paused = TRUE]
      [] e.type = "complete"      -> [m EXCEPT !.stage = "complete", !.paused = FALSE]
      [] e.type = "error"         -> [m EXCEPT !.rebooting = FALSE]

Update(c) ==
    /\ c \in Screens /\ out[c] # <<>> /\ tui[c].stage \notin {"off", "start", "killed", "exited"}
    /\ out' = [out EXCEPT ![c] = Tail(@)]
    /\ LET e == Head(out[c])
           m == [tui[c] EXCEPT !.pending = IF e.re # None /\ e.re = @ THEN None ELSE @]
           ignored == m.rebooting /\ ~(e.type = "error" /\ e.re = tui[c].pending)
       IN IF e.type = "validate-account" /\ ~ignored /\ m.totp
          THEN Send(c, Shows(m, e), Request("enroll"))
          ELSE /\ tui' = [tui EXCEPT ![c] = IF ignored THEN m ELSE Shows(m, e)]
               /\ UNCHANGED in
    /\ UNCHANGED <<seen, held>> /\ TuiOnly

(* The pipe from a dead service.                                           *)
Closed(c) ==
    /\ machine = "media" /\ c \in Screens /\ svc[c].mode = "off" /\ out[c] = <<>>
    /\ tui[c].stage \notin {"off", "start", "killed", "exited", "unavailable"}
    /\ tui' = [tui EXCEPT ![c].stage = IF tui[c].rebooting THEN "exited" ELSE "unavailable"]
    /\ UNCHANGED <<in, out, seen, held>> /\ TuiOnly

(* The terminal program is killed; systemd starts it again when the        *)
(* service has ended.                                                      *)
ConsoleKilled(c) ==
    /\ c \in Screens /\ tui[c].stage \notin {"off", "start", "killed", "exited"} /\ Fault
    /\ tui' = [tui EXCEPT ![c] = [NoTui EXCEPT !.stage = "killed"]]
    /\ out' = [out EXCEPT ![c] = <<>>]
    /\ UNCHANGED <<machine, disk, rt, ps, svc, in, work, seen, held>>

Restart(c) ==
    /\ machine = "media" /\ tui[c].stage = "killed" /\ svc[c].mode = "off"
    /\ tui' = [tui EXCEPT ![c].stage = "start"]
    /\ UNCHANGED <<in, out, seen, held>> /\ TuiOnly

(***************************************************************************)
(* InstallAnswers: the unattended driver answers every event at once.      *)
(***************************************************************************)
Answers(S) == [inventory |-> [Request("preview") EXCEPT !.cmd = S],
               confirm   |-> Request("configure"),
               complete  |-> Request("reboot")]

Drive(S) ==
    /\ out[Batch] # <<>> /\ tui[Batch].stage \notin {"off", "start", "exited"}
    /\ out' = [out EXCEPT ![Batch] = Tail(@)]
    /\ LET e == Head(out[Batch])
           confirm == [Request("confirm") EXCEPT !.cmd = DOMAIN e.plan]
       IN /\ CASE e.type = "preview" -> Send(Batch, tui[Batch], confirm)
               [] e.type \in DOMAIN Answers(S) -> Send(Batch, tui[Batch], Answers(S)[e.type])
               [] e.type \in {"error", "failed"} ->
                     tui' = [tui EXCEPT ![Batch].stage = "exited"] /\ UNCHANGED in
               [] OTHER -> UNCHANGED <<tui, in>>
          /\ seen' = IF e.type = "preview" THEN [seen EXCEPT ![Batch] = e.plan] ELSE seen
    /\ UNCHANGED held /\ TuiOnly

(***************************************************************************)
(* The system.                                                             *)
(***************************************************************************)
User(c) ==
    \/ \E S \in Layouts : UserPreviews(c, S)
    \/ UserErases(c) \/ UserCustomises(c) \/ back(c)
    \/ UserSettles(c) \/ UserFinishes(c) \/ UserSaves(c) \/ UserReboots(c)
    \/ \E totp \in BOOLEAN : UserAccount(c, totp)
    \/ \E code \in 0 .. MaxEnroll : UserCode(c, code)

Service(c) ==
    \/ Preview(c) \/ Confirm(c) \/ ValidateHost(c) \/ ValidateAccount(c) \/ VerifyTOTP(c) \/ Enroll(c) \/ Configure(c)
    \/ WorkerDone(c) \/ StopForReboot(c) \/ RebootTerminal(c) \/ Reboot(c)
    \/ Disconnected(c) \/ Exit(c)

Worker(c) ==
    \/ Begin(c) \/ Check(c) \/ phase(c) \/ CreatePool(c) \/ Record(c)
    \/ PoolReady(c) \/ InstallOS(c) \/ InstallBundle(c) \/ StorageReady(c)
    \/ ReadSubmission(c) \/ Persist(c) \/ VerifyStack(c) \/ Mark(c) \/ Finish(c)
    \/ Stops(c) \/ Cleanup(c)
    \/ \E d \in Disks : Erase(c, d) \/ InstallEFI(c, d)

Console(c) == Connect(c) \/ Update(c) \/ Closed(c) \/ Restart(c)

Driver == \E S \in Layouts : Drive(S)

Environment ==
    \/ \E u \in BOOLEAN : Boot(u)
    \/ PowerLoss
    \/ \E d \in Disks : DiskChanges(d)
    \/ \E c \in Clients : StepFails(c) \/ ServiceKilled(c) \/ ConsoleKilled(c)

Next ==
    \/ Environment \/ Driver
    \/ \E c \in Clients : User(c) \/ Service(c) \/ Worker(c) \/ Console(c)

(* The processes go on, and an external command returns; users, faults and *)
(* boots are under no obligation.                                          *)
Fairness ==
    /\ WF_vars(Driver)
    /\ \A c \in Clients : WF_vars(Service(c)) /\ WF_vars(Worker(c)) /\ WF_vars(Console(c))

Spec == Init /\ [][Next]_vars /\ Fairness

(***************************************************************************)
(* Properties                                                              *)
(***************************************************************************)
Stages == {"off", "start", "connecting", "disks", "command", "confirm", "settings", "account",
           "totp", "codes", "review", "waiting", "complete", "failed", "unavailable",
           "killed", "exited"}
Statuses == [phase : 0 .. 5, pool : BOOLEAN, storage : BOOLEAN, ready : BOOLEAN, error : BOOLEAN]
Submissions == [by : Clients, totp : 0 .. MaxEnroll]

ASSUME NoneApart == None \notin RequestTypes \cup Statuses \cup Submissions
ASSUME BoundsAssumption == MaxFaults \in Nat /\ MaxEnroll \in Nat

(* The type invariant of the installation.                                 *)
TypeOK ==
    /\ machine \in {"off", "media", "appliance"} /\ faults \in 0 .. MaxFaults
    /\ disk \in [Disks -> Content]
    /\ rt \in [lock : Clients \cup {None}, op : Plans, key : Clients \cup {None},
               status : Statuses \cup {None}, sub : Submissions \cup {None}, finalizing : BOOLEAN]
    /\ ps \in [op : BOOLEAN, key : Clients \cup {None}, status : Statuses \cup {None}, os : BOOLEAN,
               compose : BOOLEAN, efi : SUBSET Disks, cfg : Submissions \cup {None}, installed : BOOLEAN]
    /\ seen \in [Clients -> Plans] /\ held \in [Clients -> 0 .. MaxEnroll]
    /\ \A c \in Clients :
         /\ tui[c].stage \in Stages /\ tui[c].shown \in Plans
         /\ svc[c].mode \in {"off", "serve", "terminal", "rebooting", "closing"}
         /\ svc[c].planned \in Plans /\ Len(in[c]) <= 2 /\ Len(out[c]) <= 3
         /\ work[c].op \in Plans /\ work[c].todo \in SUBSET Disks /\ work[c].st \in Statuses

(* What a worker erases is what the user of its console had on the screen  *)
(* when the erasure was chosen: the same disks, and every disk with the    *)
(* fingerprint it was shown with when the worker looked for the last time. *)
(* Previews that failed, that were overtaken by a refused reboot, or that  *)
(* another console made do not count.                                      *)
ErasedAsConfirmed ==
    \A c \in Clients : work[c].pc \in {"erase!", "erase", "create!", "create"} =>
        /\ work[c].op = seen[c]
        /\ \A d \in DOMAIN seen[c] : work[c].found[d] = seen[c][d]

(* The record of an installation that has begun to change disks stays what *)
(* it was until the next boot, with the key of its account: no console     *)
(* starts a second one over it, even when the first has died.              *)
OperationKept ==
    [][rt.status # None /\ machine' = "media" => rt'.op = rt.op /\ rt'.key = rt.key]_vars

(* An appliance is marked as installed only when its system, its images,   *)
(* a boot loader on every disk of the pool, and the accepted configuration *)
(* with the key that opens it are all on the disks.                        *)
InstalledWhole ==
    ps.installed =>
        /\ ps.op /\ ps.os /\ ps.compose
        /\ ps.efi # {} /\ ps.efi = {d \in Disks : disk[d] = "pool"}
        /\ ps.cfg # None /\ ps.key = ps.cfg.by

(* The stack's gate is open only for a complete installation or while one  *)
(* is being verified: the files of a partial installation do not open it   *)
(* at the next boot, and a failed verification closes it again.            *)
GateClosed ==
    /\ ps.compose /\ ~ps.op => ps.installed
    /\ rt.finalizing /\ rt.status # None => ~rt.status.error

(* An administrator account that asks for TOTP codes asks for those of the *)
(* secret which the user proved to hold and whose recovery codes the user  *)
(* has saved, however often the user enrolled or went back.                *)
AccountUsable ==
    rt.sub # None /\ rt.sub.totp # 0 => held[rt.sub.by] = rt.sub.totp

(* A service that stops its worker, for a reboot or because its console is *)
(* gone, gets there: the worker sees it wherever it is.                    *)
StopEnds ==
    \A c \in Clients : svc[c].mode \in {"rebooting", "closing"} ~>
        svc[c].mode \notin {"rebooting", "closing"}

(* A console whose configuration was accepted ends up showing success or   *)
(* failure, unless it loses its service or its user asked for a reboot.    *)
OutcomeShown ==
    \A c \in Screens : svc[c].accepted ~>
        \/ tui[c].stage \in {"complete", "failed", "unavailable", "killed", "exited"}
        \/ tui[c].paused \/ machine # "media"

\* Whatever the consoles do at the same time, only confirmed disks are wiped (service.go
\* startInstall, worker.go installWorker).
ErasesSafely == TypeOK /\ ErasedAsConfirmed

\* A machine that boots as installed is complete, and one that is not complete does not
\* start its management stack (worker.go).
InstallationWhole == InstalledWhole /\ GateClosed

\* A requested stop ends, and every accepted installation shows its user an outcome
\* (service.go Reboot; tui.go).
SessionEnds == StopEnds /\ OutcomeShown
=============================================================================

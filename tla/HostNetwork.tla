----------------------------- MODULE HostNetwork -----------------------------
(***************************************************************************)
(* The LAN settings of a host.  A change is applied to the kernel before   *)
(* the administrator has confirmed it, so that a host cut off by its new   *)
(* settings comes back by itself: by a systemd timer, by hostd when it     *)
(* starts, or by "network init" at boot.  Each of them, and every request, *)
(* takes the same file lock, reads the journal, and works on its own copy  *)
(* of it until it saves; a crash loses the copy and leaves the journal,    *)
(* network.toml and the kernel as far as they got.                         *)
(*                                                                         *)
(* A configuration is its IPv4 part (DHCP or one static address), its      *)
(* topology (bonds and excluded adapters) and its default pool; a static   *)
(* or service address is its subnet and its host number.  Each topology    *)
(* plugs the bridge into one LAN, whose DHCP server leases from one        *)
(* subnet.  A change is named by its idempotency key.                      *)
(***************************************************************************)
EXTENDS Naturals, FiniteSets

CONSTANTS Keys,         \* idempotency keys, one change each
          Candidates,   \* configurations an administrator may ask for
          Edits,        \* what an administrator may write into network.toml
          Stacks, SvcAddrs,
          Tops, LeaseNet(_),
          Pool, PoolNet, \* the pool that a migration makes the default
          None, Dhcp, Absent, Invalid,
          MaxFaults, MaxEdits

DefaultConfig == [ip |-> Dhcp, top |-> CHOOSE t \in Tops : TRUE, pool |-> None]
Configs == {DefaultConfig} \cup Candidates \cup Edits
             \cup {[c EXCEPT !.pool = Pool] : c \in {DefaultConfig} \cup Candidates \cup Edits}
States == {"applying", "awaiting_confirmation", "confirmed", "rolled_back", "failed"}
Change == [state : States, cand : Candidates, prev : Configs, deadline : BOOLEAN]

ASSUME HostNetworkAssumption ==
  /\ MaxFaults \in Nat /\ MaxEdits \in Nat
  /\ Tops # {}
  /\ \A c \in Candidates \cup Edits :
        c = [ip |-> c.ip, top |-> c.top, pool |-> c.pool] /\ c.top \in Tops
  /\ None \notin Keys \cup Stacks \cup SvcAddrs \cup {Pool} \cup Configs \cup Change
  /\ {Absent, Invalid} \cap Configs = {} /\ Absent # Invalid

VARIABLES
  journal,   \* network.toml.state/journal.json
  file,      \* network.toml
  edited,    \* does the file hold an edit that no start has looked at yet?
  kernel,    \* the bridge
  timers,    \* rollback units of systemd: none, armed, or started
  passed,    \* changes whose deadline is over
  op,        \* the operation that holds the lock
  mem,       \* its copy of the journal
  proc,      \* the processes of this boot
  applying,  \* goroutines of Submit that wait to apply their change
  faults, edits

disk == <<journal, file, edited>>
systemd == <<timers, passed>>
bounds == <<faults, edits>>
vars == <<disk, kernel, systemd, op, mem, proc, applying, bounds>>

NoServices == [s \in Stacks |-> None]
Owned(j) == {j.services[s] : s \in Stacks} \ {None}

Idle == [kind |-> "none", by |-> "none", k |-> None, pc |-> "none", from |-> None, to |-> None,
         want |-> NoServices]

\* A kernel that has just booted, and a bridge whose adapters are between two topologies.
Bare == [top |-> None, addrs |-> {}, dhcp |-> FALSE, lease |-> {}, dirty |-> "no"]

----------------------------------------------------------------------------
(* What the configuration and the live state say about service addresses. *)

validateServices(c, services) ==
  c.ip # Dhcp => \A s \in Stacks : services[s] # None =>
                   services[s].net = c.ip.net /\ services[s] # c.ip

primaryAddresses(services) == (kernel.addrs \cup kernel.lease) \ {services[s] : s \in Stacks}

Compatible(a, addresses) == \E p \in addresses : p.net = a.net

verified(services) ==
  \A s \in Stacks : services[s] # None => Compatible(services[s], primaryAddresses(services))

Before(k) == journal.changes[k].deadline /\ k \notin passed

Init ==
  /\ journal = [has |-> FALSE, startup |-> None, confirmed |-> DefaultConfig,
                services |-> NoServices, pending |-> None, needs |-> FALSE,
                boot |-> FALSE, changes |-> [k \in Keys |-> None]]
  /\ file = Absent /\ edited = FALSE
  /\ kernel = Bare
  /\ timers = [k \in Keys |-> "none"] /\ passed = {}
  /\ op = Idle /\ mem = None
  /\ proc = [boot |-> "booting", hostd |-> "down", init |-> "todo", plugged |-> FALSE]
  /\ applying = {} /\ faults = 0 /\ edits = 0

----------------------------------------------------------------------------
(* The lock.  A process takes it, reads the journal and runs one operation. *)

Locked(by) == op = Idle /\ (by = "hostd" => proc.hostd = "up")

Enter(kind, by, k, pc, from, to, s) ==
  /\ op' = [kind |-> kind, by |-> by, k |-> k, pc |-> pc, from |-> from, to |-> to,
            want |-> NoServices]
  /\ mem' = s

Goto(pc) == op' = [op EXCEPT !.pc = pc] /\ UNCHANGED mem

\* Mutant: a rollback unit that failed is not started again.
LeaveForGood(ok) ==
  /\ op' = Idle /\ mem' = None
  /\ timers' = IF op.by = "timer" THEN [timers EXCEPT ![op.k] = "none"] ELSE timers

\* A started rollback unit that ended well is done; systemd starts one again that failed.
Leave(ok) ==
  /\ op' = Idle /\ mem' = None
  /\ timers' = IF op.by = "timer" /\ ok THEN [timers EXCEPT ![op.k] = "none"] ELSE timers

\* The end of an Initialize: "network init" lets hostd start or not, hostd goes on anyway.
Started(by, ok) ==
  proc' = IF by = "boot" THEN [proc EXCEPT !.boot = IF ok THEN "booted" ELSE "failed"]
                         ELSE [proc EXCEPT !.init = IF ok THEN "ok" ELSE "failed"]

(* Initialize, up to the first save. *)

FromFile == CASE file = Absent -> DefaultConfig
              [] file = Invalid -> journal.confirmed
              [] OTHER -> file

\* What the next start would configure.
Chosen ==
  IF journal.pending # None \/ (journal.startup # None /\ journal.has) \/ journal.needs
  THEN journal.confirmed ELSE FromFile

Undone ==
  IF journal.pending # None THEN journal.changes[journal.pending].cand
  ELSE IF journal.startup # None THEN journal.startup ELSE journal.confirmed

KnownServices == IF journal.boot THEN journal.services ELSE NoServices

Initialize(by) ==
  /\ Locked(by)
  /\ file = Invalid => journal.has
  /\ validateServices(Chosen, KnownServices)
  /\ LET s == [journal EXCEPT !.needs = FALSE, !.boot = TRUE, !.services = KnownServices,
                              !.startup = Chosen]
     IN  journal' = s /\ Enter("init", by, journal.pending, "detach", Undone, Chosen, s)
  /\ edited' = FALSE
  /\ UNCHANGED <<file, kernel, systemd, proc, applying, bounds>>

\* The early returns, and a kernel that cannot be asked.
Refused(by) ==
  /\ Locked(by)
  /\ \/ /\ (file = Invalid /\ ~journal.has) \/ ~validateServices(Chosen, KnownServices)
        /\ UNCHANGED faults
     \/ faults < MaxFaults /\ faults' = faults + 1
  /\ Started(by, FALSE)
  /\ UNCHANGED <<disk, kernel, systemd, op, mem, applying, edits>>

BootInit == proc.boot = "booting" /\ (Initialize("boot") \/ Refused("boot"))

HostdInit == proc.hostd = "up" /\ proc.init = "todo" /\ (Initialize("hostd") \/ Refused("hostd"))

HostdStart ==
  /\ proc.boot = "booted" /\ proc.hostd = "down"
  /\ proc' = [proc EXCEPT !.hostd = "up"]
  /\ UNCHANGED <<disk, kernel, systemd, op, mem, applying, bounds>>

----------------------------------------------------------------------------
(* Requests that the journal alone decides, up to their first save. *)

\* Submit with a known key only reads.  rev is the configuration the client saw.
Submit(k, c, rev) ==
  /\ Locked("hostd")
  /\ journal.changes[k] = None /\ journal.pending = None
  /\ rev = journal.confirmed
  /\ validateServices(c, journal.services)
  /\ journal' = [journal EXCEPT !.pending = k,
                   !.changes[k] = [state |-> "applying", cand |-> c, prev |-> journal.confirmed,
                                   deadline |-> FALSE]]
  /\ applying' = applying \cup {k}
  /\ UNCHANGED <<file, edited, kernel, systemd, op, mem, proc, bounds>>

\* The API lets a default pool pass that fits the static subnet, or the lease of the moment.
PoolAccepts(c) ==
  c.pool # None => IF c.ip # Dhcp THEN c.ip.net = PoolNet
                   ELSE \E p \in primaryAddresses(journal.services) : p.net = PoolNet

handleApplyHostNetwork(k, c, rev) == PoolAccepts(c) /\ Submit(k, c, rev)

\* The goroutine sets the deadline and saves; then it arms the timer.
Apply(k) ==
  /\ Locked("hostd") /\ k \in applying
  /\ applying' = applying \ {k}
  /\ IF journal.pending # k
     THEN UNCHANGED <<journal, op, mem>>
     ELSE LET s == [journal EXCEPT !.changes[k].deadline = TRUE]
          IN  /\ journal' = s
              /\ Enter("apply", "hostd", k, "arm", s.changes[k].prev, s.changes[k].cand, s)
  /\ UNCHANGED <<file, edited, kernel, systemd, proc, bounds>>

Arm ==
  /\ op.pc = "arm"
  /\ timers' = [timers EXCEPT ![op.k] = "armed"]
  /\ Goto("detach")
  /\ UNCHANGED <<disk, kernel, passed, proc, applying, bounds>>

ArmFails ==
  /\ op.pc = "arm" /\ faults < MaxFaults
  /\ journal' = [mem EXCEPT !.changes[op.k].state = "failed", !.pending = None]
  /\ Leave(TRUE)
  /\ faults' = faults + 1
  /\ UNCHANGED <<file, edited, kernel, passed, proc, applying, edits>>

Restore(by, k, s) == Enter("restore", by, k, "detach", s.changes[k].cand, s.changes[k].prev, s)

\* Mutant: network.toml is not marked as out of date.
ConfirmUnmarked(k) ==
  /\ Locked("hostd")
  /\ journal.pending = k /\ journal.changes[k].state = "awaiting_confirmation"
  /\ IF Before(k)
     THEN LET s == [journal EXCEPT !.confirmed = journal.changes[k].cand,
                                   !.changes[k].state = "confirmed", !.pending = None]
          IN  journal' = s /\ Enter("confirm", "hostd", k, "file", None, s.confirmed, s)
     ELSE Restore("hostd", k, journal) /\ UNCHANGED journal
  /\ UNCHANGED <<file, edited, kernel, systemd, proc, applying, bounds>>

Confirm(k) ==
  /\ Locked("hostd")
  /\ journal.pending = k /\ journal.changes[k].state = "awaiting_confirmation"
  /\ IF Before(k)
     THEN LET s == [journal EXCEPT !.confirmed = journal.changes[k].cand, !.needs = TRUE,
                                   !.changes[k].state = "confirmed", !.pending = None]
          IN  journal' = s /\ Enter("confirm", "hostd", k, "file", None, s.confirmed, s)
     ELSE Restore("hostd", k, journal) /\ UNCHANGED journal
  /\ UNCHANGED <<file, edited, kernel, systemd, proc, applying, bounds>>

\* A request of the administrator, or the unit of the timer, which only acts after the
\* deadline.  A change that is no longer pending is left alone.
Rollback(k, by) ==
  /\ Locked(by)
  /\ IF by = "timer" THEN timers[k] = "started" ELSE journal.changes[k] # None
  /\ IF journal.pending # k
     THEN /\ timers' = IF by = "timer" /\ journal.changes[k].state # "failed"
                       THEN [timers EXCEPT ![k] = "none"] ELSE timers
          /\ UNCHANGED <<op, mem>>
     ELSE /\ by = "timer" => ~Before(k)
          /\ Restore(by, k, journal)
          /\ UNCHANGED timers
  /\ UNCHANGED <<disk, kernel, passed, proc, applying, bounds>>

\* The legacy migration of pools fills in a default that is not set.
MigrateDefault ==
  /\ Locked("hostd")
  /\ journal.pending = None /\ journal.confirmed.pool = None
  /\ LET s == [journal EXCEPT !.confirmed.pool = Pool, !.needs = TRUE]
     IN  journal' = s /\ Enter("migrate", "hostd", None, "file", None, s.confirmed, s)
  /\ UNCHANGED <<file, edited, kernel, systemd, proc, applying, bounds>>

\* A change of the adapters.  Watch takes the event and applies the confirmed settings
\* again, unless a change is outstanding; either way the event is gone.
Hotplug ==
  /\ proc.hostd = "up" /\ kernel.top \in Tops /\ faults < MaxFaults
  /\ kernel' = [kernel EXCEPT !.top = None, !.dirty = "yes"]
  /\ proc' = [proc EXCEPT !.plugged = TRUE]
  /\ faults' = faults + 1
  /\ UNCHANGED <<disk, systemd, op, mem, applying, edits>>

Watch ==
  /\ Locked("hostd") /\ proc.init = "ok"
  /\ proc.plugged /\ proc' = [proc EXCEPT !.plugged = FALSE]
  /\ IF journal.pending = None
     THEN Enter("watch", "hostd", None, "detach", journal.confirmed, journal.confirmed, journal)
     ELSE UNCHANGED <<op, mem>>
  /\ UNCHANGED <<disk, kernel, systemd, applying, bounds>>

----------------------------------------------------------------------------
(* Backend.Apply, in the order of its commands. *)

\* DHCP stops before a static address comes or the links move, and the adapters that are to
\* move leave their masters.
Detach ==
  /\ op.pc = "detach"
  /\ LET found == [kernel EXCEPT !.dirty = IF @ = "no" THEN "no" ELSE "mending",
                                 !.top = IF @ = op.to.top THEN @ ELSE None]
     IN  kernel' = IF op.to.ip # Dhcp \/ op.from.top # op.to.top \/ kernel.top # op.to.top
                   THEN [found EXCEPT !.dhcp = FALSE, !.lease = {}] ELSE found
  /\ Goto("attach")
  /\ UNCHANGED <<disk, systemd, proc, applying, bounds>>

Attach ==
  /\ op.pc = "attach"
  /\ kernel' = [kernel EXCEPT !.top = op.to.top]
  /\ Goto("delete")
  /\ UNCHANGED <<disk, systemd, proc, applying, bounds>>

\* Only the static address that the caller names as the previous one goes away.
DeletePrevious ==
  /\ op.pc = "delete"
  /\ kernel' = IF op.from.ip # Dhcp /\ op.from.ip # op.to.ip
               THEN [kernel EXCEPT !.addrs = @ \ {op.from.ip}] ELSE kernel
  /\ Goto("add")
  /\ UNCHANGED <<disk, systemd, proc, applying, bounds>>

AddAddresses ==
  /\ op.pc = "add"
  /\ kernel' = [kernel EXCEPT !.addrs = @ \cup ({op.to.ip} \ {Dhcp}) \cup Owned(mem)]
  /\ Goto("unit")
  /\ UNCHANGED <<disk, systemd, proc, applying, bounds>>

WriteUnit ==
  /\ op.pc = "unit"
  /\ kernel' = [kernel EXCEPT !.dhcp = op.to.ip = Dhcp,
                              !.dirty = IF @ = "yes" THEN "yes" ELSE "no",
                              !.lease = IF op.to.ip = Dhcp THEN @ ELSE {}]
  /\ Goto(IF op.to.ip = Dhcp /\ op.kind # "watch" THEN "verify" ELSE "applied")
  /\ UNCHANGED <<disk, systemd, proc, applying, bounds>>

\* The DHCP server of the LAN that the bridge is plugged into answers.
Lease ==
  /\ kernel.dhcp /\ kernel.lease = {} /\ kernel.top \in Tops
  /\ kernel' = [kernel EXCEPT !.lease = {[net |-> LeaseNet(kernel.top), host |-> 0]}]
  /\ UNCHANGED <<disk, systemd, op, mem, proc, applying, bounds>>

Verify ==
  /\ op.pc = "verify" /\ verified(mem.services)
  /\ Goto("applied")
  /\ UNCHANGED <<disk, kernel, systemd, proc, applying, bounds>>

----------------------------------------------------------------------------
(* What follows an Apply that succeeded. *)

InitApplied ==
  /\ op.pc = "applied" /\ op.kind = "init"
  /\ LET t == [mem EXCEPT !.confirmed = op.to, !.has = TRUE, !.startup = None, !.needs = TRUE,
                          !.pending = None]
         s == IF op.k = None THEN t ELSE [t EXCEPT !.changes[op.k].state = "rolled_back"]
     IN  journal' = s /\ mem' = s /\ op' = [op EXCEPT !.pc = "file"]
  /\ UNCHANGED <<file, edited, kernel, systemd, proc, applying, bounds>>

ChangeApplied ==
  /\ op.pc = "applied" /\ op.kind = "apply"
  /\ IF Before(op.k)
     THEN /\ journal' = [mem EXCEPT !.changes[op.k].state = "awaiting_confirmation"]
          /\ Leave(TRUE)
     ELSE Restore(op.by, op.k, mem) /\ UNCHANGED <<journal, timers>>
  /\ UNCHANGED <<file, edited, kernel, passed, proc, applying, bounds>>

RestoreFile ==
  /\ op.pc = "applied" /\ op.kind = "restore"
  /\ file' = op.to /\ edited' = FALSE
  /\ Goto("save")
  /\ UNCHANGED <<journal, kernel, systemd, proc, applying, bounds>>

RestoreSave ==
  /\ op.pc = "save"
  /\ journal' = [mem EXCEPT !.confirmed = op.to, !.changes[op.k].state = "rolled_back",
                            !.pending = None]
  /\ Goto("cancel")
  /\ UNCHANGED <<file, edited, kernel, systemd, proc, applying, bounds>>

Reconciled ==
  /\ op.pc = "applied" /\ op.kind = "watch"
  /\ Leave(TRUE)
  /\ UNCHANGED <<disk, kernel, passed, proc, applying, bounds>>

\* The journal is the commit record; network.toml follows it.
WriteConfig ==
  /\ op.pc = "file"
  /\ file' = mem.confirmed /\ edited' = FALSE
  /\ Goto("settle")
  /\ UNCHANGED <<journal, kernel, systemd, proc, applying, bounds>>

Settle ==
  /\ op.pc = "settle"
  /\ journal' = [mem EXCEPT !.needs = FALSE]
  /\ IF op.kind = "confirm"
     THEN Goto("cancel") /\ UNCHANGED <<timers, proc>>
     ELSE /\ Leave(TRUE)
          /\ IF op.kind = "init" THEN Started(op.by, TRUE) ELSE UNCHANGED proc
  /\ UNCHANGED <<file, edited, kernel, passed, applying, bounds>>

\* "systemctl stop" of the timer does not touch a unit that it has started.
Cancel ==
  /\ op.pc = "cancel"
  /\ op' = Idle /\ mem' = None
  /\ timers' = IF op.by = "timer" \/ timers[op.k] = "armed"
               THEN [timers EXCEPT ![op.k] = "none"] ELSE timers
  /\ UNCHANGED <<disk, kernel, passed, proc, applying, bounds>>

----------------------------------------------------------------------------
(* Service addresses. *)

AddService(s, a) ==
  /\ Locked("hostd") /\ journal.pending = None
  /\ Compatible(a, primaryAddresses(journal.services))
  /\ validateServices(journal.confirmed, [NoServices EXCEPT ![s] = a])
  /\ \A t \in Stacks \ {s} : journal.services[t] # a
  /\ journal.services[s] \in {None, a}
  /\ LET j == [journal EXCEPT !.services[s] = a]
     IN  /\ journal' = j
         /\ op' = [Idle EXCEPT !.kind = "service", !.by = "hostd", !.pc = "announce", !.to = a]
         /\ mem' = j
  /\ UNCHANGED <<file, edited, kernel, systemd, proc, applying, bounds>>

Announce ==
  /\ op.pc = "announce"
  /\ kernel' = [kernel EXCEPT !.addrs = @ \cup {op.to}]
  /\ Leave(TRUE)
  /\ UNCHANGED <<disk, passed, proc, applying, bounds>>

\* Mutant: the address leaves the journal first.
DelServiceEarly(s, a) ==
  /\ Locked("hostd") /\ journal.pending = None
  /\ journal.services[s] = a
  /\ journal' = [journal EXCEPT !.services[s] = None]
  /\ UNCHANGED <<file, edited, kernel, systemd, op, mem, proc, applying, bounds>>

DelService(s, a) ==
  /\ Locked("hostd") /\ journal.pending = None
  /\ journal.services[s] = a
  /\ op' = [Idle EXCEPT !.kind = "service", !.by = "hostd", !.k = s, !.pc = "forget"]
  /\ mem' = journal
  /\ kernel' = [kernel EXCEPT !.addrs = @ \ {a}]
  /\ UNCHANGED <<disk, systemd, proc, applying, bounds>>

Forget ==
  /\ op.pc = "forget"
  /\ journal' = [mem EXCEPT !.services[op.k] = None]
  /\ Leave(TRUE)
  /\ UNCHANGED <<file, edited, kernel, passed, proc, applying, bounds>>

\* want is what the cluster database gave to this host when the control plane read it.
SyncServices(want) ==
  /\ Locked("hostd") /\ journal.pending = None
  /\ \A s, t \in Stacks : s # t /\ want[s] = want[t] => want[s] = None
  /\ \A s \in Stacks : want[s] # None =>
        Compatible(want[s], primaryAddresses(journal.services))
  /\ validateServices(journal.confirmed, want)
  /\ op' = [Idle EXCEPT !.kind = "sync", !.by = "hostd", !.pc = "drop", !.want = want]
  /\ mem' = journal
  /\ UNCHANGED <<disk, kernel, systemd, proc, applying, bounds>>

Stale == {s \in Stacks : mem.services[s] # None /\ mem.services[s] # op.want[s]}

\* The address leaves the bridge, then the journal.
DropStale(s) ==
  /\ op.pc = "drop" /\ s \in Stale
  /\ kernel' = [kernel EXCEPT !.addrs = @ \ {mem.services[s]}]
  /\ op' = [op EXCEPT !.pc = "dropped", !.k = s] /\ UNCHANGED mem
  /\ UNCHANGED <<disk, systemd, proc, applying, bounds>>

SaveDropped ==
  /\ op.pc = "dropped"
  /\ LET j == [mem EXCEPT !.services[op.k] = None]
     IN  journal' = j /\ mem' = j
  /\ op' = [op EXCEPT !.pc = "drop", !.k = None]
  /\ UNCHANGED <<file, edited, kernel, systemd, proc, applying, bounds>>

\* A wanted address is journalled, then put on the bridge.
Missing == {s \in Stacks : /\ op.want[s] # None
                           /\ op.want[s] \notin kernel.addrs \/ mem.services[s] # op.want[s]}

TakeWanted(s) ==
  /\ op.pc = "drop" /\ Stale = {} /\ s \in Missing
  /\ LET j == [mem EXCEPT !.services[s] = op.want[s]]
     IN  journal' = j /\ mem' = j
  /\ op' = [op EXCEPT !.pc = "taken", !.k = s]
  /\ UNCHANGED <<file, edited, kernel, systemd, proc, applying, bounds>>

AnnounceWanted ==
  /\ op.pc = "taken"
  /\ kernel' = [kernel EXCEPT !.addrs = @ \cup {op.want[op.k]}]
  /\ op' = [op EXCEPT !.pc = "drop", !.k = None] /\ UNCHANGED mem
  /\ UNCHANGED <<disk, systemd, proc, applying, bounds>>

Synced ==
  /\ op.pc = "drop" /\ Stale = {} /\ Missing = {}
  /\ Leave(TRUE)
  /\ UNCHANGED <<disk, kernel, passed, proc, applying, bounds>>

----------------------------------------------------------------------------
(* What goes wrong: a command fails, a lease does not fit, a process dies. *)

Failure ==
  IF op.kind = "apply"
  THEN Restore(op.by, op.k, mem) /\ UNCHANGED <<journal, timers, proc>>
  ELSE /\ journal' = IF op.kind = "restore"
                     THEN [mem EXCEPT !.changes[op.k].state = "failed"] ELSE journal
       /\ Leave(FALSE)
       /\ IF op.kind = "init" THEN Started(op.by, FALSE) ELSE UNCHANGED proc

CommandFails ==
  /\ op.pc \in {"detach", "attach", "delete", "add", "unit", "verify",
                "announce", "drop", "taken"}
  /\ faults < MaxFaults /\ faults' = faults + 1
  /\ Failure
  /\ UNCHANGED <<file, edited, kernel, passed, applying, edits>>

\* The lease has come, and it is of a subnet that the services are not in, or none can come.
LeaseUnfit ==
  /\ op.pc = "verify" /\ ~verified(mem.services)
  /\ kernel.lease # {} \/ kernel.top \notin Tops
  /\ Failure
  /\ UNCHANGED <<file, edited, kernel, passed, applying, bounds>>

Dies(by) ==
  IF op.by = by THEN op' = Idle /\ mem' = None ELSE UNCHANGED <<op, mem>>

HostdDies ==
  /\ proc.hostd = "up" /\ faults < MaxFaults
  /\ proc' = [proc EXCEPT !.hostd = "down", !.init = "todo", !.plugged = FALSE]
  /\ applying' = {} /\ Dies("hostd")
  /\ faults' = faults + 1
  /\ UNCHANGED <<disk, kernel, systemd, edits>>

\* TimeoutStartSec ends a rollback unit; Restart=on-failure starts it again.
UnitDies ==
  /\ op.by = "timer" /\ faults < MaxFaults
  /\ Dies("timer")
  /\ faults' = faults + 1
  /\ UNCHANGED <<disk, kernel, systemd, proc, applying, edits>>

\* Links, addresses and transient units are gone.
Reboot ==
  /\ proc.boot # "booting" /\ faults < MaxFaults
  /\ kernel' = Bare
  /\ timers' = [k \in Keys |-> "none"]
  /\ op' = Idle /\ mem' = None /\ applying' = {}
  /\ proc' = [boot |-> "booting", hostd |-> "down", init |-> "todo", plugged |-> FALSE]
  /\ journal' = [journal EXCEPT !.boot = FALSE]   \* its BootID is now another's
  /\ faults' = faults + 1
  /\ UNCHANGED <<file, edited, passed, edits>>

DeadlinePasses(k) ==
  /\ journal.changes[k] # None /\ Before(k)
  /\ passed' = passed \cup {k}
  /\ UNCHANGED <<disk, kernel, timers, op, mem, proc, applying, bounds>>

TimerFires(k) ==
  /\ timers[k] = "armed" /\ k \in passed
  /\ timers' = [timers EXCEPT ![k] = "started"]
  /\ UNCHANGED <<disk, kernel, passed, op, mem, proc, applying, bounds>>

EditFile(c) ==
  /\ edits < MaxEdits
  /\ file' = c /\ edited' = TRUE
  /\ edits' = edits + 1
  /\ UNCHANGED <<journal, kernel, systemd, op, mem, proc, applying, faults>>

----------------------------------------------------------------------------
ApplyStep == Detach \/ Attach \/ DeletePrevious \/ AddAddresses \/ WriteUnit \/ Verify
AfterApply == InitApplied \/ ChangeApplied \/ RestoreFile \/ RestoreSave \/ Reconciled
                \/ WriteConfig \/ Settle \/ Cancel
ServiceStep == Announce \/ Forget \/ SaveDropped \/ AnnounceWanted \/ Synced
                 \/ \E s \in Stacks : DropStale(s) \/ TakeWanted(s)

\* What the holder of the lock does next.
Holder == Arm \/ ApplyStep \/ LeaseUnfit \/ AfterApply \/ ServiceStep

Request ==
  \/ \E k \in Keys, c \in Candidates, rev \in Configs :
        handleApplyHostNetwork(k, c, rev)
  \/ \E k \in Keys : Confirm(k) \/ Rollback(k, "hostd")
  \/ MigrateDefault
  \/ \E s \in Stacks, a \in SvcAddrs : AddService(s, a) \/ DelService(s, a)
  \/ \E want \in [Stacks -> SvcAddrs \cup {None}] : SyncServices(want)

System ==
  \/ BootInit \/ HostdStart \/ HostdInit \/ Watch \/ Lease \/ Holder
  \/ \E k \in Keys : Apply(k) \/ Rollback(k, "timer") \/ DeadlinePasses(k) \/ TimerFires(k)

Fault == ArmFails \/ CommandFails \/ HostdDies \/ UnitDies \/ Reboot \/ Hotplug

Next == Request \/ System \/ Fault \/ \E c \in Edits \cup {Invalid} : EditFile(c)

(* The kernel serves the lock to who waits for it, systemd starts what is due, and a      *)
(* process that holds the lock goes on; no request has to come.                          *)
Fairness ==
  /\ WF_vars(Holder) /\ WF_vars(Lease)
  /\ WF_vars(BootInit) /\ WF_vars(HostdStart)
  /\ SF_vars(HostdInit)
  /\ \A k \in Keys : /\ SF_vars(Apply(k)) /\ SF_vars(Rollback(k, "timer"))
                     /\ WF_vars(DeadlinePasses(k)) /\ WF_vars(TimerFires(k))

Spec == Init /\ [][Next]_vars /\ Fairness

----------------------------------------------------------------------------
Journals == [has : BOOLEAN, startup : Configs \cup {None}, confirmed : Configs,
             services : [Stacks -> SvcAddrs \cup {None}], pending : Keys \cup {None},
             needs : BOOLEAN, boot : BOOLEAN, changes : [Keys -> Change \cup {None}]]
StaticAddrs == {c.ip : c \in Configs}
Kernels == [top : Tops \cup {None}, addrs : SUBSET (SvcAddrs \cup StaticAddrs), dhcp : BOOLEAN,
            lease : SUBSET {[net |-> LeaseNet(t), host |-> 0] : t \in Tops},
            dirty : {"no", "mending", "yes"}]
Processes == [boot : {"booting", "booted", "failed"}, hostd : {"down", "up"},
              init : {"todo", "ok", "failed"}, plugged : BOOLEAN]

(* The state has the shape of the journal, the file, the kernel and the processes. *)
TypeOK ==
  /\ journal \in Journals /\ kernel \in Kernels /\ proc \in Processes
  /\ file \in Configs \cup {Absent, Invalid} /\ edited \in BOOLEAN
  /\ timers \in [Keys -> {"none", "armed", "started"}] /\ passed \subseteq Keys
  /\ applying \subseteq Keys /\ faults \in 0..MaxFaults /\ edits \in 0..MaxEdits

(* Whatever was interrupted, a start configures what the journal calls confirmed, unless  *)
(* an administrator has edited network.toml since: no order of the two files, and no      *)
(* crash between them, brings back a configuration that was replaced or never confirmed.  *)
BootUsesConfirmed == journal.has /\ ~edited => Chosen = journal.confirmed

(* A service address is in the journal before it is on the bridge and until it has left   *)
(* it, so that no crash leaves an address that this host answers for without knowing: all *)
(* it answers for are owned services or static addresses of a configuration.              *)
ServicesOwned == kernel.addrs \subseteq Owned(journal) \cup StaticAddrs

(* No address is given to two stacks, by requests or by a synchronization that was        *)
(* interrupted.                                                                           *)
AddressOwnedOnce ==
  \A s, t \in Stacks : s # t => journal.services[s] = None \/ journal.services[s] # journal.services[t]

(* Between operations, once hostd has started, no change is outstanding and no start has  *)
(* failed, the bridge has the confirmed topology and primary address.  The address of a   *)
(* change that was rolled back is not left on it, unless a stack owns it now.             *)
LiveIsConfirmed ==
  op = Idle /\ journal.pending = None /\ journal.startup = None /\ kernel.dirty = "no"
    /\ proc.init = "ok" =>
  /\ kernel.top = journal.confirmed.top
  /\ kernel.dhcp = (journal.confirmed.ip = Dhcp)
  /\ journal.confirmed.ip \in kernel.addrs \cup {Dhcp}
  /\ \A k \in Keys : journal.changes[k] # None /\ journal.changes[k].state = "rolled_back" =>
        \/ journal.changes[k].cand.ip \notin kernel.addrs
        \/ journal.changes[k].cand.ip = journal.confirmed.ip
        \/ journal.changes[k].cand.ip \in Owned(journal)

(* A confirmed change is not undone by a timer, a retry or a start that comes late, and a *)
(* change that was rolled back is not brought back.                                       *)
OutcomeStays ==
  [][\A k \in Keys : journal.changes[k] # None
        /\ journal.changes[k].state \in {"confirmed", "rolled_back"}
        => journal'.changes[k] = journal.changes[k]]_vars

(* A change that nobody confirms is rolled back: by its timer, whether hostd lives or not, *)
(* by the next start of hostd, or by the boot after a power loss.                         *)
UnconfirmedEnds == \A k \in Keys : journal.pending = k ~> journal.pending # k

\* The LAN settings of the next boot and, with no change under way, of the running
\* machine are the ones somebody confirmed (manager.go Apply, Confirm, rollback).
NetworkConfirmed == BootUsesConfirmed /\ LiveIsConfirmed

\* Every service address on the bridge has one owner in the journal (manager.go
\* AddService, DelService).
AddressesOwned == TypeOK /\ ServicesOwned /\ AddressOwnedOnce

\* A change of the LAN settings gets an outcome, and keeps it (manager.go Confirm,
\* Rollback; linux.go, the transient timer).
ChangeEnds == OutcomeStays /\ UnconfirmedEnds
=============================================================================

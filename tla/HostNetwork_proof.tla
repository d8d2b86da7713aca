-------------------------- MODULE HostNetwork_proof --------------------------
(***************************************************************************)
(* AddressesOwned, BootUsesConfirmed and OutcomeStays for any set of       *)
(* changes, configurations, stacks and addresses and any number of failing *)
(* commands, deaths of hostd, reboots and edits of network.toml.  None of  *)
(* them is inductive.  They hold because the journal is saved before what  *)
(* it describes is done: the holder of the lock works on the journal that  *)
(* is on disk (Fresh), a pending change would be undone to the confirmed   *)
(* configuration (Pending), network.toml is marked as out of date before   *)
(* the confirmed configuration changes (FileFits), and an address is in    *)
(* the journal before it is on the bridge and until it has left it         *)
(* (Announced).  Working and Booting say which operation can be at which   *)
(* step.  One lemma per action shows that it keeps them.                   *)
(*                                                                         *)
(* The second part is about the bridge of a running machine.  LiveInv says *)
(* that it shows what is confirmed, or may be, whenever no operation is    *)
(* changing it; with OrderlyInv, for administrators who do not edit the    *)
(* file and wait for hostd, that it shows nothing else: NetworkConfirmed.  *)
(***************************************************************************)
EXTENDS HostNetwork, TLAPS

\* The steps of Backend.Apply, in any operation that calls it, and of the operations.
Applying == {"detach", "attach", "delete", "add", "unit", "verify", "applied"}
Kinds == {"none", "init", "apply", "restore", "confirm", "migrate", "watch", "service", "sync"}
Steps == Applying \cup {"none", "arm", "save", "cancel", "file", "settle", "announce", "forget",
                        "drop", "dropped", "taken"}

\* The operation that holds the lock.
Services == [Stacks -> SvcAddrs \cup {None}]
Operations == [kind : Kinds, by : {"none", "boot", "hostd", "timer"}, k : Keys \cup Stacks \cup {None},
               pc : Steps, from : Configs \cup {None}, to : Configs \cup SvcAddrs \cup {None},
               want : Services]

\* Which steps each kind of operation has, and what it works on.
Working ==
  /\ op \in Operations
  /\ op.pc = "none" => op = Idle
  /\ op.pc \in Applying => op.kind \in {"init", "apply", "restore", "watch"}
  /\ op.pc = "arm" => op.kind = "apply"
  /\ op.pc = "save" => op.kind = "restore"
  /\ op.pc = "cancel" => op.kind \in {"restore", "confirm"}
  /\ op.pc \in {"file", "settle"} => op.kind \in {"init", "confirm", "migrate"}
  /\ op.pc \in {"drop", "dropped", "taken"} => op.kind = "sync"
  /\ op.pc \in {"announce", "forget"} => op.kind = "service"
  /\ op.pc \in Applying \cup {"arm", "save"} => op.from \in Configs /\ op.to \in Configs
  /\ op.kind \in {"apply", "restore", "confirm"} => op.k \in Keys
  /\ op.by = "timer" => op.kind = "restore"

\* An operation works on a copy of the journal that is the one on disk, up to its last save.
Fresh == op.pc \notin {"none", "cancel"} => mem = journal

\* Before the first Initialize of a boot nothing is configured, and nothing but it can run.
Booting ==
  ~journal.boot => /\ op = Idle /\ kernel.addrs = {}
                   /\ proc.boot # "booted" /\ proc.hostd = "down"
                   /\ \A k \in Keys : timers[k] = "none"

\* A pending change is open and would be undone to the confirmed configuration.
Pending ==
  /\ journal.pending # None =>
       /\ journal.changes[journal.pending] # None
       /\ journal.changes[journal.pending].state \notin {"confirmed", "rolled_back"}
       /\ journal.changes[journal.pending].prev = journal.confirmed
  /\ op.kind \in {"apply", "restore"} /\ op.pc # "cancel" => journal.pending = op.k
  /\ op.kind = "restore" /\ op.pc # "cancel" => op.to = journal.confirmed
  /\ op.kind = "init" /\ op.pc \in Applying =>
       op.k = journal.pending /\ journal.startup # None

\* network.toml is what was confirmed, edited, or marked as out of date.
FileFits ==
  /\ journal.has /\ ~edited /\ ~journal.needs /\ journal.startup = None =>
       FromFile = journal.confirmed
  /\ op.pc = "settle" => edited \/ file = journal.confirmed
  /\ op.pc \in {"file", "settle"} => journal.needs

\* An address is in the journal before it is announced, and off the bridge before it leaves.
Announced ==
  /\ op.pc = "announce" => op.to \in Owned(journal)
  /\ op.pc \in {"forget", "dropped"} => op.k \in Stacks /\ journal.services[op.k] \notin kernel.addrs
  /\ op.pc = "taken" => /\ op.k \in Stacks /\ op.want[op.k] # None
                        /\ journal.services[op.k] = op.want[op.k]
  /\ \A s, t \in Stacks : s # t /\ op.want[s] = op.want[t] => op.want[s] = None

\* The inductive invariant.
Inv == /\ TypeOK /\ ServicesOwned /\ AddressOwnedOnce
       /\ Working /\ Fresh /\ Booting /\ Pending /\ FileFits /\ Announced

\* A configuration has an address, a topology and a pool, and a migration may fill in the pool.
LEMMA ConfigFields ==
  ASSUME NEW c \in Configs
  PROVE  c.top \in Tops /\ [c EXCEPT !.pool = Pool] \in Configs
<1> DEFINE Base == {DefaultConfig} \cup Candidates \cup Edits
<1>1. \A b \in Base : b = [ip |-> b.ip, top |-> b.top, pool |-> b.pool] /\ b.top \in Tops
  BY HostNetworkAssumption DEF DefaultConfig
<1>2. CASE c \in Base
  BY <1>1 DEF Configs
<1>3. CASE \E b \in Base : c = [b EXCEPT !.pool = Pool]
  <2>1. PICK b \in Base : c = [b EXCEPT !.pool = Pool]
    BY <1>3
  <2>2. c.top = b.top
    BY <1>1, <2>1
  <2>3. [c EXCEPT !.pool = Pool] = c
    BY <1>1, <2>1
  <2> QED BY <1>1, <2>2, <2>3
<1> QED BY <1>2, <1>3 DEF Configs

\* A change keeps its candidate and what it replaces, whatever becomes of it.
LEMMA ChangeFields ==
  ASSUME NEW c \in Change, NEW st \in States
  PROVE  /\ [c EXCEPT !.state = st] \in Change /\ [c EXCEPT !.deadline = TRUE] \in Change
         /\ [c EXCEPT !.state = st].state = st
         /\ [c EXCEPT !.state = st].prev = c.prev
         /\ [c EXCEPT !.deadline = TRUE].state = c.state
         /\ [c EXCEPT !.deadline = TRUE].prev = c.prev
         /\ [c EXCEPT !.deadline = TRUE].cand = c.cand
         /\ c.cand \in Configs /\ c.prev \in Configs
BY DEF Change, Configs

\* Setting the deadline of a change.
LEMMA Dated ==
  ASSUME NEW c \in Change
  PROVE  /\ [c EXCEPT !.deadline = TRUE] \in Change
         /\ [c EXCEPT !.deadline = TRUE].state = c.state
         /\ [c EXCEPT !.deadline = TRUE].prev = c.prev
         /\ [c EXCEPT !.deadline = TRUE].cand = c.cand
BY DEF Change

\* The change that is pending.
LEMMA PendingChange ==
  ASSUME Inv, journal.pending # None
  PROVE  journal.pending \in Keys /\ journal.changes[journal.pending] \in Change
BY DEF Inv, TypeOK, Journals, Pending

\* Starting hostd changes no settings.
LEMMA HostdStartKeeps ==
  ASSUME Inv, HostdStart
  PROVE  Inv'
<1> USE HostNetworkAssumption
<1>1. TypeOK'
  BY DEF Inv, TypeOK, Processes, HostdStart, disk, systemd, bounds
<1>2. Working'
  BY DEF Inv, HostdStart, Working
<1>3. Fresh' /\ Booting'
  BY DEF Inv, HostdStart, disk, Fresh, Booting
<1>4. Pending'
  BY DEF Inv, HostdStart, disk, Pending
<1>5. FileFits'
  BY DEF Inv, HostdStart, disk, FileFits, FromFile
<1>6. ServicesOwned' /\ AddressOwnedOnce' /\ Announced'
  BY DEF Inv, HostdStart, disk, ServicesOwned, AddressOwnedOnce, Announced
<1> QED BY <1>1, <1>2, <1>3, <1>4, <1>5, <1>6 DEF Inv

\* A start saves what it is about to configure: the confirmed settings, if a change is pending.
LEMMA InitializeKeeps ==
  ASSUME Inv, NEW by \in {"boot", "hostd"}, Initialize(by)
  PROVE  Inv'
<1> USE HostNetworkAssumption
<1>0. /\ Chosen \in Configs /\ Undone \in Configs /\ KnownServices \in Services
      /\ journal.pending # None => Chosen = journal.confirmed
  <2>1. Chosen \in Configs /\ (journal.pending # None => Chosen = journal.confirmed)
    BY DEF Chosen, FromFile, Inv, TypeOK, Journals, Configs
  <2>2. Undone \in Configs
    BY PendingChange, ChangeFields DEF Undone, Inv, TypeOK, Journals, States
  <2> QED BY <2>1, <2>2 DEF KnownServices, NoServices, Services, Inv, TypeOK, Journals
<1>1. TypeOK'
  <2>1. journal' \in Journals
    <3>1. journal \in Journals /\ journal' = [journal EXCEPT !.needs = FALSE, !.boot = TRUE,
                                    !.services = KnownServices, !.startup = Chosen]
      BY DEF Inv, TypeOK, Initialize
    <3> QED BY <1>0, <3>1 DEF Journals, Services
  <2> QED BY <2>1 DEF Inv, TypeOK, Initialize, Enter, Locked, systemd, bounds, Chosen, Undone,
                 KnownServices, FromFile, Working, Operations, Applying, Steps, Kinds, Idle
<1>2. Working'
  <2>1. op' \in Operations
    BY <1>0 DEF Inv, Initialize, Enter, Locked, TypeOK, Journals, Working, Operations,
           Applying, Steps, Kinds, Idle
  <2> QED BY <1>0, <2>1 DEF Initialize, Enter, Working
<1>3. Fresh' /\ Booting'
  BY DEF Initialize, Enter, Fresh, Booting
<1>4. Pending'
  BY <1>0 DEF Inv, Initialize, Enter, Pending
<1>5. FileFits'
  BY <1>0 DEF Initialize, Enter, FileFits
<1>6. ServicesOwned' /\ AddressOwnedOnce' /\ Announced'
  BY DEF Inv, Initialize, Enter, Locked, systemd, bounds, Chosen, Undone, KnownServices,
         Booting, ServicesOwned, AddressOwnedOnce, Announced, Owned, NoServices
<1> QED BY <1>1, <1>2, <1>3, <1>4, <1>5, <1>6 DEF Inv

\* A start that is refused leaves everything as it was.
LEMMA RefusedKeeps ==
  ASSUME Inv, NEW by \in {"boot", "hostd"}, Refused(by)
  PROVE  Inv'
<1> USE HostNetworkAssumption
<1>1. TypeOK'
  BY DEF Inv, TypeOK, Processes, Refused, Locked, Started, disk, systemd
<1>2. Working'
  BY DEF Refused, Locked, Started, disk, systemd, Working, Operations, Applying, Steps, Kinds,
         Idle, Services, NoServices
<1>3. Fresh' /\ Booting'
  BY DEF Inv, Refused, Locked, Started, disk, systemd, Fresh, Booting
<1>4. Pending'
  BY DEF Inv, Refused, Locked, Started, disk, systemd, Pending
<1>5. FileFits'
  BY DEF Inv, Refused, Locked, Started, disk, systemd, FileFits, FromFile
<1>6. ServicesOwned' /\ AddressOwnedOnce' /\ Announced'
  BY DEF Inv, Refused, Locked, Started, disk, systemd, ServicesOwned, AddressOwnedOnce,
         Announced
<1> QED BY <1>1, <1>2, <1>3, <1>4, <1>5, <1>6 DEF Inv

\* A new change would be undone to the settings confirmed now.
LEMMA SubmitKeeps ==
  ASSUME Inv, NEW k \in Keys, NEW c \in Candidates, NEW rev \in Configs, Submit(k, c, rev)
  PROVE  Inv'
<1> USE HostNetworkAssumption
<1>0. /\ journal'.pending = k /\ journal'.confirmed = journal.confirmed
      /\ journal'.changes[k] \in Change /\ journal'.changes[k].state = "applying"
      /\ journal'.changes[k].prev = journal.confirmed /\ journal'.changes[k] # None
  <2> DEFINE new == [state |-> "applying", cand |-> c, prev |-> journal.confirmed, deadline |-> FALSE]
  <2>1. new \in Change /\ new.state = "applying" /\ new.prev = journal.confirmed
    BY DEF Change, States, Inv, TypeOK, Journals
  <2>2. /\ journal'.pending = k /\ journal'.confirmed = journal.confirmed
        /\ journal'.changes[k] = new
    BY DEF Submit, Inv, TypeOK, Journals
  <2> QED BY <2>1, <2>2
<1>1. TypeOK'
  <2>1. journal' \in Journals
    BY <1>0 DEF Inv, TypeOK, Journals, Change, Submit, Locked, systemd, bounds, Working,
           Operations, Applying, Steps, Kinds, Idle, Fresh, Pending, Services, States,
           NoServices
  <2> QED BY <2>1 DEF Inv, TypeOK, Submit, Locked, systemd, bounds
<1>2. Working'
  BY DEF Submit, Locked, systemd, bounds, Working, Operations, Applying, Steps, Kinds, Idle,
         Services, NoServices
<1>3. Fresh' /\ Booting'
  BY DEF Inv, Submit, Locked, systemd, bounds, Idle, Fresh, Booting
<1>4. Pending'
  BY <1>0 DEF Submit, Locked, systemd, bounds, Idle, Pending
<1>5. FileFits'
  BY <1>0 DEF Inv, Submit, Locked, systemd, bounds, FileFits, FromFile
<1>6. ServicesOwned' /\ AddressOwnedOnce' /\ Announced'
  BY DEF Inv, Submit, Locked, systemd, bounds, Booting, ServicesOwned, AddressOwnedOnce,
         Announced, Owned, NoServices
<1> QED BY <1>1, <1>2, <1>3, <1>4, <1>5, <1>6 DEF Inv

\* The deadline is saved before the change is applied.
LEMMA ApplyKeeps ==
  ASSUME Inv, NEW k \in Keys, Apply(k)
  PROVE  Inv'
<1> USE HostNetworkAssumption
<1>1. /\ op = Idle /\ proc.hostd = "up" /\ applying' \subseteq applying /\ journal \in Journals
      /\ UNCHANGED <<file, edited, kernel, timers, passed, proc, faults, edits>>
  BY DEF Apply, Locked, systemd, bounds, Inv, TypeOK
<1>2. CASE journal.pending # k
  <2>1. UNCHANGED <<journal, op, mem>>
    BY <1>2 DEF Apply
  <2>2. TypeOK'
    BY <1>1, <2>1 DEF Inv, TypeOK
  <2>3. Working' /\ Fresh' /\ Booting' /\ Pending' /\ FileFits'
    BY <1>1, <2>1 DEF Inv, Working, Fresh, Booting, Pending, FileFits, FromFile
  <2>4. ServicesOwned' /\ AddressOwnedOnce' /\ Announced'
    BY <1>1, <2>1 DEF Inv, ServicesOwned, AddressOwnedOnce, Announced
  <2> QED BY <2>2, <2>3, <2>4 DEF Inv
<1>3. CASE journal.pending = k
  <2>1. /\ journal.changes[k] \in Change /\ journal.changes[k] # None /\ k # None
        /\ journal.changes[k].prev = journal.confirmed
        /\ journal.changes[k].state \notin {"confirmed", "rolled_back"}
    BY <1>3, PendingChange DEF Inv, Pending
  <2> DEFINE c == [journal.changes[k] EXCEPT !.deadline = TRUE]
  <2>2. /\ c \in Change /\ c # None /\ c.prev = journal.confirmed /\ c.cand \in Configs
        /\ c.prev \in Configs /\ c.state \notin {"confirmed", "rolled_back"}
    <3>1. c \in Change /\ c.prev = journal.confirmed /\ c.state = journal.changes[k].state
      BY <2>1, Dated
    <3> QED BY <2>1, <3>1 DEF Change, Configs
  <2>3. /\ journal'.has = journal.has /\ journal'.startup = journal.startup
        /\ journal'.confirmed = journal.confirmed /\ journal'.services = journal.services
        /\ journal'.pending = k /\ journal'.needs = journal.needs /\ journal'.boot = journal.boot
        /\ journal'.changes = [journal.changes EXCEPT ![k] = c]
        /\ mem' = journal'
    BY <1>1, <1>3 DEF Apply, Enter, Journals
  <2> HIDE DEF c
  <2>4. journal'.changes[k] = c /\ journal'.changes \in [Keys -> Change \cup {None}]
    BY <1>1, <2>2, <2>3 DEF Journals
  <2>5. op' = [kind |-> "apply", by |-> "hostd", k |-> k, pc |-> "arm", from |-> c.prev,
               to |-> c.cand, want |-> NoServices]
    BY <1>3, <2>3, <2>4 DEF Apply, Enter
  <2>6. journal' \in Journals
    <3>1. journal' = [journal EXCEPT !.changes[k].deadline = TRUE]
      BY <1>3 DEF Apply
    <3> QED BY <1>1, <2>3, <2>4, <3>1 DEF Journals
  <2>7. TypeOK'
    BY <1>1, <2>6 DEF Inv, TypeOK
  <2>8. Working' /\ Fresh'
    BY <2>2, <2>3, <2>5 DEF Working, Operations, Steps, Kinds, Services, NoServices, Fresh
  <2>9. Booting' /\ Pending' /\ FileFits'
    BY <1>1, <2>2, <2>3, <2>4, <2>5 DEF Inv, Booting, Pending, FileFits, FromFile
  <2>10. ServicesOwned' /\ AddressOwnedOnce' /\ Announced'
    BY <1>1, <2>3, <2>5 DEF Inv, ServicesOwned, AddressOwnedOnce, Announced, Owned, NoServices
  <2> QED BY <2>7, <2>8, <2>9, <2>10 DEF Inv
<1> QED BY <1>2, <1>3

\* Arming the timer changes no settings.
LEMMA ArmKeeps ==
  ASSUME Inv, Arm
  PROVE  Inv'
<1> USE HostNetworkAssumption
<1>1. TypeOK'
  BY DEF Inv, TypeOK, Arm, Goto, disk, bounds, Working
<1>2. Working'
  BY DEF Inv, Arm, Goto, disk, bounds, Working, Operations, Applying, Steps
<1>3. Fresh' /\ Booting'
  BY DEF Inv, Arm, Goto, disk, bounds, Idle, Fresh, Booting
<1>4. Pending'
  BY DEF Inv, Arm, Goto, disk, bounds, Working, Pending
<1>5. FileFits'
  BY DEF Inv, Arm, Goto, disk, bounds, FileFits, FromFile
<1>6. ServicesOwned' /\ AddressOwnedOnce' /\ Announced'
  BY DEF Inv, Arm, Goto, disk, bounds, ServicesOwned, AddressOwnedOnce, Announced
<1> QED BY <1>1, <1>2, <1>3, <1>4, <1>5, <1>6 DEF Inv

\* A change without a timer is closed before it is applied.
LEMMA ArmFailsKeeps ==
  ASSUME Inv, ArmFails
  PROVE  Inv'
<1> USE HostNetworkAssumption
<1>0. op.k = journal.pending /\ op.k \in Keys /\ mem = journal /\ journal.changes[op.k] \in Change
      /\ [journal.changes[op.k] EXCEPT !.state = "failed"] \in Change
  <2>1. op.k = journal.pending /\ op.k \in Keys /\ mem = journal
    BY DEF ArmFails, Inv, Working, Pending, Fresh
  <2>2. journal.changes[op.k] \in Change
    BY <2>1, PendingChange
  <2> QED BY <2>1, <2>2, ChangeFields DEF States
<1>1. TypeOK'
  <2>1. journal' \in Journals
    BY <1>0 DEF Inv, TypeOK, Journals, Change, ArmFails, Leave, Working, Operations, Applying,
           Steps, Kinds, Idle, Fresh, Pending, Services, States, NoServices
  <2> QED BY <2>1 DEF Inv, TypeOK, ArmFails, Leave, Working
<1>2. Working'
  BY DEF ArmFails, Leave, Working, Operations, Applying, Steps, Kinds, Idle, Services,
         NoServices
<1>3. Fresh' /\ Booting'
  BY DEF Inv, ArmFails, Leave, Idle, Fresh, Booting
<1>4. Pending'
  BY <1>0 DEF ArmFails, Leave, Idle, Pending
<1>5. FileFits'
  BY <1>0 DEF Inv, ArmFails, Leave, Idle, FileFits, FromFile
<1>6. ServicesOwned' /\ AddressOwnedOnce' /\ Announced'
  BY DEF Inv, ArmFails, Leave, Idle, Fresh, ServicesOwned, AddressOwnedOnce, Announced, Owned,
         NoServices
<1> QED BY <1>1, <1>2, <1>3, <1>4, <1>5, <1>6 DEF Inv

\* A confirmed change marks network.toml as out of date; a late one is undone.
LEMMA ConfirmKeeps ==
  ASSUME Inv, NEW k \in Keys, Confirm(k)
  PROVE  Inv'
<1> USE HostNetworkAssumption
<1>1. /\ journal.pending = k /\ k # None /\ op = Idle /\ proc.hostd = "up"
      /\ UNCHANGED <<file, edited, kernel, timers, passed, proc, applying, faults, edits>>
  BY DEF Confirm, Locked, systemd, bounds
<1>2. /\ journal.changes[k] \in Change /\ journal.changes[k] # None /\ journal \in Journals
      /\ journal.changes[k].prev = journal.confirmed
  BY <1>1, PendingChange DEF Inv, TypeOK, Pending
<1>3. /\ journal.changes[k].cand \in Configs /\ journal.changes[k].prev \in Configs
      /\ [journal.changes[k] EXCEPT !.state = "confirmed"] \in Change
  BY <1>2, ChangeFields DEF States
<1>4. CASE Before(k)
  <2>1. /\ journal'.has = journal.has /\ journal'.startup = journal.startup
        /\ journal'.confirmed = journal.changes[k].cand
        /\ journal'.services = journal.services
        /\ journal'.pending = None /\ journal'.needs = TRUE /\ journal'.boot = journal.boot
        /\ journal'.changes = [journal.changes EXCEPT ![k].state = "confirmed"]
        /\ mem' = journal'
    <3>1. /\ journal' = [journal EXCEPT !.confirmed = journal.changes[k].cand, !.needs = TRUE,
                           !.changes[k].state = "confirmed", !.pending = None]
          /\ mem' = journal'
      BY <1>4 DEF Confirm, Enter
    <3> QED BY <1>2, <3>1 DEF Journals
  <2>2. op' = [kind |-> "confirm", by |-> "hostd", k |-> k, pc |-> "file", from |-> None,
               to |-> journal.changes[k].cand, want |-> NoServices]
    BY <2>1 DEF Confirm, Enter
  <2>3. [journal.changes EXCEPT ![k].state = "confirmed"] \in [Keys -> Change \cup {None}]
    BY <1>2, <1>3 DEF Journals
  <2>4. journal' \in Journals
    <3>1. journal' = [journal EXCEPT !.confirmed = journal.changes[k].cand, !.needs = TRUE,
                        !.changes[k].state = "confirmed", !.pending = None]
      BY <1>4 DEF Confirm
    <3> QED BY <1>2, <1>3, <2>3, <3>1 DEF Journals
  <2>5. TypeOK'
    BY <1>1, <2>4 DEF Inv, TypeOK
  <2>6. Working' /\ Fresh'
    BY <1>3, <2>1, <2>2 DEF Working, Operations, Steps, Kinds, Applying, Services, NoServices,
           Fresh
  <2>7. Booting' /\ Pending' /\ FileFits'
    BY <1>1, <2>1, <2>2 DEF Inv, Booting, Pending, FileFits
  <2>8. ServicesOwned' /\ AddressOwnedOnce' /\ Announced'
    BY <1>1, <2>1, <2>2 DEF Inv, ServicesOwned, AddressOwnedOnce, Announced, Owned, NoServices
  <2> QED BY <2>5, <2>6, <2>7, <2>8 DEF Inv
<1>5. CASE ~Before(k)
  <2>1. journal' = journal /\ mem' = journal
    BY <1>5 DEF Confirm, Restore, Enter
  <2>2. op' = [kind |-> "restore", by |-> "hostd", k |-> k, pc |-> "detach",
               from |-> journal.changes[k].cand, to |-> journal.confirmed, want |-> NoServices]
    BY <1>2, <1>5 DEF Confirm, Restore, Enter
  <2>3. TypeOK'
    BY <1>1, <2>1 DEF Inv, TypeOK
  <2>4. Working' /\ Fresh'
    BY <1>2, <1>3, <2>1, <2>2 DEF Working, Operations, Steps, Kinds, Applying, Services,
           NoServices, Fresh
  <2>5. Booting' /\ Pending' /\ FileFits'
    BY <1>1, <2>1, <2>2 DEF Inv, Booting, Pending, FileFits, FromFile
  <2>6. ServicesOwned' /\ AddressOwnedOnce' /\ Announced'
    BY <1>1, <2>1, <2>2 DEF Inv, ServicesOwned, AddressOwnedOnce, Announced, NoServices
  <2> QED BY <2>3, <2>4, <2>5, <2>6 DEF Inv
<1> QED BY <1>4, <1>5

\* Only the pending change is undone.
LEMMA RollbackKeeps ==
  ASSUME Inv, NEW k \in Keys, NEW by \in {"hostd", "timer"}, Rollback(k, by)
  PROVE  Inv'
<1> USE HostNetworkAssumption
<1>1. TypeOK'
  BY DEF Inv, TypeOK, Rollback, Enter, Locked, Restore, disk, bounds
<1>2. Working'
  <2>1. op' \in Operations
    BY DEF Inv, Rollback, Enter, Locked, Restore, disk, bounds, TypeOK, Journals, Change,
           Working, Operations, Applying, Steps, Kinds, Idle, Pending, Configs
  <2> QED BY <2>1 DEF Inv, Rollback, Enter, Locked, Restore, disk, bounds, TypeOK, Journals,
                 Change, Working, Pending, Configs
<1>3. Fresh' /\ Booting'
  BY DEF Inv, Rollback, Enter, Locked, Restore, disk, bounds, Fresh, Booting
<1>4. Pending'
  BY DEF Inv, Rollback, Enter, Locked, Restore, disk, bounds, Pending
<1>5. FileFits'
  BY DEF Inv, Rollback, Enter, Locked, Restore, disk, bounds, FileFits, FromFile
<1>6. ServicesOwned' /\ AddressOwnedOnce' /\ Announced'
  BY DEF Inv, Rollback, Enter, Locked, Restore, disk, bounds, ServicesOwned, AddressOwnedOnce,
         Announced, NoServices
<1> QED BY <1>1, <1>2, <1>3, <1>4, <1>5, <1>6 DEF Inv

\* A filled-in pool marks network.toml as out of date.
LEMMA MigrateDefaultKeeps ==
  ASSUME Inv, MigrateDefault
  PROVE  Inv'
<1> USE HostNetworkAssumption
<1>0. [journal.confirmed EXCEPT !.pool = Pool] \in Configs
  BY ConfigFields DEF Inv, TypeOK, Journals
<1>1. TypeOK'
  <2>1. journal' \in Journals
    BY <1>0 DEF Inv, TypeOK, Journals, Change, MigrateDefault, Enter, Locked, systemd, bounds,
           Working, Operations, Applying, Steps, Kinds, Idle, Fresh, Pending, Services,
           States, NoServices
  <2> QED BY <2>1 DEF Inv, TypeOK, MigrateDefault, Enter, Locked, systemd, bounds
<1>2. Working'
  <2>1. op' \in Operations
    BY <1>0 DEF Inv, MigrateDefault, Enter, Locked, systemd, bounds, TypeOK, Journals, Change,
           Working, Operations, Applying, Steps, Kinds, Idle, Services, NoServices, Pending,
           Fresh, Configs
  <2>2. op'.pc = "none" => op' = Idle
    BY <1>0 DEF MigrateDefault, Enter, Locked, systemd, bounds
  <2> QED BY <1>0, <2>1, <2>2 DEF Inv, MigrateDefault, Enter, Locked, systemd, bounds, TypeOK,
                 Journals, Change, Working, Operations, Applying, Steps, Kinds, Idle, Pending,
                 Fresh, Configs
<1>3. Fresh' /\ Booting'
  BY DEF Inv, MigrateDefault, Enter, Locked, systemd, bounds, Fresh, Booting
<1>4. Pending'
  BY <1>0 DEF Inv, MigrateDefault, Enter, Locked, systemd, bounds, Pending
<1>5. FileFits'
  BY <1>0 DEF Inv, MigrateDefault, Enter, Locked, systemd, bounds, FileFits, FromFile
<1>6. ServicesOwned' /\ AddressOwnedOnce' /\ Announced'
  BY DEF Inv, MigrateDefault, Enter, Locked, systemd, bounds, ServicesOwned, AddressOwnedOnce,
         Announced, Owned, NoServices
<1> QED BY <1>1, <1>2, <1>3, <1>4, <1>5, <1>6 DEF Inv

\* A change of the adapters leaves the addresses alone.
LEMMA HotplugKeeps ==
  ASSUME Inv, Hotplug
  PROVE  Inv'
<1> USE HostNetworkAssumption
<1>1. TypeOK'
  <2>1. kernel' \in Kernels
    BY DEF Inv, TypeOK, Kernels, Hotplug, disk, systemd, Working, Operations, Applying, Steps,
           Kinds, Idle, Announced, StaticAddrs, Owned
  <2>2. proc' \in Processes
    BY DEF Inv, TypeOK, Processes, Hotplug, disk, systemd, Working, Operations, Applying,
           Steps, Kinds, Idle
  <2> QED BY <2>1, <2>2 DEF Inv, TypeOK, Hotplug, disk, systemd
<1>2. Working'
  BY DEF Inv, Hotplug, disk, systemd, Working, Operations, Applying, Steps
<1>3. Fresh' /\ Booting'
  BY DEF Inv, Hotplug, disk, systemd, Fresh, Booting
<1>4. Pending'
  BY DEF Inv, Hotplug, disk, systemd, Pending
<1>5. FileFits'
  BY DEF Inv, Hotplug, disk, systemd, FileFits, FromFile
<1>6. ServicesOwned' /\ AddressOwnedOnce' /\ Announced'
  BY DEF Inv, Hotplug, disk, systemd, ServicesOwned, AddressOwnedOnce, Announced
<1> QED BY <1>1, <1>2, <1>3, <1>4, <1>5, <1>6 DEF Inv

\* Watch applies what is confirmed.
LEMMA WatchKeeps ==
  ASSUME Inv, Watch
  PROVE  Inv'
<1> USE HostNetworkAssumption
<1>1. TypeOK'
  <2>1. proc' \in Processes
    BY DEF Inv, TypeOK, Processes, Watch, Enter, Locked, disk, systemd, bounds, Working,
           Operations, Applying, Steps, Kinds, Idle
  <2> QED BY <2>1 DEF Inv, TypeOK, Watch, Enter, Locked, disk, systemd, bounds
<1>2. Working'
  BY DEF Inv, Watch, Enter, Locked, disk, systemd, bounds, TypeOK, Journals, Working,
         Operations, Applying, Steps, Kinds, Idle
<1>3. Fresh' /\ Booting'
  BY DEF Inv, Watch, Enter, Locked, disk, systemd, bounds, Fresh, Booting
<1>4. Pending'
  BY DEF Inv, Watch, Enter, Locked, disk, systemd, bounds, Pending
<1>5. FileFits'
  BY DEF Inv, Watch, Enter, Locked, disk, systemd, bounds, FileFits, FromFile
<1>6. ServicesOwned' /\ AddressOwnedOnce' /\ Announced'
  BY DEF Inv, Watch, Enter, Locked, disk, systemd, bounds, ServicesOwned, AddressOwnedOnce,
         Announced, NoServices
<1> QED BY <1>1, <1>2, <1>3, <1>4, <1>5, <1>6 DEF Inv

\* Links move, addresses stay.
LEMMA DetachKeeps ==
  ASSUME Inv, Detach
  PROVE  Inv'
<1> USE HostNetworkAssumption
<1>1. TypeOK'
  <2>1. kernel' \in Kernels
    BY DEF Inv, TypeOK, Kernels, Detach, Goto, disk, systemd, bounds, Working, Operations,
           Applying, Steps, Kinds, Idle, Announced, StaticAddrs, Owned
  <2> QED BY <2>1 DEF Inv, TypeOK, Detach, Goto, disk, systemd, bounds
<1>2. Working'
  BY DEF Inv, Detach, Goto, disk, systemd, bounds, Working, Operations, Applying, Steps
<1>3. Fresh' /\ Booting'
  BY DEF Inv, Detach, Goto, disk, systemd, bounds, Idle, Fresh, Booting
<1>4. Pending'
  BY DEF Inv, Detach, Goto, disk, systemd, bounds, Applying, Pending
<1>5. FileFits'
  BY DEF Inv, Detach, Goto, disk, systemd, bounds, FileFits, FromFile
<1>6. ServicesOwned' /\ AddressOwnedOnce' /\ Announced'
  BY DEF Inv, Detach, Goto, disk, systemd, bounds, ServicesOwned, AddressOwnedOnce, Announced
<1> QED BY <1>1, <1>2, <1>3, <1>4, <1>5, <1>6 DEF Inv

\* Links move, addresses stay.
LEMMA AttachKeeps ==
  ASSUME Inv, Attach
  PROVE  Inv'
<1> USE HostNetworkAssumption
<1>0. op.to.top \in Tops
  BY ConfigFields DEF Attach, Inv, Working, Applying
<1>1. TypeOK'
  <2>1. kernel' \in Kernels
    BY <1>0 DEF Inv, TypeOK, Kernels, Attach, Goto, disk, systemd, bounds
  <2> QED BY <2>1 DEF Inv, TypeOK, Attach, Goto, disk, systemd, bounds
<1>2. Working'
  BY DEF Inv, Attach, Goto, disk, systemd, bounds, Working, Operations, Applying, Steps
<1>3. Fresh' /\ Booting'
  BY DEF Inv, Attach, Goto, disk, systemd, bounds, Idle, Fresh, Booting
<1>4. Pending'
  BY DEF Inv, Attach, Goto, disk, systemd, bounds, Applying, Pending
<1>5. FileFits'
  BY <1>0 DEF Inv, Attach, Goto, disk, systemd, bounds, FileFits, FromFile
<1>6. ServicesOwned' /\ AddressOwnedOnce' /\ Announced'
  BY DEF Inv, Attach, Goto, disk, systemd, bounds, ServicesOwned, AddressOwnedOnce, Announced
<1> QED BY <1>1, <1>2, <1>3, <1>4, <1>5, <1>6 DEF Inv

\* A static address leaves the bridge.
LEMMA DeletePreviousKeeps ==
  ASSUME Inv, DeletePrevious
  PROVE  Inv'
<1> USE HostNetworkAssumption
<1>1. TypeOK'
  BY DEF Inv, TypeOK, Kernels, DeletePrevious, Goto, disk, systemd, bounds
<1>2. Working'
  BY DEF Inv, DeletePrevious, Goto, disk, systemd, bounds, Working, Operations, Applying,
         Steps
<1>3. Fresh' /\ Booting'
  BY DEF Inv, DeletePrevious, Goto, disk, systemd, bounds, Idle, Fresh, Booting
<1>4. Pending'
  BY DEF Inv, DeletePrevious, Goto, disk, systemd, bounds, Applying, Pending
<1>5. FileFits'
  BY DEF Inv, DeletePrevious, Goto, disk, systemd, bounds, FileFits, FromFile
<1>6. ServicesOwned' /\ AddressOwnedOnce' /\ Announced'
  BY DEF Inv, DeletePrevious, Goto, disk, systemd, bounds, ServicesOwned, AddressOwnedOnce,
         Announced
<1> QED BY <1>1, <1>2, <1>3, <1>4, <1>5, <1>6 DEF Inv

\* What comes to the bridge is the static address and the services of the journal.
LEMMA AddAddressesKeeps ==
  ASSUME Inv, AddAddresses
  PROVE  Inv'
<1> USE HostNetworkAssumption
<1>1. TypeOK'
  BY DEF Inv, TypeOK, Journals, Kernels, AddAddresses, Goto, disk, systemd, bounds, Working,
         Applying, Fresh, StaticAddrs, Owned
<1>2. Working'
  BY DEF Inv, AddAddresses, Goto, disk, systemd, bounds, Working, Operations, Applying, Steps
<1>3. Fresh' /\ Booting'
  BY DEF Inv, AddAddresses, Goto, disk, systemd, bounds, Idle, Fresh, Booting
<1>4. Pending'
  BY DEF Inv, AddAddresses, Goto, disk, systemd, bounds, Applying, Pending
<1>5. FileFits'
  BY DEF Inv, AddAddresses, Goto, disk, systemd, bounds, FileFits, FromFile
<1>6. ServicesOwned' /\ AddressOwnedOnce' /\ Announced'
  BY DEF Inv, AddAddresses, Goto, disk, systemd, bounds, Working, Applying, Fresh,
         ServicesOwned, AddressOwnedOnce, Announced, StaticAddrs
<1> QED BY <1>1, <1>2, <1>3, <1>4, <1>5, <1>6 DEF Inv

\* The unit of DHCP changes no address of ours.
LEMMA WriteUnitKeeps ==
  ASSUME Inv, WriteUnit
  PROVE  Inv'
<1> USE HostNetworkAssumption
<1>1. TypeOK'
  <2>1. kernel' \in Kernels
    BY DEF Inv, TypeOK, Kernels, WriteUnit, Goto, disk, systemd, bounds, Working, Operations,
           Applying, Steps, Kinds, Idle, Announced, StaticAddrs, Owned
  <2> QED BY <2>1 DEF Inv, TypeOK, WriteUnit, Goto, disk, systemd, bounds
<1>2. Working'
  BY DEF Inv, WriteUnit, Goto, disk, systemd, bounds, Working, Operations, Applying, Steps
<1>3. Fresh' /\ Booting'
  BY DEF Inv, WriteUnit, Goto, disk, systemd, bounds, Idle, Fresh, Booting
<1>4. Pending'
  BY DEF Inv, WriteUnit, Goto, disk, systemd, bounds, Applying, Pending
<1>5. FileFits'
  BY DEF Inv, WriteUnit, Goto, disk, systemd, bounds, FileFits, FromFile
<1>6. ServicesOwned' /\ AddressOwnedOnce' /\ Announced'
  BY DEF Inv, WriteUnit, Goto, disk, systemd, bounds, ServicesOwned, AddressOwnedOnce,
         Announced
<1> QED BY <1>1, <1>2, <1>3, <1>4, <1>5, <1>6 DEF Inv

\* A lease is none of our addresses.
LEMMA LeaseKeeps ==
  ASSUME Inv, Lease
  PROVE  Inv'
<1> USE HostNetworkAssumption
<1>1. TypeOK'
  BY DEF Inv, TypeOK, Kernels, Lease, disk, systemd, bounds
<1>2. Working'
  BY DEF Inv, Lease, disk, systemd, bounds, Working, Operations, Applying, Steps
<1>3. Fresh' /\ Booting'
  BY DEF Inv, Lease, disk, systemd, bounds, Fresh, Booting
<1>4. Pending'
  BY DEF Inv, Lease, disk, systemd, bounds, Pending
<1>5. FileFits'
  BY DEF Inv, Lease, disk, systemd, bounds, FileFits, FromFile
<1>6. ServicesOwned' /\ AddressOwnedOnce' /\ Announced'
  BY DEF Inv, Lease, disk, systemd, bounds, ServicesOwned, AddressOwnedOnce, Announced
<1> QED BY <1>1, <1>2, <1>3, <1>4, <1>5, <1>6 DEF Inv

\* Verifying changes nothing.
LEMMA VerifyKeeps ==
  ASSUME Inv, Verify
  PROVE  Inv'
<1> USE HostNetworkAssumption
<1>1. TypeOK'
  BY DEF Inv, TypeOK, Verify, Goto, disk, systemd, bounds
<1>2. Working'
  BY DEF Inv, Verify, Goto, disk, systemd, bounds, Working, Operations, Applying, Steps
<1>3. Fresh' /\ Booting'
  BY DEF Inv, Verify, Goto, disk, systemd, bounds, Idle, Fresh, Booting
<1>4. Pending'
  BY DEF Inv, Verify, Goto, disk, systemd, bounds, Applying, Pending
<1>5. FileFits'
  BY DEF Inv, Verify, Goto, disk, systemd, bounds, FileFits, FromFile
<1>6. ServicesOwned' /\ AddressOwnedOnce' /\ Announced'
  BY DEF Inv, Verify, Goto, disk, systemd, bounds, ServicesOwned, AddressOwnedOnce, Announced
<1> QED BY <1>1, <1>2, <1>3, <1>4, <1>5, <1>6 DEF Inv

\* The settings that were started are the confirmed ones, and a pending change is closed.
LEMMA InitAppliedKeeps ==
  ASSUME Inv, InitApplied
  PROVE  Inv'
<1> USE HostNetworkAssumption
<1>0. /\ op.k = journal.pending /\ mem = journal /\ op.to \in Configs
      /\ op.k # None => /\ op.k \in Keys
                        /\ [journal.changes[op.k] EXCEPT !.state = "rolled_back"] \in Change
  <2>1. op.k = journal.pending /\ mem = journal /\ op.to \in Configs
    BY DEF InitApplied, Inv, Working, Pending, Fresh, Applying
  <2> QED BY <2>1, PendingChange, ChangeFields DEF States
<1>1. TypeOK'
  <2>1. journal' \in Journals
    <3> DEFINE t == [journal EXCEPT !.confirmed = op.to, !.has = TRUE, !.startup = None,
                                    !.needs = TRUE, !.pending = None]
    <3>1. mem = journal /\ op.to \in Configs /\ journal \in Journals
      BY <1>0 DEF Inv, TypeOK
    <3>2. t \in Journals /\ t.changes = journal.changes
      BY <3>1 DEF Journals
    <3>3. journal' = IF op.k = None THEN t ELSE [t EXCEPT !.changes[op.k].state = "rolled_back"]
      BY <3>1, Zenon DEF InitApplied
    <3> HIDE DEF t
    <3>4. CASE op.k # None
      <4>1. [t.changes EXCEPT ![op.k].state = "rolled_back"] \in [Keys -> Change \cup {None}]
        BY <1>0, <3>1, <3>2, <3>4 DEF Journals
      <4> QED BY <3>2, <3>3, <3>4, <4>1 DEF Journals
    <3> QED BY <3>2, <3>3, <3>4
  <2> QED BY <2>1 DEF Inv, TypeOK, InitApplied, systemd, bounds
<1>2. Working'
  BY DEF Inv, InitApplied, systemd, bounds, Working, Operations, Applying, Steps
<1>3. Fresh' /\ Booting'
  BY DEF Inv, InitApplied, systemd, bounds, Idle, Fresh, Booting
<1>4. Pending'
  BY <1>0 DEF Inv, InitApplied, systemd, bounds, Applying, Pending
<1>5. FileFits'
  BY <1>0 DEF Inv, InitApplied, systemd, bounds, FileFits, FromFile
<1>6. ServicesOwned' /\ AddressOwnedOnce' /\ Announced'
  BY DEF Inv, InitApplied, systemd, bounds, Fresh, ServicesOwned, AddressOwnedOnce, Announced,
         Owned
<1> QED BY <1>1, <1>2, <1>3, <1>4, <1>5, <1>6 DEF Inv

\* An applied change waits for its confirmation, or is undone after its deadline.
LEMMA ChangeAppliedKeeps ==
  ASSUME Inv, ChangeApplied
  PROVE  Inv'
<1> USE HostNetworkAssumption
<1>0. /\ op.k = journal.pending /\ op.k \in Keys /\ mem = journal
      /\ journal.changes[op.k] \in Change /\ journal.changes[op.k] # None
      /\ journal.changes[op.k].prev = journal.confirmed
  <2>1. op.k = journal.pending /\ op.k \in Keys /\ mem = journal
    BY DEF ChangeApplied, Inv, Working, Pending, Fresh
  <2>2. journal.changes[op.k] \in Change
    BY <2>1, PendingChange
  <2> QED BY <2>1, <2>2 DEF Inv, Pending
<1>1. TypeOK'
  BY DEF Inv, TypeOK, Journals, Change, ChangeApplied, Enter, Leave, Restore, bounds, Fresh,
         Pending, States
<1>2. Working'
  <2>1. op' \in Operations
    BY <1>0 DEF Inv, ChangeApplied, Enter, Leave, Restore, bounds, TypeOK, Journals, Change,
           Working, Operations, Applying, Steps, Kinds, Idle, Services, NoServices, Configs
  <2> QED BY <1>0, <2>1 DEF Inv, ChangeApplied, Enter, Leave, Restore, bounds, TypeOK,
                 Journals, Change, Working, Applying, Idle, Configs
<1>3. Fresh' /\ Booting'
  BY DEF Inv, ChangeApplied, Enter, Leave, Restore, bounds, TypeOK, Journals, Idle, Fresh,
         Booting
<1>4. Pending'
  <2>1. CASE Before(op.k)
    <3>1. /\ journal'.pending = op.k /\ journal'.confirmed = journal.confirmed /\ op' = Idle
          /\ journal'.changes[op.k] = [journal.changes[op.k] EXCEPT !.state = "awaiting_confirmation"]
      BY <1>0, <2>1 DEF ChangeApplied, Leave, Inv, TypeOK, Journals
    <3>2. /\ journal'.changes[op.k] \in Change /\ journal'.changes[op.k].state = "awaiting_confirmation"
          /\ journal'.changes[op.k].prev = journal.confirmed
      <4>1. journal.changes[op.k] \in Change /\ "awaiting_confirmation" \in States
        BY <1>0, Zenon DEF States
      <4> DEFINE new == [journal.changes[op.k] EXCEPT !.state = "awaiting_confirmation"]
      <4>2. new \in Change /\ new.state = "awaiting_confirmation" /\ new.prev = journal.changes[op.k].prev
        BY <4>1, ChangeFields, Zenon
      <4> HIDE DEF new
      <4>3. journal'.changes[op.k] = new
        BY <3>1 DEF new
      <4> QED BY <1>0, <4>2, <4>3
    <3> QED BY <3>1, <3>2 DEF Pending, Idle
  <2>2. CASE ~Before(op.k)
    <3>1. /\ journal' = journal /\ op'.kind = "restore" /\ op'.k = op.k /\ op'.pc = "detach"
          /\ op'.to = journal.confirmed
      BY <1>0, <2>2 DEF ChangeApplied, Restore, Enter
    <3> QED BY <1>0, <3>1 DEF Pending, Inv
  <2> QED BY <2>1, <2>2
<1>5. FileFits'
  BY <1>0 DEF Inv, ChangeApplied, Enter, Leave, Restore, bounds, TypeOK, Journals, Idle,
         FileFits, FromFile
<1>6. ServicesOwned' /\ AddressOwnedOnce' /\ Announced'
  BY DEF Inv, ChangeApplied, Enter, Leave, Restore, bounds, TypeOK, Journals, Idle, Fresh,
         ServicesOwned, AddressOwnedOnce, Announced, Owned, NoServices
<1> QED BY <1>1, <1>2, <1>3, <1>4, <1>5, <1>6 DEF Inv

\* The file is restored to the confirmed settings.
LEMMA RestoreFileKeeps ==
  ASSUME Inv, RestoreFile
  PROVE  Inv'
<1> USE HostNetworkAssumption
<1>1. TypeOK'
  <2>1. file' \in Configs \cup {Absent, Invalid}
    BY DEF Inv, RestoreFile, Goto, systemd, bounds, Working, Applying
  <2> QED BY <2>1 DEF Inv, TypeOK, RestoreFile, Goto, systemd, bounds, Working, Operations,
                 Applying, Steps, Kinds, Idle
<1>2. Working'
  BY DEF Inv, RestoreFile, Goto, systemd, bounds, Working, Operations, Applying, Steps
<1>3. Fresh' /\ Booting'
  BY DEF Inv, RestoreFile, Goto, systemd, bounds, Idle, Fresh, Booting
<1>4. Pending'
  BY DEF Inv, RestoreFile, Goto, systemd, bounds, Pending
<1>5. FileFits'
  BY DEF Inv, RestoreFile, Goto, systemd, bounds, TypeOK, Journals, Pending, FileFits,
         FromFile
<1>6. ServicesOwned' /\ AddressOwnedOnce' /\ Announced'
  BY DEF Inv, RestoreFile, Goto, systemd, bounds, ServicesOwned, AddressOwnedOnce, Announced
<1> QED BY <1>1, <1>2, <1>3, <1>4, <1>5, <1>6 DEF Inv

\* A change that was undone is closed.
LEMMA RestoreSaveKeeps ==
  ASSUME Inv, RestoreSave
  PROVE  Inv'
<1> USE HostNetworkAssumption
<1>0. op.k = journal.pending /\ op.k \in Keys /\ mem = journal /\ op.to \in Configs
      /\ [journal.changes[op.k] EXCEPT !.state = "rolled_back"] \in Change
  <2>1. op.k = journal.pending /\ op.k \in Keys /\ mem = journal /\ op.to \in Configs
    BY DEF RestoreSave, Inv, Working, Pending, Fresh
  <2>2. journal.changes[op.k] \in Change
    BY <2>1, PendingChange
  <2> QED BY <2>1, <2>2, ChangeFields DEF States
<1>1. TypeOK'
  <2>1. journal' \in Journals
    BY <1>0 DEF Inv, TypeOK, Journals, Change, RestoreSave, Goto, systemd, bounds, Working,
           Operations, Applying, Steps, Kinds, Idle, Fresh, Pending, Services, States,
           NoServices
  <2> QED BY <2>1 DEF Inv, TypeOK, RestoreSave, Goto, systemd, bounds
<1>2. Working'
  BY DEF Inv, RestoreSave, Goto, systemd, bounds, Working, Operations, Applying, Steps
<1>3. Fresh' /\ Booting'
  BY DEF Inv, RestoreSave, Goto, systemd, bounds, Idle, Fresh, Booting
<1>4. Pending'
  BY <1>0 DEF Inv, RestoreSave, Goto, systemd, bounds, Working, Pending
<1>5. FileFits'
  BY <1>0 DEF Inv, RestoreSave, Goto, systemd, bounds, Working, Pending, FileFits, FromFile
<1>6. ServicesOwned' /\ AddressOwnedOnce' /\ Announced'
  BY DEF Inv, RestoreSave, Goto, systemd, bounds, Fresh, ServicesOwned, AddressOwnedOnce,
         Announced, Owned
<1> QED BY <1>1, <1>2, <1>3, <1>4, <1>5, <1>6 DEF Inv

\* The end of a Watch.
LEMMA ReconciledKeeps ==
  ASSUME Inv, Reconciled
  PROVE  Inv'
<1> USE HostNetworkAssumption
<1>1. TypeOK'
  BY DEF Inv, TypeOK, Reconciled, Leave, disk, bounds, Working
<1>2. Working'
  BY DEF Reconciled, Leave, disk, bounds, Working, Operations, Applying, Steps, Kinds, Idle,
         Services, NoServices
<1>3. Fresh' /\ Booting'
  BY DEF Inv, Reconciled, Leave, disk, bounds, Idle, Fresh, Booting
<1>4. Pending'
  BY DEF Inv, Reconciled, Leave, disk, bounds, Idle, Pending
<1>5. FileFits'
  BY DEF Inv, Reconciled, Leave, disk, bounds, Idle, FileFits, FromFile
<1>6. ServicesOwned' /\ AddressOwnedOnce' /\ Announced'
  BY DEF Inv, Reconciled, Leave, disk, bounds, Idle, ServicesOwned, AddressOwnedOnce,
         Announced, NoServices
<1> QED BY <1>1, <1>2, <1>3, <1>4, <1>5, <1>6 DEF Inv

\* The file follows the journal.
LEMMA WriteConfigKeeps ==
  ASSUME Inv, WriteConfig
  PROVE  Inv'
<1> USE HostNetworkAssumption
<1>1. TypeOK'
  <2>1. file' \in Configs \cup {Absent, Invalid}
    BY DEF Inv, TypeOK, Journals, WriteConfig, Goto, systemd, bounds, Fresh
  <2> QED BY <2>1 DEF Inv, TypeOK, WriteConfig, Goto, systemd, bounds, Working, Operations,
                 Applying, Steps, Kinds, Idle
<1>2. Working'
  BY DEF Inv, WriteConfig, Goto, systemd, bounds, Working, Operations, Applying, Steps
<1>3. Fresh' /\ Booting'
  BY DEF Inv, WriteConfig, Goto, systemd, bounds, Idle, Fresh, Booting
<1>4. Pending'
  BY DEF Inv, WriteConfig, Goto, systemd, bounds, Applying, Pending
<1>5. FileFits'
  BY DEF Inv, WriteConfig, Goto, systemd, bounds, Fresh, FileFits
<1>6. ServicesOwned' /\ AddressOwnedOnce' /\ Announced'
  BY DEF Inv, WriteConfig, Goto, systemd, bounds, ServicesOwned, AddressOwnedOnce, Announced
<1> QED BY <1>1, <1>2, <1>3, <1>4, <1>5, <1>6 DEF Inv

\* The mark is taken off when the file is written.
LEMMA SettleKeeps ==
  ASSUME Inv, Settle
  PROVE  Inv'
<1> USE HostNetworkAssumption
<1>1. TypeOK'
  <2>1. journal' \in Journals
    BY DEF Inv, TypeOK, Journals, Change, Settle, Goto, Leave, Started, bounds, Working,
           Operations, Applying, Steps, Kinds, Idle, Fresh, Pending, Services, States,
           NoServices
  <2>2. proc' \in Processes
    BY DEF Inv, TypeOK, Processes, Settle, Goto, Leave, Started, bounds
  <2> QED BY <2>1, <2>2 DEF Inv, TypeOK, Settle, Goto, Leave, Started, bounds
<1>2. Working'
  BY DEF Inv, Settle, Goto, Leave, Started, bounds, Working, Operations, Applying, Steps,
         Kinds, Idle, Services, NoServices
<1>3. Fresh' /\ Booting'
  BY DEF Inv, Settle, Goto, Leave, Started, bounds, Working, Operations, Idle, Fresh, Booting
<1>4. Pending'
  BY DEF Inv, Settle, Goto, Leave, Started, bounds, Working, Operations, Idle, Fresh, Pending
<1>5. FileFits'
  BY DEF Inv, Settle, Goto, Leave, Started, bounds, TypeOK, Journals, Working, Operations,
         Idle, Fresh, FileFits, FromFile
<1>6. ServicesOwned' /\ AddressOwnedOnce' /\ Announced'
  BY DEF Inv, Settle, Goto, Leave, Started, bounds, Working, Operations, Idle, Fresh,
         ServicesOwned, AddressOwnedOnce, Announced, Owned, NoServices
<1> QED BY <1>1, <1>2, <1>3, <1>4, <1>5, <1>6 DEF Inv

\* Cancelling the timer changes no settings.
LEMMA CancelKeeps ==
  ASSUME Inv, Cancel
  PROVE  Inv'
<1> USE HostNetworkAssumption
<1>1. TypeOK'
  BY DEF Inv, TypeOK, Cancel, disk, bounds, Working
<1>2. Working'
  BY DEF Cancel, disk, bounds, Working, Operations, Applying, Steps, Kinds, Idle, Services,
         NoServices
<1>3. Fresh' /\ Booting'
  BY DEF Inv, Cancel, disk, bounds, Idle, Fresh, Booting
<1>4. Pending'
  BY DEF Inv, Cancel, disk, bounds, Idle, Pending
<1>5. FileFits'
  BY DEF Inv, Cancel, disk, bounds, Idle, FileFits, FromFile
<1>6. ServicesOwned' /\ AddressOwnedOnce' /\ Announced'
  BY DEF Inv, Cancel, disk, bounds, Idle, ServicesOwned, AddressOwnedOnce, Announced,
         NoServices
<1> QED BY <1>1, <1>2, <1>3, <1>4, <1>5, <1>6 DEF Inv

\* A new address is in the journal, of one stack, before it is announced.
LEMMA AddServiceKeeps ==
  ASSUME Inv, NEW s \in Stacks, NEW a \in SvcAddrs, AddService(s, a)
  PROVE  Inv'
<1> USE HostNetworkAssumption
<1>0. op' = [kind |-> "service", by |-> "hostd", k |-> None, pc |-> "announce", from |-> None, to |-> a,
             want |-> NoServices]
  BY DEF AddService, Idle
<1>1. TypeOK'
  BY DEF Inv, TypeOK, Journals, AddService, Locked, systemd, bounds
<1>2. Working'
  <2>1. op' \in Operations
    BY <1>0 DEF Inv, AddService, Locked, systemd, bounds, TypeOK, Journals, Change, Working,
           Operations, Applying, Steps, Kinds, Idle, Pending, Configs
  <2> QED BY <2>1 DEF AddService, Locked, systemd, bounds, Working, Applying
<1>3. Fresh' /\ Booting'
  BY DEF Inv, AddService, Locked, systemd, bounds, Fresh, Booting
<1>4. Pending'
  BY <1>0 DEF Inv, AddService, Locked, systemd, bounds, Pending
<1>5. FileFits'
  BY <1>0 DEF Inv, AddService, Locked, systemd, bounds, FileFits, FromFile
<1>6. ServicesOwned' /\ AddressOwnedOnce' /\ Announced'
  BY DEF Inv, AddService, Locked, systemd, bounds, TypeOK, Journals, ServicesOwned,
         AddressOwnedOnce, Announced, Owned
<1> QED BY <1>1, <1>2, <1>3, <1>4, <1>5, <1>6 DEF Inv

\* What is announced is in the journal.
LEMMA AnnounceKeeps ==
  ASSUME Inv, Announce
  PROVE  Inv'
<1> USE HostNetworkAssumption
<1>0. op.to \in SvcAddrs
  BY DEF Announce, Inv, Announced, Owned, TypeOK, Journals
<1>1. TypeOK'
  <2>1. kernel' \in Kernels
    BY <1>0 DEF Inv, TypeOK, Kernels, Announce, Leave, disk, bounds
  <2> QED BY <2>1 DEF Inv, TypeOK, Announce, Leave, disk, bounds, Working
<1>2. Working'
  BY DEF Announce, Leave, disk, bounds, Working, Operations, Applying, Steps, Kinds, Idle,
         Services, NoServices
<1>3. Fresh' /\ Booting'
  BY DEF Inv, Announce, Leave, disk, bounds, Idle, Fresh, Booting
<1>4. Pending'
  BY DEF Inv, Announce, Leave, disk, bounds, Idle, Pending
<1>5. FileFits'
  BY <1>0 DEF Inv, Announce, Leave, disk, bounds, Idle, FileFits, FromFile
<1>6. ServicesOwned' /\ AddressOwnedOnce' /\ Announced'
  BY DEF Inv, Announce, Leave, disk, bounds, Idle, ServicesOwned, AddressOwnedOnce, Announced,
         NoServices
<1> QED BY <1>1, <1>2, <1>3, <1>4, <1>5, <1>6 DEF Inv

\* An address leaves the bridge first.
LEMMA DelServiceKeeps ==
  ASSUME Inv, NEW s \in Stacks, NEW a \in SvcAddrs, DelService(s, a)
  PROVE  Inv'
<1> USE HostNetworkAssumption
<1>0. op' = [kind |-> "service", by |-> "hostd", k |-> s, pc |-> "forget", from |-> None, to |-> None,
             want |-> NoServices]
  BY DEF DelService, Idle
<1>1. TypeOK'
  BY DEF Inv, TypeOK, Kernels, DelService, Locked, disk, systemd, bounds
<1>2. Working'
  <2>1. op' \in Operations
    BY <1>0 DEF Inv, DelService, Locked, disk, systemd, bounds, TypeOK, Journals, Change,
           Working, Operations, Applying, Steps, Kinds, Idle, Pending, Configs
  <2>2. op'.pc = "none" => op' = Idle
    BY <1>0 DEF DelService, Locked, disk, systemd, bounds
  <2> QED BY <1>0, <2>1, <2>2 DEF DelService, Locked, disk, systemd, bounds, Working, Applying
<1>3. Fresh' /\ Booting'
  BY DEF Inv, DelService, Locked, disk, systemd, bounds, Fresh, Booting
<1>4. Pending'
  BY <1>0 DEF Inv, DelService, Locked, disk, systemd, bounds, Pending
<1>5. FileFits'
  BY <1>0 DEF Inv, DelService, Locked, disk, systemd, bounds, FileFits, FromFile
<1>6. ServicesOwned' /\ AddressOwnedOnce' /\ Announced'
  BY DEF Inv, DelService, Locked, disk, systemd, bounds, ServicesOwned, AddressOwnedOnce,
         Announced
<1> QED BY <1>1, <1>2, <1>3, <1>4, <1>5, <1>6 DEF Inv

\* What leaves the journal has left the bridge.
LEMMA ForgetKeeps ==
  ASSUME Inv, Forget
  PROVE  Inv'
<1> USE HostNetworkAssumption
<1>1. TypeOK'
  BY DEF Inv, TypeOK, Journals, Forget, Leave, bounds, Working, Fresh
<1>2. Working'
  BY DEF Forget, Leave, bounds, Working, Operations, Applying, Steps, Kinds, Idle, Services,
         NoServices
<1>3. Fresh' /\ Booting'
  BY DEF Inv, Forget, Leave, bounds, Idle, Fresh, Booting
<1>4. Pending'
  BY DEF Inv, Forget, Leave, bounds, Idle, Fresh, Pending
<1>5. FileFits'
  BY DEF Inv, Forget, Leave, bounds, Idle, Fresh, FileFits, FromFile
<1>6. ServicesOwned' /\ AddressOwnedOnce' /\ Announced'
  BY DEF Inv, Forget, Leave, bounds, Idle, Fresh, ServicesOwned, AddressOwnedOnce, Announced,
         Owned, NoServices
<1> QED BY <1>1, <1>2, <1>3, <1>4, <1>5, <1>6 DEF Inv

\* Wanted addresses are of one stack each.
LEMMA SyncServicesKeeps ==
  ASSUME Inv, NEW want \in Services, SyncServices(want)
  PROVE  Inv'
<1> USE HostNetworkAssumption
<1>0. op' = [kind |-> "sync", by |-> "hostd", k |-> None, pc |-> "drop", from |-> None, to |-> None,
             want |-> want]
  BY DEF SyncServices, Idle
<1>1. TypeOK'
  BY DEF Inv, TypeOK, SyncServices, Locked, disk, systemd, bounds
<1>2. Working'
  <2>1. op' \in Operations
    BY <1>0 DEF Inv, SyncServices, Locked, disk, systemd, bounds, TypeOK, Journals, Change,
           Working, Operations, Applying, Steps, Kinds, Idle, Pending, Configs
  <2>2. op'.pc = "none" => op' = Idle
    BY <1>0 DEF SyncServices, Locked, disk, systemd, bounds
  <2> QED BY <1>0, <2>1, <2>2 DEF SyncServices, Locked, disk, systemd, bounds, Working,
                 Applying
<1>3. Fresh' /\ Booting'
  BY DEF Inv, SyncServices, Locked, disk, systemd, bounds, Fresh, Booting
<1>4. Pending'
  BY <1>0 DEF Inv, SyncServices, Locked, disk, systemd, bounds, Pending
<1>5. FileFits'
  BY <1>0 DEF Inv, SyncServices, Locked, disk, systemd, bounds, FileFits, FromFile
<1>6. ServicesOwned' /\ AddressOwnedOnce' /\ Announced'
  BY DEF Inv, SyncServices, Locked, disk, systemd, bounds, ServicesOwned, AddressOwnedOnce,
         Announced
<1> QED BY <1>1, <1>2, <1>3, <1>4, <1>5, <1>6 DEF Inv

\* An address leaves the bridge first.
LEMMA DropStaleKeeps ==
  ASSUME Inv, NEW s \in Stacks, DropStale(s)
  PROVE  Inv'
<1> USE HostNetworkAssumption
<1>1. TypeOK'
  BY DEF Inv, TypeOK, Kernels, DropStale, disk, systemd, bounds
<1>2. Working'
  BY DEF Inv, DropStale, disk, systemd, bounds, TypeOK, Journals, Change, Kernels, Processes,
         Working, Operations, Applying, Steps, Kinds, Idle, Services, NoServices, Pending,
         Fresh
<1>3. Fresh' /\ Booting'
  BY DEF Inv, DropStale, disk, systemd, bounds, Idle, Fresh, Booting
<1>4. Pending'
  BY DEF Inv, DropStale, disk, systemd, bounds, Working, Pending
<1>5. FileFits'
  BY DEF Inv, DropStale, disk, systemd, bounds, FileFits, FromFile
<1>6. ServicesOwned' /\ AddressOwnedOnce' /\ Announced'
  BY DEF Inv, DropStale, disk, systemd, bounds, Fresh, ServicesOwned, AddressOwnedOnce,
         Announced, Owned
<1> QED BY <1>1, <1>2, <1>3, <1>4, <1>5, <1>6 DEF Inv

\* What leaves the journal has left the bridge.
LEMMA SaveDroppedKeeps ==
  ASSUME Inv, SaveDropped
  PROVE  Inv'
<1> USE HostNetworkAssumption
<1>1. TypeOK'
  BY DEF Inv, TypeOK, Journals, SaveDropped, systemd, bounds, Fresh
<1>2. Working'
  BY DEF Inv, SaveDropped, systemd, bounds, TypeOK, Journals, Change, Kernels, Processes,
         Working, Operations, Applying, Steps, Kinds, Idle, Services, NoServices, Pending,
         Fresh
<1>3. Fresh' /\ Booting'
  BY DEF Inv, SaveDropped, systemd, bounds, Idle, Fresh, Booting
<1>4. Pending'
  BY DEF Inv, SaveDropped, systemd, bounds, Working, Fresh, Pending
<1>5. FileFits'
  BY DEF Inv, SaveDropped, systemd, bounds, Fresh, FileFits, FromFile
<1>6. ServicesOwned' /\ AddressOwnedOnce' /\ Announced'
  BY DEF Inv, SaveDropped, systemd, bounds, Fresh, ServicesOwned, AddressOwnedOnce, Announced,
         Owned
<1> QED BY <1>1, <1>2, <1>3, <1>4, <1>5, <1>6 DEF Inv

\* With nothing stale left, a wanted address is nobody else's.
LEMMA TakeWantedKeeps ==
  ASSUME Inv, NEW s \in Stacks, TakeWanted(s)
  PROVE  Inv'
<1> USE HostNetworkAssumption
<1>1. TypeOK'
  BY DEF Inv, TypeOK, Journals, TakeWanted, systemd, bounds, Stale, Missing, Working,
         Operations, Fresh, Services
<1>2. Working'
  BY DEF Inv, TakeWanted, systemd, bounds, Stale, Missing, TypeOK, Journals, Change, Kernels,
         Processes, Working, Operations, Applying, Steps, Kinds, Idle, Services, NoServices,
         Pending, Fresh
<1>3. Fresh' /\ Booting'
  BY DEF Inv, TakeWanted, systemd, bounds, Stale, Missing, Idle, Fresh, Booting
<1>4. Pending'
  BY DEF Inv, TakeWanted, systemd, bounds, Stale, Missing, Working, Fresh, Pending
<1>5. FileFits'
  BY DEF Inv, TakeWanted, systemd, bounds, Stale, Missing, Fresh, FileFits, FromFile
<1>6. ServicesOwned' /\ AddressOwnedOnce' /\ Announced'
  BY DEF Inv, TakeWanted, systemd, bounds, Stale, Missing, TypeOK, Journals, Fresh,
         ServicesOwned, AddressOwnedOnce, Announced, Owned
<1> QED BY <1>1, <1>2, <1>3, <1>4, <1>5, <1>6 DEF Inv

\* What is announced is in the journal.
LEMMA AnnounceWantedKeeps ==
  ASSUME Inv, AnnounceWanted
  PROVE  Inv'
<1> USE HostNetworkAssumption
<1>0. op.want[op.k] \in SvcAddrs
  BY DEF AnnounceWanted, Inv, Announced, Working, Operations, Services
<1>1. TypeOK'
  <2>1. kernel' \in Kernels
    BY <1>0 DEF Inv, TypeOK, Kernels, AnnounceWanted, disk, systemd, bounds
  <2> QED BY <2>1 DEF Inv, TypeOK, AnnounceWanted, disk, systemd, bounds
<1>2. Working'
  BY DEF Inv, AnnounceWanted, disk, systemd, bounds, TypeOK, Journals, Change, Kernels,
         Processes, Working, Operations, Applying, Steps, Kinds, Idle, Services, NoServices,
         Pending, Fresh
<1>3. Fresh' /\ Booting'
  BY DEF Inv, AnnounceWanted, disk, systemd, bounds, Idle, Fresh, Booting
<1>4. Pending'
  BY <1>0 DEF Inv, AnnounceWanted, disk, systemd, bounds, Working, Pending
<1>5. FileFits'
  BY <1>0 DEF Inv, AnnounceWanted, disk, systemd, bounds, FileFits, FromFile
<1>6. ServicesOwned' /\ AddressOwnedOnce' /\ Announced'
  BY DEF Inv, AnnounceWanted, disk, systemd, bounds, ServicesOwned, AddressOwnedOnce,
         Announced, Owned, NoServices
<1> QED BY <1>1, <1>2, <1>3, <1>4, <1>5, <1>6 DEF Inv

\* The end of a synchronization.
LEMMA SyncedKeeps ==
  ASSUME Inv, Synced
  PROVE  Inv'
<1> USE HostNetworkAssumption
<1>1. TypeOK'
  BY DEF Inv, TypeOK, Synced, Leave, disk, bounds, Working
<1>2. Working'
  BY DEF Synced, Leave, disk, bounds, Working, Operations, Applying, Steps, Kinds, Idle,
         Services, NoServices
<1>3. Fresh' /\ Booting'
  BY DEF Inv, Synced, Leave, disk, bounds, Idle, Fresh, Booting
<1>4. Pending'
  BY DEF Inv, Synced, Leave, disk, bounds, Idle, Pending
<1>5. FileFits'
  BY DEF Inv, Synced, Leave, disk, bounds, Idle, FileFits, FromFile
<1>6. ServicesOwned' /\ AddressOwnedOnce' /\ Announced'
  BY DEF Inv, Synced, Leave, disk, bounds, Idle, ServicesOwned, AddressOwnedOnce, Announced,
         NoServices
<1> QED BY <1>1, <1>2, <1>3, <1>4, <1>5, <1>6 DEF Inv

\* A failed change is undone, a failed rollback stays pending.
LEMMA CommandFailsKeeps ==
  ASSUME Inv, CommandFails
  PROVE  Inv'
<1> USE HostNetworkAssumption
<1>0. ASSUME op.kind \in {"apply", "restore"}
      PROVE  /\ op.k = journal.pending /\ op.k \in Keys /\ mem = journal
             /\ journal.changes[op.k] \in Change /\ journal.changes[op.k] # None
             /\ journal.changes[op.k].prev = journal.confirmed
             /\ journal.changes[op.k].state \notin {"confirmed", "rolled_back"}
  <2>1. op.k = journal.pending /\ op.k \in Keys /\ mem = journal
    BY <1>0 DEF CommandFails, Inv, Working, Pending, Fresh
  <2>2. journal.changes[op.k] \in Change
    BY <2>1, PendingChange
  <2> QED BY <2>1, <2>2 DEF Inv, Pending
<1>1. TypeOK'
  <2>1. journal' \in Journals
    <3>1. CASE op.kind = "restore"
      <4>1. [journal.changes[op.k] EXCEPT !.state = "failed"] \in Change
        BY <1>0, <3>1, ChangeFields DEF States
      <4>2. journal \in Journals /\ journal' = [journal EXCEPT !.changes[op.k].state = "failed"]
        BY <1>0, <3>1 DEF Inv, TypeOK, CommandFails, Failure
      <4> QED BY <1>0, <3>1, <4>1, <4>2 DEF Journals
    <3>2. CASE op.kind # "restore"
      BY <3>2 DEF Inv, TypeOK, CommandFails, Failure
    <3> QED BY <3>1, <3>2
  <2>2. proc' \in Processes
    <3>1. proc \in Processes /\ (proc' = proc \/ Started(op.by, FALSE))
      BY DEF Inv, TypeOK, CommandFails, Failure
    <3> QED BY <3>1 DEF Started, Processes
  <2>3. timers' \in [Keys -> {"none", "armed", "started"}]
    BY DEF Inv, TypeOK, CommandFails, Failure, Leave
  <2> QED BY <2>1, <2>2, <2>3 DEF Inv, TypeOK, CommandFails
<1>2. Working'
  <2>1. op' \in Operations
    BY <1>0 DEF Inv, CommandFails, Enter, Leave, Started, Restore, Failure, TypeOK, Journals,
           Change, Working, Operations, Applying, Steps, Kinds, Idle, Services, NoServices,
           Configs
  <2> QED BY <1>0, <2>1 DEF Inv, CommandFails, Enter, Leave, Started, Restore, Failure,
                 Change, Working, Operations, Applying, Idle, Configs
<1>3. Fresh' /\ Booting'
  BY DEF Inv, CommandFails, Enter, Leave, Started, Restore, Failure, TypeOK, Journals, Idle,
         Fresh, Booting
<1>4. Pending'
  <2>1. CASE op.kind = "apply"
    <3>1. /\ journal' = journal /\ op'.kind = "restore" /\ op'.k = op.k /\ op'.pc = "detach"
          /\ op'.to = journal.confirmed
      BY <1>0, <2>1 DEF CommandFails, Failure, Restore, Enter
    <3> QED BY <1>0, <2>1, <3>1 DEF Pending
  <2>2. CASE op.kind = "restore"
    <3>1. /\ journal'.pending = op.k /\ journal'.confirmed = journal.confirmed /\ op' = Idle
          /\ journal'.changes[op.k] = [journal.changes[op.k] EXCEPT !.state = "failed"]
      BY <1>0, <2>2 DEF CommandFails, Failure, Leave, Inv, TypeOK, Journals
    <3>2. /\ journal'.changes[op.k] \in Change /\ journal'.changes[op.k].state = "failed"
          /\ journal'.changes[op.k].prev = journal.confirmed
      <4>1. journal.changes[op.k] \in Change /\ "failed" \in States
        BY <1>0, <2>2, Zenon DEF States
      <4> DEFINE new == [journal.changes[op.k] EXCEPT !.state = "failed"]
      <4>2. new \in Change /\ new.state = "failed" /\ new.prev = journal.changes[op.k].prev
        BY <4>1, ChangeFields, Zenon
      <4> HIDE DEF new
      <4>3. journal'.changes[op.k] = new
        BY <3>1 DEF new
      <4> QED BY <1>0, <2>2, <4>2, <4>3
    <3> QED BY <3>1, <3>2 DEF Pending, Idle
  <2>3. CASE op.kind \notin {"apply", "restore"}
    <3>1. journal' = journal /\ op' = Idle
      BY <2>3 DEF CommandFails, Failure, Leave
    <3> QED BY <3>1 DEF Pending, Inv, Idle
  <2> QED BY <2>1, <2>2, <2>3
<1>5. FileFits'
  BY <1>0 DEF Inv, CommandFails, Enter, Leave, Started, Restore, Failure, TypeOK, Journals,
         Idle, FileFits, FromFile
<1>6. ServicesOwned' /\ AddressOwnedOnce' /\ Announced'
  BY DEF Inv, CommandFails, Enter, Leave, Started, Restore, Failure, TypeOK, Journals, Idle,
         Fresh, ServicesOwned, AddressOwnedOnce, Announced, Owned, NoServices
<1> QED BY <1>1, <1>2, <1>3, <1>4, <1>5, <1>6 DEF Inv

\* So is a change whose lease does not fit.
LEMMA LeaseUnfitKeeps ==
  ASSUME Inv, LeaseUnfit
  PROVE  Inv'
<1> USE HostNetworkAssumption
<1>0. ASSUME op.kind \in {"apply", "restore"}
      PROVE  /\ op.k = journal.pending /\ op.k \in Keys /\ mem = journal
             /\ journal.changes[op.k] \in Change /\ journal.changes[op.k] # None
             /\ journal.changes[op.k].prev = journal.confirmed
             /\ journal.changes[op.k].state \notin {"confirmed", "rolled_back"}
  <2>1. op.k = journal.pending /\ op.k \in Keys /\ mem = journal
    BY <1>0 DEF LeaseUnfit, Inv, Working, Pending, Fresh
  <2>2. journal.changes[op.k] \in Change
    BY <2>1, PendingChange
  <2> QED BY <2>1, <2>2 DEF Inv, Pending
<1>1. TypeOK'
  BY DEF Inv, TypeOK, Journals, Change, Processes, LeaseUnfit, Enter, Leave, Started, Restore,
         bounds, Failure, Fresh, Pending, States
<1>2. Working'
  <2>1. op' \in Operations
    BY <1>0 DEF Inv, LeaseUnfit, Enter, Leave, Started, Restore, bounds, Failure, TypeOK,
           Journals, Change, Working, Operations, Applying, Steps, Kinds, Idle, Services,
           NoServices, Configs
  <2> QED BY <1>0, <2>1 DEF Inv, LeaseUnfit, Enter, Leave, Started, Restore, bounds, Failure,
                 Change, Working, Operations, Applying, Idle, Configs
<1>3. Fresh' /\ Booting'
  BY DEF Inv, LeaseUnfit, Enter, Leave, Started, Restore, bounds, Failure, TypeOK, Journals,
         Idle, Fresh, Booting
<1>4. Pending'
  <2>1. CASE op.kind = "apply"
    <3>1. /\ journal' = journal /\ op'.kind = "restore" /\ op'.k = op.k /\ op'.pc = "detach"
          /\ op'.to = journal.confirmed
      BY <1>0, <2>1 DEF LeaseUnfit, Failure, Restore, Enter
    <3> QED BY <1>0, <2>1, <3>1 DEF Pending
  <2>2. CASE op.kind = "restore"
    <3>1. /\ journal'.pending = op.k /\ journal'.confirmed = journal.confirmed /\ op' = Idle
          /\ journal'.changes[op.k] = [journal.changes[op.k] EXCEPT !.state = "failed"]
      BY <1>0, <2>2 DEF LeaseUnfit, Failure, Leave, Inv, TypeOK, Journals
    <3>2. /\ journal'.changes[op.k] \in Change /\ journal'.changes[op.k].state = "failed"
          /\ journal'.changes[op.k].prev = journal.confirmed
      <4>1. journal.changes[op.k] \in Change /\ "failed" \in States
        BY <1>0, <2>2, Zenon DEF States
      <4> DEFINE new == [journal.changes[op.k] EXCEPT !.state = "failed"]
      <4>2. new \in Change /\ new.state = "failed" /\ new.prev = journal.changes[op.k].prev
        BY <4>1, ChangeFields, Zenon
      <4> HIDE DEF new
      <4>3. journal'.changes[op.k] = new
        BY <3>1 DEF new
      <4> QED BY <1>0, <2>2, <4>2, <4>3
    <3> QED BY <3>1, <3>2 DEF Pending, Idle
  <2>3. CASE op.kind \notin {"apply", "restore"}
    <3>1. journal' = journal /\ op' = Idle
      BY <2>3 DEF LeaseUnfit, Failure, Leave
    <3> QED BY <3>1 DEF Pending, Inv, Idle
  <2> QED BY <2>1, <2>2, <2>3
<1>5. FileFits'
  BY <1>0 DEF Inv, LeaseUnfit, Enter, Leave, Started, Restore, bounds, Failure, TypeOK,
         Journals, Idle, FileFits, FromFile
<1>6. ServicesOwned' /\ AddressOwnedOnce' /\ Announced'
  BY DEF Inv, LeaseUnfit, Enter, Leave, Started, Restore, bounds, Failure, TypeOK, Journals,
         Idle, Fresh, ServicesOwned, AddressOwnedOnce, Announced, Owned, NoServices
<1> QED BY <1>1, <1>2, <1>3, <1>4, <1>5, <1>6 DEF Inv

\* A new hostd finds the journal that the old one saved.
LEMMA HostdDiesKeeps ==
  ASSUME Inv, HostdDies
  PROVE  Inv'
<1> USE HostNetworkAssumption
<1>1. TypeOK'
  <2>1. proc' \in Processes
    BY DEF Inv, TypeOK, Processes, HostdDies, disk, systemd, Dies, Working, Operations,
           Applying, Steps, Kinds, Idle
  <2> QED BY <2>1 DEF Inv, TypeOK, HostdDies, disk, systemd, Dies
<1>2. Working'
  BY DEF Inv, HostdDies, disk, systemd, Dies, Working, Operations, Applying, Steps, Kinds,
         Idle, Services, NoServices
<1>3. Fresh' /\ Booting'
  BY DEF Inv, HostdDies, disk, systemd, Dies, Idle, Fresh, Booting
<1>4. Pending'
  BY DEF Inv, HostdDies, disk, systemd, Dies, Idle, Pending
<1>5. FileFits'
  BY DEF Inv, HostdDies, disk, systemd, Dies, Idle, FileFits, FromFile
<1>6. ServicesOwned' /\ AddressOwnedOnce' /\ Announced'
  BY DEF Inv, HostdDies, disk, systemd, Dies, Idle, ServicesOwned, AddressOwnedOnce,
         Announced, NoServices
<1> QED BY <1>1, <1>2, <1>3, <1>4, <1>5, <1>6 DEF Inv

\* So does a new rollback unit.
LEMMA UnitDiesKeeps ==
  ASSUME Inv, UnitDies
  PROVE  Inv'
<1> USE HostNetworkAssumption
<1>1. TypeOK'
  BY DEF Inv, TypeOK, UnitDies, disk, systemd, Dies
<1>2. Working'
  BY DEF UnitDies, disk, systemd, Dies, Working, Operations, Applying, Steps, Kinds, Idle,
         Services, NoServices
<1>3. Fresh' /\ Booting'
  BY DEF Inv, UnitDies, disk, systemd, Dies, Idle, Fresh, Booting
<1>4. Pending'
  BY DEF Inv, UnitDies, disk, systemd, Dies, Idle, Pending
<1>5. FileFits'
  BY DEF Inv, UnitDies, disk, systemd, Dies, Idle, FileFits, FromFile
<1>6. ServicesOwned' /\ AddressOwnedOnce' /\ Announced'
  BY DEF Inv, UnitDies, disk, systemd, Dies, Idle, ServicesOwned, AddressOwnedOnce, Announced,
         NoServices
<1> QED BY <1>1, <1>2, <1>3, <1>4, <1>5, <1>6 DEF Inv

\* A boot starts with a bare bridge and no services.
LEMMA RebootKeeps ==
  ASSUME Inv, Reboot
  PROVE  Inv'
<1> USE HostNetworkAssumption
<1>1. TypeOK'
  <2>1. journal' \in Journals
    BY DEF Inv, TypeOK, Journals, Change, Reboot, Working, Operations, Applying, Steps, Kinds,
           Idle, Fresh, Pending, Services, States, NoServices
  <2>2. kernel' \in Kernels
    BY DEF Kernels, Reboot, Bare
  <2>3. proc' \in Processes
    BY DEF Inv, TypeOK, Processes, Reboot
  <2> QED BY <2>1, <2>2, <2>3 DEF Inv, TypeOK, Reboot
<1>2. Working'
  BY DEF Reboot, Working, Operations, Applying, Steps, Kinds, Idle, Services, NoServices
<1>3. Fresh' /\ Booting'
  BY DEF Reboot, Idle, Fresh, Booting, Bare
<1>4. Pending'
  BY DEF Inv, Reboot, Idle, Pending
<1>5. FileFits'
  BY DEF Inv, Reboot, Idle, FileFits, FromFile
<1>6. ServicesOwned' /\ AddressOwnedOnce' /\ Announced'
  BY DEF Inv, Reboot, Idle, ServicesOwned, AddressOwnedOnce, Announced, NoServices, Bare
<1> QED BY <1>1, <1>2, <1>3, <1>4, <1>5, <1>6 DEF Inv

\* A deadline changes no settings.
LEMMA DeadlinePassesKeeps ==
  ASSUME Inv, NEW k \in Keys, DeadlinePasses(k)
  PROVE  Inv'
<1> USE HostNetworkAssumption
<1>1. TypeOK'
  BY DEF Inv, TypeOK, DeadlinePasses, disk, bounds
<1>2. Working'
  BY DEF Inv, DeadlinePasses, disk, bounds, Working, Operations, Applying, Steps
<1>3. Fresh' /\ Booting'
  BY DEF Inv, DeadlinePasses, disk, bounds, Fresh, Booting
<1>4. Pending'
  BY DEF Inv, DeadlinePasses, disk, bounds, Pending
<1>5. FileFits'
  BY DEF Inv, DeadlinePasses, disk, bounds, FileFits, FromFile
<1>6. ServicesOwned' /\ AddressOwnedOnce' /\ Announced'
  BY DEF Inv, DeadlinePasses, disk, bounds, ServicesOwned, AddressOwnedOnce, Announced
<1> QED BY <1>1, <1>2, <1>3, <1>4, <1>5, <1>6 DEF Inv

\* Nor does a started unit.
LEMMA TimerFiresKeeps ==
  ASSUME Inv, NEW k \in Keys, TimerFires(k)
  PROVE  Inv'
<1> USE HostNetworkAssumption
<1>1. TypeOK'
  BY DEF Inv, TypeOK, TimerFires, disk, bounds
<1>2. Working'
  BY DEF Inv, TimerFires, disk, bounds, Working, Operations, Applying, Steps
<1>3. Fresh' /\ Booting'
  BY DEF Inv, TimerFires, disk, bounds, Fresh, Booting
<1>4. Pending'
  BY DEF Inv, TimerFires, disk, bounds, Pending
<1>5. FileFits'
  BY DEF Inv, TimerFires, disk, bounds, FileFits, FromFile
<1>6. ServicesOwned' /\ AddressOwnedOnce' /\ Announced'
  BY DEF Inv, TimerFires, disk, bounds, ServicesOwned, AddressOwnedOnce, Announced
<1> QED BY <1>1, <1>2, <1>3, <1>4, <1>5, <1>6 DEF Inv

\* An edit is known as one until a start has read it.
LEMMA EditFileKeeps ==
  ASSUME Inv, NEW c \in Edits \cup {Invalid}, EditFile(c)
  PROVE  Inv'
<1> USE HostNetworkAssumption
<1>1. TypeOK'
  <2>1. file' \in Configs \cup {Absent, Invalid}
    BY DEF EditFile, systemd, Configs
  <2> QED BY <2>1 DEF Inv, TypeOK, EditFile, systemd
<1>2. Working'
  BY DEF Inv, EditFile, systemd, Working, Operations, Applying, Steps
<1>3. Fresh' /\ Booting'
  BY DEF Inv, EditFile, systemd, Fresh, Booting
<1>4. Pending'
  BY DEF Inv, EditFile, systemd, Pending
<1>5. FileFits'
  BY DEF Inv, EditFile, systemd, FileFits, FromFile
<1>6. ServicesOwned' /\ AddressOwnedOnce' /\ Announced'
  BY DEF Inv, EditFile, systemd, ServicesOwned, AddressOwnedOnce, Announced
<1> QED BY <1>1, <1>2, <1>3, <1>4, <1>5, <1>6 DEF Inv

\* An appliance that has just booted for the first time.
LEMMA InvInit == Init => Inv
<1> USE HostNetworkAssumption
<1> SUFFICES ASSUME Init PROVE Inv
  OBVIOUS
<1>1. TypeOK
  <2>1. journal \in Journals
    BY DEF Init, Journals, NoServices, Configs
  <2>2. kernel \in Kernels /\ proc \in Processes
    BY DEF Init, Kernels, Processes, Bare
  <2>3. /\ file \in Configs \cup {Absent, Invalid} /\ edited \in BOOLEAN
        /\ timers \in [Keys -> {"none", "armed", "started"}]
        /\ passed \subseteq Keys /\ applying \subseteq Keys
    BY DEF Init
  <2>4. faults \in 0..MaxFaults /\ edits \in 0..MaxEdits
    BY DEF Init
  <2> QED BY <2>1, <2>2, <2>3, <2>4 DEF TypeOK
<1>2. Working /\ Fresh
  BY DEF Init, Working, Fresh, Idle, Operations, Kinds, Steps, Applying, Services, NoServices
<1>3. Booting /\ Pending /\ FileFits
  BY DEF Init, Booting, Pending, FileFits, Bare, Idle
<1>4. ServicesOwned /\ AddressOwnedOnce /\ Announced
  BY DEF Init, ServicesOwned, AddressOwnedOnce, Announced, Bare, Idle, NoServices
<1> QED BY <1>1, <1>2, <1>3, <1>4 DEF Inv

\* One lemma per action.
LEMMA InvStep == Inv /\ [Next]_vars => Inv'
<1> SUFFICES ASSUME Inv, [Next]_vars PROVE Inv'
  OBVIOUS
<1>1. CASE Request
  <2>1. CASE \E k \in Keys, c \in Candidates, rev \in Configs : handleApplyHostNetwork(k, c, rev)
    BY <2>1, SubmitKeeps DEF handleApplyHostNetwork
  <2>2. CASE \E k \in Keys : Confirm(k) \/ Rollback(k, "hostd")
    BY <2>2, ConfirmKeeps, RollbackKeeps
  <2>3. CASE \E s \in Stacks, a \in SvcAddrs : AddService(s, a) \/ DelService(s, a)
    BY <2>3, AddServiceKeeps, DelServiceKeeps
  <2>4. CASE \E want \in [Stacks -> SvcAddrs \cup {None}] : SyncServices(want)
    BY <2>4, SyncServicesKeeps DEF Services
  <2> QED BY <1>1, <2>1, <2>2, <2>3, <2>4, MigrateDefaultKeeps DEF Request
<1>2. CASE System
  <2>1. CASE BootInit \/ HostdInit
    BY <2>1, InitializeKeeps, RefusedKeeps DEF BootInit, HostdInit
  <2>2. CASE HostdStart \/ Watch \/ Lease \/ Arm \/ LeaseUnfit
    BY <2>2, HostdStartKeeps, WatchKeeps, LeaseKeeps, ArmKeeps, LeaseUnfitKeeps
  <2>3. CASE ApplyStep
    BY <2>3, DetachKeeps, AttachKeeps, DeletePreviousKeeps, AddAddressesKeeps, WriteUnitKeeps,
       VerifyKeeps DEF ApplyStep
  <2>4. CASE AfterApply
    BY <2>4, InitAppliedKeeps, ChangeAppliedKeeps, RestoreFileKeeps, RestoreSaveKeeps,
       ReconciledKeeps, WriteConfigKeeps, SettleKeeps, CancelKeeps DEF AfterApply
  <2>5. CASE ServiceStep
    BY <2>5, AnnounceKeeps, ForgetKeeps, SaveDroppedKeeps, AnnounceWantedKeeps, SyncedKeeps,
       DropStaleKeeps, TakeWantedKeeps DEF ServiceStep
  <2>6. CASE \E k \in Keys : Apply(k) \/ Rollback(k, "timer") \/ DeadlinePasses(k) \/ TimerFires(k)
    BY <2>6, ApplyKeeps, RollbackKeeps, DeadlinePassesKeeps, TimerFiresKeeps
  <2> QED BY <1>2, <2>1, <2>2, <2>3, <2>4, <2>5, <2>6 DEF System, Holder
<1>3. CASE Fault
  BY <1>3, ArmFailsKeeps, CommandFailsKeeps, HostdDiesKeeps, UnitDiesKeeps, RebootKeeps,
     HotplugKeeps DEF Fault
<1>4. CASE \E c \in Edits \cup {Invalid} : EditFile(c)
  BY <1>4, EditFileKeeps
<1>5. CASE UNCHANGED vars
  <2>1. UNCHANGED <<journal, file, edited, kernel, timers, passed, op, mem, proc, applying>>
        /\ UNCHANGED <<faults, edits>>
    BY <1>5, Zenon DEF vars, disk, systemd, bounds
  <2>2. TypeOK' /\ Working' /\ Fresh' /\ Booting' /\ Pending' /\ FileFits'
    BY <2>1 DEF Inv, TypeOK, Working, Fresh, Booting, Pending, FileFits, FromFile
  <2>3. ServicesOwned' /\ AddressOwnedOnce' /\ Announced'
    BY <2>1 DEF Inv, ServicesOwned, AddressOwnedOnce, Announced
  <2> QED BY <2>2, <2>3 DEF Inv
<1> QED BY <1>1, <1>2, <1>3, <1>4, <1>5 DEF Next

\* The reachable states of the settings.
LEMMA InvTheorem == Spec => []Inv
BY InvInit, InvStep, PTL DEF Spec

\* Every address the bridge answers for is a static address or belongs to a service in the
\* journal, and no address belongs to two: for any stacks, addresses, changes, crashes and
\* interrupted synchronizations (manager.go AddService, DelService, SyncServices).
THEOREM AddressesStayOwned == Spec => []AddressesOwned
<1>1. Inv => AddressesOwned
  BY DEF Inv, AddressesOwned
<1> QED BY <1>1, InvTheorem, PTL

\* However often a change, its rollback or a start is interrupted, the next start configures
\* what was confirmed last, unless an administrator has edited network.toml since
\* (manager.go Initialize, Confirm, restore).
THEOREM BootIsConfirmed == Spec => []BootUsesConfirmed
<1>1. Inv => BootUsesConfirmed
  BY DEF Inv, FileFits, BootUsesConfirmed, Chosen
<1> QED BY <1>1, InvTheorem, PTL

\* The steps that write the list of changes write the new or the pending one.
LEMMA OutcomesKept ==
  ASSUME Inv, [Next]_vars, NEW k \in Keys, journal.changes[k] # None, k # journal.pending
  PROVE  journal'.changes[k] = journal.changes[k]
<1> USE HostNetworkAssumption
<1>1. journal \in Journals
  BY DEF Inv, TypeOK
<1>2. CASE journal' = journal
  BY <1>2
<1>3. CASE \E c \in Keys, d \in Candidates, rev \in Configs : handleApplyHostNetwork(c, d, rev)
  BY <1>3 DEF handleApplyHostNetwork, Submit
<1>4. ASSUME NEW c \in Keys, Confirm(c) \/ Apply(c)
      PROVE  journal'.changes[k] = journal.changes[k]
  <2>1. CASE journal' # journal /\ Confirm(c)
    <3>1. c # k /\ Before(c)
      BY <2>1 DEF Confirm
    <3>2. journal'.changes = [journal.changes EXCEPT ![c].state = "confirmed"]
      BY <1>1, <2>1, <3>1 DEF Confirm, Journals
    <3> QED BY <1>1, <3>1, <3>2
  <2>2. CASE journal' # journal /\ Apply(c)
    <3> QED BY <1>1, <2>2 DEF Apply, Journals
  <2> QED BY <1>2, <1>4, <2>1, <2>2
<1>5. CASE \E by \in {"boot", "hostd"} : Initialize(by)
  BY <1>5 DEF Initialize
<1>6. CASE ArmFails \/ ChangeApplied \/ RestoreSave \/ CommandFails \/ LeaseUnfit
  <2>1. CASE journal' # journal
    <3>1. mem = journal /\ op.k = journal.pending /\ op.k \in Keys
      BY <1>6, <2>1 DEF Inv, Fresh, Pending, Working, ArmFails, ChangeApplied, RestoreSave,
             CommandFails, LeaseUnfit, Failure
    <3> DEFINE Becomes(st) == journal'.changes = [journal.changes EXCEPT ![op.k].state = st]
    <3>2. CASE ArmFails
      <4>1. Becomes("failed")
        BY <3>1, <3>2 DEF ArmFails
      <4> QED BY <3>1, <4>1
    <3>3. CASE RestoreSave
      <4>1. Becomes("rolled_back")
        BY <3>1, <3>3 DEF RestoreSave
      <4> QED BY <1>1, <3>1, <4>1
    <3>4. CASE ChangeApplied
      <4>1. Becomes("awaiting_confirmation")
        BY <1>1, <2>1, <3>1, <3>4 DEF ChangeApplied, Journals
      <4> QED BY <1>1, <3>1, <4>1
    <3>5. CASE CommandFails \/ LeaseUnfit
      <4>1. Becomes("failed")
        BY <1>1, <2>1, <3>1, <3>5 DEF CommandFails, LeaseUnfit, Failure, Journals
      <4> QED BY <1>1, <3>1, <4>1
    <3> QED BY <1>6, <3>2, <3>3, <3>4, <3>5
  <2> QED BY <1>2, <2>1
<1>7. CASE InitApplied
  <2>1. mem = journal /\ op.k = journal.pending /\ op.k \in Keys \cup {None}
    BY <1>1, <1>7 DEF Inv, Fresh, Pending, Applying, InitApplied, Journals
  <2> QED BY <1>1, <1>7, <2>1 DEF InitApplied
<1>8. CASE Settle \/ Forget \/ SaveDropped \/ (\E s \in Stacks : TakeWanted(s))
  <2>1. mem = journal
    BY <1>8 DEF Inv, Fresh, Settle, Forget, SaveDropped, TakeWanted
  <2> QED BY <1>1, <1>8, <2>1 DEF Settle, Forget, SaveDropped, TakeWanted, Journals
<1>9. CASE MigrateDefault \/ Reboot \/ (\E s \in Stacks, a \in SvcAddrs : AddService(s, a))
  BY <1>1, <1>9 DEF MigrateDefault, Reboot, AddService, Journals
<1>10. CASE ApplyStep \/ HostdStart \/ Watch \/ Lease \/ Arm
  BY <1>10 DEF ApplyStep, Detach, Attach, DeletePrevious, AddAddresses, WriteUnit, Verify,
         HostdStart, Watch, Lease, Arm, disk
<1>11. CASE RestoreFile \/ Reconciled \/ WriteConfig \/ Cancel \/ Announce \/ AnnounceWanted \/ Synced
  BY <1>11 DEF RestoreFile, Reconciled, WriteConfig, Cancel, Announce, AnnounceWanted, Synced,
         disk
<1>12. CASE HostdDies \/ UnitDies \/ Hotplug \/ (\E c \in Edits \cup {Invalid} : EditFile(c))
  BY <1>12 DEF HostdDies, UnitDies, Hotplug, EditFile, disk
<1>13. CASE \E c \in Keys, by \in {"hostd", "timer"} :
              Rollback(c, by) \/ DeadlinePasses(c) \/ TimerFires(c)
  BY <1>13 DEF Rollback, DeadlinePasses, TimerFires, disk
<1>14. CASE \/ \E s \in Stacks, a \in SvcAddrs : DelService(s, a) \/ DropStale(s)
            \/ \E want \in [Stacks -> SvcAddrs \cup {None}] : SyncServices(want)
  BY <1>14 DEF DelService, DropStale, SyncServices, disk
<1>15. CASE \E s \in Stacks : DropStale(s)
  BY <1>15 DEF DropStale, disk
<1>16. CASE \E by \in {"boot", "hostd"} : Refused(by)
  BY <1>16 DEF Refused, disk
<1>17. CASE UNCHANGED vars
  BY <1>17 DEF vars, disk
<1>18. CASE Request
  BY <1>3, <1>4, <1>9, <1>13, <1>14, <1>18 DEF Request
<1>19. CASE System
  <2>1. CASE BootInit \/ HostdInit
    BY <1>5, <1>16, <2>1 DEF BootInit, HostdInit
  <2>2. CASE AfterApply \/ ServiceStep
    BY <1>6, <1>7, <1>8, <1>11, <1>15, <2>2 DEF AfterApply, ServiceStep
  <2> QED BY <1>4, <1>6, <1>10, <1>13, <1>19, <2>1, <2>2 DEF System, Holder
<1> QED BY <1>6, <1>9, <1>12, <1>17, <1>18, <1>19 DEF Next, Fault

\* A change that was confirmed is not undone by a timer, a retry or a start that comes late,
\* and one that was rolled back is not brought back (manager.go Confirm, Rollback).
THEOREM OutcomesStay == Spec => OutcomeStays
<1>1. Inv /\ [Next]_vars =>
        [\A k \in Keys : journal.changes[k] # None
            /\ journal.changes[k].state \in {"confirmed", "rolled_back"}
            => journal'.changes[k] = journal.changes[k]]_vars
  <2> SUFFICES ASSUME Inv, [Next]_vars, NEW k \in Keys, journal.changes[k] # None,
                      journal.changes[k].state \in {"confirmed", "rolled_back"}
               PROVE  journal'.changes[k] = journal.changes[k]
    OBVIOUS
  <2>1. k # journal.pending
    BY HostNetworkAssumption DEF Inv, Pending
  <2> QED BY <2>1, OutcomesKept
<1> QED BY <1>1, InvTheorem, PTL DEF Spec, OutcomeStays

--------------------------------------------------------------------------------
(* The bridge and the settings. *)

\* The last Initialize of this hostd or of this boot has succeeded.
Ready == proc.init = "ok" \/ (op.kind = "init" /\ op.pc \in {"file", "settle"})

\* No change is pending, or the pending one has not touched the bridge yet.
AtRest == journal.pending = None \/ journal.pending \in applying \/ op.pc = "arm"

\* Change k is on the bridge and may still be confirmed.
Awaiting(k) == /\ journal.pending = k /\ journal.changes[k].state = "awaiting_confirmation"
               /\ Before(k) /\ op.kind # "restore"

\* The bridge has the topology of c, unless an adapter was plugged in, and its address.
Shows(c) == /\ kernel.dirty = "no" => kernel.top = c.top
            /\ c.ip # Dhcp => c.ip \in kernel.addrs

\* Between changes the bridge shows what is confirmed, and then what may be.
Showing == Ready => /\ journal.startup = None
                    /\ AtRest => Shows(journal.confirmed)
                    /\ \A k \in Keys : Awaiting(k) => Shows(journal.changes[k].cand)

\* hostd starts once "network init" has ended, and has not started while its own runs.
Starting == /\ op.kind = "init" => proc.init = "todo"
            /\ proc.hostd = "down" => proc.init = "todo"
            /\ proc.boot = "booting" => proc.hostd = "down"
            /\ op.kind = "init" => op.by \in {"boot", "hostd"}
            /\ op.by = "hostd" => proc.hostd = "up"

\* How far Backend.Apply has got.
Placing ==
  /\ op.pc \in {"delete", "add", "unit", "verify", "applied", "save"} /\ kernel.dirty # "yes" =>
        kernel.top = op.to.top
  /\ op.pc \in {"unit", "verify", "applied", "save"} /\ op.to.ip # Dhcp => op.to.ip \in kernel.addrs

\* Between which settings an operation moves.
Moving ==
  /\ op.kind = "apply" =>
        op.from = journal.confirmed /\ op.to = journal.changes[op.k].cand
  /\ op.kind = "restore" /\ op.pc # "cancel" => op.from = journal.changes[op.k].cand
  /\ op.kind = "watch" => op.from = journal.confirmed /\ op.to = journal.confirmed
  /\ op.kind \in {"sync", "watch", "service", "confirm"} \/ op.pc = "cancel" => journal.pending = None

\* A change that its goroutine has not applied is not confirmed, nor one past its deadline.
Waiting ==
  /\ \A k \in applying : journal.changes[k] # None /\ journal.changes[k].state # "awaiting_confirmation"
  /\ op.kind = "apply" =>
        op.k \notin applying /\ journal.changes[op.k].state # "awaiting_confirmation"
  /\ op.by = "timer" /\ op.pc # "cancel" => ~Before(op.k)

\* No service has the address of c.
Distinct(c, services) == c.ip # Dhcp => \A s \in Stacks : services[s] # None => services[s] # c.ip

\* No service has the address of the bridge.
Apart ==
  /\ Distinct(journal.confirmed, journal.services)
  /\ op.kind = "sync" => Distinct(journal.confirmed, op.want)
  /\ journal.pending # None => Distinct(journal.changes[journal.pending].cand, journal.services)
  /\ op.kind = "init" /\ op.pc \in Applying => Distinct(op.to, journal.services)

\* The inductive invariant of the live settings.
LiveInv == Showing /\ Starting /\ Placing /\ Moving /\ Waiting /\ Apart

\* What a step leaves of the list of changes when it gives change k another state.
LEMMA Marks ==
  ASSUME journal \in Journals, NEW k \in Keys, journal.changes[k] # None, NEW st \in States, NEW new,
         new = [journal.changes EXCEPT ![k].state = st]
  PROVE  /\ \A c \in Keys : c # k => new[c] = journal.changes[c]
         /\ \A c \in Keys : journal.changes[c] # None => new[c] # None
         /\ \A c \in Keys : new[c].cand = journal.changes[c].cand
         /\ \A c \in Keys : new[c].deadline = journal.changes[c].deadline
         /\ \A c \in Keys : new[c].prev = journal.changes[c].prev
         /\ new[k].state = st
<1> USE HostNetworkAssumption
<1>1. journal.changes \in [Keys -> Change \cup {None}] /\ journal.changes[k] \in Change
  BY DEF Journals
<1>2. [journal.changes[k] EXCEPT !.state = st] \in Change
  BY <1>1 DEF Change
<1>3. new[k] = [journal.changes[k] EXCEPT !.state = st] /\ new[k] # None
  BY <1>1, <1>2
<1>4. \A c \in Keys : c # k => new[c] = journal.changes[c]
  BY <1>1
<1>5. /\ new[k].cand = journal.changes[k].cand /\ new[k].deadline = journal.changes[k].deadline
      /\ new[k].prev = journal.changes[k].prev /\ new[k].state = st
  BY <1>1, <1>3 DEF Change
<1> QED BY <1>3, <1>4, <1>5


\* A migration changes neither the address nor the topology.
LEMMA FilledIn ==
  ASSUME NEW c \in Configs
  PROVE  [c EXCEPT !.pool = Pool].ip = c.ip /\ [c EXCEPT !.pool = Pool].top = c.top
<1> DEFINE Base == {DefaultConfig} \cup Candidates \cup Edits
<1>1. \A b \in Base : b = [ip |-> b.ip, top |-> b.top, pool |-> b.pool]
  BY HostNetworkAssumption DEF DefaultConfig
<1>2. CASE c \in Base
  BY <1>1, <1>2
<1>3. CASE \E b \in Base : c = [b EXCEPT !.pool = Pool]
  <2>1. PICK b \in Base : c = [b EXCEPT !.pool = Pool]
    BY <1>3
  <2>2. c = [ip |-> b.ip, top |-> b.top, pool |-> Pool]
    BY <1>1, <2>1
  <2> QED BY <2>2
<1> QED BY <1>2, <1>3 DEF Configs

\* The goroutine of a change that is pending sets its deadline and takes the lock.
LEMMA ApplyBegins ==
  ASSUME Inv, NEW k \in Keys, Apply(k), journal.pending = k
  PROVE  /\ op = Idle /\ k \in applying /\ applying' = applying \ {k} /\ proc.hostd = "up"
         /\ UNCHANGED <<kernel, passed, proc>>
         /\ op'.kind = "apply" /\ op'.by = "hostd" /\ op'.pc = "arm" /\ op'.k = k
         /\ op'.from = journal.confirmed /\ op'.to = journal.changes[k].cand
         /\ journal'.pending = k /\ journal'.startup = journal.startup /\ journal'.has = journal.has
         /\ journal'.confirmed = journal.confirmed /\ journal'.services = journal.services
         /\ \A c \in Keys : c # k => journal'.changes[c] = journal.changes[c]
         /\ journal'.changes[k].cand = journal.changes[k].cand
         /\ journal'.changes[k].state = journal.changes[k].state
         /\ k # None /\ journal'.changes[k] # None
<1> USE HostNetworkAssumption
<1> DEFINE new == [journal EXCEPT !.changes[k].deadline = TRUE]
<1>1. /\ op = Idle /\ k \in applying /\ applying' = applying \ {k} /\ proc.hostd = "up"
      /\ UNCHANGED <<kernel, passed, proc>> /\ journal \in Journals /\ k # None
  BY DEF Apply, Locked, systemd, Inv, TypeOK
<1>2. journal.changes[k] \in Change /\ journal.changes[k].prev = journal.confirmed
  BY <1>1, PendingChange DEF Inv, Pending
<1>3. journal' = new /\ Enter("apply", "hostd", k, "arm", new.changes[k].prev, new.changes[k].cand, new)
  BY DEF Apply
<1>4. /\ new.pending = k /\ new.startup = journal.startup /\ new.has = journal.has
      /\ new.confirmed = journal.confirmed /\ new.services = journal.services
      /\ new.changes = [journal.changes EXCEPT ![k].deadline = TRUE]
  BY <1>1 DEF Journals
<1>5. new.changes[k] = [journal.changes[k] EXCEPT !.deadline = TRUE]
  BY <1>1, <1>4 DEF Journals
<1>6. \A c \in Keys : c # k => new.changes[c] = journal.changes[c]
  BY <1>1, <1>4 DEF Journals
<1> HIDE DEF new
<1>7. new.changes[k] \in Change
  BY <1>2, <1>5, Dated
<1>8. /\ new.changes[k].cand = journal.changes[k].cand /\ new.changes[k].prev = journal.changes[k].prev
      /\ new.changes[k].state = journal.changes[k].state
  BY <1>2, <1>5, Dated
<1>9. /\ op'.kind = "apply" /\ op'.by = "hostd" /\ op'.pc = "arm" /\ op'.k = k
      /\ op'.from = new.changes[k].prev /\ op'.to = new.changes[k].cand
  BY <1>3 DEF Enter
<1> QED BY <1>1, <1>2, <1>3, <1>4, <1>6, <1>7, <1>8, <1>9

\* A confirmation in time makes the candidate the confirmed configuration.
LEMMA ConfirmTakes ==
  ASSUME Inv, NEW k \in Keys, Confirm(k), Before(k)
  PROVE  /\ op'.kind = "confirm" /\ op'.by = "hostd" /\ op'.pc = "file"
         /\ journal'.pending = None /\ journal'.startup = journal.startup /\ journal'.has = journal.has
         /\ journal'.confirmed = journal.changes[k].cand /\ journal'.services = journal.services
         /\ \A c \in Keys : c # k => journal'.changes[c] = journal.changes[c]
         /\ \A c \in Keys : journal.changes[c] # None => journal'.changes[c] # None
         /\ journal'.changes[k].state = "confirmed"
<1> USE HostNetworkAssumption
<1>0. journal \in Journals /\ journal.changes[k] # None
  BY DEF Confirm, Inv, TypeOK, Pending
<1>1. /\ journal' = [journal EXCEPT !.confirmed = journal.changes[k].cand, !.needs = TRUE,
                                    !.changes[k].state = "confirmed", !.pending = None]
      /\ op'.kind = "confirm" /\ op'.by = "hostd" /\ op'.pc = "file"
  BY DEF Confirm, Enter
<1>2. /\ journal'.pending = None /\ journal'.startup = journal.startup /\ journal'.has = journal.has
      /\ journal'.confirmed = journal.changes[k].cand /\ journal'.services = journal.services
      /\ journal'.changes = [journal.changes EXCEPT ![k].state = "confirmed"]
  BY <1>0, <1>1 DEF Journals
<1>3. /\ \A c \in Keys : c # k => journal'.changes[c] = journal.changes[c]
      /\ \A c \in Keys : journal.changes[c] # None => journal'.changes[c] # None
      /\ journal'.changes[k].state = "confirmed"
  BY <1>0, <1>2, Marks DEF States
<1> QED BY <1>1, <1>2, <1>3

\* A migration of the pools changes nothing that is on the bridge.
LEMMA MigrateFills ==
  ASSUME Inv, MigrateDefault
  PROVE  /\ op = Idle /\ proc.hostd = "up" /\ UNCHANGED <<kernel, passed, proc, applying, file, edited>>
         /\ op'.kind = "migrate" /\ op'.by = "hostd" /\ op'.pc = "file"
         /\ journal.pending = None /\ journal'.pending = None /\ journal'.startup = journal.startup
         /\ journal'.has = journal.has
         /\ journal'.services = journal.services /\ journal'.changes = journal.changes
         /\ journal'.confirmed.ip = journal.confirmed.ip /\ journal'.confirmed.top = journal.confirmed.top
<1>1. /\ op = Idle /\ proc.hostd = "up" /\ UNCHANGED <<kernel, passed, proc, applying, file, edited>>
      /\ journal \in Journals /\ journal.pending = None
      /\ journal' = [journal EXCEPT !.confirmed.pool = Pool, !.needs = TRUE]
      /\ op'.kind = "migrate" /\ op'.by = "hostd" /\ op'.pc = "file"
  BY DEF MigrateDefault, Locked, Enter, systemd, Inv, TypeOK
<1>2. /\ journal'.pending = None /\ journal'.startup = journal.startup /\ journal'.has = journal.has
      /\ journal'.confirmed = [journal.confirmed EXCEPT !.pool = Pool]
      /\ journal'.services = journal.services /\ journal'.changes = journal.changes
      /\ journal.confirmed \in Configs
  BY <1>1 DEF Journals
<1> QED BY <1>1, <1>2, FilledIn

\* A change that was applied in time waits for its confirmation.
LEMMA ChangeAwaits ==
  ASSUME Inv, ChangeApplied, Before(op.k)
  PROVE  /\ op' = Idle
         /\ journal'.pending = op.k /\ journal'.startup = journal.startup /\ journal'.has = journal.has
         /\ journal'.confirmed = journal.confirmed /\ journal'.services = journal.services
         /\ \A c \in Keys : c # op.k => journal'.changes[c] = journal.changes[c]
         /\ \A c \in Keys : journal.changes[c] # None => journal'.changes[c] # None
         /\ journal'.changes[op.k].cand = journal.changes[op.k].cand
<1> USE HostNetworkAssumption
<1>0. /\ journal \in Journals /\ op.k \in Keys /\ op.k # None /\ journal.changes[op.k] # None
      /\ op.k = journal.pending /\ mem = journal
  BY DEF ChangeApplied, Inv, TypeOK, Working, Fresh, Pending
<1>1. /\ op' = Idle
      /\ journal' = [mem EXCEPT !.changes[op.k].state = "awaiting_confirmation"]
  BY DEF ChangeApplied, Leave
<1>2. /\ journal'.pending = op.k /\ journal'.startup = journal.startup /\ journal'.has = journal.has
      /\ journal'.confirmed = journal.confirmed /\ journal'.services = journal.services
      /\ journal'.changes = [journal.changes EXCEPT ![op.k].state = "awaiting_confirmation"]
  BY <1>0, <1>1 DEF Journals
<1>3. /\ \A c \in Keys : c # op.k => journal'.changes[c] = journal.changes[c]
      /\ \A c \in Keys : journal.changes[c] # None => journal'.changes[c] # None
      /\ journal'.changes[op.k].cand = journal.changes[op.k].cand
      /\ journal'.changes[op.k].state = "awaiting_confirmation"
  BY <1>0, <1>2, Marks DEF States
<1> QED BY <1>1, <1>2, <1>3

\* A rollback that fails stays pending, and can no longer be confirmed.
LEMMA RestoreFails ==
  ASSUME Inv, Failure, op.kind = "restore", op.pc \in Applying
  PROVE  /\ op' = Idle /\ UNCHANGED proc
         /\ journal'.pending = op.k /\ journal'.startup = journal.startup /\ journal'.has = journal.has
         /\ journal'.confirmed = journal.confirmed /\ journal'.services = journal.services
         /\ \A c \in Keys : c # op.k => journal'.changes[c] = journal.changes[c]
         /\ \A c \in Keys : journal.changes[c] # None => journal'.changes[c] # None
         /\ journal'.changes[op.k].cand = journal.changes[op.k].cand
         /\ journal'.changes[op.k].state = "failed"
<1> USE HostNetworkAssumption
<1>0. /\ journal \in Journals /\ op.k \in Keys /\ op.k # None /\ journal.changes[op.k] # None
      /\ op.k = journal.pending /\ mem = journal
  BY DEF Applying, Inv, TypeOK, Working, Fresh, Pending
<1>1. /\ op' = Idle /\ UNCHANGED proc
      /\ journal' = [mem EXCEPT !.changes[op.k].state = "failed"]
  BY DEF Failure, Leave
<1>2. /\ journal'.pending = op.k /\ journal'.startup = journal.startup /\ journal'.has = journal.has
      /\ journal'.confirmed = journal.confirmed /\ journal'.services = journal.services
      /\ journal'.changes = [journal.changes EXCEPT ![op.k].state = "failed"]
  BY <1>0, <1>1 DEF Journals
<1>3. /\ \A c \in Keys : c # op.k => journal'.changes[c] = journal.changes[c]
      /\ \A c \in Keys : journal.changes[c] # None => journal'.changes[c] # None
      /\ journal'.changes[op.k].cand = journal.changes[op.k].cand
      /\ journal'.changes[op.k].state = "failed"
  BY <1>0, <1>2, Marks DEF States
<1> QED BY <1>1, <1>2, <1>3


\* hostd serves requests before its own Initialize, which has yet to say that it is ready.
LEMMA HostdStartLive ==
  ASSUME Inv, LiveInv, Inv', HostdStart
  PROVE  LiveInv'
<1> USE HostNetworkAssumption
<1>1. Showing'
  BY DEF HostdStart, Inv, LiveInv, disk, systemd, Showing, Ready, AtRest, Awaiting, Before, Shows
<1>2. Starting' /\ Placing' /\ Moving'
  BY DEF HostdStart, Inv, LiveInv, disk, Starting, Placing, Moving
<1>3. Waiting' /\ Apart'
  BY DEF HostdStart, Inv, LiveInv, disk, systemd, Waiting, Before, Apart
<1> QED BY <1>1, <1>2, <1>3 DEF LiveInv

\* While a start is under way nothing is said of the bridge.
LEMMA InitializeLive ==
  ASSUME Inv, LiveInv, Inv', NEW by \in {"boot", "hostd"}, proc.init = "todo", Initialize(by)
  PROVE  LiveInv'
<1> USE HostNetworkAssumption
<1>1. Showing'
  BY DEF Initialize, Enter, Inv, LiveInv, Showing, Ready
<1>2. Starting' /\ Placing' /\ Moving'
  BY DEF Initialize, Enter, Locked, Inv, LiveInv, Starting, Placing, Moving
<1>3. Waiting' /\ Apart'
  BY DEF Initialize, Enter, KnownServices, validateServices, Inv, LiveInv, NoServices, Waiting,
     Apart, Distinct
<1> QED BY <1>1, <1>2, <1>3 DEF LiveInv

\* A start that is refused says that it has failed.
LEMMA RefusedLive ==
  ASSUME Inv, LiveInv, Inv', NEW by \in {"boot", "hostd"}, proc.init = "todo", Refused(by)
  PROVE  LiveInv'
<1> USE HostNetworkAssumption
<1>1. Showing'
  BY DEF Refused, Locked, Started, Inv, LiveInv, Idle, Showing, Ready
<1>2. Starting' /\ Placing' /\ Moving'
  BY DEF Refused, Locked, Started, Inv, LiveInv, Idle, Starting, Placing, Moving
<1>3. Waiting' /\ Apart'
  BY DEF Refused, Locked, Inv, LiveInv, Idle, disk, Waiting, Apart
<1> QED BY <1>1, <1>2, <1>3 DEF LiveInv

\* A new change has not touched the bridge.
LEMMA SubmitLive ==
  ASSUME Inv, LiveInv, Inv', NEW k \in Keys, NEW c \in Candidates, NEW rev \in Configs, Submit(k,
     c, rev)
  PROVE  LiveInv'
<1> USE HostNetworkAssumption
<1>1. Showing'
  BY DEF Submit, Inv, TypeOK, Journals, LiveInv, Showing, Ready, AtRest, Awaiting, Shows
<1>2. Starting' /\ Placing' /\ Moving'
  BY DEF Submit, Locked, Inv, LiveInv, Idle, Starting, Placing, Moving
<1>3. Waiting' /\ Apart'
  BY DEF Submit, Locked, validateServices, Inv, Pending, LiveInv, Idle, Waiting, Apart, Distinct
<1> QED BY <1>1, <1>2, <1>3 DEF LiveInv

\* The goroutine has not touched the bridge when it arms the timer.
LEMMA ApplyLive ==
  ASSUME Inv, LiveInv, Inv', NEW k \in Keys, Apply(k)
  PROVE  LiveInv'
<1> USE HostNetworkAssumption
<1>1. /\ op = Idle /\ k \in applying /\ applying' = applying \ {k} /\ UNCHANGED <<kernel, passed, proc>>
      /\ journal \in Journals
  BY DEF Apply, Locked, systemd, Inv, TypeOK
<1>2. CASE journal.pending # k
  <2>1. UNCHANGED <<journal, op>>
    BY <1>2 DEF Apply
  <2>2. Showing'
    BY <1>1, <1>2, <2>1 DEF LiveInv, Showing, Ready, AtRest, Awaiting, Before, Shows
  <2>3. Starting' /\ Placing' /\ Moving' /\ Waiting' /\ Apart'
    BY <1>1, <2>1 DEF LiveInv, Starting, Placing, Moving, Waiting, Before, Apart, Distinct
  <2> QED BY <2>2, <2>3 DEF LiveInv
<1>3. CASE journal.pending = k
  <2>1. Showing'
    BY <1>3, ApplyBegins DEF LiveInv, Showing, Ready, AtRest, Awaiting, Shows, Waiting, Idle
  <2>2. Starting' /\ Placing'
    BY <1>3, ApplyBegins DEF LiveInv, Starting, Placing
  <2>3. Moving' /\ Waiting'
    BY <1>3, ApplyBegins DEF Inv, TypeOK, LiveInv, Moving, Waiting
  <2>4. Apart'
    BY <1>3, ApplyBegins DEF LiveInv, Apart, Distinct
  <2> QED BY <2>1, <2>2, <2>3, <2>4 DEF LiveInv
<1> QED BY <1>2, <1>3

\* From then on nothing is said of the bridge until the change is on it.
LEMMA ArmLive ==
  ASSUME Inv, LiveInv, Inv', Arm
  PROVE  LiveInv'
<1> USE HostNetworkAssumption
<1>1. Showing'
  BY DEF Arm, Goto, Inv, Fresh, Pending, Booting, LiveInv, bounds, NoServices, Showing, Ready,
     AtRest, Awaiting, Before, Shows
<1>2. Starting' /\ Placing' /\ Moving'
  BY DEF Arm, Goto, Inv, LiveInv, disk, Starting, Placing, Moving
<1>3. Waiting' /\ Apart'
  BY DEF Arm, Goto, Inv, Working, LiveInv, disk, Waiting, Apart
<1> QED BY <1>1, <1>2, <1>3 DEF LiveInv

\* Without a timer the change is given up before it touched the bridge.
LEMMA ArmFailsLive ==
  ASSUME Inv, LiveInv, Inv', ArmFails
  PROVE  LiveInv'
<1> USE HostNetworkAssumption
<1>1. Showing'
  BY DEF ArmFails, Leave, Inv, Fresh, LiveInv, Idle, Showing, Ready, AtRest, Awaiting, Shows
<1>2. Starting' /\ Placing' /\ Moving'
  BY DEF ArmFails, Leave, Inv, LiveInv, Idle, Starting, Placing, Moving
<1>3. Waiting' /\ Apart'
  BY DEF ArmFails, Leave, Inv, Working, Fresh, LiveInv, Idle, Waiting, Apart
<1> QED BY <1>1, <1>2, <1>3 DEF LiveInv

\* What may be confirmed is on the bridge.
LEMMA ConfirmLive ==
  ASSUME Inv, LiveInv, Inv', NEW k \in Keys, Confirm(k)
  PROVE  LiveInv'
<1> USE HostNetworkAssumption
<1>1. /\ op = Idle /\ proc.hostd = "up" /\ UNCHANGED <<kernel, passed, proc, applying>>
      /\ journal \in Journals /\ journal.pending = k
      /\ journal.changes[k].state = "awaiting_confirmation" /\ k # None /\ journal.changes[k] # None
  BY DEF Confirm, Locked, systemd, Inv, TypeOK, Pending
<1>2. CASE Before(k)
  <2>1. Showing'
    BY <1>1, <1>2, ConfirmTakes DEF LiveInv, Showing, Ready, AtRest, Awaiting, Shows, Idle
  <2>2. Starting' /\ Placing' /\ Moving'
    BY <1>1, <1>2, ConfirmTakes DEF LiveInv, Starting, Placing, Moving
  <2>3. Waiting'
    BY <1>1, <1>2, ConfirmTakes DEF Inv, TypeOK, LiveInv, Waiting
  <2>4. Apart'
    BY <1>1, <1>2, ConfirmTakes DEF LiveInv, Apart, Distinct
  <2> QED BY <2>1, <2>2, <2>3, <2>4 DEF LiveInv
<1>3. CASE ~Before(k)
  <2>1. /\ UNCHANGED journal /\ op'.kind = "restore" /\ op'.by = "hostd" /\ op'.pc = "detach" /\ op'.k = k
        /\ op'.from = journal.changes[k].cand
    BY <1>3 DEF Confirm, Restore, Enter
  <2>2. Showing' /\ Starting' /\ Placing'
    BY <1>1, <2>1 DEF LiveInv, Showing, Ready, AtRest, Awaiting, Before, Shows, Starting, Placing, Idle
  <2>3. Moving' /\ Waiting' /\ Apart'
    BY <1>1, <2>1 DEF LiveInv, Moving, Waiting, Before, Apart, Distinct
  <2> QED BY <2>2, <2>3 DEF LiveInv
<1> QED BY <1>2, <1>3

\* A rollback leaves what is confirmed alone.
LEMMA RollbackLive ==
  ASSUME Inv, LiveInv, Inv', NEW k \in Keys, NEW by \in {"hostd", "timer"}, Rollback(k, by)
  PROVE  LiveInv'
<1> USE HostNetworkAssumption
<1>1. Showing'
  BY DEF Rollback, Restore, Enter, Inv, LiveInv, disk, Showing, Ready, AtRest, Awaiting, Before,
     Shows
<1>2. Starting' /\ Placing' /\ Moving'
  BY DEF Rollback, Locked, Restore, Enter, Inv, LiveInv, disk, Starting, Placing, Moving
<1>3. Waiting' /\ Apart'
  BY DEF Rollback, Restore, Enter, Inv, LiveInv, disk, Waiting, Before, Apart
<1> QED BY <1>1, <1>2, <1>3 DEF LiveInv

\* A pool is no part of the bridge.
LEMMA MigrateDefaultLive ==
  ASSUME Inv, LiveInv, Inv', MigrateDefault
  PROVE  LiveInv'
<1> USE HostNetworkAssumption
<1>1. Showing'
  BY MigrateFills DEF LiveInv, Showing, Ready, AtRest, Awaiting, Shows, Idle
<1>2. Starting' /\ Placing' /\ Moving'
  BY MigrateFills DEF LiveInv, Starting, Placing, Moving
<1>3. Waiting' /\ Apart'
  BY MigrateFills DEF LiveInv, Waiting, Before, Apart, Distinct
<1> QED BY <1>1, <1>2, <1>3 DEF LiveInv

\* A bridge that lost its adapters is marked.
LEMMA HotplugLive ==
  ASSUME Inv, LiveInv, Inv', Hotplug
  PROVE  LiveInv'
<1> USE HostNetworkAssumption
<1>1. Showing'
  BY DEF Hotplug, Inv, LiveInv, disk, systemd, Showing, Ready, AtRest, Awaiting, Before, Shows
<1>2. Starting' /\ Placing' /\ Moving'
  BY DEF Hotplug, Inv, LiveInv, disk, Starting, Placing, Moving
<1>3. Waiting' /\ Apart'
  BY DEF Hotplug, Inv, LiveInv, disk, systemd, Waiting, Before, Apart
<1> QED BY <1>1, <1>2, <1>3 DEF LiveInv

\* Watch moves the bridge from what is confirmed to the same.
LEMMA WatchLive ==
  ASSUME Inv, LiveInv, Inv', Watch
  PROVE  LiveInv'
<1> USE HostNetworkAssumption
<1>1. Showing'
  BY DEF Watch, Inv, LiveInv, disk, systemd, Showing, Ready, AtRest, Awaiting, Before, Shows
<1>2. Starting' /\ Placing' /\ Moving'
  BY DEF Watch, Locked, Enter, Inv, LiveInv, disk, Starting, Placing, Moving
<1>3. Waiting' /\ Apart'
  BY DEF Watch, Locked, Enter, Inv, LiveInv, Idle, disk, Waiting, Apart
<1> QED BY <1>1, <1>2, <1>3 DEF LiveInv

\* Adapters that are where they belong stay there.
LEMMA DetachLive ==
  ASSUME Inv, LiveInv, Inv', Detach
  PROVE  LiveInv'
<1> USE HostNetworkAssumption
<1>1. Showing'
  BY DEF Detach, Goto, Inv, Working, Pending, LiveInv, disk, Showing, Ready, AtRest, Awaiting,
     Shows, Moving, Waiting, Applying
<1>2. Starting' /\ Placing' /\ Moving'
  BY DEF Detach, Goto, Inv, LiveInv, disk, Starting, Placing, Moving
<1>3. Waiting' /\ Apart'
  BY DEF Detach, Goto, Inv, LiveInv, disk, systemd, Waiting, Before, Applying, Apart
<1> QED BY <1>1, <1>2, <1>3 DEF LiveInv

\* The adapters are where the target wants them.
LEMMA AttachLive ==
  ASSUME Inv, LiveInv, Inv', Attach
  PROVE  LiveInv'
<1> USE HostNetworkAssumption
<1>1. Showing'
  BY DEF Attach, Goto, Inv, Working, Pending, LiveInv, disk, Showing, Ready, AtRest, Awaiting,
     Shows, Moving, Waiting, Apart, Applying
<1>2. Starting' /\ Placing' /\ Moving'
  BY DEF Attach, Goto, Inv, LiveInv, disk, Starting, Placing, Moving
<1>3. Waiting' /\ Apart'
  BY DEF Attach, Goto, Inv, LiveInv, disk, systemd, Waiting, Before, Applying, Apart
<1> QED BY <1>1, <1>2, <1>3 DEF LiveInv

\* The address that goes is not the one that stays.
LEMMA DeletePreviousLive ==
  ASSUME Inv, LiveInv, Inv', DeletePrevious
  PROVE  LiveInv'
<1> USE HostNetworkAssumption
<1>1. Showing'
  BY DEF DeletePrevious, Goto, Inv, Working, Pending, LiveInv, disk, Showing, Ready, AtRest,
     Awaiting, Shows, Moving, Waiting, Applying
<1>2. Starting' /\ Placing' /\ Moving'
  BY DEF DeletePrevious, Goto, Inv, LiveInv, disk, Starting, Placing, Moving
<1>3. Waiting' /\ Apart'
  BY DEF DeletePrevious, Goto, Inv, LiveInv, disk, systemd, Waiting, Before, Applying, Apart
<1> QED BY <1>1, <1>2, <1>3 DEF LiveInv

\* The address of the target is on the bridge.
LEMMA AddAddressesLive ==
  ASSUME Inv, LiveInv, Inv', AddAddresses
  PROVE  LiveInv'
<1> USE HostNetworkAssumption
<1>1. Showing'
  BY DEF AddAddresses, Goto, Inv, LiveInv, disk, systemd, Showing, Ready, AtRest, Awaiting, Before,
     Shows
<1>2. Starting' /\ Placing' /\ Moving'
  BY DEF AddAddresses, Goto, Inv, LiveInv, disk, Starting, Placing, Moving
<1>3. Waiting' /\ Apart'
  BY DEF AddAddresses, Goto, Inv, LiveInv, disk, systemd, Waiting, Before, Applying, Apart
<1> QED BY <1>1, <1>2, <1>3 DEF LiveInv

\* A bridge that was put in order is unmarked, unless it was disturbed meanwhile.
LEMMA WriteUnitLive ==
  ASSUME Inv, LiveInv, Inv', WriteUnit
  PROVE  LiveInv'
<1> USE HostNetworkAssumption
<1>1. Showing'
  BY DEF WriteUnit, Goto, Inv, Working, Pending, LiveInv, disk, Showing, Ready, AtRest, Awaiting,
     Shows, Placing, Moving, Waiting, Applying
<1>2. Starting' /\ Placing' /\ Moving'
  BY DEF WriteUnit, Goto, Inv, LiveInv, disk, Starting, Placing, Moving
<1>3. Waiting' /\ Apart'
  BY DEF WriteUnit, Goto, Inv, LiveInv, disk, systemd, Waiting, Before, Applying, Apart
<1> QED BY <1>1, <1>2, <1>3 DEF LiveInv

\* A lease is no configured address.
LEMMA LeaseLive ==
  ASSUME Inv, LiveInv, Inv', Lease
  PROVE  LiveInv'
<1> USE HostNetworkAssumption
<1>1. Showing'
  BY DEF Lease, Inv, LiveInv, disk, systemd, Showing, Ready, AtRest, Awaiting, Before, Shows
<1>2. Starting' /\ Placing' /\ Moving'
  BY DEF Lease, Inv, LiveInv, disk, Starting, Placing, Moving
<1>3. Waiting' /\ Apart'
  BY DEF Lease, Inv, LiveInv, disk, systemd, Waiting, Before, Apart
<1> QED BY <1>1, <1>2, <1>3 DEF LiveInv

\* Verification only reads.
LEMMA VerifyLive ==
  ASSUME Inv, LiveInv, Inv', Verify
  PROVE  LiveInv'
<1> USE HostNetworkAssumption
<1>1. Showing'
  BY DEF Verify, Goto, Inv, LiveInv, disk, systemd, Showing, Ready, AtRest, Awaiting, Before, Shows
<1>2. Starting' /\ Placing' /\ Moving'
  BY DEF Verify, Goto, Inv, LiveInv, disk, Starting, Placing, Moving
<1>3. Waiting' /\ Apart'
  BY DEF Verify, Goto, Inv, LiveInv, disk, systemd, Waiting, Before, Applying, Apart
<1> QED BY <1>1, <1>2, <1>3 DEF LiveInv

\* What a start has configured becomes what is confirmed.
LEMMA InitAppliedLive ==
  ASSUME Inv, LiveInv, Inv', InitApplied
  PROVE  LiveInv'
<1> USE HostNetworkAssumption
<1>1. /\ op.pc = "applied" /\ op.kind = "init" /\ mem = journal /\ journal \in Journals
      /\ op'.pc = "file" /\ op'.kind = "init" /\ op'.by = op.by /\ op'.to = op.to
      /\ op.k = journal.pending /\ UNCHANGED <<kernel, passed, proc, applying>>
  BY DEF InitApplied, Inv, TypeOK, Working, Operations, Fresh, Pending, Applying, systemd
<1>2. /\ journal'.pending = None /\ journal'.startup = None /\ journal'.confirmed = op.to
      /\ journal'.services = journal.services
      /\ journal'.changes = IF op.k = None THEN journal.changes
                            ELSE [journal.changes EXCEPT ![op.k].state = "rolled_back"]
  BY <1>1 DEF InitApplied, Journals
<1>3. \A c \in Keys : /\ journal.changes[c] # None => journal'.changes[c] # None
                      /\ journal'.changes[c].state \in {journal.changes[c].state, "rolled_back"}
  <2>1. CASE op.k # None
    <3>1. op.k \in Keys /\ journal.changes[op.k] # None
      BY <1>1, <2>1 DEF Inv, Pending, Journals
    <3> QED BY <1>1, <1>2, <2>1, <3>1, Marks DEF States
  <2> QED BY <1>2, <2>1
<1>4. Showing'
  BY <1>1, <1>2 DEF LiveInv, Showing, AtRest, Awaiting, Shows, Placing
<1>5. Starting' /\ Placing' /\ Moving'
  BY <1>1, <1>2 DEF LiveInv, Starting, Placing, Moving
<1>6. Waiting'
  BY <1>1, <1>3 DEF Inv, TypeOK, LiveInv, Waiting, Starting
<1>7. Apart'
  BY <1>1, <1>2 DEF LiveInv, Apart, Distinct, Applying
<1> QED BY <1>4, <1>5, <1>6, <1>7 DEF LiveInv

\* A change that is on the bridge waits for its confirmation.
LEMMA ChangeAppliedLive ==
  ASSUME Inv, LiveInv, Inv', ChangeApplied
  PROVE  LiveInv'
<1> USE HostNetworkAssumption
<1>1. /\ op.pc = "applied" /\ op.kind = "apply" /\ mem = journal /\ journal \in Journals
      /\ UNCHANGED <<kernel, passed, proc, applying>>
      /\ op.k = journal.pending /\ op.k \in Keys /\ op.k # None /\ journal.changes[op.k] # None
  BY DEF ChangeApplied, Inv, TypeOK, Working, Fresh, Pending
<1>2. CASE Before(op.k)
  <2>1. Showing'
    BY <1>1, <1>2, ChangeAwaits DEF LiveInv, Showing, Ready, AtRest, Awaiting, Shows, Placing, Moving, Waiting, Idle
  <2>2. Starting' /\ Placing' /\ Moving'
    BY <1>1, <1>2, ChangeAwaits DEF LiveInv, Starting, Placing, Moving, Idle
  <2>3. Waiting'
    BY <1>1, <1>2, ChangeAwaits DEF Inv, TypeOK, LiveInv, Waiting, Idle
  <2>4. Apart'
    BY <1>1, <1>2, ChangeAwaits DEF LiveInv, Apart, Distinct, Idle
  <2> QED BY <2>1, <2>2, <2>3, <2>4 DEF LiveInv
<1>3. CASE ~Before(op.k)
  <2>1. /\ UNCHANGED journal /\ op'.kind = "restore" /\ op'.by = op.by /\ op'.pc = "detach" /\ op'.k = op.k
        /\ op'.from = journal.changes[op.k].cand
    BY <1>1, <1>3 DEF ChangeApplied, Restore, Enter
  <2>2. Showing' /\ Starting' /\ Placing'
    BY <1>1, <2>1 DEF LiveInv, Showing, Ready, AtRest, Awaiting, Before, Shows, Starting, Placing
  <2>3. Moving' /\ Waiting' /\ Apart'
    BY <1>1, <1>3, <2>1 DEF LiveInv, Moving, Waiting, Before, Apart, Distinct
  <2> QED BY <2>2, <2>3 DEF LiveInv
<1> QED BY <1>2, <1>3

\* The file is written before the journal says that the change is undone.
LEMMA RestoreFileLive ==
  ASSUME Inv, LiveInv, Inv', RestoreFile
  PROVE  LiveInv'
<1> USE HostNetworkAssumption
<1>1. Showing'
  BY DEF RestoreFile, Goto, Inv, LiveInv, Showing, Ready, AtRest, Awaiting, Shows
<1>2. Starting' /\ Placing' /\ Moving'
  BY DEF RestoreFile, Goto, Inv, LiveInv, Starting, Placing, Moving
<1>3. Waiting' /\ Apart'
  BY DEF RestoreFile, Goto, Inv, LiveInv, systemd, Waiting, Before, Apart
<1> QED BY <1>1, <1>2, <1>3 DEF LiveInv

\* A change is undone when the bridge shows what is confirmed.
LEMMA RestoreSaveLive ==
  ASSUME Inv, LiveInv, Inv', RestoreSave
  PROVE  LiveInv'
<1> USE HostNetworkAssumption
<1>1. /\ op.pc = "save" /\ op.kind = "restore" /\ mem = journal /\ journal \in Journals
      /\ op'.pc = "cancel" /\ op'.kind = "restore" /\ op'.by = op.by /\ op'.to = op.to
      /\ op.k = journal.pending /\ op.k \in Keys /\ journal.changes[op.k] # None /\ op.to = journal.confirmed
      /\ UNCHANGED <<kernel, passed, proc, applying>>
  BY DEF RestoreSave, Goto, Inv, TypeOK, Working, Operations, Fresh, Pending, systemd
<1>2. /\ journal'.pending = None /\ journal'.startup = journal.startup
      /\ journal'.confirmed = journal.confirmed
      /\ journal'.services = journal.services
      /\ journal'.changes = [journal.changes EXCEPT ![op.k].state = "rolled_back"]
  BY <1>1 DEF RestoreSave, Journals
<1>3. \A c \in Keys : /\ journal.changes[c] # None => journal'.changes[c] # None
                      /\ journal'.changes[c].state \in {journal.changes[c].state, "rolled_back"}
  BY <1>1, <1>2, Marks DEF States
<1>4. Showing'
  BY <1>1, <1>2 DEF LiveInv, Showing, Ready, AtRest, Awaiting, Shows, Placing
<1>5. Starting' /\ Placing' /\ Moving'
  BY <1>1, <1>2 DEF LiveInv, Starting, Placing, Moving
<1>6. Waiting'
  BY <1>1, <1>3 DEF Inv, TypeOK, LiveInv, Waiting
<1>7. Apart'
  BY <1>1, <1>2 DEF LiveInv, Apart, Distinct
<1> QED BY <1>4, <1>5, <1>6, <1>7 DEF LiveInv

\* Watch has put the confirmed settings back.
LEMMA ReconciledLive ==
  ASSUME Inv, LiveInv, Inv', Reconciled
  PROVE  LiveInv'
<1> USE HostNetworkAssumption
<1>1. Showing'
  BY DEF Reconciled, Leave, Inv, LiveInv, Idle, disk, Showing, Ready, AtRest, Awaiting, Before,
     Shows
<1>2. Starting' /\ Placing' /\ Moving'
  BY DEF Reconciled, Leave, Inv, LiveInv, Idle, Starting, Placing, Moving
<1>3. Waiting' /\ Apart'
  BY DEF Reconciled, Leave, Inv, LiveInv, Idle, disk, Waiting, Apart
<1> QED BY <1>1, <1>2, <1>3 DEF LiveInv

\* The file follows the journal.
LEMMA WriteConfigLive ==
  ASSUME Inv, LiveInv, Inv', WriteConfig
  PROVE  LiveInv'
<1> USE HostNetworkAssumption
<1>1. Showing'
  BY DEF WriteConfig, Goto, Inv, LiveInv, systemd, Showing, Ready, AtRest, Awaiting, Before, Shows
<1>2. Starting' /\ Placing' /\ Moving'
  BY DEF WriteConfig, Goto, Inv, LiveInv, Starting, Placing, Moving
<1>3. Waiting' /\ Apart'
  BY DEF WriteConfig, Goto, Inv, LiveInv, systemd, Waiting, Before, Applying, Apart
<1> QED BY <1>1, <1>2, <1>3 DEF LiveInv

\* A start that comes to its end is ready.
LEMMA SettleLive ==
  ASSUME Inv, LiveInv, Inv', Settle
  PROVE  LiveInv'
<1> USE HostNetworkAssumption
<1>1. Showing'
  BY DEF Settle, Goto, Leave, Started, Inv, Working, Operations, Fresh, LiveInv, Idle, Showing,
     Ready, AtRest, Awaiting, Before, Shows
<1>2. Starting' /\ Placing' /\ Moving'
  BY DEF Settle, Goto, Leave, Started, Inv, TypeOK, Processes, Working, Operations, Fresh, Pending,
     Booting, LiveInv, Idle, bounds, NoServices, Starting, Placing, Moving
<1>3. Waiting' /\ Apart'
  BY DEF Settle, Goto, Leave, Started, Inv, Working, Operations, Fresh, LiveInv, Idle, Waiting,
     Apart
<1> QED BY <1>1, <1>2, <1>3 DEF LiveInv

\* Stopping a timer does not touch the bridge.
LEMMA CancelLive ==
  ASSUME Inv, LiveInv, Inv', Cancel
  PROVE  LiveInv'
<1> USE HostNetworkAssumption
<1>1. Showing'
  BY DEF Cancel, Inv, LiveInv, Idle, disk, Showing, Ready, AtRest, Awaiting, Shows, Moving
<1>2. Starting' /\ Placing' /\ Moving'
  BY DEF Cancel, Inv, LiveInv, Idle, Starting, Placing, Moving
<1>3. Waiting' /\ Apart'
  BY DEF Cancel, Inv, LiveInv, Idle, disk, Waiting, Apart
<1> QED BY <1>1, <1>2, <1>3 DEF LiveInv

\* A service gets an address that is not the one of the bridge.
LEMMA AddServiceLive ==
  ASSUME Inv, LiveInv, Inv', NEW s \in Stacks, NEW a \in SvcAddrs, AddService(s, a)
  PROVE  LiveInv'
<1> USE HostNetworkAssumption
<1>1. Showing'
  BY DEF AddService, Inv, LiveInv, Showing, Ready, AtRest, Awaiting, Shows
<1>2. Starting' /\ Placing' /\ Moving'
  BY DEF AddService, Locked, Inv, LiveInv, Starting, Placing, Moving
<1>3. Waiting' /\ Apart'
  BY DEF AddService, validateServices, Inv, LiveInv, NoServices, Waiting, Apart, Distinct
<1> QED BY <1>1, <1>2, <1>3 DEF LiveInv

\* An address is added.
LEMMA AnnounceLive ==
  ASSUME Inv, LiveInv, Inv', Announce
  PROVE  LiveInv'
<1> USE HostNetworkAssumption
<1>1. Showing'
  BY DEF Announce, Leave, Inv, Working, LiveInv, Idle, disk, Showing, Ready, AtRest, Awaiting,
     Before, Shows
<1>2. Starting' /\ Placing' /\ Moving'
  BY DEF Announce, Leave, Inv, LiveInv, Idle, Starting, Placing, Moving
<1>3. Waiting' /\ Apart'
  BY DEF Announce, Leave, Inv, LiveInv, Idle, disk, Waiting, Apart
<1> QED BY <1>1, <1>2, <1>3 DEF LiveInv

\* The address of a service is not the one of the bridge.
LEMMA DelServiceLive ==
  ASSUME Inv, LiveInv, Inv', NEW s \in Stacks, NEW a \in SvcAddrs, DelService(s, a)
  PROVE  LiveInv'
<1> USE HostNetworkAssumption
<1>1. Showing'
  BY DEF DelService, Inv, LiveInv, disk, Showing, Ready, AtRest, Awaiting, Shows, Apart, Distinct
<1>2. Starting' /\ Placing' /\ Moving'
  BY DEF DelService, Locked, Inv, LiveInv, disk, Starting, Placing, Moving
<1>3. Waiting' /\ Apart'
  BY DEF DelService, Inv, LiveInv, disk, Waiting, Apart
<1> QED BY <1>1, <1>2, <1>3 DEF LiveInv

\* The journal forgets an address that has gone.
LEMMA ForgetLive ==
  ASSUME Inv, LiveInv, Inv', Forget
  PROVE  LiveInv'
<1> USE HostNetworkAssumption
<1>1. Showing'
  BY DEF Forget, Leave, Inv, Working, Fresh, LiveInv, Idle, Showing, Ready, AtRest, Awaiting,
     Before, Shows
<1>2. Starting' /\ Placing' /\ Moving'
  BY DEF Forget, Leave, Inv, LiveInv, Idle, Starting, Placing, Moving
<1>3. Waiting' /\ Apart'
  BY DEF Forget, Leave, Inv, Fresh, LiveInv, Idle, Waiting, Apart, Distinct
<1> QED BY <1>1, <1>2, <1>3 DEF LiveInv

\* No wanted address is the one of the bridge.
LEMMA SyncServicesLive ==
  ASSUME Inv, LiveInv, Inv', NEW want \in Services, SyncServices(want)
  PROVE  LiveInv'
<1> USE HostNetworkAssumption
<1>1. Showing'
  BY DEF SyncServices, Inv, LiveInv, disk, Showing, Ready, AtRest, Awaiting, Shows
<1>2. Starting' /\ Placing' /\ Moving'
  BY DEF SyncServices, Locked, Inv, LiveInv, disk, Starting, Placing, Moving
<1>3. Waiting' /\ Apart'
  BY DEF SyncServices, validateServices, Inv, LiveInv, disk, Waiting, Apart, Distinct
<1> QED BY <1>1, <1>2, <1>3 DEF LiveInv

\* The address of a service is not the one of the bridge.
LEMMA DropStaleLive ==
  ASSUME Inv, LiveInv, Inv', NEW s \in Stacks, DropStale(s)
  PROVE  LiveInv'
<1> USE HostNetworkAssumption
<1>1. Showing'
  BY DEF DropStale, Stale, Inv, Fresh, LiveInv, systemd, Showing, Ready, AtRest, Awaiting, Before,
     Shows, Apart, Distinct
<1>2. Starting' /\ Placing' /\ Moving'
  BY DEF DropStale, Inv, Working, LiveInv, disk, Starting, Placing, Moving
<1>3. Waiting' /\ Apart'
  BY DEF DropStale, Inv, Working, LiveInv, disk, Waiting, Apart
<1> QED BY <1>1, <1>2, <1>3 DEF LiveInv

\* The journal forgets an address that has gone.
LEMMA SaveDroppedLive ==
  ASSUME Inv, LiveInv, Inv', SaveDropped
  PROVE  LiveInv'
<1> USE HostNetworkAssumption
<1>1. Showing'
  BY DEF SaveDropped, Inv, Fresh, LiveInv, systemd, Showing, Ready, AtRest, Awaiting, Before, Shows
<1>2. Starting' /\ Placing' /\ Moving'
  BY DEF SaveDropped, Inv, Working, Fresh, LiveInv, Starting, Placing, Moving
<1>3. Waiting' /\ Apart'
  BY DEF SaveDropped, Inv, Working, Fresh, LiveInv, Waiting, Apart, Distinct
<1> QED BY <1>1, <1>2, <1>3 DEF LiveInv

\* No wanted address is the one of the bridge.
LEMMA TakeWantedLive ==
  ASSUME Inv, LiveInv, Inv', NEW s \in Stacks, TakeWanted(s)
  PROVE  LiveInv'
<1> USE HostNetworkAssumption
<1>1. Showing'
  BY DEF TakeWanted, Missing, Inv, Fresh, LiveInv, systemd, Showing, Ready, AtRest, Awaiting,
     Before, Shows
<1>2. Starting' /\ Placing' /\ Moving'
  BY DEF TakeWanted, Inv, Working, Fresh, LiveInv, Starting, Placing, Moving
<1>3. Waiting' /\ Apart'
  BY DEF TakeWanted, Inv, Working, Fresh, LiveInv, Waiting, Moving, Apart, Distinct
<1> QED BY <1>1, <1>2, <1>3 DEF LiveInv

\* An address is added.
LEMMA AnnounceWantedLive ==
  ASSUME Inv, LiveInv, Inv', AnnounceWanted
  PROVE  LiveInv'
<1> USE HostNetworkAssumption
<1>1. Showing'
  BY DEF AnnounceWanted, Inv, LiveInv, disk, systemd, Showing, Ready, AtRest, Awaiting, Before,
     Shows
<1>2. Starting' /\ Placing' /\ Moving'
  BY DEF AnnounceWanted, Inv, Working, LiveInv, disk, Starting, Placing, Moving
<1>3. Waiting' /\ Apart'
  BY DEF AnnounceWanted, Inv, Working, LiveInv, disk, Waiting, Apart
<1> QED BY <1>1, <1>2, <1>3 DEF LiveInv

\* A synchronization ends.
LEMMA SyncedLive ==
  ASSUME Inv, LiveInv, Inv', Synced
  PROVE  LiveInv'
<1> USE HostNetworkAssumption
<1>1. Showing'
  BY DEF Synced, Leave, Inv, Working, LiveInv, Idle, disk, Showing, Ready, AtRest, Awaiting,
     Before, Shows
<1>2. Starting' /\ Placing' /\ Moving'
  BY DEF Synced, Leave, Inv, LiveInv, Idle, Starting, Placing, Moving
<1>3. Waiting' /\ Apart'
  BY DEF Synced, Leave, Inv, LiveInv, Idle, disk, Waiting, Apart
<1> QED BY <1>1, <1>2, <1>3 DEF LiveInv

\* A change that fails is undone; a start that fails says so; a rollback that fails cannot be confirmed.
LEMMA FailureLive ==
  ASSUME Inv, LiveInv, Inv', Failure, UNCHANGED <<kernel, passed, applying>>,
         op.pc \in {"detach", "attach", "delete", "add", "unit", "verify", "announce", "drop", "taken"}
  PROVE  LiveInv'
<1> USE HostNetworkAssumption
<1>1. /\ mem = journal /\ journal \in Journals
      /\ op.kind \in {"apply", "restore"} =>
            op.k = journal.pending /\ op.k \in Keys /\ op.k # None /\ journal.changes[op.k] # None
  BY DEF Inv, TypeOK, Working, Fresh, Pending
<1>5. op.kind \in {"apply", "restore"} => op.pc \in Applying
  BY DEF Inv, Working, Applying
<1>2. CASE op.kind = "apply"
  <2>1. /\ UNCHANGED <<journal, proc>> /\ op'.kind = "restore" /\ op'.by = op.by /\ op'.pc = "detach"
        /\ op'.k = op.k /\ op'.from = journal.changes[op.k].cand
    BY <1>1, <1>2 DEF Failure, Restore, Enter
  <2>2. op.by # "timer"
    BY <1>2 DEF Inv, Working
  <2>3. Showing' /\ Starting' /\ Placing'
    BY <1>1, <1>2, <2>1 DEF LiveInv, Showing, Ready, AtRest, Awaiting, Before, Shows, Starting, Placing
  <2>4. Moving' /\ Waiting' /\ Apart'
    BY <1>1, <1>2, <2>1, <2>2 DEF LiveInv, Moving, Waiting, Before, Apart, Distinct
  <2> QED BY <2>3, <2>4 DEF LiveInv
<1>3. CASE op.kind = "restore"
  <2>1. Showing'
    BY <1>1, <1>3, <1>5, RestoreFails DEF LiveInv, Showing, Ready, AtRest, Awaiting, Shows, Idle
  <2>2. Starting' /\ Placing' /\ Moving'
    BY <1>1, <1>3, <1>5, RestoreFails DEF LiveInv, Starting, Placing, Moving, Idle
  <2>3. Waiting'
    BY <1>1, <1>3, <1>5, RestoreFails DEF Inv, TypeOK, LiveInv, Waiting, Idle
  <2>4. Apart'
    <3>1. /\ op' = Idle /\ journal'.pending = journal.pending /\ journal'.confirmed = journal.confirmed
          /\ journal'.services = journal.services
          /\ journal'.changes[journal'.pending].cand = journal.changes[journal.pending].cand
      BY <1>1, <1>3, <1>5, RestoreFails
    <3> QED BY <3>1 DEF LiveInv, Apart, Distinct, Idle
  <2> QED BY <2>1, <2>2, <2>3, <2>4 DEF LiveInv
<1>4. CASE op.kind \notin {"apply", "restore"}
  <2>1. /\ UNCHANGED journal /\ op' = Idle /\ proc \in Processes
        /\ IF op.kind = "init" THEN Started(op.by, FALSE) ELSE UNCHANGED proc
    BY <1>4 DEF Failure, Leave, Inv, TypeOK
  <2>2. proc'.init = "ok" => op.kind # "init" /\ proc.init = "ok"
    BY <2>1 DEF Started, Processes, LiveInv, Starting
  <2>3. Showing'
    BY <1>4, <2>1, <2>2 DEF LiveInv, Showing, Ready, AtRest, Awaiting, Before, Shows, Idle
  <2>4. Starting'
    BY <2>1 DEF LiveInv, Starting, Started, Processes, Idle
  <2>5. Placing' /\ Moving' /\ Waiting' /\ Apart'
    BY <2>1 DEF LiveInv, Placing, Moving, Waiting, Before, Apart, Distinct, Idle
  <2> QED BY <2>3, <2>4, <2>5 DEF LiveInv
<1> QED BY <1>2, <1>3, <1>4

\* A hostd that died has yet to start.
LEMMA HostdDiesLive ==
  ASSUME Inv, LiveInv, Inv', HostdDies
  PROVE  LiveInv'
<1> USE HostNetworkAssumption
<1>1. Showing'
  BY DEF HostdDies, Dies, Inv, LiveInv, Idle, disk, systemd, Showing, Ready, AtRest, Awaiting,
     Before, Shows
<1>2. Starting' /\ Placing' /\ Moving'
  BY DEF HostdDies, Dies, Inv, LiveInv, Idle, disk, Starting, Placing, Moving
<1>3. Waiting' /\ Apart'
  BY DEF HostdDies, Dies, Inv, LiveInv, Idle, disk, systemd, Waiting, Before, Apart
<1> QED BY <1>1, <1>2, <1>3 DEF LiveInv

\* What the timer was undoing is past its deadline.
LEMMA UnitDiesLive ==
  ASSUME Inv, LiveInv, Inv', UnitDies
  PROVE  LiveInv'
<1> USE HostNetworkAssumption
<1>1. Showing'
  BY DEF UnitDies, Dies, Inv, Pending, LiveInv, Idle, disk, systemd, Showing, Ready, AtRest,
     Awaiting, Before, Shows, Moving, Waiting
<1>2. Starting' /\ Placing' /\ Moving'
  BY DEF UnitDies, Dies, Inv, LiveInv, Idle, Starting, Placing, Moving
<1>3. Waiting' /\ Apart'
  BY DEF UnitDies, Dies, Inv, LiveInv, Idle, disk, Waiting, Apart
<1> QED BY <1>1, <1>2, <1>3 DEF LiveInv

\* After a boot nothing has started.
LEMMA RebootLive ==
  ASSUME Inv, LiveInv, Inv', Reboot
  PROVE  LiveInv'
<1> USE HostNetworkAssumption
<1>1. Showing'
  BY DEF Reboot, Inv, LiveInv, Idle, Showing, Ready
<1>2. Starting' /\ Placing' /\ Moving'
  BY DEF Reboot, Inv, LiveInv, Idle, Starting, Placing, Moving
<1>3. Waiting' /\ Apart'
  BY DEF Reboot, Inv, LiveInv, Idle, Waiting, Apart
<1> QED BY <1>1, <1>2, <1>3 DEF LiveInv

\* A change past its deadline may no longer be confirmed.
LEMMA DeadlinePassesLive ==
  ASSUME Inv, LiveInv, Inv', NEW k \in Keys, DeadlinePasses(k)
  PROVE  LiveInv'
<1> USE HostNetworkAssumption
<1>1. Showing'
  BY DEF DeadlinePasses, Inv, LiveInv, disk, Showing, Ready, AtRest, Awaiting, Before, Shows
<1>2. Starting' /\ Placing' /\ Moving'
  BY DEF DeadlinePasses, Inv, LiveInv, disk, Starting, Placing, Moving
<1>3. Waiting' /\ Apart'
  BY DEF DeadlinePasses, Inv, LiveInv, disk, Waiting, Before, Apart
<1> QED BY <1>1, <1>2, <1>3 DEF LiveInv

\* The timer only starts its unit.
LEMMA TimerFiresLive ==
  ASSUME Inv, LiveInv, Inv', NEW k \in Keys, TimerFires(k)
  PROVE  LiveInv'
<1> USE HostNetworkAssumption
<1>1. Showing'
  BY DEF TimerFires, Inv, LiveInv, disk, Showing, Ready, AtRest, Awaiting, Before, Shows
<1>2. Starting' /\ Placing' /\ Moving'
  BY DEF TimerFires, Inv, LiveInv, disk, Starting, Placing, Moving
<1>3. Waiting' /\ Apart'
  BY DEF TimerFires, Inv, LiveInv, disk, Waiting, Before, Apart
<1> QED BY <1>1, <1>2, <1>3 DEF LiveInv

\* The file is read by the next start.
LEMMA EditFileLive ==
  ASSUME Inv, LiveInv, Inv', NEW c \in Edits \cup {Invalid}, EditFile(c)
  PROVE  LiveInv'
<1> USE HostNetworkAssumption
<1>1. Showing'
  BY DEF EditFile, Inv, LiveInv, systemd, Showing, Ready, AtRest, Awaiting, Before, Shows
<1>2. Starting' /\ Placing' /\ Moving'
  BY DEF EditFile, Inv, LiveInv, Starting, Placing, Moving
<1>3. Waiting' /\ Apart'
  BY DEF EditFile, Inv, LiveInv, systemd, Waiting, Before, Apart
<1> QED BY <1>1, <1>2, <1>3 DEF LiveInv

\* An appliance that has just booted for the first time.
LEMMA LiveInit == Init => LiveInv
<1> USE HostNetworkAssumption
<1> SUFFICES ASSUME Init PROVE LiveInv
  OBVIOUS
<1>1. Showing /\ Starting /\ Placing
  BY DEF Init, Showing, Ready, Starting, Placing, Idle
<1>2. Moving /\ Waiting /\ Apart
  BY DEF Init, Moving, Waiting, Apart, Distinct, Idle, NoServices, DefaultConfig
<1> QED BY <1>1, <1>2 DEF LiveInv

\* One lemma per action.
LEMMA LiveStep ==
  ASSUME Inv, LiveInv, [Next]_vars, Inv'
  PROVE  LiveInv'
<1>1. CASE Request
  <2>1. CASE \E k \in Keys, c \in Candidates, rev \in Configs : handleApplyHostNetwork(k, c, rev)
    BY <2>1, SubmitLive DEF handleApplyHostNetwork
  <2>2. CASE \E k \in Keys : Confirm(k) \/ Rollback(k, "hostd")
    BY <2>2, ConfirmLive, RollbackLive
  <2>3. CASE \E s \in Stacks, a \in SvcAddrs : AddService(s, a) \/ DelService(s, a)
    BY <2>3, AddServiceLive, DelServiceLive
  <2>4. CASE \E want \in [Stacks -> SvcAddrs \cup {None}] : SyncServices(want)
    BY <2>4, SyncServicesLive DEF Services
  <2> QED BY <1>1, <2>1, <2>2, <2>3, <2>4, MigrateDefaultLive DEF Request
<1>2. CASE System
  <2>1. CASE BootInit \/ HostdInit
    <3>1. proc.init = "todo"
      BY <2>1 DEF BootInit, HostdInit, LiveInv, Starting
    <3> QED BY <2>1, <3>1, InitializeLive, RefusedLive DEF BootInit, HostdInit
  <2>2. CASE HostdStart \/ Watch \/ Lease \/ Arm
    BY <2>2, HostdStartLive, WatchLive, LeaseLive, ArmLive
  <2>3. CASE ApplyStep
    BY <2>3, DetachLive, AttachLive, DeletePreviousLive, AddAddressesLive, WriteUnitLive,
       VerifyLive DEF ApplyStep
  <2>4. CASE AfterApply
    BY <2>4, InitAppliedLive, ChangeAppliedLive, RestoreFileLive, RestoreSaveLive,
       ReconciledLive, WriteConfigLive, SettleLive, CancelLive DEF AfterApply
  <2>5. CASE ServiceStep
    BY <2>5, AnnounceLive, ForgetLive, SaveDroppedLive, AnnounceWantedLive, SyncedLive,
       DropStaleLive, TakeWantedLive DEF ServiceStep
  <2>6. CASE \E k \in Keys : Apply(k) \/ Rollback(k, "timer") \/ DeadlinePasses(k) \/ TimerFires(k)
    BY <2>6, ApplyLive, RollbackLive, DeadlinePassesLive, TimerFiresLive
  <2>7. CASE LeaseUnfit
    BY <2>7, FailureLive DEF LeaseUnfit
  <2> QED BY <1>2, <2>1, <2>2, <2>3, <2>4, <2>5, <2>6, <2>7 DEF System, Holder
<1>3. CASE Fault
  <2>1. CASE CommandFails
    BY <2>1, FailureLive DEF CommandFails
  <2> QED BY <1>3, <2>1, ArmFailsLive, HostdDiesLive, UnitDiesLive, RebootLive, HotplugLive DEF Fault
<1>4. CASE \E c \in Edits \cup {Invalid} : EditFile(c)
  BY <1>4, EditFileLive
<1>5. CASE UNCHANGED vars
  <2>1. UNCHANGED <<journal, kernel, passed, op, proc, applying>>
    BY <1>5, Zenon DEF vars, disk, systemd
  <2>2. Showing' /\ Starting' /\ Placing'
    BY <2>1 DEF LiveInv, Showing, Ready, AtRest, Awaiting, Before, Shows, Starting, Placing
  <2>3. Moving' /\ Waiting' /\ Apart'
    BY <2>1 DEF LiveInv, Moving, Waiting, Before, Apart, Distinct
  <2> QED BY <2>2, <2>3 DEF LiveInv
<1> QED BY <1>1, <1>2, <1>3, <1>4, <1>5 DEF Next

\* The first part of LiveIsConfirmed.
BridgeConfirmed ==
  op = Idle /\ journal.pending = None /\ kernel.dirty = "no" /\ proc.init = "ok" =>
    /\ kernel.top = journal.confirmed.top
    /\ journal.confirmed.ip \in kernel.addrs \cup {Dhcp}

\* Once hostd has started and nothing is pending, the bridge has the confirmed topology and
\* the confirmed address, whatever was applied, confirmed, rolled back, edited, interrupted
\* or failed before, and in whichever order (manager.go apply, rollback, Initialize).
THEOREM BridgeIsConfirmed == Spec => []BridgeConfirmed
<1>1. Init => Inv /\ LiveInv
  BY InvInit, LiveInit
<1>2. (Inv /\ LiveInv) /\ [Next]_vars => (Inv /\ LiveInv)'
  BY InvStep, LiveStep
<1>3. LiveInv => BridgeConfirmed
  BY DEF LiveInv, Showing, Ready, AtRest, Shows, BridgeConfirmed
<1> QED BY <1>1, <1>2, <1>3, PTL DEF Spec

--------------------------------------------------------------------------------
(* Administrators who leave network.toml alone, and wait. *)

\* Nobody edits the file, a change is rolled back only once it was applied, and confirmed
\* only once hostd has started.
Orderly ==
  /\ edits' = edits
  /\ op = Idle /\ op'.kind = "restore" => op'.k \notin applying
  /\ op = Idle /\ op'.kind = "confirm" => proc.init = "ok"

\* What is on the bridge for no stack.
Primary == kernel.addrs \ Owned(journal)

\* The bridge has the confirmed address, that of the pending change, or both while one
\* replaces the other.
Only ==
  /\ Dhcp \notin Primary
  /\ journal.pending = None => Primary \subseteq {journal.confirmed.ip}
  /\ journal.pending # None =>
        Primary \subseteq {journal.confirmed.ip, journal.changes[journal.pending].cand.ip}
  /\ AtRest => Primary \subseteq {journal.confirmed.ip}
  /\ op.kind \in {"init", "apply", "restore"} /\ op.pc \in {"add", "unit", "verify", "applied", "save"} =>
        Primary \subseteq {op.to.ip}
  /\ Ready => \A k \in Keys : Awaiting(k) => Primary \subseteq {journal.changes[k].cand.ip}

\* Every start configures what is confirmed.
Unedited ==
  /\ ~edited /\ (journal.startup # None => journal.startup.ip = journal.confirmed.ip)
  /\ op.kind = "init" /\ op.pc \in Applying =>
        /\ op.to = journal.confirmed
        /\ op.from.ip = IF journal.pending # None THEN journal.changes[journal.pending].cand.ip
                        ELSE journal.confirmed.ip
  /\ ~journal.has => /\ journal.confirmed = DefaultConfig /\ file = Absent
                     /\ journal.pending = None /\ proc.boot # "booted" /\ proc.hostd = "down"
                     /\ op.kind \in {"none", "init"} /\ op.pc \notin {"file", "settle"}

\* A change that has not been applied is not being undone.
Undoing == op.kind = "restore" => op.k \notin applying

\* DHCP runs for c or does not.
Leases(c) == kernel.dirty = "no" => (kernel.dhcp <=> c.ip = Dhcp)

\* DHCP runs as the settings that Showing is about say.
Leasing ==
  /\ op.pc \in {"verify", "applied", "save"} => Leases(op.to)
  /\ Ready => /\ AtRest => Leases(journal.confirmed)
              /\ \A k \in Keys : Awaiting(k) => Leases(journal.changes[k].cand)

\* The inductive invariant of orderly administrators.
OrderlyInv == Only /\ Unedited /\ Undoing /\ Leasing

\* hostd starts when a boot has recorded what it configured.
LEMMA HostdStartOrderly ==
  ASSUME Inv, LiveInv, OrderlyInv, Orderly, Inv', HostdStart
  PROVE  OrderlyInv'
<1> USE HostNetworkAssumption
<1>1. Only'
  BY DEF HostdStart, Inv, OrderlyInv, disk, systemd, Only, Primary, Ready, AtRest, Awaiting, Before
<1>2. Leasing'
  BY DEF HostdStart, Inv, OrderlyInv, disk, systemd, Leasing, Leases, Ready, AtRest, Awaiting,
     Before
<1>3. Unedited' /\ Undoing'
  BY DEF HostdStart, Inv, OrderlyInv, disk, Unedited, Undoing
<1> QED BY <1>1, <1>2, <1>3 DEF OrderlyInv

\* A start configures what is confirmed, and undoes the pending change.
LEMMA InitializeOrderly ==
  ASSUME Inv, LiveInv, OrderlyInv, Orderly, Inv', NEW by \in {"boot", "hostd"}, proc.init = "todo",
     Initialize(by)
  PROVE  OrderlyInv'
<1> USE HostNetworkAssumption
<1>1. Only'
  BY DEF Initialize, Enter, KnownServices, Inv, Booting, OrderlyInv, Only, Primary, Owned, Ready,
     AtRest
<1>2. Leasing'
  BY DEF Initialize, Enter, Inv, OrderlyInv, Leasing, Ready
<1>3. Unedited' /\ Undoing'
  BY DEF Initialize, Enter, Chosen, Undone, FromFile, Inv, FileFits, OrderlyInv, Unedited, Undoing
<1> QED BY <1>1, <1>2, <1>3 DEF OrderlyInv

\* A start that is refused leaves everything as it was.
LEMMA RefusedOrderly ==
  ASSUME Inv, LiveInv, OrderlyInv, Orderly, Inv', NEW by \in {"boot", "hostd"}, proc.init = "todo",
     Refused(by)
  PROVE  OrderlyInv'
<1> USE HostNetworkAssumption
<1>1. Only'
  BY DEF Refused, Locked, Started, Inv, OrderlyInv, Idle, disk, Only, Primary, Ready, AtRest
<1>2. Leasing'
  BY DEF Refused, Locked, Started, Inv, OrderlyInv, Idle, Leasing, Ready
<1>3. Unedited' /\ Undoing'
  BY DEF Refused, Started, Inv, OrderlyInv, disk, Unedited, Undoing
<1> QED BY <1>1, <1>2, <1>3 DEF OrderlyInv

\* A new change is not on the bridge.
LEMMA SubmitOrderly ==
  ASSUME Inv, LiveInv, OrderlyInv, Orderly, Inv', NEW k \in Keys, NEW c \in Candidates, NEW rev \in
     Configs, Submit(k, c, rev)
  PROVE  OrderlyInv'
<1> USE HostNetworkAssumption
<1>1. Only'
  BY DEF Submit, Inv, TypeOK, Journals, OrderlyInv, Only, Primary, Owned, Awaiting
<1>2. Leasing'
  BY DEF Submit, Inv, TypeOK, Journals, OrderlyInv, Leasing, Leases, Ready, AtRest, Awaiting
<1>3. Unedited' /\ Undoing'
  BY DEF Submit, Locked, Inv, OrderlyInv, Idle, Unedited, Undoing
<1> QED BY <1>1, <1>2, <1>3 DEF OrderlyInv

\* The change is not on the bridge when its timer is armed.
LEMMA ApplyOrderly ==
  ASSUME Inv, LiveInv, OrderlyInv, Orderly, Inv', NEW k \in Keys, Apply(k)
  PROVE  OrderlyInv'
<1> USE HostNetworkAssumption
<1>1. /\ op = Idle /\ k \in applying /\ applying' = applying \ {k} /\ UNCHANGED <<kernel, passed, proc, file, edited>>
  BY DEF Apply, Locked, systemd
<1>2. CASE journal.pending # k
  <2>1. UNCHANGED <<journal, op>>
    BY <1>2 DEF Apply
  <2>2. Only'
    BY <1>1, <1>2, <2>1 DEF OrderlyInv, Only, Primary, Owned, Ready, AtRest, Awaiting, Before
  <2>3. Leasing'
    BY <1>1, <1>2, <2>1 DEF OrderlyInv, Leasing, Leases, Ready, AtRest, Awaiting, Before
  <2>4. Unedited' /\ Undoing'
    BY <1>1, <2>1 DEF OrderlyInv, Unedited, Undoing
  <2> QED BY <2>2, <2>3, <2>4 DEF OrderlyInv
<1>3. CASE journal.pending = k
  <2>1. Only'
    BY <1>1, <1>3, ApplyBegins DEF LiveInv, Waiting, OrderlyInv, Only, Primary, Owned, Ready, AtRest, Awaiting, Idle
  <2>2. Leasing'
    BY <1>1, <1>3, ApplyBegins DEF LiveInv, Waiting, OrderlyInv, Leasing, Leases, Ready, AtRest, Awaiting, Idle
  <2>3. Unedited' /\ Undoing'
    BY <1>1, <1>3, ApplyBegins DEF OrderlyInv, Unedited, Undoing
  <2> QED BY <2>1, <2>2, <2>3 DEF OrderlyInv
<1> QED BY <1>2, <1>3

\* Now its address may come.
LEMMA ArmOrderly ==
  ASSUME Inv, LiveInv, OrderlyInv, Orderly, Inv', Arm
  PROVE  OrderlyInv'
<1> USE HostNetworkAssumption
<1>1. Only'
  BY DEF Arm, Goto, Inv, Fresh, Pending, Booting, Announced, OrderlyInv, Only, Primary, Ready,
     AtRest, Awaiting, Before
<1>2. Leasing'
  BY DEF Arm, Goto, Inv, OrderlyInv, disk, Leasing, Leases, Ready, AtRest, Awaiting, Before
<1>3. Unedited' /\ Undoing'
  BY DEF Arm, Goto, Inv, Working, OrderlyInv, disk, Unedited, Undoing
<1> QED BY <1>1, <1>2, <1>3 DEF OrderlyInv

\* Without a timer it never came.
LEMMA ArmFailsOrderly ==
  ASSUME Inv, LiveInv, OrderlyInv, Orderly, Inv', ArmFails
  PROVE  OrderlyInv'
<1> USE HostNetworkAssumption
<1>1. Only'
  BY DEF ArmFails, Leave, Inv, Fresh, OrderlyInv, Idle, Only, Primary, Owned, AtRest, Awaiting
<1>2. Leasing'
  BY DEF ArmFails, Leave, Inv, Fresh, OrderlyInv, Idle, Leasing, Leases, Ready, AtRest, Awaiting
<1>3. Unedited' /\ Undoing'
  BY DEF ArmFails, Leave, Inv, Fresh, OrderlyInv, Idle, Unedited, Undoing
<1> QED BY <1>1, <1>2, <1>3 DEF OrderlyInv

\* The address that was replaced is gone when the change is confirmed.
LEMMA ConfirmOrderly ==
  ASSUME Inv, LiveInv, OrderlyInv, Orderly, Inv', NEW k \in Keys, Confirm(k)
  PROVE  OrderlyInv'
<1> USE HostNetworkAssumption
<1>1. /\ op = Idle /\ proc.hostd = "up" /\ UNCHANGED <<kernel, passed, proc, applying, file, edited>>
      /\ journal.pending = k /\ k # None
      /\ journal.changes[k].state = "awaiting_confirmation"
  BY DEF Confirm, Locked, systemd
<1>2. CASE Before(k)
  <2>1. proc.init = "ok"
    BY <1>1, <1>2, ConfirmTakes DEF Orderly
  <2>2. Only'
    BY <1>1, <1>2, <2>1, ConfirmTakes DEF OrderlyInv, Only, Primary, Owned, Ready, AtRest, Awaiting, Idle
  <2>3. Leasing'
    BY <1>1, <1>2, <2>1, ConfirmTakes DEF OrderlyInv, Leasing, Leases, Ready, AtRest, Awaiting, Idle
  <2>4. Unedited' /\ Undoing'
    BY <1>1, <1>2, <2>1, ConfirmTakes DEF LiveInv, Showing, Ready, OrderlyInv, Unedited, Undoing
  <2> QED BY <2>2, <2>3, <2>4 DEF OrderlyInv
<1>3. CASE ~Before(k)
  <2>1. /\ UNCHANGED journal /\ op'.kind = "restore" /\ op'.pc = "detach" /\ op'.k = k
    BY <1>3 DEF Confirm, Restore, Enter
  <2>2. Only' /\ Leasing'
    BY <1>1, <2>1 DEF OrderlyInv, Only, Primary, Owned, Leasing, Leases, Ready, AtRest, Awaiting, Before, Idle
  <2>3. Unedited' /\ Undoing'
    BY <1>1, <2>1 DEF OrderlyInv, Unedited, Undoing, Orderly
  <2> QED BY <2>2, <2>3 DEF OrderlyInv
<1> QED BY <1>2, <1>3

\* A rollback is of a change that was applied.
LEMMA RollbackOrderly ==
  ASSUME Inv, LiveInv, OrderlyInv, Orderly, Inv', NEW k \in Keys, NEW by \in {"hostd", "timer"},
     Rollback(k, by)
  PROVE  OrderlyInv'
<1> USE HostNetworkAssumption
<1>1. Only'
  BY DEF Rollback, Restore, Enter, Inv, OrderlyInv, disk, Only, Primary, Ready, AtRest, Awaiting,
     Before
<1>2. Leasing'
  BY DEF Rollback, Restore, Enter, Inv, OrderlyInv, disk, Leasing, Leases, Ready, AtRest, Awaiting,
     Before
<1>3. Unedited' /\ Undoing'
  BY DEF Rollback, Locked, Restore, Enter, Inv, OrderlyInv, Orderly, disk, Unedited, Undoing
<1> QED BY <1>1, <1>2, <1>3 DEF OrderlyInv

\* A pool is no part of the bridge.
LEMMA MigrateDefaultOrderly ==
  ASSUME Inv, LiveInv, OrderlyInv, Orderly, Inv', MigrateDefault
  PROVE  OrderlyInv'
<1> USE HostNetworkAssumption
<1>1. Only'
  BY MigrateFills DEF OrderlyInv, Only, Primary, Owned, Ready, AtRest, Awaiting, Idle
<1>2. Leasing'
  BY MigrateFills DEF OrderlyInv, Leasing, Leases, Ready, AtRest, Awaiting, Idle
<1>3. Unedited' /\ Undoing'
  BY MigrateFills DEF OrderlyInv, Unedited, Undoing
<1> QED BY <1>1, <1>2, <1>3 DEF OrderlyInv

\* A bridge that lost its adapters is marked.
LEMMA HotplugOrderly ==
  ASSUME Inv, LiveInv, OrderlyInv, Orderly, Inv', Hotplug
  PROVE  OrderlyInv'
<1> USE HostNetworkAssumption
<1>1. Only'
  BY DEF Hotplug, Inv, OrderlyInv, disk, systemd, Only, Primary, Ready, AtRest, Awaiting, Before
<1>2. Leasing'
  BY DEF Hotplug, Inv, OrderlyInv, Leasing, Leases
<1>3. Unedited' /\ Undoing'
  BY DEF Hotplug, Inv, OrderlyInv, disk, Unedited, Undoing
<1> QED BY <1>1, <1>2, <1>3 DEF OrderlyInv

\* Watch moves the bridge from what is confirmed to the same.
LEMMA WatchOrderly ==
  ASSUME Inv, LiveInv, OrderlyInv, Orderly, Inv', Watch
  PROVE  OrderlyInv'
<1> USE HostNetworkAssumption
<1>1. Only'
  BY DEF Watch, Locked, Enter, Inv, OrderlyInv, disk, systemd, Only, Primary, Ready, AtRest,
     Awaiting, Before
<1>2. Leasing'
  BY DEF Watch, Enter, Inv, OrderlyInv, disk, systemd, Leasing, Leases, Ready, AtRest, Awaiting,
     Before
<1>3. Unedited' /\ Undoing'
  BY DEF Watch, Locked, Enter, Inv, OrderlyInv, disk, Unedited, Undoing
<1> QED BY <1>1, <1>2, <1>3 DEF OrderlyInv

\* DHCP stops only if the links move or a static address comes.
LEMMA DetachOrderly ==
  ASSUME Inv, LiveInv, OrderlyInv, Orderly, Inv', Detach
  PROVE  OrderlyInv'
<1> USE HostNetworkAssumption
<1>1. Only'
  BY DEF Detach, Goto, Inv, OrderlyInv, disk, systemd, Only, Primary, Ready, AtRest, Awaiting,
     Before
<1>2. Leasing'
  BY DEF Detach, Goto, Inv, Working, Pending, LiveInv, OrderlyInv, disk, Moving, Leasing, Leases,
     Undoing, Ready, AtRest, Awaiting, Waiting, Showing, Shows, Applying
<1>3. Unedited' /\ Undoing'
  BY DEF Detach, Goto, Inv, OrderlyInv, disk, Unedited, Applying, Undoing
<1> QED BY <1>1, <1>2, <1>3 DEF OrderlyInv

\* Links are no addresses.
LEMMA AttachOrderly ==
  ASSUME Inv, LiveInv, OrderlyInv, Orderly, Inv', Attach
  PROVE  OrderlyInv'
<1> USE HostNetworkAssumption
<1>1. Only'
  BY DEF Attach, Goto, Inv, OrderlyInv, disk, systemd, Only, Primary, Ready, AtRest, Awaiting,
     Before
<1>2. Leasing'
  BY DEF Attach, Goto, Inv, OrderlyInv, disk, systemd, Leasing, Leases, Ready, AtRest, Awaiting,
     Before
<1>3. Unedited' /\ Undoing'
  BY DEF Attach, Goto, Inv, OrderlyInv, disk, Unedited, Applying, Undoing
<1> QED BY <1>1, <1>2, <1>3 DEF OrderlyInv

\* The other of the two addresses goes.
LEMMA DeletePreviousOrderly ==
  ASSUME Inv, LiveInv, OrderlyInv, Orderly, Inv', DeletePrevious
  PROVE  OrderlyInv'
<1> USE HostNetworkAssumption
<1>1. Only'
  BY DEF DeletePrevious, Goto, Inv, Pending, LiveInv, OrderlyInv, disk, systemd, Moving, Only,
     Unedited, Primary, Ready, AtRest, Awaiting, Before, Applying
<1>2. Leasing'
  BY DEF DeletePrevious, Goto, Inv, OrderlyInv, disk, systemd, Leasing, Leases, Ready, AtRest,
     Awaiting, Before
<1>3. Unedited' /\ Undoing'
  BY DEF DeletePrevious, Goto, Inv, OrderlyInv, disk, Unedited, Applying, Undoing
<1> QED BY <1>1, <1>2, <1>3 DEF OrderlyInv

\* What is added is the address of the target, or a service.
LEMMA AddAddressesOrderly ==
  ASSUME Inv, LiveInv, OrderlyInv, Orderly, Inv', AddAddresses
  PROVE  OrderlyInv'
<1> USE HostNetworkAssumption
<1>1. Only'
  BY DEF AddAddresses, Goto, Inv, Working, Fresh, Pending, LiveInv, OrderlyInv, Starting, Moving,
     Only, Unedited, Primary, Ready, AtRest, Awaiting, Waiting, Applying
<1>2. Leasing'
  BY DEF AddAddresses, Goto, Inv, OrderlyInv, disk, systemd, Leasing, Leases, Ready, AtRest,
     Awaiting, Before
<1>3. Unedited' /\ Undoing'
  BY DEF AddAddresses, Goto, Inv, OrderlyInv, disk, Unedited, Applying, Undoing
<1> QED BY <1>1, <1>2, <1>3 DEF OrderlyInv

\* DHCP is what the target says.
LEMMA WriteUnitOrderly ==
  ASSUME Inv, LiveInv, OrderlyInv, Orderly, Inv', WriteUnit
  PROVE  OrderlyInv'
<1> USE HostNetworkAssumption
<1>1. Only'
  BY DEF WriteUnit, Goto, Inv, OrderlyInv, disk, systemd, Only, Primary, Ready, AtRest, Awaiting,
     Before
<1>2. Leasing'
  BY DEF WriteUnit, Goto, Inv, TypeOK, Journals, Working, Pending, Booting, LiveInv, OrderlyInv,
     Idle, disk, Moving, Leasing, Leases, Unedited, Ready, AtRest, Awaiting, Waiting, Showing,
     Applying
<1>3. Unedited' /\ Undoing'
  BY DEF WriteUnit, Goto, Inv, OrderlyInv, disk, Unedited, Applying, Undoing
<1> QED BY <1>1, <1>2, <1>3 DEF OrderlyInv

\* A lease is no configured address.
LEMMA LeaseOrderly ==
  ASSUME Inv, LiveInv, OrderlyInv, Orderly, Inv', Lease
  PROVE  OrderlyInv'
<1> USE HostNetworkAssumption
<1>1. Only'
  BY DEF Lease, Inv, OrderlyInv, disk, systemd, Only, Primary, Ready, AtRest, Awaiting, Before
<1>2. Leasing'
  BY DEF Lease, Inv, OrderlyInv, disk, systemd, Leasing, Leases, Ready, AtRest, Awaiting, Before
<1>3. Unedited' /\ Undoing'
  BY DEF Lease, Inv, OrderlyInv, disk, Unedited, Undoing
<1> QED BY <1>1, <1>2, <1>3 DEF OrderlyInv

\* Verification only reads.
LEMMA VerifyOrderly ==
  ASSUME Inv, LiveInv, OrderlyInv, Orderly, Inv', Verify
  PROVE  OrderlyInv'
<1> USE HostNetworkAssumption
<1>1. Only'
  BY DEF Verify, Goto, Inv, OrderlyInv, disk, systemd, Only, Primary, Ready, AtRest, Awaiting,
     Before
<1>2. Leasing'
  BY DEF Verify, Goto, Inv, OrderlyInv, disk, systemd, Leasing, Leases, Ready, AtRest, Awaiting,
     Before
<1>3. Unedited' /\ Undoing'
  BY DEF Verify, Goto, Inv, OrderlyInv, disk, Unedited, Applying, Undoing
<1> QED BY <1>1, <1>2, <1>3 DEF OrderlyInv

\* What a start has configured is all there is.
LEMMA InitAppliedOrderly ==
  ASSUME Inv, LiveInv, OrderlyInv, Orderly, Inv', InitApplied
  PROVE  OrderlyInv'
<1> USE HostNetworkAssumption
<1>1. Only'
  BY DEF InitApplied, Inv, Fresh, OrderlyInv, Only, Primary, Owned, Awaiting
<1>2. Leasing'
  BY DEF InitApplied, Inv, OrderlyInv, Leasing, Leases, Awaiting
<1>3. Unedited' /\ Undoing'
  BY DEF InitApplied, Inv, OrderlyInv, Unedited, Applying, Undoing
<1> QED BY <1>1, <1>2, <1>3 DEF OrderlyInv

\* A change that was applied is all there is.
LEMMA ChangeAppliedOrderly ==
  ASSUME Inv, LiveInv, OrderlyInv, Orderly, Inv', ChangeApplied
  PROVE  OrderlyInv'
<1> USE HostNetworkAssumption
<1>1. /\ op.pc = "applied" /\ op.kind = "apply"
      /\ UNCHANGED <<kernel, passed, proc, applying, file, edited>>
      /\ op.k = journal.pending /\ op.k \in Keys /\ op.k # None
      /\ op.k \notin applying /\ op.to = journal.changes[op.k].cand
  BY DEF ChangeApplied, Inv, TypeOK, Working, Pending, LiveInv, Waiting, Moving
<1>2. CASE Before(op.k)
  <2>1. Only'
    BY <1>1, <1>2, ChangeAwaits DEF OrderlyInv, Only, Primary, Owned, Ready, AtRest, Awaiting, Idle
  <2>2. Leasing'
    BY <1>1, <1>2, ChangeAwaits DEF OrderlyInv, Leasing, Leases, Ready, AtRest, Awaiting, Idle
  <2>3. Unedited' /\ Undoing'
    BY <1>1, <1>2, ChangeAwaits DEF OrderlyInv, Unedited, Undoing, Idle
  <2> QED BY <2>1, <2>2, <2>3 DEF OrderlyInv
<1>3. CASE ~Before(op.k)
  <2>1. /\ UNCHANGED journal /\ op'.kind = "restore" /\ op'.pc = "detach" /\ op'.k = op.k
    BY <1>1, <1>3 DEF ChangeApplied, Restore, Enter
  <2>2. Only' /\ Leasing'
    BY <1>1, <2>1 DEF OrderlyInv, Only, Primary, Owned, Leasing, Leases, Ready, AtRest, Awaiting, Before
  <2>3. Unedited' /\ Undoing'
    BY <1>1, <2>1 DEF OrderlyInv, Unedited, Undoing
  <2> QED BY <2>2, <2>3 DEF OrderlyInv
<1> QED BY <1>2, <1>3

\* The file follows what is on the bridge.
LEMMA RestoreFileOrderly ==
  ASSUME Inv, LiveInv, OrderlyInv, Orderly, Inv', RestoreFile
  PROVE  OrderlyInv'
<1> USE HostNetworkAssumption
<1>1. Only'
  BY DEF RestoreFile, Goto, Inv, OrderlyInv, Only, Primary, AtRest, Awaiting
<1>2. Leasing'
  BY DEF RestoreFile, Goto, Inv, OrderlyInv, Leasing, Leases, Ready, AtRest, Awaiting
<1>3. Unedited' /\ Undoing'
  BY DEF RestoreFile, Goto, Inv, OrderlyInv, Unedited, Undoing
<1> QED BY <1>1, <1>2, <1>3 DEF OrderlyInv

\* What was restored is all there is.
LEMMA RestoreSaveOrderly ==
  ASSUME Inv, LiveInv, OrderlyInv, Orderly, Inv', RestoreSave
  PROVE  OrderlyInv'
<1> USE HostNetworkAssumption
<1>1. Only'
  BY DEF RestoreSave, Goto, Inv, Working, Fresh, OrderlyInv, Only, Primary, Owned, Awaiting
<1>2. Leasing'
  BY DEF RestoreSave, Goto, Inv, OrderlyInv, Leasing, Leases, Awaiting
<1>3. Unedited' /\ Undoing'
  BY DEF RestoreSave, Goto, Inv, Working, Fresh, Pending, OrderlyInv, Unedited, Undoing
<1> QED BY <1>1, <1>2, <1>3 DEF OrderlyInv

\* Watch has put the confirmed settings back.
LEMMA ReconciledOrderly ==
  ASSUME Inv, LiveInv, OrderlyInv, Orderly, Inv', Reconciled
  PROVE  OrderlyInv'
<1> USE HostNetworkAssumption
<1>1. Only'
  BY DEF Reconciled, Leave, Inv, OrderlyInv, Idle, disk, Only, Primary, Ready, AtRest, Awaiting,
     Before
<1>2. Leasing'
  BY DEF Reconciled, Leave, Inv, Fresh, Pending, Booting, Announced, OrderlyInv, Idle, disk,
     Leasing, Leases, Ready, AtRest, Awaiting, Before
<1>3. Unedited' /\ Undoing'
  BY DEF Reconciled, Leave, Inv, OrderlyInv, Idle, disk, Unedited, Undoing
<1> QED BY <1>1, <1>2, <1>3 DEF OrderlyInv

\* The file follows the journal.
LEMMA WriteConfigOrderly ==
  ASSUME Inv, LiveInv, OrderlyInv, Orderly, Inv', WriteConfig
  PROVE  OrderlyInv'
<1> USE HostNetworkAssumption
<1>1. Only'
  BY DEF WriteConfig, Goto, Inv, OrderlyInv, systemd, Only, Primary, Ready, AtRest, Awaiting,
     Before
<1>2. Leasing'
  BY DEF WriteConfig, Goto, Inv, OrderlyInv, systemd, Leasing, Leases, Ready, AtRest, Awaiting,
     Before
<1>3. Unedited' /\ Undoing'
  BY DEF WriteConfig, Goto, Inv, OrderlyInv, Unedited, Applying, Undoing
<1> QED BY <1>1, <1>2, <1>3 DEF OrderlyInv

\* A start that comes to its end is ready.
LEMMA SettleOrderly ==
  ASSUME Inv, LiveInv, OrderlyInv, Orderly, Inv', Settle
  PROVE  OrderlyInv'
<1> USE HostNetworkAssumption
<1>1. Only'
  BY DEF Settle, Goto, Leave, Started, Inv, Working, Operations, Fresh, OrderlyInv, Idle, Only,
     Primary, Owned, Ready, AtRest, Awaiting, Before
<1>2. Leasing'
  BY DEF Settle, Goto, Leave, Started, Inv, Working, Operations, Fresh, OrderlyInv, Idle, Leasing,
     Leases, Ready, AtRest, Awaiting, Before
<1>3. Unedited' /\ Undoing'
  BY DEF Settle, Goto, Leave, Started, Inv, Working, Operations, Fresh, OrderlyInv, Idle, Unedited,
     Undoing
<1> QED BY <1>1, <1>2, <1>3 DEF OrderlyInv

\* Stopping a timer does not touch the bridge.
LEMMA CancelOrderly ==
  ASSUME Inv, LiveInv, OrderlyInv, Orderly, Inv', Cancel
  PROVE  OrderlyInv'
<1> USE HostNetworkAssumption
<1>1. Only'
  BY DEF Cancel, Inv, LiveInv, OrderlyInv, Idle, disk, Moving, Only, Primary, Awaiting
<1>2. Leasing'
  BY DEF Cancel, Inv, LiveInv, OrderlyInv, Idle, disk, Moving, Leasing, Leases, Ready, AtRest,
     Awaiting
<1>3. Unedited' /\ Undoing'
  BY DEF Cancel, Inv, OrderlyInv, Idle, disk, Unedited, Undoing
<1> QED BY <1>1, <1>2, <1>3 DEF OrderlyInv

\* The journal takes an address before it is on the bridge.
LEMMA AddServiceOrderly ==
  ASSUME Inv, LiveInv, OrderlyInv, Orderly, Inv', NEW s \in Stacks, NEW a \in SvcAddrs,
     AddService(s, a)
  PROVE  OrderlyInv'
<1> USE HostNetworkAssumption
<1>1. Only'
  BY DEF AddService, Inv, OrderlyInv, Only, Primary, Owned, Awaiting
<1>2. Leasing'
  BY DEF AddService, Inv, OrderlyInv, Leasing, Leases, Ready, AtRest, Awaiting
<1>3. Unedited' /\ Undoing'
  BY DEF AddService, Locked, Inv, OrderlyInv, Unedited, Undoing
<1> QED BY <1>1, <1>2, <1>3 DEF OrderlyInv

\* The address that is added is owned.
LEMMA AnnounceOrderly ==
  ASSUME Inv, LiveInv, OrderlyInv, Orderly, Inv', Announce
  PROVE  OrderlyInv'
<1> USE HostNetworkAssumption
<1>1. Only'
  BY DEF Announce, Leave, Inv, Working, Announced, OrderlyInv, Idle, disk, Only, Primary, Ready,
     AtRest, Awaiting, Before
<1>2. Leasing'
  BY DEF Announce, Leave, Inv, Working, OrderlyInv, Idle, disk, Leasing, Leases, Ready, AtRest,
     Awaiting, Before
<1>3. Unedited' /\ Undoing'
  BY DEF Announce, Leave, Inv, OrderlyInv, Idle, disk, Unedited, Undoing
<1> QED BY <1>1, <1>2, <1>3 DEF OrderlyInv

\* An address goes.
LEMMA DelServiceOrderly ==
  ASSUME Inv, LiveInv, OrderlyInv, Orderly, Inv', NEW s \in Stacks, NEW a \in SvcAddrs,
     DelService(s, a)
  PROVE  OrderlyInv'
<1> USE HostNetworkAssumption
<1>1. Only'
  BY DEF DelService, Inv, OrderlyInv, disk, Only, Primary, Awaiting
<1>2. Leasing'
  BY DEF DelService, Inv, OrderlyInv, disk, Leasing, Leases, Ready, AtRest, Awaiting
<1>3. Unedited' /\ Undoing'
  BY DEF DelService, Locked, Inv, OrderlyInv, disk, Unedited, Undoing
<1> QED BY <1>1, <1>2, <1>3 DEF OrderlyInv

\* The journal forgets an address that has gone.
LEMMA ForgetOrderly ==
  ASSUME Inv, LiveInv, OrderlyInv, Orderly, Inv', Forget
  PROVE  OrderlyInv'
<1> USE HostNetworkAssumption
<1>1. Only'
  BY DEF Forget, Leave, Inv, Working, Fresh, Announced, OrderlyInv, Idle, Only, Primary, Owned,
     Ready, AtRest, Awaiting, Before
<1>2. Leasing'
  BY DEF Forget, Leave, Inv, Working, Fresh, OrderlyInv, Idle, Leasing, Leases, Ready, AtRest,
     Awaiting, Before
<1>3. Unedited' /\ Undoing'
  BY DEF Forget, Leave, Inv, Fresh, OrderlyInv, Idle, Unedited, Undoing
<1> QED BY <1>1, <1>2, <1>3 DEF OrderlyInv

\* A synchronization begins by comparing.
LEMMA SyncServicesOrderly ==
  ASSUME Inv, LiveInv, OrderlyInv, Orderly, Inv', NEW want \in Services, SyncServices(want)
  PROVE  OrderlyInv'
<1> USE HostNetworkAssumption
<1>1. Only'
  BY DEF SyncServices, Inv, OrderlyInv, disk, Only, Primary, Awaiting
<1>2. Leasing'
  BY DEF SyncServices, Inv, OrderlyInv, disk, Leasing, Leases, Ready, AtRest, Awaiting
<1>3. Unedited' /\ Undoing'
  BY DEF SyncServices, Locked, Inv, OrderlyInv, disk, Unedited, Undoing
<1> QED BY <1>1, <1>2, <1>3 DEF OrderlyInv

\* An address goes.
LEMMA DropStaleOrderly ==
  ASSUME Inv, LiveInv, OrderlyInv, Orderly, Inv', NEW s \in Stacks, DropStale(s)
  PROVE  OrderlyInv'
<1> USE HostNetworkAssumption
<1>1. Only'
  BY DEF DropStale, Inv, OrderlyInv, disk, systemd, Only, Primary, Ready, AtRest, Awaiting, Before
<1>2. Leasing'
  BY DEF DropStale, Inv, OrderlyInv, disk, systemd, Leasing, Leases, Ready, AtRest, Awaiting,
     Before
<1>3. Unedited' /\ Undoing'
  BY DEF DropStale, Inv, Working, OrderlyInv, disk, Unedited, Undoing
<1> QED BY <1>1, <1>2, <1>3 DEF OrderlyInv

\* The journal forgets an address that has gone.
LEMMA SaveDroppedOrderly ==
  ASSUME Inv, LiveInv, OrderlyInv, Orderly, Inv', SaveDropped
  PROVE  OrderlyInv'
<1> USE HostNetworkAssumption
<1>1. Only'
  BY DEF SaveDropped, Inv, Fresh, Announced, OrderlyInv, systemd, Only, Primary, Owned, Ready,
     AtRest, Awaiting, Before
<1>2. Leasing'
  BY DEF SaveDropped, Inv, Fresh, OrderlyInv, systemd, Leasing, Leases, Ready, AtRest, Awaiting,
     Before
<1>3. Unedited' /\ Undoing'
  BY DEF SaveDropped, Inv, Working, Fresh, OrderlyInv, Unedited, Undoing
<1> QED BY <1>1, <1>2, <1>3 DEF OrderlyInv

\* No address that is still on the bridge leaves the journal.
LEMMA TakeWantedOrderly ==
  ASSUME Inv, LiveInv, OrderlyInv, Orderly, Inv', NEW s \in Stacks, TakeWanted(s)
  PROVE  OrderlyInv'
<1> USE HostNetworkAssumption
<1>1. /\ op.pc = "drop" /\ op.kind = "sync" /\ mem = journal /\ journal \in Journals
      /\ op'.pc = "taken" /\ op'.kind = "sync"
      /\ journal' = [journal EXCEPT !.services[s] = op.want[s]]
      /\ journal.services[s] \in {None, op.want[s]}
      /\ UNCHANGED <<kernel, passed, proc, applying, file, edited>>
  BY DEF TakeWanted, Stale, Inv, TypeOK, Working, Operations, Fresh, systemd
<1>2. /\ journal'.pending = journal.pending /\ journal'.startup = journal.startup /\ journal'.has = journal.has
      /\ journal'.confirmed = journal.confirmed /\ journal'.changes = journal.changes
      /\ journal'.services = [journal.services EXCEPT ![s] = op.want[s]]
      /\ journal.services \in [Stacks -> SvcAddrs \cup {None}] /\ journal.pending = None
  BY <1>1 DEF Journals, LiveInv, Moving
<1>3. Owned(journal) \subseteq Owned(journal')
  BY <1>1, <1>2 DEF Owned
<1>4. Only'
  BY <1>1, <1>2, <1>3 DEF OrderlyInv, Only, Primary, Ready, AtRest, Awaiting
<1>5. Leasing'
  BY <1>1, <1>2 DEF OrderlyInv, Leasing, Leases, Ready, AtRest, Awaiting
<1>6. Unedited' /\ Undoing'
  BY <1>1, <1>2 DEF OrderlyInv, Unedited, Undoing
<1> QED BY <1>4, <1>5, <1>6 DEF OrderlyInv

\* The address that is added is owned.
LEMMA AnnounceWantedOrderly ==
  ASSUME Inv, LiveInv, OrderlyInv, Orderly, Inv', AnnounceWanted
  PROVE  OrderlyInv'
<1> USE HostNetworkAssumption
<1>1. Only'
  BY DEF AnnounceWanted, Inv, Announced, OrderlyInv, disk, systemd, Only, Primary, Owned, Ready,
     AtRest, Awaiting, Before
<1>2. Leasing'
  BY DEF AnnounceWanted, Inv, OrderlyInv, disk, systemd, Leasing, Leases, Ready, AtRest, Awaiting,
     Before
<1>3. Unedited' /\ Undoing'
  BY DEF AnnounceWanted, Inv, Working, OrderlyInv, disk, Unedited, Undoing
<1> QED BY <1>1, <1>2, <1>3 DEF OrderlyInv

\* A synchronization ends.
LEMMA SyncedOrderly ==
  ASSUME Inv, LiveInv, OrderlyInv, Orderly, Inv', Synced
  PROVE  OrderlyInv'
<1> USE HostNetworkAssumption
<1>1. Only'
  BY DEF Synced, Leave, Inv, Working, OrderlyInv, Idle, disk, Only, Primary, Ready, AtRest,
     Awaiting, Before
<1>2. Leasing'
  BY DEF Synced, Leave, Inv, Working, OrderlyInv, Idle, disk, Leasing, Leases, Ready, AtRest,
     Awaiting, Before
<1>3. Unedited' /\ Undoing'
  BY DEF Synced, Leave, Inv, OrderlyInv, Idle, disk, Unedited, Undoing
<1> QED BY <1>1, <1>2, <1>3 DEF OrderlyInv

\* What fails is still pending, or has yet to start again.
LEMMA FailureOrderly ==
  ASSUME Inv, LiveInv, OrderlyInv, Orderly, Inv', Failure,
         UNCHANGED <<file, edited, kernel, passed, applying>>,
         op.pc \in {"detach", "attach", "delete", "add", "unit", "verify", "announce", "drop", "taken"}
  PROVE  OrderlyInv'
<1> USE HostNetworkAssumption
<1>1. op.kind \in {"apply", "restore"} =>
            op.k = journal.pending /\ op.k \in Keys /\ op.k # None /\ op.pc \in Applying /\ op.k \notin applying
  BY DEF Inv, Working, Pending, Applying, LiveInv, Waiting, OrderlyInv, Undoing
<1>2. CASE op.kind = "apply"
  <2>1. UNCHANGED <<journal, proc>> /\ op'.kind = "restore" /\ op'.pc = "detach" /\ op'.k = op.k
    BY <1>2 DEF Failure, Restore, Enter
  <2>2. Only' /\ Leasing'
    BY <1>1, <1>2, <2>1 DEF OrderlyInv, Only, Primary, Owned, Leasing, Leases, Ready, AtRest, Awaiting, Before
  <2>3. Unedited' /\ Undoing'
    BY <1>1, <1>2, <2>1 DEF OrderlyInv, Unedited, Undoing
  <2> QED BY <2>2, <2>3 DEF OrderlyInv
<1>3. CASE op.kind = "restore"
  <2>1. Only'
    BY <1>1, <1>3, RestoreFails DEF OrderlyInv, Only, Primary, Owned, Ready, AtRest, Awaiting, Idle
  <2>2. Leasing'
    BY <1>1, <1>3, RestoreFails DEF OrderlyInv, Leasing, Leases, Ready, AtRest, Awaiting, Idle
  <2>3. Unedited' /\ Undoing'
    BY <1>1, <1>3, RestoreFails DEF OrderlyInv, Unedited, Undoing, Idle
  <2> QED BY <2>1, <2>2, <2>3 DEF OrderlyInv
<1>4. CASE op.kind \notin {"apply", "restore"}
  <2>1. /\ UNCHANGED journal /\ op' = Idle /\ proc \in Processes
        /\ IF op.kind = "init" THEN Started(op.by, FALSE) ELSE UNCHANGED proc
    BY <1>4 DEF Failure, Leave, Inv, TypeOK
  <2>2. proc'.init = "ok" => op.kind # "init" /\ proc.init = "ok"
    BY <2>1 DEF Started, Processes, LiveInv, Starting
  <2>3. Only'
    BY <1>4, <2>1, <2>2 DEF OrderlyInv, Only, Primary, Owned, Ready, AtRest, Awaiting, Before, Idle
  <2>4. Leasing'
    BY <1>4, <2>1, <2>2 DEF OrderlyInv, Leasing, Leases, Ready, AtRest, Awaiting, Before, Idle
  <2>5. Unedited' /\ Undoing'
    BY <2>1 DEF OrderlyInv, Unedited, Undoing, Started, Processes, Idle, LiveInv, Starting
  <2> QED BY <2>3, <2>4, <2>5 DEF OrderlyInv
<1> QED BY <1>2, <1>3, <1>4

\* A hostd that died has yet to start.
LEMMA HostdDiesOrderly ==
  ASSUME Inv, LiveInv, OrderlyInv, Orderly, Inv', HostdDies
  PROVE  OrderlyInv'
<1> USE HostNetworkAssumption
<1>1. Only'
  BY DEF HostdDies, Dies, Inv, OrderlyInv, Idle, disk, systemd, Only, Primary, Ready, AtRest,
     Awaiting, Before
<1>2. Leasing'
  BY DEF HostdDies, Dies, Inv, OrderlyInv, Idle, disk, systemd, Leasing, Leases, Ready, AtRest,
     Awaiting, Before
<1>3. Unedited' /\ Undoing'
  BY DEF HostdDies, Dies, Inv, OrderlyInv, Idle, disk, Unedited, Undoing
<1> QED BY <1>1, <1>2, <1>3 DEF OrderlyInv

\* What the timer was undoing is past its deadline.
LEMMA UnitDiesOrderly ==
  ASSUME Inv, LiveInv, OrderlyInv, Orderly, Inv', UnitDies
  PROVE  OrderlyInv'
<1> USE HostNetworkAssumption
<1>1. Only'
  BY DEF UnitDies, Dies, Inv, Pending, LiveInv, OrderlyInv, Idle, disk, systemd, Moving, Only,
     Primary, Ready, AtRest, Awaiting, Before, Waiting
<1>2. Leasing'
  BY DEF UnitDies, Dies, Inv, Pending, LiveInv, OrderlyInv, Idle, disk, systemd, Moving, Leasing,
     Leases, Ready, AtRest, Awaiting, Before, Waiting
<1>3. Unedited' /\ Undoing'
  BY DEF UnitDies, Dies, Inv, OrderlyInv, Idle, disk, Unedited, Undoing
<1> QED BY <1>1, <1>2, <1>3 DEF OrderlyInv

\* After a boot the bridge is bare.
LEMMA RebootOrderly ==
  ASSUME Inv, LiveInv, OrderlyInv, Orderly, Inv', Reboot
  PROVE  OrderlyInv'
<1> USE HostNetworkAssumption
<1>1. Only'
  BY DEF Reboot, Bare, Inv, OrderlyInv, Only, Primary
<1>2. Leasing'
  BY DEF Reboot, Inv, OrderlyInv, Idle, Leasing, Ready
<1>3. Unedited' /\ Undoing'
  BY DEF Reboot, Inv, OrderlyInv, Idle, Unedited, Undoing
<1> QED BY <1>1, <1>2, <1>3 DEF OrderlyInv

\* A change past its deadline may no longer be confirmed.
LEMMA DeadlinePassesOrderly ==
  ASSUME Inv, LiveInv, OrderlyInv, Orderly, Inv', NEW k \in Keys, DeadlinePasses(k)
  PROVE  OrderlyInv'
<1> USE HostNetworkAssumption
<1>1. Only'
  BY DEF DeadlinePasses, Inv, OrderlyInv, disk, Only, Primary, Ready, AtRest, Awaiting, Before
<1>2. Leasing'
  BY DEF DeadlinePasses, Inv, OrderlyInv, disk, Leasing, Leases, Ready, AtRest, Awaiting, Before
<1>3. Unedited' /\ Undoing'
  BY DEF DeadlinePasses, Inv, OrderlyInv, disk, Unedited, Undoing
<1> QED BY <1>1, <1>2, <1>3 DEF OrderlyInv

\* The timer only starts its unit.
LEMMA TimerFiresOrderly ==
  ASSUME Inv, LiveInv, OrderlyInv, Orderly, Inv', NEW k \in Keys, TimerFires(k)
  PROVE  OrderlyInv'
<1> USE HostNetworkAssumption
<1>1. Only'
  BY DEF TimerFires, Inv, OrderlyInv, disk, Only, Primary, Ready, AtRest, Awaiting, Before
<1>2. Leasing'
  BY DEF TimerFires, Inv, OrderlyInv, disk, Leasing, Leases, Ready, AtRest, Awaiting, Before
<1>3. Unedited' /\ Undoing'
  BY DEF TimerFires, Inv, OrderlyInv, disk, Unedited, Undoing
<1> QED BY <1>1, <1>2, <1>3 DEF OrderlyInv

\* An appliance that has just booted for the first time.
LEMMA OrderlyInit == Init => OrderlyInv
<1> USE HostNetworkAssumption
<1> SUFFICES ASSUME Init PROVE OrderlyInv
  OBVIOUS
<1>1. Only /\ Leasing
  BY DEF Init, Only, Primary, Leasing, Leases, Ready, AtRest, Idle, Bare
<1>2. Unedited /\ Undoing
  BY DEF Init, Unedited, Undoing, Idle
<1> QED BY <1>1, <1>2 DEF OrderlyInv

\* One lemma per action.
LEMMA OrderlyStep ==
  ASSUME Inv, LiveInv, OrderlyInv, Next, Orderly, Inv'
  PROVE  OrderlyInv'
<1>1. CASE Request
  <2>1. CASE \E k \in Keys, c \in Candidates, rev \in Configs : handleApplyHostNetwork(k, c, rev)
    BY <2>1, SubmitOrderly DEF handleApplyHostNetwork
  <2>2. CASE \E k \in Keys : Confirm(k) \/ Rollback(k, "hostd")
    BY <2>2, ConfirmOrderly, RollbackOrderly
  <2>3. CASE \E s \in Stacks, a \in SvcAddrs : AddService(s, a) \/ DelService(s, a)
    BY <2>3, AddServiceOrderly, DelServiceOrderly
  <2>4. CASE \E want \in [Stacks -> SvcAddrs \cup {None}] : SyncServices(want)
    BY <2>4, SyncServicesOrderly DEF Services
  <2> QED BY <1>1, <2>1, <2>2, <2>3, <2>4, MigrateDefaultOrderly DEF Request
<1>2. CASE System
  <2>1. CASE BootInit \/ HostdInit
    <3>1. proc.init = "todo"
      BY <2>1 DEF BootInit, HostdInit, LiveInv, Starting
    <3> QED BY <2>1, <3>1, InitializeOrderly, RefusedOrderly DEF BootInit, HostdInit
  <2>2. CASE HostdStart \/ Watch \/ Lease \/ Arm
    BY <2>2, HostdStartOrderly, WatchOrderly, LeaseOrderly, ArmOrderly
  <2>3. CASE ApplyStep
    BY <2>3, DetachOrderly, AttachOrderly, DeletePreviousOrderly, AddAddressesOrderly,
       WriteUnitOrderly, VerifyOrderly DEF ApplyStep
  <2>4. CASE AfterApply
    BY <2>4, InitAppliedOrderly, ChangeAppliedOrderly, RestoreFileOrderly, RestoreSaveOrderly,
       ReconciledOrderly, WriteConfigOrderly, SettleOrderly, CancelOrderly DEF AfterApply
  <2>5. CASE ServiceStep
    BY <2>5, AnnounceOrderly, ForgetOrderly, SaveDroppedOrderly, AnnounceWantedOrderly,
       SyncedOrderly, DropStaleOrderly, TakeWantedOrderly DEF ServiceStep
  <2>6. CASE \E k \in Keys : Apply(k) \/ Rollback(k, "timer") \/ DeadlinePasses(k) \/ TimerFires(k)
    BY <2>6, ApplyOrderly, RollbackOrderly, DeadlinePassesOrderly, TimerFiresOrderly
  <2>7. CASE LeaseUnfit
    BY <2>7, FailureOrderly DEF LeaseUnfit
  <2> QED BY <1>2, <2>1, <2>2, <2>3, <2>4, <2>5, <2>6, <2>7 DEF System, Holder
<1>3. CASE Fault
  <2>1. CASE CommandFails
    BY <2>1, FailureOrderly DEF CommandFails
  <2> QED BY <1>3, <2>1, ArmFailsOrderly, HostdDiesOrderly, UnitDiesOrderly, RebootOrderly,
             HotplugOrderly DEF Fault
<1>4. CASE \E c \in Edits \cup {Invalid} : EditFile(c)
  BY <1>4 DEF EditFile, Orderly, Inv, TypeOK
<1> QED BY <1>1, <1>2, <1>3, <1>4 DEF Next

\* A step that changes nothing.
LEMMA OrderlyStutter ==
  ASSUME OrderlyInv, UNCHANGED vars
  PROVE  OrderlyInv'
<1>1. UNCHANGED <<journal, file, edited, kernel, passed, op, proc, applying>>
  BY Zenon DEF vars, disk, systemd
<1>2. Only' /\ Leasing'
  BY <1>1 DEF OrderlyInv, Only, Primary, Leasing, Leases, Ready, AtRest, Awaiting, Before
<1>3. Unedited' /\ Undoing'
  BY <1>1 DEF OrderlyInv, Unedited, Undoing
<1> QED BY <1>2, <1>3 DEF OrderlyInv

\* For administrators who leave network.toml alone, roll a change back only once it was
\* applied and confirm it only once hostd has started: with no change under way, the bridge
\* has the confirmed topology, DHCP and address, and no address of a change that was rolled
\* back, however many changes are made, applied, interrupted, undone and fail (manager.go
\* apply, Confirm, Rollback, Initialize; linux.go, the transient timer).
THEOREM NetworkConfirmedWhenOrderly == Spec /\ [][Orderly]_vars => []NetworkConfirmed
<1> DEFINE All == Inv /\ LiveInv /\ OrderlyInv
<1>1. Init => All
  BY InvInit, LiveInit, OrderlyInit
<1>2. All /\ [Next]_vars /\ [Orderly]_vars => All'
  BY InvStep, LiveStep, OrderlyStep, OrderlyStutter
<1>3. All => NetworkConfirmed
  <2> SUFFICES ASSUME All PROVE BootUsesConfirmed /\ LiveIsConfirmed
    BY DEF NetworkConfirmed
  <2>1. BootUsesConfirmed
    BY DEF Inv, FileFits, BootUsesConfirmed, Chosen
  <2>2. SUFFICES ASSUME journal.pending = None, kernel.dirty = "no", proc.init = "ok"
        PROVE  /\ kernel.top = journal.confirmed.top
               /\ kernel.dhcp = (journal.confirmed.ip = Dhcp)
               /\ journal.confirmed.ip \in kernel.addrs \cup {Dhcp}
               /\ kernel.addrs \subseteq Owned(journal) \cup {journal.confirmed.ip}
    BY <2>1 DEF LiveIsConfirmed
  <2>3. Shows(journal.confirmed) /\ Leases(journal.confirmed) /\ Primary \subseteq {journal.confirmed.ip}
    BY <2>2 DEF LiveInv, Showing, OrderlyInv, Only, Leasing, Ready, AtRest
  <2>4. kernel.dhcp \in BOOLEAN
    BY DEF Inv, TypeOK, Kernels
  <2> QED BY <2>2, <2>3, <2>4 DEF Shows, Leases, Primary
<1> QED BY <1>1, <1>2, <1>3, PTL DEF Spec
==============================================================================

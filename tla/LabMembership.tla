---------------------------- MODULE LabMembership ----------------------------
(***************************************************************************)
(* The membership of a lab: appliances that share one rqlite database.     *)
(* A member's record holds its status and the fingerprints its peers       *)
(* accept; every write of a record raises the trust revision.  Each member *)
(* keeps a copy of the records, by which it authorizes peers and sets its  *)
(* firewall, brings it up to date by itself, and acknowledges the revision *)
(* it has applied.  Invitations admit new members, which replace their own *)
(* rqlite database by the lab's, first as a non-voter; members remove each *)
(* other, leaving a tombstone, and replace their own credentials.  Each of *)
(* these is a journalled sequence of steps that an error or a restart may  *)
(* interrupt anywhere, while the other members go on with theirs.          *)
(*                                                                         *)
(* A credential is its number: 0 made by the node itself, 1 signed for its *)
(* enrollment, then one more for each rotation.  The database of the lab   *)
(* answers the members of its raft group and nobody else.                  *)
(***************************************************************************)
EXTENDS Naturals, FiniteSets

CONSTANTS Nodes, Founders,    \* all appliances, and those that form the lab
          Tokens,             \* invitations
          Addrs, Home(_),     \* peer addresses, and the one each node starts with
          JoinAddrs,          \* those a join may ask for
          Removals,           \* operation ids of removals
          Inviters, Removable, Rotators, \* what administrators may ask for
          None,
          MaxFaults, MaxRequests

Statuses == {"enrolling", "active", "removing", "removed"}

\* The rows of the members table, and those of the invitations.
Rows == [st : Statuses, cert : Nat, prev : {None} \cup Nat, rel : BOOLEAN, addr : Addrs,
         op : {None} \cup Removals]
Records == {None} \cup Rows
Invitations == [boot : Nodes, by : {None} \cup Nodes, mem : {None} \cup [Nodes -> Records]]

ASSUME LabAssumption ==
  /\ Founders \subseteq Nodes /\ Founders # {} /\ {MaxFaults, MaxRequests} \subseteq Nat
  /\ Inviters \subseteq Nodes /\ Removable \subseteq Nodes /\ Rotators \subseteq Nodes
  /\ JoinAddrs \subseteq Addrs
  /\ None \notin Nodes \cup Tokens \cup Addrs \cup Removals \cup Nat
  /\ None \notin Rows /\ None \notin Invitations
  /\ \A n \in Nodes : Home(n) \in Addrs

VARIABLES
  db,      \* the shared tables: members, trust revision, acknowledgements, invitations
  raft,    \* the raft group
  caught,  \* nodes whose own rqlite has applied their enrollment
  node,    \* membership.json: the copy of the records, and their revision
  ident,   \* node.pem and node-key.pem
  join,    \* join.json
  dir,     \* the data of rqlite on the appliance, its backup and the marker of a join
  rot,     \* rotation-*.json
  op,      \* the operation that holds the lock of each service
  marked,  \* history: members whose removal was asked for
  gone,    \* history: members removed that had no join outstanding when it began
  expired, \* invitations past their time
  asked,   \* removals, releases and rotations asked for
  faults

vars == <<db, raft, caught, node, ident, join, dir, rot, op, marked, gone, expired, asked, faults>>

Member(st, cert, addr) == [st |-> st, cert |-> cert, prev |-> None, rel |-> FALSE, addr |-> addr,
                           op |-> None]
Valid(m) == {m.cert, m.prev} \ {None}
Known(members) == {m \in Nodes : members[m] # None}
Idle == [kind |-> "none", pc |-> "none", on |-> None, rec |-> None, calm |-> TRUE]

InLab(n) == raft[n] # "out"
JoinPending(n) == join[n].phase \notin {"none", "complete"}

Start == [n \in Nodes |-> IF n \in Founders THEN Member("active", 0, Home(n)) ELSE None]
Standalone(n) == [m \in Nodes |-> IF m = n THEN Member("active", 0, Home(n)) ELSE None]

Init ==
  /\ db = [mem |-> Start, rev |-> 1, applied |-> [n \in Nodes |-> IF n \in Founders THEN 1 ELSE 0],
           inv |-> [t \in Tokens |-> None]]
  /\ raft = [n \in Nodes |-> IF n \in Founders THEN "voter" ELSE "out"]
  /\ caught = Founders
  /\ node = [n \in Nodes |-> IF n \in Founders THEN [mem |-> Start, rev |-> 1]
                             ELSE [mem |-> Standalone(n), rev |-> 1]]
  /\ ident = [n \in Nodes |-> [cert |-> 0, torn |-> FALSE]]
  /\ join = [n \in Nodes |-> [phase |-> "none", tok |-> None, addr |-> None, mem |-> None]]
  /\ dir = [n \in Nodes |-> [data |-> IF n \in Founders THEN "lab" ELSE "standalone",
                             backup |-> "none", marker |-> FALSE]]
  /\ rot = [n \in Nodes |-> [phase |-> "none", rev |-> 0, cert |-> 0, old |-> None]]
  /\ op = [n \in Nodes |-> Idle]
  /\ marked = {} /\ gone = {} /\ expired = {} /\ asked = 0 /\ faults = 0

----------------------------------------------------------------------------
(* The lock of a service, its database and its copy of the records. *)

At(n, kind, pc) == op[n].kind = kind /\ op[n].pc = pc
Enter(n, kind, pc, on, rec) ==
  op' = [op EXCEPT ![n] = [kind |-> kind, pc |-> pc, on |-> on, rec |-> rec,
                         calm |-> on # None => ~JoinPending(on)]]
Goto(n, pc) == op' = [op EXCEPT ![n].pc = pc]
Leave(n) == op' = [op EXCEPT ![n] = Idle]

\* putMember: the record is replaced whatever it was, and the revision grows.
putMember(n, m, rec) ==
  /\ InLab(n)
  /\ db' = [db EXCEPT !.mem[m] = rec, !.rev = @ + 1]

\* The host's SSH keys and firewall follow the records, and so does the copy.
ApplyTrust(n, members, rev) == node' = [node EXCEPT ![n] = [mem |-> members, rev |-> rev]]

\* refreshTrust: a read older than what is applied is refused.
refreshTrust(n) == InLab(n) /\ db.rev >= node[n].rev /\ ApplyTrust(n, db.mem, db.rev)

\* The monitor of startLab, every five seconds, and the handlers that only read.
\* It also acknowledges what is applied: the refresh of an operation leaves that
\* to the next one when its acknowledgement fails, and succeeds all the same.
monitor(n) ==
  /\ ~JoinPending(n)
  /\ node[n].rev # db.rev \/ node[n].mem # db.mem \/ db.applied[n] < db.rev
  /\ refreshTrust(n)
  /\ db' = [db EXCEPT !.applied[n] = db.rev]
  /\ UNCHANGED <<raft, caught, ident, join, dir, rot, op, marked, gone, expired, asked, faults>>

\* Mutant: the certificate alone decides.
AuthorizedByCert(p, m) ==
  node[p].mem[m] # None /\ ident[m].cert \in Valid(node[p].mem[m])

\* authorizeCertificate: does p accept a request of m?
Authorized(p, m) ==
  /\ node[p].mem[m] # None
  /\ node[p].mem[m].st = "active" /\ ident[m].cert \in Valid(node[p].mem[m])

\* labFirewallRules: the addresses that may reach rqlite, and those rejected.
Allowed(members) == {members[m].addr : m \in {k \in Known(members) : members[k].st # "removed"}}
Rejected(members) ==
  {members[m].addr : m \in {k \in Known(members) : members[k].st = "removed" /\ ~members[k].rel}}

Reachable(p, ad) == InLab(p) /\ ad \in Allowed(node[p].mem) \ Rejected(node[p].mem)

\* removeRQLite, through the rqlite of n
removeRQLite(n, m) == InLab(n) /\ raft' = [raft EXCEPT ![m] = "out"]

----------------------------------------------------------------------------
(* Invitations and the authority's side of an enrollment. *)

CreateInvitation(n, t) ==
  /\ n \in Inviters /\ ~JoinPending(n)
  /\ db.inv[t] = None
  /\ refreshTrust(n)
  /\ db' = [db EXCEPT !.inv[t] = [boot |-> n, by |-> None, mem |-> None]]
  /\ UNCHANGED <<raft, caught, ident, join, dir, rot, op, marked, gone, expired, asked, faults>>

\* Fifteen minutes pass; before anybody uses it, that only makes it worthless.
Expire(t) ==
  /\ \E n \in Nodes : join[n].tok = t
  /\ t \notin expired
  /\ expired' = expired \cup {t}
  /\ UNCHANGED <<db, raft, caught, node, ident, join, dir, rot, op, marked, gone, asked, faults>>

\* The record an enrollment writes.
Enrolling(n) == Member("enrolling", 1, join[n].addr)

\* A request reaches the authority: new, or repeated after its claim.
Replaying(n) == db.inv[join[n].tok].by = n

\* Mutant: a retry of an expired invitation is refused like a first use.
ExpiredAlways(n) == join[n].tok \in expired

Expired(n) == join[n].tok \in expired /\ ~Replaying(n)

AddressTaken(a, ad) ==
  \E m \in Known(node[a].mem) :
     node[a].mem[m].addr = ad /\ (node[a].mem[m].st # "removed" \/ ~node[a].mem[m].rel)

Requests(a, n) == /\ At(n, "join", "request") /\ op[a] = Idle
                  /\ db.inv[join[n].tok].boot = a

Refuses(a, n) ==
  \/ ~InLab(a) \/ JoinPending(a) \/ Expired(n)
  \/ ~Replaying(n) /\ ( \/ db.inv[join[n].tok].by # None
                        \/ n \in Known(node[a].mem)
                        \/ AddressTaken(a, join[n].addr) )

enrollRefused(a, n) ==
  /\ Requests(a, n) /\ Refuses(a, n)
  /\ Leave(n)
  /\ UNCHANGED <<db, raft, caught, node, ident, join, dir, rot, marked, gone, expired, asked, faults>>

\* The claim binds the invitation to the node and its key, with the answer.
enrollClaim(a, n) ==
  /\ Requests(a, n) /\ ~Refuses(a, n) /\ ~Replaying(n)
  /\ db' = [db EXCEPT !.inv[join[n].tok].by = n,
                      !.inv[join[n].tok].mem = [node[a].mem EXCEPT ![n] = Enrolling(n)]]
  /\ op' = [op EXCEPT ![a] = [kind |-> "enroll", pc |-> "put", on |-> n, rec |-> Enrolling(n),
                               calm |-> FALSE],
                      ![n].pc = "waiting"]
  /\ UNCHANGED <<raft, caught, node, ident, join, dir, rot, marked, gone, expired, asked, faults>>

enrollReplay(a, n) ==
  /\ Requests(a, n) /\ ~Refuses(a, n) /\ Replaying(n)
  /\ op' = [op EXCEPT ![a] = [kind |-> "enroll", pc |-> "check", on |-> n, rec |-> Enrolling(n),
                               calm |-> FALSE],
                      ![n].pc = "waiting"]
  /\ UNCHANGED <<db, raft, caught, node, ident, join, dir, rot, marked, gone, expired, asked, faults>>

enrollPut(a) ==
  /\ op[a].kind = "enroll" /\ op[a].pc \in {"put", "again"}
  /\ putMember(a, op[a].on, op[a].rec)
  /\ Goto(a, IF op[a].pc = "put" THEN "check" ELSE "trust")
  /\ UNCHANGED <<raft, caught, node, ident, join, dir, rot, marked, gone, expired, asked, faults>>

\* The error of the authority reaches a joining node that still waits for it.
Failed(a, n) ==
  [m \in Nodes |-> IF m = a \/ (m = n /\ op[m].pc = "waiting") THEN Idle ELSE op[m]]

enrollCheck(a) ==
  LET n == op[a].on
      old == db.mem[n]
  IN  /\ At(a, "enroll", "check") /\ InLab(a)
      /\ IF old # None /\ old.st \in {"removing", "removed"}
         THEN op' = Failed(a, n)
         ELSE Goto(a, IF old # None /\ old.st = "active" THEN "trust" ELSE "again")
      /\ UNCHANGED <<db, raft, caught, node, ident, join, dir, rot, marked, gone, expired, asked, faults>>

enrollTrust(a) ==
  /\ At(a, "enroll", "trust")
  /\ refreshTrust(a)
  /\ Goto(a, "reply")
  /\ UNCHANGED <<db, raft, caught, ident, join, dir, rot, marked, gone, expired, asked, faults>>

\* The answer, with the keys of the lab: it is lost on a node that no longer waits.
enrollReply(a) ==
  LET n == op[a].on
      heard == op[n].pc = "waiting" /\ join[n].phase = "validated"
  IN  /\ At(a, "enroll", "reply")
      /\ op' = [op EXCEPT ![a] = Idle, ![n].pc = IF heard THEN "install" ELSE op[n].pc]
      /\ join' = IF heard
                 THEN [join EXCEPT ![n].phase = "credentials", ![n].mem = db.inv[join[n].tok].mem]
                 ELSE join
      /\ UNCHANGED <<db, raft, caught, node, ident, dir, rot, marked, gone, expired, asked, faults>>

----------------------------------------------------------------------------
(* Join: the joining node's side, phase by phase. *)

Join(n, t, ad) ==
  /\ op[n] = Idle /\ n \notin Founders /\ join[n].phase = "none"
  /\ db.inv[t] # None
  /\ join' = [join EXCEPT ![n] = [phase |-> "validated", tok |-> t, addr |-> ad, mem |-> None]]
  /\ Enter(n, "join", "request", None, None)
  /\ UNCHANGED <<db, raft, caught, node, ident, dir, rot, marked, gone, expired, asked, faults>>

Resume == [validated |-> "request", credentials |-> "install", nonvoter |-> "local",
           promotionReady |-> "remove", nonvoterRemoved |-> "promote", promoted |-> "trust"]

\* ResumeJoin when the service starts, and the administrator who repeats the
\* request.  A repetition that is only refused again is left out.
ResumeJoin(n) ==
  /\ op[n] = Idle /\ JoinPending(n)
  /\ join[n].phase = "validated" => ~Refuses(db.inv[join[n].tok].boot, n)
  /\ Enter(n, "join", Resume[join[n].phase], None, None)
  /\ UNCHANGED <<db, raft, caught, node, ident, join, dir, rot, marked, gone, expired, asked, faults>>

\* installIdentity writes three files.
installIdentity(n) ==
  /\ op[n].pc = "install"
  /\ ident' = [ident EXCEPT ![n].torn = TRUE]
  /\ Goto(n, "installed")
  /\ UNCHANGED <<db, raft, caught, node, join, dir, rot, marked, gone, expired, asked, faults>>

Boot(n) == db.inv[join[n].tok].boot

\* The identity is whole; then membership.json, the keys of the lab, and
\* ApplyTrust with the members of the answer.
joinInstalled(n) ==
  /\ At(n, "join", "installed")
  /\ ident' = [ident EXCEPT ![n] = [cert |-> 1, torn |-> FALSE]]
  /\ ApplyTrust(n, join[n].mem, 0)
  /\ Goto(n, "backup")
  /\ UNCHANGED <<db, raft, caught, join, dir, rot, marked, gone, expired, asked, faults>>

\* BackupDirectory: the manifest is written last, and with it nothing is copied again.
BackupDirectory(n) ==
  /\ dir' = [dir EXCEPT ![n].backup = CASE @ = "none" -> "partial"
                                        [] @ = "partial" -> dir[n].data
                                        [] OTHER -> @]
  /\ Goto(n, IF dir[n].backup = "none" THEN "backup" ELSE "wipe")

\* ConfigureLab stops rqlite and copies its directory before it touches it.
configureBackup(n) ==
  /\ At(n, "join", "backup")
  /\ BackupDirectory(n)
  /\ UNCHANGED <<db, raft, caught, node, ident, join, rot, marked, gone, expired, asked, faults>>

\* Mutant: every attempt clears the directory.
WipesAlways(n) == TRUE

Wipes(n) == ~dir[n].marker

configureWipe(n) ==
  /\ At(n, "join", "wipe")
  /\ IF Wipes(n)
     THEN /\ dir' = [dir EXCEPT ![n].data = "none"]
          /\ caught' = caught \ {n}
          /\ Goto(n, "mark")
     ELSE UNCHANGED <<dir, caught>> /\ Goto(n, "up")
  /\ UNCHANGED <<db, raft, node, ident, join, rot, marked, gone, expired, asked, faults>>

configureMark(n) ==
  /\ At(n, "join", "mark")
  /\ dir' = [dir EXCEPT ![n].marker = TRUE]
  /\ Goto(n, "up")
  /\ UNCHANGED <<db, raft, caught, node, ident, join, rot, marked, gone, expired, asked, faults>>

\* rqlite starts with the address of the authority, and is ready when it has joined.
configureUp(n) ==
  /\ At(n, "join", "up")
  /\ Reachable(Boot(n), join[n].addr)
  /\ dir' = [dir EXCEPT ![n].data = "lab"]
  /\ raft' = [raft EXCEPT ![n] = IF @ = "out" THEN "nonvoter" ELSE @]
  /\ Goto(n, "joined")
  /\ UNCHANGED <<db, caught, node, ident, join, rot, marked, gone, expired, asked, faults>>

catchUp(n) ==
  /\ raft[n] = "nonvoter" /\ n \notin caught /\ db.mem[n] # None
  /\ caught' = caught \cup {n}
  /\ UNCHANGED <<db, raft, node, ident, join, dir, rot, op, marked, gone, expired, asked, faults>>

\* The phases that only record what the step before has done.
Saved == [joined |-> "nonvoter", removed |-> "nonvoterRemoved", voting |-> "promoted"]

joinSave(n) ==
  /\ op[n].kind = "join" /\ op[n].pc \in DOMAIN Saved
  /\ join' = [join EXCEPT ![n].phase = Saved[op[n].pc]]
  /\ Goto(n, Resume[Saved[op[n].pc]])
  /\ UNCHANGED <<db, raft, caught, node, ident, dir, rot, marked, gone, expired, asked, faults>>

\* Mutant: the enrollment is looked up at the leader.
CaughtUpAtLeader(n) == db.mem[n] # None

CaughtUp(n) == n \in caught

\* QueryLocal: the node's own rqlite must hold the enrollment.
joinLocal(n) ==
  /\ At(n, "join", "local")
  /\ CaughtUp(n)
  /\ join' = [join EXCEPT ![n].phase = "promotionReady"]
  /\ Goto(n, "remove")
  /\ UNCHANGED <<db, raft, caught, node, ident, dir, rot, marked, gone, expired, asked, faults>>

joinRemove(n) ==
  /\ At(n, "join", "remove")
  /\ removeRQLite(n, n)
  /\ Goto(n, "removed")
  /\ UNCHANGED <<db, caught, node, ident, join, dir, rot, marked, gone, expired, asked, faults>>

Promote(n) ==
  /\ At(n, "join", "promote")
  /\ Reachable(Boot(n), join[n].addr)
  /\ raft' = [raft EXCEPT ![n] = "voter"]
  /\ Goto(n, "voting")
  /\ UNCHANGED <<db, caught, node, ident, join, dir, rot, marked, gone, expired, asked, faults>>

\* The two refreshes around the record that makes the node active.
joinTrust(n) ==
  /\ op[n].kind = "join" /\ op[n].pc \in {"trust", "sync"}
  /\ refreshTrust(n)
  /\ IF op[n].pc = "trust" THEN Goto(n, "active") /\ UNCHANGED join
     ELSE Leave(n) /\ join' = [join EXCEPT ![n].phase = "complete"]
  /\ UNCHANGED <<db, raft, caught, ident, dir, rot, marked, gone, expired, asked, faults>>

joinActive(n) ==
  /\ At(n, "join", "active")
  /\ putMember(n, n, [node[n].mem[n] EXCEPT !.st = "active"])
  /\ Goto(n, "sync")
  /\ UNCHANGED <<raft, caught, node, ident, join, dir, rot, marked, gone, expired, asked, faults>>

----------------------------------------------------------------------------
(* Remove and ReleasePeerAddress. *)

\* labJoinFence: no request of an administrator while a join is outstanding.
Serves(n) == op[n] = Idle /\ InLab(n) /\ ~JoinPending(n)

\* A new request, of those that are counted.
Asks == asked < MaxRequests /\ asked' = asked + 1

Remove(n, m, o) ==
  /\ Serves(n) /\ Asks /\ m # n /\ m \in Removable
  /\ db.mem[m] # None /\ db.mem[m].st # "removed"
  /\ db.mem[m].op \in {None, o}
  /\ marked' = marked \cup {m}
  /\ Enter(n, "remove", "removing", m, [db.mem[m] EXCEPT !.st = "removing", !.op = o])
  /\ UNCHANGED <<db, raft, caught, node, ident, join, dir, rot, gone, expired, faults>>

\* Mutant: the tombstone is written before the raft group is told.
RemovedFirst == [removing |-> "trust", trust |-> "tombstone", tombstone |-> "rqlite",
                 rqlite |-> "final"]

Removal == [removing |-> "trust", trust |-> "rqlite", rqlite |-> "tombstone",
            tombstone |-> "final"]

removePut(n) ==
  /\ op[n].kind = "remove" /\ op[n].pc \in {"removing", "tombstone"}
  /\ LET rec == IF op[n].pc = "tombstone" THEN [op[n].rec EXCEPT !.st = "removed"] ELSE op[n].rec
     IN  putMember(n, op[n].on, rec)
  /\ gone' = IF op[n].pc = "tombstone" /\ op[n].calm THEN gone \cup {op[n].on} ELSE gone
  /\ Goto(n, Removal[op[n].pc])
  /\ UNCHANGED <<raft, caught, node, ident, join, dir, rot, marked, expired, asked, faults>>

removeTrust(n) ==
  /\ op[n].kind = "remove" /\ op[n].pc \in {"trust", "final"}
  /\ refreshTrust(n)
  /\ IF op[n].pc = "trust" THEN Goto(n, Removal["trust"]) ELSE Leave(n)
  /\ UNCHANGED <<db, raft, caught, ident, join, dir, rot, marked, gone, expired, asked, faults>>

removeRaft(n) ==
  /\ At(n, "remove", "rqlite")
  /\ removeRQLite(n, op[n].on)
  /\ Goto(n, Removal["rqlite"])
  /\ UNCHANGED <<db, caught, node, ident, join, dir, rot, marked, gone, expired, asked, faults>>

ReleasePeerAddress(n, m) ==
  /\ Serves(n) /\ Asks
  /\ db.mem[m] # None /\ db.mem[m].st = "removed" /\ ~db.mem[m].rel
  /\ Enter(n, "release", "put", m, [db.mem[m] EXCEPT !.rel = TRUE])
  /\ UNCHANGED <<db, raft, caught, node, ident, join, dir, rot, marked, gone, expired, faults>>

releasePut(n) ==
  /\ At(n, "release", "put")
  /\ putMember(n, op[n].on, op[n].rec)
  /\ Goto(n, "trust")
  /\ UNCHANGED <<raft, caught, node, ident, join, dir, rot, marked, gone, expired, asked, faults>>

releaseTrust(n) ==
  /\ At(n, "release", "trust")
  /\ refreshTrust(n)
  /\ Leave(n)
  /\ UNCHANGED <<db, raft, caught, ident, join, dir, rot, marked, gone, expired, asked, faults>>

----------------------------------------------------------------------------
(* RotateIdentity. *)

rotateStart(n) ==
  /\ Serves(n) /\ Asks /\ n \in Rotators /\ rot[n].phase = "none"
  /\ db.mem[n].st = "active"
  /\ refreshTrust(n)
  /\ rot' = [rot EXCEPT ![n] = [phase |-> "prepared", rev |-> 0, cert |-> db.mem[n].cert + 1,
                                old |-> db.mem[n]]]
  /\ Enter(n, "rotate", "put", n, None)
  /\ UNCHANGED <<db, raft, caught, ident, join, dir, marked, gone, expired, faults>>

\* The same operation id again: each phase goes on where it was.
rotateResume(n) ==
  /\ Serves(n) /\ rot[n].phase \in {"prepared", "authorized", "awaiting"}
  /\ refreshTrust(n)
  /\ Enter(n, "rotate", [prepared |-> "put", authorized |-> "install", awaiting |-> "await"]
                          [rot[n].phase], n, None)
  /\ UNCHANGED <<db, raft, caught, ident, join, dir, rot, marked, gone, expired, asked, faults>>

\* The record that lets peers accept the old credential and the new one.
Both(n) == [rot[n].old EXCEPT !.cert = rot[n].cert, !.prev = rot[n].old.cert]

rotatePut(n) ==
  /\ At(n, "rotate", "put")
  /\ putMember(n, n, Both(n))
  /\ Goto(n, "authorize")
  /\ UNCHANGED <<raft, caught, node, ident, join, dir, rot, marked, gone, expired, asked, faults>>

\* The revision that the others must have applied is recorded.
rotateAuthorized(n) ==
  /\ At(n, "rotate", "authorize")
  /\ refreshTrust(n)
  /\ rot' = [rot EXCEPT ![n].phase = "authorized", ![n].rev = db.rev]
  /\ Goto(n, "install")
  /\ UNCHANGED <<db, raft, caught, ident, join, dir, marked, gone, expired, asked, faults>>

rotateInstalled(n) ==
  /\ At(n, "rotate", "installed")
  /\ ident' = [ident EXCEPT ![n] = [cert |-> rot[n].cert, torn |-> FALSE]]
  /\ Goto(n, "restart")
  /\ UNCHANGED <<db, raft, caught, node, join, dir, rot, marked, gone, expired, asked, faults>>

\* rotateLabIdentity on the host restarts rqlite with the new files.
rotateRestart(n) ==
  /\ At(n, "rotate", "restart")
  /\ rot' = [rot EXCEPT ![n].phase = "awaiting"]
  /\ Goto(n, "await")
  /\ UNCHANGED <<db, raft, caught, node, ident, join, dir, marked, gone, expired, asked, faults>>

\* Mutant: members are not waited for.
NobodyPending(n) == {}

PendingMembers(n) ==
  {m \in Known(db.mem) \ {n} : db.mem[m].st = "active" /\ db.applied[m] < rot[n].rev}

rotateAwait(n) ==
  /\ At(n, "rotate", "await")
  /\ refreshTrust(n)
  /\ IF PendingMembers(n) # {} THEN Leave(n) ELSE Goto(n, "clear")
  /\ UNCHANGED <<db, raft, caught, ident, join, dir, rot, marked, gone, expired, asked, faults>>

rotateClear(n) ==
  /\ At(n, "rotate", "clear")
  /\ putMember(n, n, [node[n].mem[n] EXCEPT !.prev = None])
  /\ Goto(n, "complete")
  /\ UNCHANGED <<raft, caught, node, ident, join, dir, rot, marked, gone, expired, asked, faults>>

rotateComplete(n) ==
  /\ At(n, "rotate", "complete")
  /\ refreshTrust(n)
  /\ rot' = [rot EXCEPT ![n].phase = "complete", ![n].rev = db.rev, ![n].old = None]
  /\ Leave(n)
  /\ UNCHANGED <<db, raft, caught, ident, join, dir, marked, gone, expired, asked, faults>>

----------------------------------------------------------------------------
(* An operation fails, or the service restarts. *)

\* Everything that waits for a: its own operation, and a node it enrolls.
Stopped(a) == Failed(a, IF op[a].kind = "enroll" THEN op[a].on ELSE a)

Fails(n) ==
  /\ op[n] # Idle /\ faults < MaxFaults
  /\ op' = Stopped(n) /\ faults' = faults + 1
  /\ UNCHANGED <<db, raft, caught, node, ident, join, dir, rot, marked, gone, expired, asked>>

\* The files that a journalled join or rotation was writing are written again.
PreparePendingIdentity(n) ==
  IF rot[n].phase \in {"authorized", "awaiting"} THEN [cert |-> rot[n].cert, torn |-> FALSE]
  ELSE IF join[n].phase = "credentials" THEN [cert |-> 1, torn |-> FALSE] ELSE ident[n]

Restart(n) ==
  /\ op[n] # Idle \/ ident[n].torn
  /\ faults < MaxFaults /\ faults' = faults + 1
  /\ op' = Stopped(n)
  /\ ident' = [ident EXCEPT ![n] = PreparePendingIdentity(n)]
  /\ UNCHANGED <<db, raft, caught, node, join, dir, rot, marked, gone, expired, asked>>

----------------------------------------------------------------------------

JoinStep(n) ==
  \/ installIdentity(n) \/ joinInstalled(n) \/ configureBackup(n)
  \/ configureWipe(n) \/ configureMark(n) \/ configureUp(n) \/ joinSave(n) \/ joinLocal(n)
  \/ joinRemove(n) \/ Promote(n) \/ joinTrust(n) \/ joinActive(n)

EnrollStep(a) ==
  \/ enrollPut(a) \/ enrollCheck(a) \/ enrollTrust(a) \/ enrollReply(a)
  \/ \E n \in Nodes : enrollRefused(a, n) \/ enrollClaim(a, n) \/ enrollReplay(a, n)

MemberStep(n) ==
  \/ removePut(n) \/ removeTrust(n) \/ removeRaft(n) \/ releasePut(n) \/ releaseTrust(n)
  \/ rotatePut(n) \/ rotateAuthorized(n) \/ rotateInstalled(n) \/ rotateRestart(n)
  \/ rotateAwait(n) \/ rotateClear(n) \/ rotateComplete(n)

Next ==
  \E n \in Nodes :
     \/ monitor(n) \/ catchUp(n) \/ ResumeJoin(n)
     \/ JoinStep(n) \/ EnrollStep(n) \/ MemberStep(n)
     \/ rotateStart(n) \/ rotateResume(n)
     \/ \E t \in Tokens : CreateInvitation(n, t) \/ \E ad \in JoinAddrs : Join(n, t, ad)
     \/ \E m \in Nodes : ReleasePeerAddress(n, m) \/ \E o \in Removals : Remove(n, m, o)
     \/ Fails(n) \/ Restart(n)
  \/ \E t \in Tokens : Expire(t)

\* Requests of administrators are not fair; what the services do by themselves is.
Fairness ==
  \A n \in Nodes :
     /\ WF_vars(JoinStep(n)) /\ WF_vars(EnrollStep(n)) /\ WF_vars(MemberStep(n))
     /\ WF_vars(ResumeJoin(n)) /\ WF_vars(catchUp(n)) /\ WF_vars(monitor(n))

Spec == Init /\ [][Next]_vars /\ Fairness

----------------------------------------------------------------------------
(* Properties *)

Phases == {"none", "complete"} \cup DOMAIN Resume

\* Every record, copy, journal and file has its type, and a join that has its
\* credentials knows the members it was told (service.go, enrollment.go).
TypeOK ==
  /\ \A n \in Nodes :
        /\ db.mem[n] \in Records /\ db.applied[n] \in 0..db.rev
        /\ \A m \in Nodes : node[n].mem[m] \in Records
        /\ node[n].rev <= db.rev
        /\ raft[n] \in {"out", "nonvoter", "voter"}
        /\ ident[n] \in [cert : Nat, torn : BOOLEAN]
        /\ join[n].phase \in Phases
        /\ join[n].phase \notin {"none", "validated"} => n \in Known(join[n].mem)
        /\ rot[n].phase \in {"none", "prepared", "authorized", "awaiting", "complete"}
        /\ op[n].kind \in {"none", "enroll", "join", "remove", "release", "rotate"}
  /\ \A t \in Tokens : db.inv[t] # None => db.inv[t].by \in {None} \cup Nodes
  /\ caught \subseteq Nodes /\ gone \subseteq marked /\ faults \in 0..MaxFaults /\ asked \in 0..MaxRequests

Active(n) == db.mem[n] # None /\ db.mem[n].st = "active"

\* A rotation never leaves two members that nobody removes without a credential:
\* whatever a member that has joined still accepts of another, the lab accepts
\* too, however far each of them has read (rotation.go: the previous
\* credential is dropped when every active member has applied the new one).
CredentialsOverlap ==
  \A m, p \in Nodes :
     ( /\ m # p /\ Active(m) /\ Active(p) /\ ~JoinPending(p) /\ {m, p} \cap marked = {}
       /\ node[p].mem[m] # None )
       => Valid(db.mem[m]) \cap Valid(node[p].mem[m]) # {}

\* The files a member serves with are ones the lab authorizes, and a start
\* makes a half-written pair whole again, wherever an enrollment or a rotation
\* was interrupted (enrollment.go PreparePendingIdentity, identity.go).
IdentityUsable ==
  \A n \in Nodes :
     /\ ~PreparePendingIdentity(n).torn
     /\ Active(n) /\ ~ident[n].torn /\ n \notin gone => ident[n].cert \in Valid(db.mem[n])

\* Only a node that holds the lab's data counts in its quorum, also when a join
\* is resumed (enrollment.go: local catch-up before promotion).
VoterCaughtUp == \A n \in Nodes : raft[n] = "voter" => n \in caught

\* The database a joining appliance had of its own is either in place or in a
\* complete copy (hostd/lab.go ConfigureLab, recovery.go BackupDirectory).
StandaloneKept ==
  \A n \in Nodes \ Founders : "standalone" \in {dir[n].data, dir[n].backup}

\* A repeated join never clears the lab's data (hostd/lab.go, the marker).
LabDataKept == [][\A n \in Nodes : dir[n].data = "lab" => dir'[n].data = "lab"]_vars

\* A member that was removed is never active and never in the raft group again,
\* whatever it was doing itself when it was removed (service.go Remove: the
\* raft group first, then the tombstone).
RemovedStaysOut == \A m \in gone : ~InLab(m) /\ ~Active(m)

\* A join stops at the removal of its raft entry when the answer is lost: the
\* node can no longer ask the lab to remove it.
Stranded(n) == join[n].phase = "promotionReady" /\ ~InLab(n)

Claimed(n) == JoinPending(n) /\ Replaying(n)

\* An enrollment that has claimed its invitation ends in a member, through
\* errors, restarts and the expiry of the invitation, unless somebody removes
\* it or its authority (enrollment.go enroll, Join, ResumeJoin).
JoinEnds ==
  \A n \in Nodes \ Founders :
     Claimed(n) ~> \/ join[n].phase = "complete" \/ Stranded(n)
                   \/ n \in marked \/ \E t \in Tokens : join[n].tok = t /\ Boot(n) \in marked

\* A removed member is eventually refused by everybody who stays
\* (identity.go authorizeCertificate, the monitor of lab_runtime.go).
RemovalTakesEffect ==
  \A m \in Removable :
     m \in gone ~> \A p \in Nodes \ {m} : InLab(p) /\ ~JoinPending(p) => ~Authorized(p, m)

\* A join never counts a database that lacks the data in a majority, and never loses what
\* the appliance had before (enrollment.go promotion, hostd lab.go prepare).
JoinSafe == TypeOK /\ VoterCaughtUp /\ StandaloneKept

\* A rotation interrupted anywhere leaves a node that its peers still accept and that can
\* read its own key pair (rotation.go, identity.go).
CredentialsUsable == CredentialsOverlap /\ IdentityUsable
=============================================================================

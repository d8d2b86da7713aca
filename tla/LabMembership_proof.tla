------------------------- MODULE LabMembership_proof -------------------------
(***************************************************************************)
(* Proofs about the lab, for any appliances, founders, invitations,        *)
(* removals and rotations, any number of requests and of failures: a join  *)
(* never loses data and never counts an empty database in a quorum, a      *)
(* removed member stays out, and, in the second part, a rotation never     *)
(* leaves a member with a credential the others refuse.                    *)
(***************************************************************************)
EXTENDS LabMembership, TLAPS

\* A membership table.
Members == [Nodes -> Records]

\* The steps of each kind of operation, and the phase of the journal they belong to.
JoinPhase == [request |-> "validated", waiting |-> "validated", install |-> "credentials",
              installed |-> "credentials", backup |-> "credentials", wipe |-> "credentials",
              mark |-> "credentials", up |-> "credentials", joined |-> "credentials",
              local |-> "nonvoter", remove |-> "promotionReady", removed |-> "promotionReady",
              promote |-> "nonvoterRemoved", voting |-> "nonvoterRemoved", trust |-> "promoted",
              active |-> "promoted", sync |-> "promoted"]
\* The same for the rotation of a certificate.
RotationPhase == [put |-> "prepared", authorize |-> "prepared", install |-> "authorized",
                  installed |-> "authorized", restart |-> "authorized", await |-> "awaiting",
                  clear |-> "awaiting", complete |-> "awaiting"]

\* The kinds of operation a service runs, and the steps they have between them.
Kinds == {"none", "enroll", "join", "remove", "release", "rotate"}
Steps == {"none", "request", "waiting", "install", "installed", "backup", "wipe", "mark", "up",
          "joined", "local", "remove", "removed", "promote", "voting", "trust", "active", "sync",
          "put", "check", "again", "reply", "removing", "rqlite", "tombstone", "final",
          "authorize", "restart", "await", "clear", "complete"}
\* The types of the variables: operation, shared tables, local copy, identity, join
\* journal, database directory and rotation journal.
Ops == [kind : Kinds, pc : Steps, on : {None} \cup Nodes, rec : Records, calm : BOOLEAN]
Tables == [mem : Members, rev : Nat, applied : [Nodes -> Nat],
           inv : [Tokens -> {None} \cup Invitations]]
Copies == [mem : Members, rev : Nat]
Idents == [cert : Nat, torn : BOOLEAN]
Joins == [phase : Phases, tok : {None} \cup Tokens, addr : {None} \cup Addrs,
          mem : {None} \cup Members]
Dirs == [data : {"lab", "standalone", "none"}, backup : {"none", "partial", "standalone", "lab"},
         marker : BOOLEAN]
RotationPhases == {"none", "prepared", "authorized", "awaiting", "complete"}
Rotations == [phase : RotationPhases, rev : Nat, cert : Nat, old : Records]

\* Type correctness.
Types ==
  /\ db \in Tables
  /\ raft \in [Nodes -> {"out", "nonvoter", "voter"}]
  /\ node \in [Nodes -> Copies]
  /\ ident \in [Nodes -> Idents]
  /\ join \in [Nodes -> Joins]
  /\ dir \in [Nodes -> Dirs]
  /\ rot \in [Nodes -> Rotations]
  /\ op \in [Nodes -> Ops]
  /\ caught \subseteq Nodes /\ gone \subseteq marked /\ marked \subseteq Nodes
  /\ faults \in 0..MaxFaults /\ asked \in 0..MaxRequests

\* Nobody acknowledges or applies a revision that was never written.
Revisions == \A n \in Nodes : db.applied[n] <= db.rev /\ node[n].rev <= db.rev

\* Who is in the raft group has a record, and every node knows itself.
Recorded(n) == (InLab(n) => db.mem[n] # None) /\ node[n].mem[n] # None

\* A journalled join has its invitation; with its credentials it has its record,
\* and the answer of the authority names the node.
Joining(n) ==
  /\ n \in Founders => join[n].phase = "none"
  /\ join[n].phase # "none" => /\ join[n].tok \in Tokens /\ join[n].addr \in Addrs
                               /\ db.inv[join[n].tok] # None
  /\ join[n].phase \notin {"none", "validated"} =>
        /\ db.mem[n] # None
        /\ join[n].mem \in Members /\ join[n].mem[n] # None

\* A claimed invitation holds the answer for its node.
Invited(t) ==
  db.inv[t] # None /\ db.inv[t].by # None =>
     db.inv[t].mem \in Members /\ db.inv[t].mem[db.inv[t].by] # None

\* Only the authority of the invitation enrolls a node, and only until it answers.
EnrollsRight(a) ==
  op[a].kind = "enroll" =>
     /\ op[a].pc \in {"put", "check", "again", "trust", "reply"}
     /\ op[a].on \in Nodes \ {a} /\ op[a].rec \in Rows /\ op[a].rec.st = "enrolling"
     /\ join[op[a].on].phase = "validated"
     /\ db.inv[join[op[a].on].tok].by = op[a].on
     /\ db.inv[join[op[a].on].tok].boot = a
     /\ op[a].pc \in {"trust", "reply"} => db.mem[op[a].on] # None

\* Each operation is at a step of its kind, in the phase its journal records.
InPhase(n) ==
  /\ op[n].kind = "none" => op[n].pc = "none"
  /\ op[n].kind = "join" => op[n].pc \in DOMAIN JoinPhase /\ join[n].phase = JoinPhase[op[n].pc]
  /\ op[n].kind = "rotate" => /\ op[n].pc \in DOMAIN RotationPhase
                              /\ rot[n].phase = RotationPhase[op[n].pc]
  /\ op[n].kind = "release" => op[n].pc \in {"put", "trust"}
  /\ op[n].kind = "remove" => op[n].pc \in {"removing", "trust", "rqlite", "tombstone", "final"}
  /\ rot[n].phase \in {"prepared", "authorized", "awaiting"} => rot[n].old \in Rows

\* Removals and releases write a record that is no longer active.
RemovesRight(n) ==
  op[n].kind \in {"remove", "release"} =>
     /\ op[n].on \in Nodes /\ db.mem[op[n].on] # None
     /\ op[n].rec \in Rows /\ op[n].rec.st # "active"
     /\ op[n].kind = "remove" => op[n].on \in marked

\* The directory of rqlite through a join: nothing is cleared before its copy is
\* complete, nor after the marker was written.
DataSafe(n) ==
  IF n \in Founders THEN dir[n].data = "lab"
  ELSE /\ dir[n].backup \in {"none", "partial"} => dir[n].data = "standalone"
       /\ dir[n].backup # "lab"
       /\ op[n].kind = "join" /\ op[n].pc \in {"wipe", "mark", "up"} => dir[n].backup = "standalone"
       /\ dir[n].data = "lab" => dir[n].marker
       /\ op[n].kind = "join" /\ op[n].pc = "mark" => dir[n].data # "lab"
       /\ op[n].kind = "join" /\ op[n].pc = "up" => dir[n].marker

\* From its promotion on, a node that joined has caught up.
QuorumSafe(n) ==
  /\ n \in Founders => n \in caught
  /\ join[n].phase \in {"promotionReady", "nonvoterRemoved", "promoted", "complete"} => n \in caught
  /\ raft[n] = "voter" /\ n \notin Founders
        => join[n].phase \in {"nonvoterRemoved", "promoted", "complete"}

\* A member has joined, and stays joined.
Settled(n) == n \in Founders \/ join[n].phase = "complete"

\* A removal that found no join outstanding finds the member out of the raft group
\* when it writes the tombstone.
RemovalSafe(n) ==
  /\ db.mem[n] # None => n \in Founders \/ join[n].phase # "none"
  /\ op[n].kind = "remove" /\ op[n].calm =>
        /\ Settled(op[n].on)
        /\ op[n].pc \in {"tombstone", "final"} => ~InLab(op[n].on)
  /\ n \in gone => Settled(n) /\ ~InLab(n) /\ ~Active(n)

\* The inductive invariant.
Inv ==
  /\ Types /\ Revisions
  /\ \A t \in Tokens : Invited(t)
  /\ \A n \in Nodes : /\ Recorded(n) /\ Joining(n) /\ EnrollsRight(n) /\ InPhase(n)
                      /\ RemovesRight(n) /\ DataSafe(n) /\ QuorumSafe(n) /\ RemovalSafe(n)

----------------------------------------------------------------------------
(* Lemmas about the updates the steps make. *)

\* A record that is written is a row, whatever fields of it the writer replaces.
LEMMA RowFacts ==
  /\ \A st \in Statuses, cert \in Nat, ad \in Addrs :
        Member(st, cert, ad) \in Rows /\ Member(st, cert, ad).st = st
  /\ \A r \in Rows, st \in Statuses : [r EXCEPT !.st = st] \in Rows /\ [r EXCEPT !.st = st].st = st
  /\ \A r \in Rows, o \in Removals :
        /\ [r EXCEPT !.st = "removing", !.op = o] \in Rows
        /\ [r EXCEPT !.st = "removing", !.op = o].st = "removing"
  /\ \A r \in Rows : [r EXCEPT !.rel = TRUE] \in Rows /\ [r EXCEPT !.rel = TRUE].st = r.st
  /\ \A r \in Rows : [r EXCEPT !.prev = None] \in Rows
  /\ \A r \in Rows, c \in Nat : [r EXCEPT !.cert = c, !.prev = r.cert] \in Rows
  /\ \A r \in Rows : r # None /\ r.cert \in Nat /\ r.st \in Statuses
<1>1. \A st \in Statuses, cert \in Nat, ad \in Addrs :
         Member(st, cert, ad) \in Rows /\ Member(st, cert, ad).st = st
  BY DEF Member, Rows
<1>2. \A r \in Rows, st \in Statuses : [r EXCEPT !.st = st] \in Rows /\ [r EXCEPT !.st = st].st = st
  BY DEF Rows
<1>3. \A r \in Rows, o \in Removals :
         /\ [r EXCEPT !.st = "removing", !.op = o] \in Rows
         /\ [r EXCEPT !.st = "removing", !.op = o].st = "removing"
  BY DEF Rows, Statuses
<1>4. \A r \in Rows : [r EXCEPT !.rel = TRUE] \in Rows /\ [r EXCEPT !.rel = TRUE].st = r.st
  <2>1. \A r \in Rows : [r EXCEPT !.rel = TRUE] \in Rows
    BY Zenon DEF Rows
  <2>2. \A r \in Rows : [r EXCEPT !.rel = TRUE].st = r.st
    BY DEF Rows
  <2> QED BY <2>1, <2>2
<1>5. \A r \in Rows : [r EXCEPT !.prev = None] \in Rows
  BY DEF Rows
<1>6. \A r \in Rows, c \in Nat : [r EXCEPT !.cert = c, !.prev = r.cert] \in Rows
  BY DEF Rows
<1>7. \A r \in Rows : r # None /\ r.cert \in Nat /\ r.st \in Statuses
  BY LabAssumption DEF Rows
<1> QED BY <1>1, <1>2, <1>3, <1>4, <1>5, <1>6, <1>7

\* An operation that moves on, enters the lock or leaves it.
LEMMA OpTypes ==
  ASSUME op \in [Nodes -> Ops]
  PROVE  /\ \A n \in Nodes, pc \in Steps : [op EXCEPT ![n].pc = pc] \in [Nodes -> Ops]
         /\ Idle \in Ops
         /\ \A n \in Nodes, new \in Ops : [op EXCEPT ![n] = new] \in [Nodes -> Ops]
         /\ \A kind \in Kinds, pc \in Steps, on \in {None} \cup Nodes, rec \in Records, calm \in BOOLEAN :
               [kind |-> kind, pc |-> pc, on |-> on, rec |-> rec, calm |-> calm] \in Ops
<1>1. \A n \in Nodes, pc \in Steps : [op EXCEPT ![n].pc = pc] \in [Nodes -> Ops]
  BY DEF Ops
<1>2. \A kind \in Kinds, pc \in Steps, on \in {None} \cup Nodes, rec \in Records, calm \in BOOLEAN :
         [kind |-> kind, pc |-> pc, on |-> on, rec |-> rec, calm |-> calm] \in Ops
  BY Zenon DEF Ops
<1>3. \A n \in Nodes, new \in Ops : [op EXCEPT ![n] = new] \in [Nodes -> Ops]
  OBVIOUS
<1>4. Idle \in Ops
  <2>1. "none" \in Kinds /\ "none" \in Steps /\ None \in Records
    BY DEF Kinds, Steps, Records
  <2> QED BY <1>2, <2>1, Zenon DEF Idle
<1> QED BY <1>1, <1>2, <1>3, <1>4

\* Moving to another step.
LEMMA GotoType ==
  ASSUME op \in [Nodes -> Ops], NEW n \in Nodes, NEW pc \in Steps, Goto(n, pc)
  PROVE  op' \in [Nodes -> Ops]
BY OpTypes DEF Goto

\* Leaving the lock.
LEMMA LeaveType ==
  ASSUME op \in [Nodes -> Ops], NEW n \in Nodes, Leave(n)
  PROVE  op' \in [Nodes -> Ops]
BY OpTypes DEF Leave

\* Entering the lock.
LEMMA EnterType ==
  ASSUME op \in [Nodes -> Ops], NEW n \in Nodes, NEW kind \in Kinds, NEW pc \in Steps,
         NEW on \in {None} \cup Nodes, NEW rec \in Records, Enter(n, kind, pc, on, rec)
  PROVE  op' \in [Nodes -> Ops]
<1> DEFINE calm == on # None => ~JoinPending(on)
<1>1. calm \in BOOLEAN
  BY Zenon
<1> HIDE DEF calm
<1>2. op' = [op EXCEPT ![n] = [kind |-> kind, pc |-> pc, on |-> on, rec |-> rec, calm |-> calm]]
  BY Zenon DEF Enter, calm
<1>3. [kind |-> kind, pc |-> pc, on |-> on, rec |-> rec, calm |-> calm] \in Ops
  BY <1>1, OpTypes, Zenon
<1> QED BY <1>2, <1>3, OpTypes, Zenon

\* A written record raises the revision.
LEMMA PutType ==
  ASSUME db \in Tables, NEW n \in Nodes, NEW m \in Nodes, NEW rec \in Records, putMember(n, m, rec)
  PROVE  /\ db' \in Tables
         /\ db'.rev = db.rev + 1 /\ db'.applied = db.applied /\ db'.inv = db.inv
         /\ db'.mem = [db.mem EXCEPT ![m] = rec]
<1> DEFINE mem == [db.mem EXCEPT ![m] = rec]
<1>1. mem \in Members
  BY DEF Tables, Members
<1>2. db' = [mem |-> mem, rev |-> db.rev + 1, applied |-> db.applied, inv |-> db.inv]
  BY DEF putMember, Tables
<1> HIDE DEF mem
<1> QED BY <1>1, <1>2 DEF Tables, mem

\* A refresh copies what the lab's database holds.
LEMMA RefreshType ==
  ASSUME db \in Tables, node \in [Nodes -> Copies], NEW n \in Nodes, refreshTrust(n)
  PROVE  /\ node' \in [Nodes -> Copies]
         /\ \A m \in Nodes : node'[m] = IF m = n THEN [mem |-> db.mem, rev |-> db.rev] ELSE node[m]
         /\ InLab(n)
BY DEF refreshTrust, ApplyTrust, Tables, Copies

\* An error of the authority stops it and the node that waits for it, no other.
LEMMA FailedType ==
  ASSUME op \in [Nodes -> Ops], NEW a \in Nodes, NEW n
  PROVE  /\ Failed(a, n) \in [Nodes -> Ops]
         /\ \A m \in Nodes : Failed(a, n)[m] \in {Idle, op[m]}
         /\ Failed(a, n)[a] = Idle
BY OpTypes DEF Failed

\* The operation of an authority and the node it answers.
LEMMA EnrollOp ==
  ASSUME op \in [Nodes -> Ops], NEW a \in Nodes, NEW n \in Nodes, a # n,
         NEW new \in Ops, NEW pc \in Steps
  PROVE  /\ [op EXCEPT ![a] = new, ![n].pc = pc] \in [Nodes -> Ops]
         /\ [op EXCEPT ![a] = new, ![n].pc = pc][a] = new
         /\ [op EXCEPT ![a] = new, ![n].pc = pc][n] = [op[n] EXCEPT !.pc = pc]
         /\ \A m \in Nodes \ {a, n} : [op EXCEPT ![a] = new, ![n].pc = pc][m] = op[m]
BY DEF Ops

----------------------------------------------------------------------------
(* Types. *)

\* Every step leaves each service with one operation, or idle.
LEMMA OpStep == Inv /\ [Next]_vars => op' \in [Nodes -> Ops]
<1> SUFFICES ASSUME Inv, [Next]_vars PROVE op' \in [Nodes -> Ops]
  OBVIOUS
<1>0. op \in [Nodes -> Ops]
  BY DEF Inv, Types
<1>e. \A a \in Nodes : op[a].kind = "enroll" => op[a].on \in Nodes \ {a}
  BY DEF Inv, EnrollsRight
<1>r. \A m \in Nodes : db.mem[m] # None => db.mem[m] \in Rows
  BY DEF Inv, Types, Tables, Members, Records
<1>1. ASSUME NEW n \in Nodes,
             \/ installIdentity(n) \/ joinInstalled(n) \/ configureMark(n) \/ configureUp(n)
             \/ joinLocal(n) \/ joinRemove(n) \/ Promote(n) \/ joinActive(n)
      PROVE  op' \in [Nodes -> Ops]
  BY <1>0, <1>1, GotoType
     DEF installIdentity, joinInstalled, configureMark, configureUp, joinLocal, joinRemove,
         Promote, joinActive, Steps
<1>2. ASSUME NEW n \in Nodes,
             \/ enrollPut(n) \/ enrollTrust(n) \/ configureBackup(n) \/ configureWipe(n)
             \/ joinSave(n)
      PROVE  op' \in [Nodes -> Ops]
  BY <1>0, <1>2, GotoType
     DEF enrollPut, enrollTrust, configureBackup, configureWipe, joinSave, BackupDirectory, Saved,
         Resume, Steps
<1>3. ASSUME NEW n \in Nodes,
             \/ removePut(n) \/ removeRaft(n) \/ releasePut(n) \/ rotatePut(n)
             \/ rotateAuthorized(n) \/ rotateInstalled(n) \/ rotateRestart(n)
             \/ rotateClear(n)
      PROVE  op' \in [Nodes -> Ops]
  BY <1>0, <1>3, GotoType
     DEF removePut, removeRaft, releasePut, rotatePut, rotateAuthorized, rotateInstalled,
         rotateRestart, rotateClear, Removal, Steps
<1>4. ASSUME NEW n \in Nodes,
             \/ joinTrust(n) \/ rotateAwait(n) \/ removeTrust(n)
      PROVE  op' \in [Nodes -> Ops]
  BY <1>0, <1>4, GotoType, LeaveType
     DEF joinTrust, rotateAwait, removeTrust, Removal, Steps
<1>5. ASSUME NEW n \in Nodes,
             \/ (\E m \in Nodes : enrollRefused(n, m)) \/ releaseTrust(n) \/ rotateComplete(n)
      PROVE  op' \in [Nodes -> Ops]
  BY <1>0, <1>5, LeaveType
     DEF enrollRefused, releaseTrust, rotateComplete
<1>6. ASSUME NEW n \in Nodes,
             \/ monitor(n) \/ catchUp(n) \/ (\E t \in Tokens : CreateInvitation(n, t))
      PROVE  op' \in [Nodes -> Ops]
  BY <1>0, <1>6
     DEF monitor, catchUp, CreateInvitation
<1>7. ASSUME NEW n \in Nodes,
             \/ Fails(n) \/ Restart(n)
      PROVE  op' \in [Nodes -> Ops]
  BY <1>0, <1>7, FailedType
     DEF Fails, Restart, Stopped
<1>8. ASSUME NEW n \in Nodes, NEW t \in Tokens, NEW ad \in JoinAddrs, Join(n, t, ad)
      PROVE  op' \in [Nodes -> Ops]
  BY <1>0, <1>8, EnterType
     DEF Join, Steps, Kinds, Records
<1>9. ASSUME NEW n \in Nodes, rotateStart(n)
      PROVE  op' \in [Nodes -> Ops]
  BY <1>0, <1>9, EnterType
     DEF rotateStart, Steps, Kinds, Records
<1>10. ASSUME NEW n \in Nodes, rotateResume(n)
      PROVE  op' \in [Nodes -> Ops]
  BY <1>0, <1>10, EnterType
     DEF rotateResume, Steps, Kinds, Records
<1>11. ASSUME NEW n \in Nodes, NEW m \in Nodes, ReleasePeerAddress(n, m)
      PROVE  op' \in [Nodes -> Ops]
  BY <1>0, <1>11, EnterType, RowFacts, <1>r
     DEF ReleasePeerAddress, Steps, Kinds, Records
<1>12. ASSUME NEW n \in Nodes, NEW m \in Nodes, NEW o \in Removals, Remove(n, m, o)
      PROVE  op' \in [Nodes -> Ops]
  BY <1>0, <1>12, EnterType, RowFacts, <1>r
     DEF Remove, Steps, Kinds, Records
<1>13. ASSUME NEW n \in Nodes, ResumeJoin(n)
      PROVE  op' \in [Nodes -> Ops]
  <2>1. Resume[join[n].phase] \in Steps
    <3>1. join[n].phase \in DOMAIN Resume
      BY <1>13 DEF ResumeJoin, JoinPending, Inv, Types, Joins, Phases
    <3> QED BY <3>1 DEF Resume, Steps
  <2> QED BY <1>0, <1>13, <2>1, EnterType DEF ResumeJoin, Kinds, Records
<1>14. ASSUME NEW n \in Nodes, enrollCheck(n)
      PROVE  op' \in [Nodes -> Ops]
  BY <1>0, <1>14, FailedType, GotoType, <1>e DEF enrollCheck, Steps
<1>15. ASSUME NEW n \in Nodes, enrollReply(n)
      PROVE  op' \in [Nodes -> Ops]
  <2> DEFINE m == op[n].on
             pc == IF op[m].pc = "waiting" /\ join[m].phase = "validated" THEN "install" ELSE op[m].pc
  <2>1. m \in Nodes /\ n # m
    BY <1>15, <1>e DEF enrollReply, At
  <2>2. pc \in Steps
    BY <1>0, <2>1 DEF Ops, Steps
  <2>3. op' = [op EXCEPT ![n] = Idle, ![m].pc = pc]
    BY <1>15, Zenon DEF enrollReply
  <2> HIDE DEF m, pc
  <2> QED BY <1>0, <2>1, <2>2, <2>3, EnrollOp, OpTypes, Zenon
<1>16. ASSUME NEW n \in Nodes, NEW m \in Nodes, enrollClaim(n, m)
      PROVE  op' \in [Nodes -> Ops]
  <2> DEFINE new == [kind |-> "enroll", pc |-> "put", on |-> m, rec |-> Enrolling(m), calm |-> FALSE]
  <2>1. n # m
    BY <1>16 DEF enrollClaim, Requests, At, Idle
  <2>2. join[m].phase = "validated"
    BY <1>16 DEF enrollClaim, Requests, At, Inv, InPhase, JoinPhase
  <2>3. Enrolling(m) \in Rows
    BY <2>2, RowFacts DEF Enrolling, Inv, Joining, Statuses
  <2>4. new \in Ops
    <3>1. "enroll" \in Kinds /\ "put" \in Steps /\ Enrolling(m) \in Records
      BY <2>3 DEF Kinds, Steps, Records
    <3> QED BY <1>0, <3>1, OpTypes, Zenon
  <2>5. op' = [op EXCEPT ![n] = new, ![m].pc = "waiting"]
    BY <1>16, Zenon DEF enrollClaim
  <2>6. "waiting" \in Steps
    BY DEF Steps
  <2> HIDE DEF new
  <2> QED BY <1>0, <2>1, <2>4, <2>5, <2>6, EnrollOp, Zenon
<1>17. ASSUME NEW n \in Nodes, NEW m \in Nodes, enrollReplay(n, m)
      PROVE  op' \in [Nodes -> Ops]
  <2> DEFINE new == [kind |-> "enroll", pc |-> "check", on |-> m, rec |-> Enrolling(m), calm |-> FALSE]
  <2>1. n # m
    BY <1>17 DEF enrollReplay, Requests, At, Idle
  <2>2. join[m].phase = "validated"
    BY <1>17 DEF enrollReplay, Requests, At, Inv, InPhase, JoinPhase
  <2>3. Enrolling(m) \in Rows
    BY <2>2, RowFacts DEF Enrolling, Inv, Joining, Statuses
  <2>4. new \in Ops
    <3>1. "enroll" \in Kinds /\ "check" \in Steps /\ Enrolling(m) \in Records
      BY <2>3 DEF Kinds, Steps, Records
    <3> QED BY <1>0, <3>1, OpTypes, Zenon
  <2>5. op' = [op EXCEPT ![n] = new, ![m].pc = "waiting"]
    BY <1>17, Zenon DEF enrollReplay
  <2>6. "waiting" \in Steps
    BY DEF Steps
  <2> HIDE DEF new
  <2> QED BY <1>0, <2>1, <2>4, <2>5, <2>6, EnrollOp, Zenon
<1>18. CASE (\E t \in Tokens : Expire(t)) \/ UNCHANGED vars
  BY <1>0, <1>18 DEF Expire, vars
<1> QED BY <1>1, <1>2, <1>3, <1>4, <1>5, <1>6, <1>7, <1>8, <1>9, <1>10, <1>11, <1>12, <1>13, <1>14,
        <1>15, <1>16, <1>17, <1>18
        DEF Next, JoinStep, EnrollStep, MemberStep

----------------------------------------------------------------------------
(* Which steps write which variable. *)

\* The steps of n that write the shared tables.
Writes(n) ==
  \/ monitor(n) \/ (\E t \in Tokens : CreateInvitation(n, t))
  \/ (\E m \in Nodes : enrollClaim(n, m)) \/ enrollPut(n) \/ removePut(n) \/ releasePut(n)
  \/ joinActive(n) \/ rotatePut(n) \/ rotateClear(n)
\* That write its copy of the membership.
Copying(n) ==
  \/ monitor(n) \/ (\E t \in Tokens : CreateInvitation(n, t)) \/ enrollTrust(n)
  \/ joinTrust(n) \/ removeTrust(n) \/ releaseTrust(n) \/ rotateStart(n) \/ rotateResume(n)
  \/ rotateAuthorized(n) \/ rotateAwait(n) \/ rotateComplete(n) \/ joinInstalled(n)
\* That write its identity files.
Installs(n) ==
  \/ installIdentity(n) \/ joinInstalled(n) \/ rotateInstalled(n) \/ Restart(n)
\* That write its join journal.
Journals(n) ==
  \/ (\E t \in Tokens, ad \in JoinAddrs : Join(n, t, ad)) \/ enrollReply(n) \/ joinSave(n)
  \/ joinLocal(n) \/ joinTrust(n)
\* That write its database directory.
Configures(n) ==
  \/ configureBackup(n) \/ configureWipe(n) \/ configureMark(n) \/ configureUp(n)
\* That write its rotation journal.
Rotates(n) ==
  \/ rotateStart(n) \/ rotateAuthorized(n) \/ rotateRestart(n) \/ rotateComplete(n)
\* That change the Raft members.
Regroups(n) ==
  \/ configureUp(n) \/ joinRemove(n) \/ Promote(n) \/ removeRaft(n)
\* That change who has caught up.
Catches(n) ==
  \/ configureWipe(n) \/ catchUp(n)
\* That write a tombstone.
Buries(n) ==
  \/ removePut(n)
\* That mark a node for removal.
Marks(n) ==
  \/ (\E m \in Nodes, o \in Removals : Remove(n, m, o))
\* That use up a failure.
Breaks(n) ==
  \/ Fails(n) \/ Restart(n)
\* That use up a request.
Counts(n) ==
  \/ (\E m \in Nodes, o \in Removals : Remove(n, m, o))
  \/ (\E m \in Nodes : ReleasePeerAddress(n, m)) \/ rotateStart(n)

\* A step changes a variable only if it is one of its writers.
Framed ==
  /\ UNCHANGED db \/ \E n \in Nodes : Writes(n)
  /\ UNCHANGED node \/ \E n \in Nodes : Copying(n)
  /\ UNCHANGED ident \/ \E n \in Nodes : Installs(n)
  /\ UNCHANGED join \/ \E n \in Nodes : Journals(n)
  /\ UNCHANGED dir \/ \E n \in Nodes : Configures(n)
  /\ UNCHANGED rot \/ \E n \in Nodes : Rotates(n)
  /\ UNCHANGED raft \/ \E n \in Nodes : Regroups(n)
  /\ UNCHANGED caught \/ \E n \in Nodes : Catches(n)
  /\ UNCHANGED gone \/ \E n \in Nodes : Buries(n)
  /\ UNCHANGED marked \/ \E n \in Nodes : Marks(n)
  /\ UNCHANGED faults \/ \E n \in Nodes : Breaks(n)
  /\ UNCHANGED asked \/ \E n \in Nodes : Counts(n)

\* Every step of the specification is one of those for each variable.
LEMMA Frames == [Next]_vars => Framed
<1> SUFFICES ASSUME [Next]_vars PROVE Framed
  OBVIOUS
<1>1. ASSUME NEW n \in Nodes,
             \/ monitor(n) \/ (\E t \in Tokens : CreateInvitation(n, t))
      PROVE  Framed
  <2>1. UNCHANGED <<ident, join, dir, rot, raft, caught, gone, marked, faults, asked>>
    BY <1>1
       DEF monitor, CreateInvitation
  <2> QED BY <1>1, <2>1, Zenon DEF Framed, Writes, Copying
<1>2. ASSUME NEW n \in Nodes,
             \/ catchUp(n)
      PROVE  Framed
  <2>1. UNCHANGED <<db, node, ident, join, dir, rot, raft, gone, marked, faults, asked>>
    BY <1>2
       DEF catchUp
  <2> QED BY <1>2, <2>1, Zenon DEF Framed, Catches
<1>3. ASSUME NEW n \in Nodes,
             \/ ResumeJoin(n) \/ enrollCheck(n) \/ (\E m \in Nodes : enrollRefused(n, m))
             \/ (\E m \in Nodes : enrollReplay(n, m))
      PROVE  Framed
  <2>1. UNCHANGED <<db, node, ident, join, dir, rot, raft, caught, gone, marked, faults, asked>>
    BY <1>3
       DEF ResumeJoin, enrollCheck, enrollRefused, enrollReplay
  <2> QED BY <1>3, <2>1, Zenon DEF Framed
<1>4. ASSUME NEW n \in Nodes,
             \/ installIdentity(n) \/ rotateInstalled(n)
      PROVE  Framed
  <2>1. UNCHANGED <<db, node, join, dir, rot, raft, caught, gone, marked, faults, asked>>
    BY <1>4
       DEF installIdentity, rotateInstalled
  <2> QED BY <1>4, <2>1, Zenon DEF Framed, Installs
<1>5. ASSUME NEW n \in Nodes,
             \/ joinInstalled(n)
      PROVE  Framed
  <2>1. UNCHANGED <<db, join, dir, rot, raft, caught, gone, marked, faults, asked>>
    BY <1>5
       DEF joinInstalled
  <2> QED BY <1>5, <2>1, Zenon DEF Framed, Copying, Installs
<1>6. ASSUME NEW n \in Nodes,
             \/ configureBackup(n) \/ configureMark(n)
      PROVE  Framed
  <2>1. UNCHANGED <<db, node, ident, join, rot, raft, caught, gone, marked, faults, asked>>
    BY <1>6
       DEF configureBackup, configureMark
  <2> QED BY <1>6, <2>1, Zenon DEF Framed, Configures
<1>7. ASSUME NEW n \in Nodes,
             \/ configureWipe(n)
      PROVE  Framed
  <2>1. UNCHANGED <<db, node, ident, join, rot, raft, gone, marked, faults, asked>>
    BY <1>7
       DEF configureWipe
  <2> QED BY <1>7, <2>1, Zenon DEF Framed, Configures, Catches
<1>8. ASSUME NEW n \in Nodes,
             \/ configureUp(n)
      PROVE  Framed
  <2>1. UNCHANGED <<db, node, ident, join, rot, caught, gone, marked, faults, asked>>
    BY <1>8
       DEF configureUp
  <2> QED BY <1>8, <2>1, Zenon DEF Framed, Configures, Regroups
<1>9. ASSUME NEW n \in Nodes,
             \/ joinSave(n) \/ joinLocal(n) \/ enrollReply(n)
             \/ (\E t \in Tokens, ad \in JoinAddrs : Join(n, t, ad))
      PROVE  Framed
  <2>1. UNCHANGED <<db, node, ident, dir, rot, raft, caught, gone, marked, faults, asked>>
    BY <1>9
       DEF joinSave, joinLocal, enrollReply, Join
  <2> QED BY <1>9, <2>1, Zenon DEF Framed, Journals
<1>10. ASSUME NEW n \in Nodes,
             \/ joinRemove(n) \/ Promote(n) \/ removeRaft(n)
      PROVE  Framed
  <2>1. UNCHANGED <<db, node, ident, join, dir, rot, caught, gone, marked, faults, asked>>
    BY <1>10
       DEF joinRemove, Promote, removeRaft
  <2> QED BY <1>10, <2>1, Zenon DEF Framed, Regroups
<1>11. ASSUME NEW n \in Nodes,
             \/ joinTrust(n)
      PROVE  Framed
  <2>1. UNCHANGED <<db, ident, dir, rot, raft, caught, gone, marked, faults, asked>>
    BY <1>11
       DEF joinTrust
  <2> QED BY <1>11, <2>1, Zenon DEF Framed, Copying, Journals
<1>12. ASSUME NEW n \in Nodes,
             \/ joinActive(n) \/ enrollPut(n) \/ releasePut(n) \/ rotatePut(n)
             \/ rotateClear(n) \/ (\E m \in Nodes : enrollClaim(n, m))
      PROVE  Framed
  <2>1. UNCHANGED <<node, ident, join, dir, rot, raft, caught, gone, marked, faults, asked>>
    BY <1>12
       DEF joinActive, enrollPut, releasePut, rotatePut, rotateClear, enrollClaim
  <2> QED BY <1>12, <2>1, Zenon DEF Framed, Writes
<1>13. ASSUME NEW n \in Nodes,
             \/ enrollTrust(n) \/ removeTrust(n) \/ releaseTrust(n) \/ rotateAwait(n)
             \/ rotateResume(n)
      PROVE  Framed
  <2>1. UNCHANGED <<db, ident, join, dir, rot, raft, caught, gone, marked, faults, asked>>
    BY <1>13
       DEF enrollTrust, removeTrust, releaseTrust, rotateAwait, rotateResume
  <2> QED BY <1>13, <2>1, Zenon DEF Framed, Copying
<1>14. ASSUME NEW n \in Nodes,
             \/ removePut(n)
      PROVE  Framed
  <2>1. UNCHANGED <<node, ident, join, dir, rot, raft, caught, marked, faults, asked>>
    BY <1>14
       DEF removePut
  <2> QED BY <1>14, <2>1, Zenon DEF Framed, Writes, Buries
<1>15. ASSUME NEW n \in Nodes,
             \/ rotateAuthorized(n) \/ rotateComplete(n)
      PROVE  Framed
  <2>1. UNCHANGED <<db, ident, join, dir, raft, caught, gone, marked, faults, asked>>
    BY <1>15
       DEF rotateAuthorized, rotateComplete
  <2> QED BY <1>15, <2>1, Zenon DEF Framed, Copying, Rotates
<1>16. ASSUME NEW n \in Nodes,
             \/ rotateRestart(n)
      PROVE  Framed
  <2>1. UNCHANGED <<db, node, ident, join, dir, raft, caught, gone, marked, faults, asked>>
    BY <1>16
       DEF rotateRestart
  <2> QED BY <1>16, <2>1, Zenon DEF Framed, Rotates
<1>17. ASSUME NEW n \in Nodes,
             \/ rotateStart(n)
      PROVE  Framed
  <2>1. UNCHANGED <<db, ident, join, dir, raft, caught, gone, marked, faults>>
    BY <1>17
       DEF rotateStart
  <2> QED BY <1>17, <2>1, Zenon DEF Framed, Copying, Rotates, Counts
<1>18. ASSUME NEW n \in Nodes,
             \/ Fails(n)
      PROVE  Framed
  <2>1. UNCHANGED <<db, node, ident, join, dir, rot, raft, caught, gone, marked, asked>>
    BY <1>18
       DEF Fails
  <2> QED BY <1>18, <2>1, Zenon DEF Framed, Breaks
<1>19. ASSUME NEW n \in Nodes,
             \/ Restart(n)
      PROVE  Framed
  <2>1. UNCHANGED <<db, node, join, dir, rot, raft, caught, gone, marked, asked>>
    BY <1>19
       DEF Restart
  <2> QED BY <1>19, <2>1, Zenon DEF Framed, Installs, Breaks
<1>20. ASSUME NEW n \in Nodes,
             \/ (\E m \in Nodes : ReleasePeerAddress(n, m))
      PROVE  Framed
  <2>1. UNCHANGED <<db, node, ident, join, dir, rot, raft, caught, gone, marked, faults>>
    BY <1>20
       DEF ReleasePeerAddress
  <2> QED BY <1>20, <2>1, Zenon DEF Framed, Counts
<1>21. ASSUME NEW n \in Nodes,
             \/ (\E m \in Nodes, o \in Removals : Remove(n, m, o))
      PROVE  Framed
  <2>1. UNCHANGED <<db, node, ident, join, dir, rot, raft, caught, gone, faults>>
    BY <1>21
       DEF Remove
  <2> QED BY <1>21, <2>1, Zenon DEF Framed, Marks, Counts
<1>22. CASE (\E t \in Tokens : Expire(t)) \/ UNCHANGED vars
  BY <1>22, Zenon DEF Expire, vars, Framed
<1> QED BY <1>1, <1>2, <1>3, <1>4, <1>5, <1>6, <1>7, <1>8, <1>9, <1>10, <1>11, <1>12, <1>13, <1>14,
        <1>15, <1>16, <1>17, <1>18, <1>19, <1>20, <1>21, <1>22
        DEF Next, JoinStep, EnrollStep, MemberStep

----------------------------------------------------------------------------
(* Which steps move an operation. *)

\* Of an enrollment, seen from the authority.
EnrollMove(n) ==
  \/ enrollPut(n) \/ enrollCheck(n) \/ enrollTrust(n) \/ (\E m \in Nodes : enrollClaim(n, m))
  \/ (\E m \in Nodes : enrollReplay(n, m))
\* Of a join.
JoinMove(n) ==
  \/ ResumeJoin(n) \/ installIdentity(n) \/ joinInstalled(n) \/ configureBackup(n)
  \/ configureWipe(n) \/ configureMark(n) \/ configureUp(n) \/ joinSave(n) \/ joinLocal(n)
  \/ joinRemove(n) \/ Promote(n) \/ joinTrust(n) \/ joinActive(n)
  \/ (\E t \in Tokens, ad \in JoinAddrs : Join(n, t, ad))
\* Of a removal.
RemoveMove(n) ==
  \/ removePut(n) \/ removeTrust(n) \/ removeRaft(n)
  \/ (\E m \in Nodes, o \in Removals : Remove(n, m, o))
\* Of a release of an address.
ReleaseMove(n) ==
  \/ releasePut(n) \/ (\E m \in Nodes : ReleasePeerAddress(n, m))
\* Of a rotation.
RotateMove(n) ==
  \/ installIdentity(n) \/ rotatePut(n) \/ rotateAuthorized(n) \/ rotateInstalled(n)
  \/ rotateRestart(n) \/ rotateAwait(n) \/ rotateClear(n) \/ rotateStart(n) \/ rotateResume(n)

\* What the authority does to a joining node.
AnswerMove(n) ==
  \E a \in Nodes \ {n} :
     \/ (enrollClaim(a, n) \/ enrollReplay(a, n)) /\ op'[n] = [op[n] EXCEPT !.pc = "waiting"]
     \/ /\ enrollReply(a) /\ op[a].on = n /\ op[n].pc = "waiting" /\ join[n].phase = "validated"
        /\ op'[n] = [op[n] EXCEPT !.pc = "install"]

\* An operation stays as it is, ends, or moves by a step of its kind.
Moved(n) ==
  \/ op'[n] \in {op[n], Idle}
  \/ op'[n].kind = "enroll" /\ EnrollMove(n)
  \/ op'[n].kind = "join" /\ JoinMove(n)
  \/ op'[n].kind = "remove" /\ RemoveMove(n)
  \/ op'[n].kind = "release" /\ ReleaseMove(n)
  \/ op'[n].kind = "rotate" /\ RotateMove(n)
  \/ AnswerMove(n)

\* Every step moves each operation in one of these ways.
LEMMA Moves == Inv /\ [Next]_vars => \A k \in Nodes : Moved(k)
<1> SUFFICES ASSUME Inv, [Next]_vars, NEW k \in Nodes
             PROVE  Moved(k)
  OBVIOUS
<1>0. op \in [Nodes -> Ops] /\ op' \in [Nodes -> Ops]
  BY OpStep DEF Inv, Types
<1>1. ASSUME NEW n \in Nodes,
             \/ enrollPut(n) \/ enrollTrust(n)
      PROVE  Moved(k)
  <2>1. /\ op'[n] = Idle \/ op'[n].kind = "enroll"
        /\ k # n => op'[k] = op[k]
    BY <1>0, <1>1
       DEF enrollPut, enrollTrust, At, Goto, Enter, Leave, Ops
  <2> QED BY <1>1, <2>1, Zenon DEF Moved, EnrollMove
<1>2. ASSUME NEW n \in Nodes,
             \/ (\E t \in Tokens, ad \in JoinAddrs : Join(n, t, ad)) \/ ResumeJoin(n)
             \/ joinInstalled(n) \/ joinSave(n) \/ joinLocal(n)
      PROVE  Moved(k)
  <2>1. /\ op'[n] = Idle \/ op'[n].kind = "join"
        /\ k # n => op'[k] = op[k]
    BY <1>0, <1>2
       DEF Join, ResumeJoin, joinInstalled, joinSave, joinLocal, At, Goto, Enter, Leave, Ops
  <2> QED BY <1>2, <2>1, Zenon DEF Moved, JoinMove
<1>3. ASSUME NEW n \in Nodes,
             \/ configureBackup(n) \/ configureWipe(n) \/ configureMark(n) \/ configureUp(n)
      PROVE  Moved(k)
  <2>1. /\ op'[n] = Idle \/ op'[n].kind = "join"
        /\ k # n => op'[k] = op[k]
    BY <1>0, <1>3
       DEF configureBackup, configureWipe, configureMark, configureUp, At, Goto, Enter, Leave,
           Ops, BackupDirectory
  <2> QED BY <1>3, <2>1, Zenon DEF Moved, JoinMove
<1>4. ASSUME NEW n \in Nodes,
             \/ joinRemove(n) \/ Promote(n) \/ joinTrust(n) \/ joinActive(n)
      PROVE  Moved(k)
  <2>1. /\ op'[n] = Idle \/ op'[n].kind = "join"
        /\ k # n => op'[k] = op[k]
    BY <1>0, <1>4
       DEF joinRemove, Promote, joinTrust, joinActive, At, Goto, Enter, Leave, Ops
  <2> QED BY <1>4, <2>1, Zenon DEF Moved, JoinMove
<1>5. ASSUME NEW n \in Nodes, installIdentity(n)
      PROVE  Moved(k)
  <2>1. /\ op'[n] = Idle \/ op'[n].kind = "join" \/ op'[n].kind = "rotate"
        /\ k # n => op'[k] = op[k]
    BY <1>0, <1>5
       DEF installIdentity, At, Goto, Enter, Leave, Ops, Kinds, Inv, InPhase, EnrollsRight
  <2> QED BY <1>5, <2>1, Zenon DEF Moved, JoinMove, RotateMove
<1>6. ASSUME NEW n \in Nodes, NEW m \in Nodes, NEW o \in Removals, Remove(n, m, o)
      PROVE  Moved(k)
  <2>1. /\ op'[n] = Idle \/ op'[n].kind = "remove"
        /\ k # n => op'[k] = op[k]
    BY <1>0, <1>6
       DEF Remove, At, Goto, Enter, Leave, Ops
  <2> QED BY <1>6, <2>1, Zenon DEF Moved, RemoveMove
<1>7. ASSUME NEW n \in Nodes,
             \/ removePut(n) \/ removeTrust(n) \/ removeRaft(n)
      PROVE  Moved(k)
  <2>1. /\ op'[n] = Idle \/ op'[n].kind = "remove"
        /\ k # n => op'[k] = op[k]
    BY <1>0, <1>7
       DEF removePut, removeTrust, removeRaft, At, Goto, Enter, Leave, Ops
  <2> QED BY <1>7, <2>1, Zenon DEF Moved, RemoveMove
<1>8. ASSUME NEW n \in Nodes,
             \/ releasePut(n) \/ (\E m \in Nodes : ReleasePeerAddress(n, m))
      PROVE  Moved(k)
  <2>1. /\ op'[n] = Idle \/ op'[n].kind = "release"
        /\ k # n => op'[k] = op[k]
    BY <1>0, <1>8
       DEF releasePut, ReleasePeerAddress, At, Goto, Enter, Leave, Ops
  <2> QED BY <1>8, <2>1, Zenon DEF Moved, ReleaseMove
<1>9. ASSUME NEW n \in Nodes,
             \/ rotateStart(n) \/ rotateResume(n) \/ rotatePut(n) \/ rotateAuthorized(n)
      PROVE  Moved(k)
  <2>1. /\ op'[n] = Idle \/ op'[n].kind = "rotate"
        /\ k # n => op'[k] = op[k]
    BY <1>0, <1>9
       DEF rotateStart, rotateResume, rotatePut, rotateAuthorized, At, Goto, Enter, Leave, Ops
  <2> QED BY <1>9, <2>1, Zenon DEF Moved, RotateMove
<1>10. ASSUME NEW n \in Nodes,
             \/ rotateInstalled(n) \/ rotateRestart(n) \/ rotateAwait(n) \/ rotateClear(n)
      PROVE  Moved(k)
  <2>1. /\ op'[n] = Idle \/ op'[n].kind = "rotate"
        /\ k # n => op'[k] = op[k]
    BY <1>0, <1>10
       DEF rotateInstalled, rotateRestart, rotateAwait, rotateClear, At, Goto, Enter, Leave, Ops
  <2> QED BY <1>10, <2>1, Zenon DEF Moved, RotateMove
<1>11. ASSUME NEW n \in Nodes,
             \/ releaseTrust(n) \/ rotateComplete(n)
      PROVE  Moved(k)
  <2>1. /\ op'[n] = Idle
        /\ k # n => op'[k] = op[k]
    BY <1>0, <1>11
       DEF releaseTrust, rotateComplete, At, Goto, Enter, Leave, Ops
  <2> QED BY <1>11, <2>1, Zenon DEF Moved
<1>12. ASSUME NEW n \in Nodes,
             \/ monitor(n) \/ catchUp(n) \/ (\E t \in Tokens : CreateInvitation(n, t))
             \/ (\E m \in Nodes : enrollRefused(n, m))
      PROVE  Moved(k)
  BY <1>0, <1>12 DEF monitor, catchUp, CreateInvitation, enrollRefused, Leave, Moved
<1>13. ASSUME NEW n \in Nodes,
             \/ Fails(n) \/ Restart(n)
      PROVE  Moved(k)
  BY <1>0, <1>13, FailedType DEF Fails, Restart, Stopped, Moved
<1>14. ASSUME NEW n \in Nodes, enrollCheck(n)
      PROVE  Moved(k)
  <2>1. CASE op' = Failed(n, op[n].on)
    BY <1>0, <2>1, FailedType DEF Moved
  <2>2. CASE \E pc : Goto(n, pc)
    BY <1>0, <1>14, <2>2 DEF enrollCheck, At, Goto, Ops, Moved, EnrollMove
  <2> QED BY <1>14, <2>1, <2>2 DEF enrollCheck
<1>15. ASSUME NEW n \in Nodes, enrollReply(n)
      PROVE  Moved(k)
  <2>1. op[n].on \in Nodes \ {n}
    BY <1>15 DEF enrollReply, At, Inv, EnrollsRight
  <2>2. CASE k = op[n].on
    <3>1. CASE op[k].pc = "waiting" /\ join[k].phase = "validated"
      <4>1. op'[k] = [op[k] EXCEPT !.pc = "install"]
        BY <1>0, <1>15, <2>1, <2>2, <3>1 DEF enrollReply, Ops
      <4> QED BY <1>15, <2>1, <2>2, <3>1, <4>1 DEF Moved, AnswerMove
    <3>2. CASE ~(op[k].pc = "waiting" /\ join[k].phase = "validated")
      BY <1>0, <1>15, <2>1, <2>2, <3>2 DEF enrollReply, Ops, Moved
    <3> QED BY <3>1, <3>2
  <2>3. CASE k # op[n].on
    BY <1>0, <1>15, <2>1, <2>3 DEF enrollReply, Moved
  <2> QED BY <2>2, <2>3
<1>16. ASSUME NEW n \in Nodes, NEW m \in Nodes, enrollClaim(n, m)
      PROVE  Moved(k)
  <2>1. n # m
    BY <1>16 DEF enrollClaim, Requests, At, Idle
  <2>2. CASE k = n
    <3>1. op'[n].kind = "enroll"
      BY <1>0, <1>16, <2>1 DEF enrollClaim
    <3> QED BY <1>16, <2>2, <3>1, Zenon DEF Moved, EnrollMove
  <2>3. CASE k = m
    <3>1. op'[m] = [op[m] EXCEPT !.pc = "waiting"]
      BY <1>0, <1>16, <2>1 DEF enrollClaim, Ops
    <3> QED BY <1>16, <2>1, <2>3, <3>1 DEF Moved, AnswerMove
  <2>4. CASE k \notin {n, m}
    BY <1>0, <1>16, <2>4 DEF enrollClaim, Moved
  <2> QED BY <2>2, <2>3, <2>4
<1>17. ASSUME NEW n \in Nodes, NEW m \in Nodes, enrollReplay(n, m)
      PROVE  Moved(k)
  <2>1. n # m
    BY <1>17 DEF enrollReplay, Requests, At, Idle
  <2>2. CASE k = n
    <3>1. op'[n].kind = "enroll"
      BY <1>0, <1>17, <2>1 DEF enrollReplay
    <3> QED BY <1>17, <2>2, <3>1, Zenon DEF Moved, EnrollMove
  <2>3. CASE k = m
    <3>1. op'[m] = [op[m] EXCEPT !.pc = "waiting"]
      BY <1>0, <1>17, <2>1 DEF enrollReplay, Ops
    <3> QED BY <1>17, <2>1, <2>3, <3>1 DEF Moved, AnswerMove
  <2>4. CASE k \notin {n, m}
    BY <1>0, <1>17, <2>4 DEF enrollReplay, Moved
  <2> QED BY <2>2, <2>3, <2>4
<1>18. CASE (\E t \in Tokens : Expire(t)) \/ UNCHANGED vars
  BY <1>18 DEF Expire, vars, Moved
<1> QED BY <1>1, <1>2, <1>3, <1>4, <1>5, <1>6, <1>7, <1>8, <1>9, <1>10, <1>11, <1>12, <1>13, <1>14,
        <1>15, <1>16, <1>17, <1>18
        DEF Next, JoinStep, EnrollStep, MemberStep

----------------------------------------------------------------------------
(* The shared tables. *)

\* A step that writes the members table.
Puts(n) ==
  enrollPut(n) \/ removePut(n) \/ releasePut(n) \/ joinActive(n) \/ rotatePut(n) \/ rotateClear(n)

\* Whoever writes a record writes a row of a member the lab knows or that is
\* joining, and no row that makes a removed member active.
LEMMA PutRows ==
  ASSUME Inv, NEW n \in Nodes, Puts(n)
  PROVE  \E m \in Nodes, rec \in Rows :
            /\ putMember(n, m, rec)
            /\ db.mem[m] # None \/ join[m].phase # "none"
            /\ m \in gone => rec.st # "active"
<1>1. CASE enrollPut(n)
  <2>1. /\ op[n].on \in Nodes /\ op[n].rec \in Rows /\ op[n].rec.st = "enrolling"
        /\ join[op[n].on].phase = "validated"
    BY <1>1 DEF enrollPut, Inv, EnrollsRight
  <2>2. putMember(n, op[n].on, op[n].rec)
    BY <1>1 DEF enrollPut
  <2> QED BY <2>1, <2>2, Zenon
<1>2. CASE removePut(n)
  <2>1. /\ op[n].on \in Nodes /\ op[n].rec \in Rows /\ op[n].rec.st # "active"
        /\ db.mem[op[n].on] # None
    BY <1>2 DEF removePut, Inv, RemovesRight
  <2>2. CASE op[n].pc = "tombstone"
    <3>1. /\ [op[n].rec EXCEPT !.st = "removed"] \in Rows
          /\ [op[n].rec EXCEPT !.st = "removed"].st # "active"
      BY <2>1, RowFacts DEF Statuses
    <3>2. putMember(n, op[n].on, [op[n].rec EXCEPT !.st = "removed"])
      BY <1>2, <2>2 DEF removePut
    <3> QED BY <2>1, <3>1, <3>2, Zenon
  <2>3. CASE op[n].pc # "tombstone"
    <3>1. putMember(n, op[n].on, op[n].rec)
      BY <1>2, <2>3 DEF removePut
    <3> QED BY <2>1, <3>1, Zenon
  <2> QED BY <2>2, <2>3
<1>3. CASE releasePut(n)
  <2>1. /\ op[n].on \in Nodes /\ op[n].rec \in Rows /\ op[n].rec.st # "active"
        /\ db.mem[op[n].on] # None
    BY <1>3 DEF releasePut, At, Inv, RemovesRight
  <2>2. putMember(n, op[n].on, op[n].rec)
    BY <1>3 DEF releasePut
  <2> QED BY <2>1, <2>2, Zenon
<1> DEFINE mine == node[n].mem[n]
<1>4. InLab(n) => n \notin gone /\ db.mem[n] # None
  BY DEF Inv, RemovalSafe, Recorded
<1>5. mine \in Rows
  BY DEF Inv, Types, Copies, Members, Records, Recorded
<1> HIDE DEF mine
<1>6. CASE joinActive(n)
  <2>1. putMember(n, n, [mine EXCEPT !.st = "active"]) /\ InLab(n)
    BY <1>6 DEF joinActive, putMember, mine
  <2>2. [mine EXCEPT !.st = "active"] \in Rows
    BY <1>5, RowFacts DEF Statuses
  <2> QED BY <1>4, <2>1, <2>2, Zenon
<1>7. CASE rotatePut(n)
  <2>1. putMember(n, n, Both(n)) /\ InLab(n)
    BY <1>7 DEF rotatePut, putMember
  <2>2. rot[n].old \in Rows /\ rot[n].cert \in Nat
    BY <1>7 DEF rotatePut, At, Inv, InPhase, RotationPhase, Types, Rotations
  <2>3. Both(n) \in Rows
    BY <2>2, RowFacts DEF Both
  <2> QED BY <1>4, <2>1, <2>3, Zenon
<1>8. CASE rotateClear(n)
  <2>1. putMember(n, n, [mine EXCEPT !.prev = None]) /\ InLab(n)
    BY <1>8 DEF rotateClear, putMember, mine
  <2>2. [mine EXCEPT !.prev = None] \in Rows
    BY <1>5, RowFacts
  <2> QED BY <1>4, <2>1, <2>2, Zenon
<1> QED BY <1>1, <1>2, <1>3, <1>6, <1>7, <1>8 DEF Puts

\* Revisions and records only grow, and a claimed invitation never changes.
Grows ==
  /\ db'.rev >= db.rev
  /\ \A m \in Nodes : db.mem[m] # None => db'.mem[m] # None
  /\ \A t \in Tokens :
        db.inv[t] # None => /\ db'.inv[t] # None /\ db'.inv[t].boot = db.inv[t].boot
                            /\ db.inv[t].by # None => db'.inv[t] = db.inv[t]

\* The shared tables keep their type, and a revision only grows.
LEMMA TablesStep ==
  Inv /\ [Next]_vars => /\ db' \in Tables /\ Grows
                        /\ \A n \in Nodes : db'.applied[n] <= db'.rev
                        /\ \A t \in Tokens : Invited(t)'
<1> SUFFICES ASSUME Inv, [Next]_vars
             PROVE  /\ db' \in Tables /\ Grows
                    /\ \A n \in Nodes : db'.applied[n] <= db'.rev
                    /\ \A t \in Tokens : Invited(t)'
  OBVIOUS
<1>0. db \in Tables /\ \A n \in Nodes : db.applied[n] <= db.rev
  BY DEF Inv, Types, Revisions
<1>1. CASE UNCHANGED db
  BY <1>0, <1>1 DEF Grows, Inv, Invited, Tables
<1>2. ASSUME NEW n \in Nodes, Puts(n)
      PROVE  /\ db' \in Tables /\ Grows
             /\ \A k \in Nodes : db'.applied[k] <= db'.rev
             /\ \A t \in Tokens : Invited(t)'
  <2>1. PICK m \in Nodes, rec \in Rows : putMember(n, m, rec)
    BY <1>2, PutRows
  <2>2. /\ db' \in Tables
        /\ db'.rev = db.rev + 1 /\ db'.applied = db.applied /\ db'.inv = db.inv
        /\ db'.mem = [db.mem EXCEPT ![m] = rec]
    BY <1>0, <2>1, PutType DEF Records
  <2>3. rec # None
    BY RowFacts
  <2>4. Grows
    BY <1>0, <2>2, <2>3 DEF Grows, Tables, Members
  <2>5. \A k \in Nodes : db'.applied[k] <= db'.rev
    BY <1>0, <2>2 DEF Tables
  <2> QED BY <2>2, <2>4, <2>5 DEF Inv, Invited
<1>3. ASSUME NEW n \in Nodes, monitor(n)
      PROVE  /\ db' \in Tables /\ Grows
             /\ \A k \in Nodes : db'.applied[k] <= db'.rev
             /\ \A t \in Tokens : Invited(t)'
  <2>1. db' = [db EXCEPT !.applied = [db.applied EXCEPT ![n] = db.rev]]
    BY <1>3 DEF monitor
  <2>2. [db.applied EXCEPT ![n] = db.rev] \in [Nodes -> Nat]
    BY <1>0 DEF Tables
  <2>3. db' \in Tables /\ Grows
    BY <1>0, <2>1, <2>2 DEF Tables, Grows
  <2>4. \A k \in Nodes : db'.applied[k] <= db'.rev
    BY <1>0, <2>1 DEF Tables
  <2>5. db'.inv = db.inv
    BY <1>0, <2>1 DEF Tables
  <2> QED BY <2>3, <2>4, <2>5 DEF Inv, Invited
<1>4. ASSUME NEW n \in Nodes, NEW s \in Tokens, CreateInvitation(n, s)
      PROVE  /\ db' \in Tables /\ Grows
             /\ \A k \in Nodes : db'.applied[k] <= db'.rev
             /\ \A t \in Tokens : Invited(t)'
  <2> DEFINE new == [boot |-> n, by |-> None, mem |-> None]
             inv == [db.inv EXCEPT ![s] = new]
  <2>1. new \in Invitations /\ new.by = None
    BY DEF Invitations
  <2>2. db' = [db EXCEPT !.inv = inv] /\ db.inv[s] = None
    BY <1>4 DEF CreateInvitation
  <2> HIDE DEF new
  <2>3. inv \in [Tokens -> {None} \cup Invitations]
    BY <1>0, <2>1 DEF Tables
  <2>4. \A t \in Tokens : inv[t] = IF t = s THEN new ELSE db.inv[t]
    BY <1>0 DEF Tables
  <2> HIDE DEF inv
  <2>5. db' \in Tables /\ db'.inv = inv /\ db'.rev = db.rev /\ db'.applied = db.applied
    BY <1>0, <2>2, <2>3 DEF Tables
  <2>6. Grows
    BY <1>0, <2>2, <2>4, <2>5 DEF Tables, Grows
  <2> QED BY <1>0, <2>1, <2>4, <2>5, <2>6 DEF Inv, Invited
<1>5. ASSUME NEW a \in Nodes, NEW n \in Nodes, enrollClaim(a, n)
      PROVE  /\ db' \in Tables /\ Grows
             /\ \A k \in Nodes : db'.applied[k] <= db'.rev
             /\ \A t \in Tokens : Invited(t)'
  <2> DEFINE s == join[n].tok
             mem == [node[a].mem EXCEPT ![n] = Enrolling(n)]
             new == [db.inv[s] EXCEPT !.by = n, !.mem = mem]
             inv == [db.inv EXCEPT ![s] = new]
  <2>1. join[n].phase = "validated"
    BY <1>5 DEF enrollClaim, Requests, At, Inv, InPhase, JoinPhase
  <2>2. s \in Tokens /\ db.inv[s] \in Invitations /\ Enrolling(n) \in Rows
    BY <1>0, <2>1, RowFacts DEF Inv, Joining, Enrolling, Statuses, Tables
  <2>3. db.inv[s].by = None
    BY <1>5, <2>2 DEF enrollClaim, Refuses, Replaying
  <2>4. mem \in Members /\ mem[n] # None
    BY <2>2, RowFacts DEF Inv, Types, Copies, Members, Records
  <2> HIDE DEF mem
  <2>5. new \in Invitations /\ new.by = n /\ new.mem = mem /\ new.boot = db.inv[s].boot
    BY <2>2, <2>4 DEF Invitations, Members
  <2>6. db' = [db EXCEPT !.inv = inv]
    BY <1>0, <1>5, <2>2 DEF enrollClaim, mem, Tables, Invitations
  <2> HIDE DEF new
  <2>7. inv \in [Tokens -> {None} \cup Invitations]
    BY <1>0, <2>2, <2>5 DEF Tables
  <2>8. \A t \in Tokens : inv[t] = IF t = s THEN new ELSE db.inv[t]
    BY <1>0, <2>2 DEF Tables
  <2> HIDE DEF inv, s
  <2>9. db' \in Tables /\ db'.inv = inv /\ db'.rev = db.rev /\ db'.applied = db.applied /\ db'.mem = db.mem
    BY <1>0, <2>6, <2>7 DEF Tables
  <2>10. Grows
    BY <1>0, <2>2, <2>3, <2>5, <2>8, <2>9, LabAssumption DEF Tables, Grows
  <2> QED BY <1>0, <2>4, <2>5, <2>8, <2>9, <2>10 DEF Inv, Invited
<1> QED BY <1>1, <1>2, <1>3, <1>4, <1>5, Frames DEF Framed, Writes, Puts

----------------------------------------------------------------------------
(* The files of the nodes. *)

\* A node's copy of the records is typed, never ahead, and always names the node.
LEMMA CopiesStep ==
  Inv /\ [Next]_vars => /\ node' \in [Nodes -> Copies]
                        /\ \A n \in Nodes : node'[n].rev <= db'.rev /\ node'[n].mem[n] # None
<1> SUFFICES ASSUME Inv, [Next]_vars
             PROVE  /\ node' \in [Nodes -> Copies]
                    /\ \A n \in Nodes : node'[n].rev <= db'.rev /\ node'[n].mem[n] # None
  OBVIOUS
<1>0. /\ db \in Tables /\ node \in [Nodes -> Copies] /\ db'.rev >= db.rev /\ db' \in Tables
      /\ \A n \in Nodes : node[n].rev <= db.rev /\ node[n].mem[n] # None
      /\ \A n \in Nodes : InLab(n) => db.mem[n] # None
  BY TablesStep DEF Inv, Types, Revisions, Recorded, Grows
<1>1. CASE UNCHANGED node
  BY <1>0, <1>1 DEF Tables, Copies
<1>2. ASSUME NEW n \in Nodes, refreshTrust(n)
      PROVE  /\ node' \in [Nodes -> Copies]
             /\ \A m \in Nodes : node'[m].rev <= db'.rev /\ node'[m].mem[m] # None
  BY <1>0, <1>2, RefreshType DEF Tables, Copies
<1>3. ASSUME NEW n \in Nodes, joinInstalled(n)
      PROVE  /\ node' \in [Nodes -> Copies]
             /\ \A m \in Nodes : node'[m].rev <= db'.rev /\ node'[m].mem[m] # None
  <2>1. join[n].mem \in Members /\ join[n].mem[n] # None
    BY <1>3 DEF joinInstalled, At, Inv, InPhase, JoinPhase, Joining
  <2> QED BY <1>0, <1>3, <2>1 DEF joinInstalled, ApplyTrust, Copies, Tables
<1> QED
  BY <1>1, <1>2, <1>3, Frames
     DEF Framed, Copying, monitor, CreateInvitation, enrollTrust, joinTrust, removeTrust, releaseTrust,
         rotateStart, rotateResume, rotateAuthorized, rotateAwait, rotateComplete

\* The join journals keep their type.
LEMMA JoinTypes ==
  Inv /\ [Next]_vars => join' \in [Nodes -> Joins]
<1> SUFFICES ASSUME Inv, [Next]_vars PROVE join' \in [Nodes -> Joins]
  OBVIOUS
<1>0. join \in [Nodes -> Joins]
  BY DEF Inv, Types
<1>1. CASE UNCHANGED join
  BY <1>0, <1>1
<1>2. ASSUME NEW n \in Nodes, NEW t \in Tokens, NEW ad \in JoinAddrs, Join(n, t, ad)
      PROVE  join' \in [Nodes -> Joins]
  BY <1>0, <1>2, LabAssumption DEF Join, Joins, Phases, Resume
<1>3. ASSUME NEW n \in Nodes, enrollReply(n)
      PROVE  join' \in [Nodes -> Joins]
  <2> DEFINE m == op[n].on
  <2>1. m \in Nodes /\ join[m].phase = "validated" /\ db.inv[join[m].tok].by = m
    BY <1>3 DEF enrollReply, At, Inv, EnrollsRight
  <2>2. db.inv[join[m].tok] # None /\ join[m].tok \in Tokens
    BY <2>1 DEF Inv, Joining
  <2>3. db.inv[join[m].tok].mem \in Members
    BY <2>1, <2>2, LabAssumption DEF Inv, Invited
  <2> DEFINE told == [join[m] EXCEPT !.phase = "credentials", !.mem = db.inv[join[m].tok].mem]
  <2>4. told \in Joins
    BY <1>0, <2>1, <2>3 DEF Joins, Phases, Resume
  <2>5. join' \in {join, [join EXCEPT ![m] = told]}
    BY <1>0, <1>3, <2>1 DEF enrollReply, Joins
  <2> HIDE DEF told, m
  <2> QED BY <1>0, <2>1, <2>4, <2>5
<1>4. ASSUME NEW n \in Nodes, joinSave(n)
      PROVE  join' \in [Nodes -> Joins]
  BY <1>0, <1>4 DEF joinSave, Saved, Joins, Phases, Resume
<1>5. ASSUME NEW n \in Nodes, joinLocal(n) \/ joinTrust(n)
      PROVE  join' \in [Nodes -> Joins]
  BY <1>0, <1>5 DEF joinLocal, joinTrust, Joins, Phases, Resume
<1> QED
  BY <1>1, <1>2, <1>3, <1>4, <1>5, Frames DEF Framed, Journals

\* So do the files, the rotation journals and the counters.
LEMMA FileTypes ==
  Inv /\ [Next]_vars => /\ ident' \in [Nodes -> Idents] /\ dir' \in [Nodes -> Dirs]
                        /\ rot' \in [Nodes -> Rotations]
<1> SUFFICES ASSUME Inv, [Next]_vars
             PROVE  /\ ident' \in [Nodes -> Idents] /\ dir' \in [Nodes -> Dirs]
                    /\ rot' \in [Nodes -> Rotations]
  OBVIOUS
<1>0. ident \in [Nodes -> Idents] /\ dir \in [Nodes -> Dirs] /\ rot \in [Nodes -> Rotations]
  BY DEF Inv, Types
<1>1. ident' \in [Nodes -> Idents]
  <2>1. \A n \in Nodes : rot[n].cert \in Nat
    BY <1>0 DEF Rotations
  <2>2. \A c \in Nat : [cert |-> c, torn |-> FALSE] \in Idents
    BY Zenon DEF Idents
  <2>3. \A i \in Idents : [i EXCEPT !.torn = TRUE] \in Idents
    BY Zenon DEF Idents
  <2>4. ASSUME NEW n \in Nodes, Installs(n) PROVE ident' \in [Nodes -> Idents]
    BY <1>0, <2>1, <2>2, <2>3, <2>4
       DEF Installs, installIdentity, joinInstalled, rotateInstalled, Restart, PreparePendingIdentity
  <2> QED BY <1>0, <2>4, Frames DEF Framed
<1>2. dir' \in [Nodes -> Dirs]
  <2>1. \A d \in Dirs : [d EXCEPT !.marker = TRUE] \in Dirs
    BY Zenon DEF Dirs
  <2>2. ASSUME NEW n \in Nodes, configureMark(n) PROVE dir' \in [Nodes -> Dirs]
    BY <1>0, <2>1, <2>2 DEF configureMark
  <2>3. ASSUME NEW n \in Nodes, configureBackup(n) PROVE dir' \in [Nodes -> Dirs]
    <3>1. dir[n].data # "none" \/ dir[n].backup # "partial"
      BY <2>3 DEF Inv, DataSafe
    <3> QED BY <1>0, <2>3, <3>1 DEF configureBackup, BackupDirectory, Dirs
  <2>4. ASSUME NEW n \in Nodes, configureWipe(n) \/ configureUp(n) PROVE dir' \in [Nodes -> Dirs]
    BY <1>0, <2>4 DEF configureWipe, configureUp, Dirs
  <2> QED BY <1>0, <2>2, <2>3, <2>4, Frames DEF Framed, Configures
<1>3. rot' \in [Nodes -> Rotations]
  <2>1. ASSUME NEW n \in Nodes, rotateStart(n) PROVE rot' \in [Nodes -> Rotations]
    <3>1. db.mem[n] \in Rows
      BY <2>1 DEF rotateStart, Serves, Inv, Recorded, Types, Tables, Members, Records
    <3>2. db.mem[n].cert + 1 \in Nat
      BY <3>1 DEF Rows
    <3> DEFINE new == [phase |-> "prepared", rev |-> 0, cert |-> db.mem[n].cert + 1, old |-> db.mem[n]]
    <3>3. new \in Rotations
      BY <3>1, <3>2 DEF Rotations, RotationPhases, Records
    <3>4. rot' = [rot EXCEPT ![n] = new]
      BY <2>1, Zenon DEF rotateStart
    <3> HIDE DEF new
    <3> QED BY <1>0, <3>3, <3>4
  <2>2. ASSUME NEW n \in Nodes, rotateAuthorized(n) \/ rotateRestart(n) \/ rotateComplete(n)
        PROVE  rot' \in [Nodes -> Rotations]
    <3>1. db.rev \in Nat
      BY DEF Inv, Types, Tables
    <3> QED BY <1>0, <2>2, <3>1
            DEF rotateAuthorized, rotateRestart, rotateComplete, Rotations, RotationPhases, Records
  <2> QED BY <1>0, <2>1, <2>2, Frames DEF Framed, Rotates
<1> QED BY <1>1, <1>2, <1>3

\* Type correctness and the order of revisions are preserved.
LEMMA TypesStep == Inv /\ [Next]_vars => Types' /\ Revisions'
<1> SUFFICES ASSUME Inv, [Next]_vars PROVE Types' /\ Revisions'
  OBVIOUS
<1>1. raft' \in [Nodes -> {"out", "nonvoter", "voter"}]
  <2>0. raft \in [Nodes -> {"out", "nonvoter", "voter"}]
    BY DEF Inv, Types
  <2>1. ASSUME NEW n \in Nodes, Regroups(n) PROVE raft' \in [Nodes -> {"out", "nonvoter", "voter"}]
    BY <2>0, <2>1 DEF Regroups, configureUp, joinRemove, Promote, removeRaft, removeRQLite
  <2> QED BY <2>0, <2>1, Frames DEF Framed
<1>2. caught' \subseteq Nodes
  BY Frames DEF Framed, Catches, configureWipe, catchUp, Inv, Types
<1>3. gone' \subseteq marked' /\ marked' \subseteq Nodes
  <2>0. gone \subseteq marked /\ marked \subseteq Nodes
    BY DEF Inv, Types
  <2>1. marked \subseteq marked' /\ marked' \subseteq Nodes
    BY <2>0, Frames DEF Framed, Marks, Remove
  <2>2. ASSUME NEW n \in Nodes, removePut(n) PROVE gone' \subseteq marked
    BY <2>0, <2>2 DEF removePut, Inv, RemovesRight
  <2> QED BY <2>0, <2>1, <2>2, Frames DEF Framed, Buries
<1>4. faults' \in 0..MaxFaults
  BY Frames, LabAssumption DEF Framed, Breaks, Fails, Restart, Inv, Types
<1>5. asked' \in 0..MaxRequests
  <2>1. UNCHANGED asked \/ Asks
    BY Frames, Zenon DEF Framed, Counts, Remove, ReleasePeerAddress, rotateStart
  <2> QED BY <2>1, LabAssumption DEF Asks, Inv, Types
<1> QED
  BY <1>1, <1>2, <1>3, <1>4, <1>5, OpStep, TablesStep, CopiesStep, JoinTypes, FileTypes
     DEF Types, Revisions

----------------------------------------------------------------------------
(* The journal of a join. *)

\* The journal once the authority has answered.
Told(n) == [join[n] EXCEPT !.phase = "credentials", !.mem = db.inv[join[n].tok].mem]

\* The journal of a join moves from phase to phase.
Progress(n) ==
  \/ join'[n] = join[n]
  \/ /\ n \notin Founders /\ join[n].phase = "none"
     /\ \E t \in Tokens, ad \in JoinAddrs :
           /\ join'[n] = [phase |-> "validated", tok |-> t, addr |-> ad, mem |-> None]
           /\ db.inv[t] # None
  \/ /\ join[n].phase = "validated" /\ join'[n] = Told(n)
     /\ \E a \in Nodes : op[a].kind = "enroll" /\ op[a].pc = "reply" /\ op[a].on = n
  \/ /\ join'[n] = [join[n] EXCEPT !.phase = join'[n].phase]
     /\ \/ join[n].phase = "credentials" /\ join'[n].phase = "nonvoter"
        \/ join[n].phase = "nonvoter" /\ join'[n].phase = "promotionReady" /\ n \in caught
        \/ join[n].phase = "promotionReady" /\ join'[n].phase = "nonvoterRemoved"
        \/ join[n].phase = "nonvoterRemoved" /\ join'[n].phase = "promoted"
        \/ join[n].phase = "promoted" /\ join'[n].phase = "complete"

\* Every step leaves each join journal alone or takes it one phase on.
LEMMA JournalMoves == Inv /\ [Next]_vars => \A k \in Nodes : Progress(k)
<1> SUFFICES ASSUME Inv, [Next]_vars, NEW k \in Nodes
             PROVE  Progress(k)
  OBVIOUS
<1>0. join \in [Nodes -> Joins]
  BY DEF Inv, Types
<1>1. CASE UNCHANGED join
  BY <1>1 DEF Progress
<1>2. ASSUME NEW n \in Nodes, NEW t \in Tokens, NEW ad \in JoinAddrs, Join(n, t, ad)
      PROVE  Progress(k)
  <2>1. CASE k = n
    <3>1. /\ n \notin Founders /\ join[n].phase = "none" /\ db.inv[t] # None
          /\ join'[n] = [phase |-> "validated", tok |-> t, addr |-> ad, mem |-> None]
      BY <1>0, <1>2 DEF Join
    <3> QED BY <2>1, <3>1, Zenon DEF Progress
  <2>2. CASE k # n
    BY <1>0, <1>2, <2>2 DEF Join, Progress
  <2> QED BY <2>1, <2>2
<1>3. ASSUME NEW n \in Nodes, enrollReply(n)
      PROVE  Progress(k)
  <2>1. CASE k = op[n].on /\ join'[k] # join[k]
    <3>1. join[k].phase = "validated" /\ join'[k] = Told(k)
      BY <1>0, <1>3, <2>1 DEF enrollReply, Told, Joins
    <3>2. op[n].kind = "enroll" /\ op[n].pc = "reply"
      BY <1>3 DEF enrollReply, At
    <3> QED BY <2>1, <3>1, <3>2, Zenon DEF Progress
  <2>2. CASE k # op[n].on
    BY <1>0, <1>3, <2>2 DEF enrollReply, Progress
  <2> QED BY <2>1, <2>2 DEF Progress
<1>4. ASSUME NEW n \in Nodes, joinSave(n) \/ joinLocal(n) \/ joinTrust(n)
      PROVE  Progress(k)
  <2>1. op[n].kind = "join" => join[n].phase = JoinPhase[op[n].pc]
    BY DEF Inv, InPhase
  <2>2. CASE k # n
    BY <1>0, <1>4, <2>2 DEF joinSave, joinLocal, joinTrust, Progress
  <2>3. CASE k = n
    <3>1. CASE joinSave(n)
      BY <1>0, <2>1, <2>3, <3>1 DEF joinSave, Saved, JoinPhase, Progress, Joins
    <3>2. CASE joinLocal(n)
      BY <1>0, <2>1, <2>3, <3>2 DEF joinLocal, At, CaughtUp, JoinPhase, Progress, Joins
    <3>3. CASE joinTrust(n)
      BY <1>0, <2>1, <2>3, <3>3 DEF joinTrust, JoinPhase, Progress, Joins
    <3> QED BY <1>4, <3>1, <3>2, <3>3
  <2> QED BY <2>2, <2>3
<1> QED BY <1>1, <1>2, <1>3, <1>4, Frames DEF Framed, Journals

\* Joining is preserved.
LEMMA JoiningStep == Inv /\ [Next]_vars => \A n \in Nodes : Joining(n)'
<1> SUFFICES ASSUME Inv, [Next]_vars, NEW n \in Nodes
             PROVE  Joining(n)'
  OBVIOUS
<1>0. /\ join[n] \in Joins /\ Joining(n) /\ Progress(n)
      /\ db.mem[n] # None => db'.mem[n] # None
      /\ \A t \in Tokens : db.inv[t] # None => db'.inv[t] # None
  BY JournalMoves, TablesStep DEF Inv, Types, Grows
<1>1. CASE join'[n] = join[n]
  BY <1>0, <1>1 DEF Joining
<1>2. CASE join[n].phase = "none" /\ join'[n] # join[n]
  <2>1. /\ n \notin Founders
        /\ \E t \in Tokens, ad \in JoinAddrs :
              /\ join'[n] = [phase |-> "validated", tok |-> t, addr |-> ad, mem |-> None]
              /\ db.inv[t] # None
    BY <1>0, <1>2 DEF Progress
  <2> QED BY <1>0, <2>1, LabAssumption DEF Joining
<1>3. CASE join[n].phase = "validated" /\ join'[n] # join[n]
  <2>1. PICK a \in Nodes : op[a].kind = "enroll" /\ op[a].pc = "reply" /\ op[a].on = n
    BY <1>0, <1>3 DEF Progress
  <2>2. db.mem[n] # None /\ db.inv[join[n].tok].by = n
    BY <2>1 DEF Inv, EnrollsRight
  <2>3. db.inv[join[n].tok].mem \in Members /\ db.inv[join[n].tok].mem[n] # None
    BY <1>0, <1>3, <2>2, LabAssumption DEF Joining, Inv, Invited
  <2>4. join'[n] = Told(n)
    BY <1>0, <1>3 DEF Progress
  <2> QED BY <1>0, <1>3, <2>2, <2>3, <2>4 DEF Joining, Told, Joins
<1>4. CASE join[n].phase \notin {"none", "validated"} /\ join'[n] # join[n]
  BY <1>0, <1>4 DEF Joining, Progress, Joins
<1> QED BY <1>1, <1>2, <1>3, <1>4

\* Recorded is preserved.
LEMMA RecordedStep == Inv /\ [Next]_vars => \A n \in Nodes : Recorded(n)'
<1> SUFFICES ASSUME Inv, [Next]_vars, NEW n \in Nodes
             PROVE  Recorded(n)'
  OBVIOUS
<1>0. /\ raft \in [Nodes -> {"out", "nonvoter", "voter"}]
      /\ db.mem[n] # None => db'.mem[n] # None
      /\ InLab(n) => db.mem[n] # None
      /\ node'[n].mem[n] # None
  BY TablesStep, CopiesStep DEF Inv, Types, Grows, Recorded
<1>1. ASSUME NEW m \in Nodes, configureUp(m) \/ Promote(m) PROVE db.mem[m] # None
  BY <1>1 DEF configureUp, Promote, At, Inv, InPhase, JoinPhase, Joining
<1>2. raft'[n] # "out" => db.mem[n] # None
  BY <1>0, <1>1, Frames DEF Framed, Regroups, configureUp, Promote, joinRemove, removeRaft, removeRQLite, InLab
<1> QED BY <1>0, <1>2 DEF Recorded, InLab

----------------------------------------------------------------------------
(* Operations: enrollments, removals, and the phases they belong to. *)

\* What a step does to its own operation: one field, the step it is at.
OwnStep(n) == op'[n] = [op[n] EXCEPT !.pc = op'[n].pc]

\* EnrollsRight is preserved.
LEMMA EnrollsStep == Inv /\ [Next]_vars => \A a \in Nodes : EnrollsRight(a)'
<1> SUFFICES ASSUME Inv, [Next]_vars, NEW a \in Nodes, op'[a].kind = "enroll"
             PROVE  EnrollsRight(a)'
  BY DEF EnrollsRight
<1>0. /\ op \in [Nodes -> Ops] /\ op' \in [Nodes -> Ops] /\ Moved(a) /\ EnrollsRight(a)
      /\ \A m \in Nodes : db.mem[m] # None => db'.mem[m] # None
      /\ join \in [Nodes -> Joins] /\ join' \in [Nodes -> Joins]
  BY Moves, OpStep, TablesStep, TypesStep DEF Inv, Types, Grows
<1>1. ASSUME NEW n \in Nodes, join[n].phase = "validated", db.inv[join[n].tok].by = n
      PROVE  join[n].tok \in Tokens /\ db'.inv[join[n].tok] = db.inv[join[n].tok]
  <2>1. join[n].tok \in Tokens /\ db.inv[join[n].tok] # None
    BY <1>1 DEF Inv, Joining
  <2> QED BY <1>1, <2>1, TablesStep, LabAssumption DEF Grows
\* Only the authority itself ends the phase in which it enrolls.
<1>2. ASSUME op[a].kind = "enroll", ~enrollReply(a)
      PROVE  join'[op[a].on] = join[op[a].on]
  <2>1. /\ op[a].on \in Nodes /\ join[op[a].on].phase = "validated"
        /\ db.inv[join[op[a].on].tok].boot = a
    BY <1>0, <1>2 DEF EnrollsRight
  <2>2. ASSUME NEW n \in Nodes, enrollReply(n)
        PROVE  op[n].on # op[a].on
    <3>1. op[n].kind = "enroll" /\ n # a
      BY <1>2, <2>2 DEF enrollReply, At
    <3>2. db.inv[join[op[n].on].tok].boot = n
      BY <3>1 DEF Inv, EnrollsRight
    <3> QED BY <2>1, <3>1, <3>2
  <2>3. ASSUME NEW n \in Nodes, enrollReply(n) PROVE join'[op[a].on] = join[op[a].on]
    BY <1>0, <2>1, <2>2, <2>3 DEF enrollReply
  <2>4. ASSUME NEW n \in Nodes, NEW t \in Tokens, NEW ad \in JoinAddrs, Join(n, t, ad)
        PROVE  join'[op[a].on] = join[op[a].on]
    BY <1>0, <2>1, <2>4 DEF Join
  <2>5. ASSUME NEW n \in Nodes, joinSave(n) \/ joinLocal(n) \/ joinTrust(n)
        PROVE  join'[op[a].on] = join[op[a].on]
    <3>1. n # op[a].on \/ join' = join
      BY <2>1, <2>5 DEF joinSave, joinLocal, joinTrust, At, Saved, Inv, InPhase, JoinPhase
    <3> QED BY <1>0, <2>1, <2>5, <3>1 DEF joinSave, joinLocal, joinTrust
  <2> QED BY <2>3, <2>4, <2>5, Frames DEF Framed, Journals
<1>3. ASSUME enrollReply(a) PROVE FALSE
  BY <1>0, <1>3 DEF enrollReply, Idle, EnrollsRight, At
<1>4. CASE op'[a] = op[a]
  BY <1>0, <1>1, <1>2, <1>3, <1>4 DEF EnrollsRight
<1>5. CASE enrollCheck(a) \/ enrollTrust(a)
  <2>1. op[a].kind = "enroll" /\ UNCHANGED <<db, join>>
    BY <1>5 DEF enrollCheck, enrollTrust, At
  <2>2. OwnStep(a) /\ op'[a].pc \in {"trust", "again", "reply"}
    BY <1>0, <1>5, FailedType DEF enrollCheck, enrollTrust, At, Goto, OwnStep, Idle, Ops, EnrollsRight
  <2>3. op'[a].pc \in {"trust", "reply"} => db.mem[op[a].on] # None
    BY <1>0, <1>5 DEF enrollCheck, enrollTrust, At, Goto, EnrollsRight, Ops
  <2> QED BY <1>0, <2>1, <2>2, <2>3 DEF EnrollsRight, OwnStep, Ops
<1>6. CASE enrollPut(a)
  <2>1. op[a].kind = "enroll" /\ UNCHANGED join
    BY <1>6 DEF enrollPut
  <2>2. OwnStep(a) /\ op'[a].pc \in {"check", "trust"}
    BY <1>0, <1>6 DEF enrollPut, Goto, OwnStep, Ops
  <2>3. db'.mem[op[a].on] # None
    <3>1. op[a].on \in Nodes /\ op[a].rec \in Rows /\ putMember(a, op[a].on, op[a].rec)
      BY <1>0, <1>6, <2>1 DEF EnrollsRight, enrollPut
    <3>2. db'.mem = [db.mem EXCEPT ![op[a].on] = op[a].rec] /\ db \in Tables
      BY <3>1, PutType DEF Inv, Types, Records
    <3> QED BY <3>1, <3>2, LabAssumption DEF Tables, Members
  <2> QED BY <1>0, <1>1, <2>1, <2>2, <2>3 DEF EnrollsRight, OwnStep, Ops
<1>7. ASSUME NEW n \in Nodes, enrollClaim(a, n) \/ enrollReplay(a, n)
      PROVE  EnrollsRight(a)'
  <2>1. n # a /\ UNCHANGED join /\ join[n].phase = "validated" /\ db.inv[join[n].tok].boot = a
    BY <1>7 DEF enrollClaim, enrollReplay, Requests, At, Idle, Inv, InPhase, JoinPhase
  <2>2. /\ op'[a].pc \in {"put", "check"} /\ op'[a].on = n /\ op'[a].rec = Enrolling(n)
    BY <1>0, <1>7, <2>1 DEF enrollClaim, enrollReplay
  <2>3. Enrolling(n) \in Rows /\ Enrolling(n).st = "enrolling"
    <3>1. join[n].addr \in Addrs
      BY <2>1 DEF Inv, Joining
    <3> QED BY <3>1 DEF Enrolling, Member, Rows, Statuses
  <2>4. join[n].tok \in Tokens /\ db.inv[join[n].tok] \in Invitations /\ db \in Tables
    BY <2>1 DEF Inv, Joining, Types, Tables
  <2>5. db'.inv[join[n].tok].by = n /\ db'.inv[join[n].tok].boot = a
    <3>1. CASE enrollClaim(a, n)
      BY <2>1, <2>4, <3>1 DEF enrollClaim, Tables, Invitations
    <3>2. CASE enrollReplay(a, n)
      BY <2>1, <2>4, <3>2 DEF enrollReplay, Replaying
    <3> QED BY <1>7, <3>1, <3>2
  <2> QED BY <2>1, <2>2, <2>3, <2>5 DEF EnrollsRight
<1>8. ~AnswerMove(a) \/ op'[a] = op[a]
  <2>1. SUFFICES ASSUME AnswerMove(a) PROVE FALSE
    OBVIOUS
  <2>2. op'[a].kind = op[a].kind
    BY <1>0, <2>1 DEF AnswerMove, Ops
  <2> QED BY <1>0, <2>1, <2>2 DEF AnswerMove, enrollClaim, enrollReplay, Requests, At, EnrollsRight
<1> QED BY <1>0, <1>4, <1>5, <1>6, <1>7, <1>8 DEF Moved, EnrollMove, Idle

\* InPhase is preserved.
LEMMA PhaseStep == Inv /\ [Next]_vars => \A n \in Nodes : InPhase(n)'
<1> SUFFICES ASSUME Inv, [Next]_vars, NEW n \in Nodes
             PROVE  InPhase(n)'
  OBVIOUS
<1>0. /\ op \in [Nodes -> Ops] /\ op' \in [Nodes -> Ops] /\ join \in [Nodes -> Joins]
      /\ rot \in [Nodes -> Rotations] /\ Moved(n) /\ InPhase(n)
  BY Moves, OpStep DEF Inv, Types
<1>1. rot'[n].phase \in {"prepared", "authorized", "awaiting"} => rot'[n].old \in Rows
  <2>1. ASSUME NEW m \in Nodes, rotateStart(m) PROVE db.mem[m] \in Rows
    BY <2>1 DEF rotateStart, Serves, Inv, Recorded, Types, Tables, Members, Records
  <2>2. ASSUME NEW m \in Nodes, rotateAuthorized(m) \/ rotateRestart(m)
        PROVE  rot[m].phase \in {"prepared", "authorized"}
    BY <2>2 DEF rotateAuthorized, rotateRestart, At, Inv, InPhase, RotationPhase
  <2>3. ASSUME NEW m \in Nodes, rotateStart(m)
        PROVE  rot'[n].phase \in {"prepared", "authorized", "awaiting"} => rot'[n].old \in Rows
    BY <1>0, <2>1, <2>3 DEF rotateStart, InPhase
  <2>4. ASSUME NEW m \in Nodes, rotateAuthorized(m) \/ rotateRestart(m)
        PROVE  rot'[n].phase \in {"prepared", "authorized", "awaiting"} => rot'[n].old \in Rows
    <3>1. rot[n].phase # "none" /\ rot[n].phase # "complete" => rot[n].old \in Rows
      BY <1>0 DEF InPhase, Rotations, RotationPhases
    <3>2. m # n => rot'[n] = rot[n]
      BY <1>0, <2>4 DEF rotateAuthorized, rotateRestart
    <3>3. m = n => rot'[n].old = rot[n].old
      BY <1>0, <2>4 DEF rotateAuthorized, rotateRestart, Rotations
    <3> QED BY <2>2, <2>4, <3>1, <3>2, <3>3
  <2>5. ASSUME NEW m \in Nodes, rotateComplete(m)
        PROVE  rot'[n].phase \in {"prepared", "authorized", "awaiting"} => rot'[n].old \in Rows
    BY <1>0, <2>5 DEF rotateComplete, InPhase, Rotations
  <2> QED BY <1>0, <2>3, <2>4, <2>5, Frames DEF Framed, Rotates, InPhase
\* Only its own steps change the journals of a node that is busy.
<1>2. op'[n] = op[n] /\ op[n].kind = "rotate" => rot'[n].phase = rot[n].phase
  <2>1. ASSUME NEW m \in Nodes, Rotates(m), op'[n] = op[n], op[n].kind = "rotate"
        PROVE  m # n \/ rot'[n].phase = rot[n].phase
    BY <1>0, <2>1 DEF Rotates, rotateStart, rotateAuthorized, rotateRestart, rotateComplete, Serves, Idle,
       At, Goto, Leave, Ops
  <2>2. ASSUME NEW m \in Nodes, Rotates(m), m # n PROVE rot'[n] = rot[n]
    BY <1>0, <2>2 DEF Rotates, rotateStart, rotateAuthorized, rotateRestart, rotateComplete
  <2> QED BY <2>1, <2>2, Frames DEF Framed
<1>3. op'[n] = op[n] /\ op[n].kind = "join" => join'[n].phase = join[n].phase
  <2> SUFFICES ASSUME op'[n] = op[n], op[n].kind = "join"
               PROVE  join'[n].phase = join[n].phase
    OBVIOUS
  <2>1. ASSUME NEW m \in Nodes, NEW t \in Tokens, NEW ad \in JoinAddrs, Join(m, t, ad)
        PROVE  join'[n] = join[n]
    BY <1>0, <2>1 DEF Join, Idle
  <2>2. ASSUME NEW m \in Nodes, enrollReply(m) PROVE join'[n] = join[n]
    <3>1. op[m].on \in Nodes \ {m}
      BY <2>2 DEF enrollReply, At, Inv, EnrollsRight
    <3> QED BY <1>0, <2>2, <3>1 DEF enrollReply, Ops
  <2>3. ASSUME NEW m \in Nodes, joinSave(m) PROVE join'[n] = join[n]
    BY <1>0, <2>3 DEF joinSave, Goto, Saved, Resume, Ops
  <2>4. ASSUME NEW m \in Nodes, joinLocal(m) \/ joinTrust(m) PROVE join'[n] = join[n]
    BY <1>0, <2>4 DEF joinLocal, joinTrust, At, Goto, Leave, Idle, Ops
  <2> QED BY <2>1, <2>2, <2>3, <2>4, Frames DEF Framed, Journals
<1>4. CASE op'[n] = op[n]
  BY <1>0, <1>1, <1>2, <1>3, <1>4 DEF InPhase
<1>5. CASE op'[n] = Idle
  BY <1>1, <1>5 DEF InPhase, Idle
<1>6. CASE op'[n].kind = "enroll"
  BY <1>1, <1>6 DEF InPhase
<1>7. CASE op'[n].kind = "join" /\ JoinMove(n)
  <2>1. ASSUME NEW t \in Tokens, NEW ad \in JoinAddrs, Join(n, t, ad)
        PROVE  op'[n].pc = "request" /\ join'[n].phase = "validated"
    BY <1>0, <2>1 DEF Join, Enter
  <2>2. CASE ResumeJoin(n)
    <3>1. join[n].phase \in DOMAIN Resume
      BY <1>0, <2>2 DEF ResumeJoin, JoinPending, Joins, Phases
    <3>2. op'[n].pc = Resume[join[n].phase] /\ UNCHANGED join
      BY <1>0, <2>2 DEF ResumeJoin, Enter
    <3>3. op'[n].pc \in DOMAIN JoinPhase /\ JoinPhase[op'[n].pc] = join[n].phase
      BY <3>1, <3>2 DEF Resume, JoinPhase
    <3> QED BY <1>1, <1>7, <3>2, <3>3 DEF InPhase
  <2>3. CASE joinSave(n)
    BY <1>0, <1>1, <1>7, <2>3 DEF joinSave, Goto, Saved, Resume, JoinPhase, InPhase, Ops, Joins
  <2>4. CASE joinLocal(n) \/ joinTrust(n)
    BY <1>0, <1>1, <1>7, <2>4
       DEF joinLocal, joinTrust, At, Goto, Leave, Idle, JoinPhase, InPhase, Ops, Joins
  <2>5. CASE installIdentity(n) \/ joinInstalled(n)
    BY <1>0, <1>1, <1>7, <2>5 DEF installIdentity, joinInstalled, At, Goto, JoinPhase, InPhase, Ops
  <2>6. CASE configureBackup(n) \/ configureWipe(n)
    BY <1>0, <1>1, <1>7, <2>6
       DEF configureBackup, BackupDirectory, configureWipe, At, Goto, JoinPhase, InPhase, Ops
  <2>7. CASE configureMark(n) \/ configureUp(n)
    BY <1>0, <1>1, <1>7, <2>7 DEF configureMark, configureUp, At, Goto, JoinPhase, InPhase, Ops
  <2>8. CASE joinRemove(n) \/ Promote(n) \/ joinActive(n)
    BY <1>0, <1>1, <1>7, <2>8 DEF joinRemove, Promote, joinActive, At, Goto, JoinPhase, InPhase, Ops
  <2> QED BY <1>1, <1>7, <2>1, <2>2, <2>3, <2>4, <2>5, <2>6, <2>7, <2>8 DEF JoinMove, JoinPhase, InPhase
<1>8. CASE op'[n].kind = "rotate" /\ RotateMove(n)
  <2>1. CASE rotateStart(n) \/ rotateResume(n)
    BY <1>0, <1>1, <1>8, <2>1 DEF rotateStart, rotateResume, Enter, RotationPhase, InPhase, Ops
  <2>2. CASE installIdentity(n)
    BY <1>0, <1>1, <1>8, <2>2 DEF installIdentity, Goto, RotationPhase, InPhase, Ops
  <2>3. CASE rotatePut(n) \/ rotateAuthorized(n) \/ rotateInstalled(n)
    BY <1>0, <1>1, <1>8, <2>3
       DEF rotatePut, rotateAuthorized, rotateInstalled, At, Goto, RotationPhase, InPhase, Ops, Rotations
  <2>4. CASE rotateRestart(n) \/ rotateAwait(n) \/ rotateClear(n)
    BY <1>0, <1>1, <1>8, <2>4
       DEF rotateRestart, rotateAwait, rotateClear, At, Goto, Leave, Idle, RotationPhase, InPhase, Ops,
           Rotations
  <2> QED BY <1>8, <2>1, <2>2, <2>3, <2>4 DEF RotateMove
<1>9. CASE op'[n].kind = "remove" /\ RemoveMove(n)
  <2>1. ASSUME NEW m \in Nodes, NEW o \in Removals, Remove(n, m, o)
        PROVE  op'[n].pc = "removing"
    BY <1>0, <2>1 DEF Remove, Enter
  <2>2. CASE removePut(n)
    BY <1>0, <1>1, <1>9, <2>2 DEF removePut, Goto, Removal, InPhase, Ops
  <2>3. CASE removeTrust(n) \/ removeRaft(n)
    BY <1>0, <1>1, <1>9, <2>3 DEF removeTrust, removeRaft, Goto, Leave, Idle, Removal, InPhase, Ops
  <2> QED BY <1>1, <1>9, <2>1, <2>2, <2>3 DEF RemoveMove, InPhase
<1>10. CASE op'[n].kind = "release" /\ ReleaseMove(n)
  BY <1>0, <1>1, <1>10
     DEF ReleaseMove, ReleasePeerAddress, releasePut, At, Goto, Enter, InPhase, Ops
<1>11. CASE AnswerMove(n)
  <2>1. op[n].kind = "join" \/ op[n].pc \in {"waiting", "request"}
    BY <1>11 DEF AnswerMove, enrollClaim, enrollReplay, Requests, At
  <2>2. op[n].kind = "join"
    BY <1>0, <2>1 DEF Ops, Kinds, InPhase, RotationPhase, Inv, EnrollsRight
  <2>3. op'[n].kind = "join"
    BY <1>0, <1>11, <2>2 DEF AnswerMove, Ops
  <2>4. op'[n].pc \in DOMAIN JoinPhase /\ join'[n].phase = JoinPhase[op'[n].pc]
    <3>1. ASSUME NEW a \in Nodes, enrollClaim(a, n) \/ enrollReplay(a, n),
                 op'[n] = [op[n] EXCEPT !.pc = "waiting"]
          PROVE  op'[n].pc \in DOMAIN JoinPhase /\ join'[n].phase = JoinPhase[op'[n].pc]
      BY <1>0, <3>1 DEF enrollClaim, enrollReplay, Requests, At, Ops, JoinPhase, InPhase
    <3>2. ASSUME NEW a \in Nodes, enrollReply(a), op[a].on = n, op[n].pc = "waiting",
                 join[n].phase = "validated", op'[n] = [op[n] EXCEPT !.pc = "install"]
          PROVE  op'[n].pc \in DOMAIN JoinPhase /\ join'[n].phase = JoinPhase[op'[n].pc]
      BY <1>0, <3>2 DEF enrollReply, Ops, Joins, JoinPhase
    <3> QED BY <1>11, <3>1, <3>2 DEF AnswerMove
  <2> QED BY <1>1, <2>3, <2>4 DEF InPhase
<1> QED BY <1>0, <1>4, <1>5, <1>6, <1>7, <1>8, <1>9, <1>10, <1>11 DEF Moved

\* RemovesRight is preserved.
LEMMA RemovesStep == Inv /\ [Next]_vars => \A n \in Nodes : RemovesRight(n)'
<1> SUFFICES ASSUME Inv, [Next]_vars, NEW n \in Nodes, op'[n].kind \in {"remove", "release"}
             PROVE  RemovesRight(n)'
  BY DEF RemovesRight
<1>0. /\ op \in [Nodes -> Ops] /\ op' \in [Nodes -> Ops] /\ Moved(n) /\ RemovesRight(n)
      /\ \A m \in Nodes : db.mem[m] # None => db'.mem[m] # None
      /\ marked \subseteq marked'
      /\ \A m \in Nodes : db.mem[m] # None => db.mem[m] \in Rows
  BY Moves, OpStep, TablesStep, Frames
     DEF Inv, Types, Grows, Framed, Marks, Remove, Tables, Members, Records
<1>1. CASE op'[n].kind = op[n].kind /\ op'[n].on = op[n].on /\ op'[n].rec = op[n].rec
  BY <1>0, <1>1 DEF RemovesRight
<1>2. CASE removePut(n) \/ removeTrust(n) \/ removeRaft(n) \/ releasePut(n)
  <2>1. op'[n].kind = op[n].kind /\ op'[n].on = op[n].on /\ op'[n].rec = op[n].rec
    BY <1>0, <1>2 DEF removePut, removeTrust, removeRaft, releasePut, Goto, Leave, Idle, Ops
  <2> QED BY <1>1, <2>1
<1>3. ASSUME NEW m \in Nodes, NEW o \in Removals, Remove(n, m, o)
      PROVE  RemovesRight(n)'
  <2>1. /\ op'[n].on = m /\ op'[n].rec = [db.mem[m] EXCEPT !.st = "removing", !.op = o]
        /\ db.mem[m] # None /\ m \in marked'
    BY <1>0, <1>3 DEF Remove, Enter
  <2>2. op'[n].rec \in Rows /\ op'[n].rec.st = "removing"
    BY <1>0, <2>1 DEF Rows, Statuses
  <2> QED BY <1>0, <2>1, <2>2 DEF RemovesRight
<1>4. ASSUME NEW m \in Nodes, ReleasePeerAddress(n, m)
      PROVE  RemovesRight(n)'
  <2>1. /\ op'[n].on = m /\ op'[n].rec = [db.mem[m] EXCEPT !.rel = TRUE] /\ op'[n].kind = "release"
        /\ db.mem[m] # None /\ db.mem[m].st = "removed"
    BY <1>0, <1>4 DEF ReleasePeerAddress, Enter
  <2>2. op'[n].rec \in Rows /\ op'[n].rec.st = db.mem[m].st
    BY <1>0, <2>1, RowFacts, Zenon
  <2> QED BY <1>0, <2>1, <2>2 DEF RemovesRight
<1>5. ~AnswerMove(n) \/ op'[n].kind \notin {"remove", "release"}
  <2>1. SUFFICES ASSUME AnswerMove(n) PROVE FALSE
    OBVIOUS
  <2>2. op'[n].kind = op[n].kind
    BY <1>0, <2>1 DEF AnswerMove, Ops
  <2> QED BY <2>1, <2>2 DEF AnswerMove, enrollClaim, enrollReplay, Requests, At, Inv, InPhase
<1> QED BY <1>0, <1>1, <1>2, <1>3, <1>4, <1>5 DEF Moved, RemoveMove, ReleaseMove, Idle

----------------------------------------------------------------------------
(* Data. *)

\* A step that is about to clear, to mark or to start the database of a joining node.
LEMMA DirSteps ==
  ASSUME Inv, [Next]_vars, NEW n \in Nodes, op'[n].kind = "join", op'[n].pc \in {"wipe", "mark", "up"}
  PROVE  op'[n] = op[n] \/ configureBackup(n) \/ configureWipe(n) \/ configureMark(n)
<1>0. op \in [Nodes -> Ops] /\ op' \in [Nodes -> Ops] /\ Moved(n) /\ join \in [Nodes -> Joins]
  BY Moves, OpStep DEF Inv, Types
<1>1. ASSUME NEW t \in Tokens, NEW ad \in JoinAddrs PROVE ~Join(n, t, ad)
  BY <1>0 DEF Join, Enter
<1>2. ~ResumeJoin(n)
  BY <1>0 DEF ResumeJoin, Enter, Resume, JoinPending, Joins, Phases
<1>3. ~(installIdentity(n) \/ joinInstalled(n) \/ configureUp(n) \/ joinLocal(n))
  BY <1>0 DEF installIdentity, joinInstalled, configureUp, joinLocal, Goto, Ops
<1>4. ~joinSave(n)
  BY <1>0 DEF joinSave, Goto, Saved, Resume, Ops
<1>5. ~(joinRemove(n) \/ Promote(n) \/ joinTrust(n) \/ joinActive(n))
  BY <1>0 DEF joinRemove, Promote, joinTrust, joinActive, Goto, Leave, Idle, Ops
<1>6. ~AnswerMove(n)
  BY <1>0 DEF AnswerMove, Ops
<1> QED BY <1>0, <1>1, <1>2, <1>3, <1>4, <1>5, <1>6 DEF Moved, JoinMove, Idle

\* The lab's data stays, and nothing is cleared before its copy is complete.
LEMMA DataStep ==
  Inv /\ [Next]_vars => \A n \in Nodes : DataSafe(n)' /\ (dir[n].data = "lab" => dir'[n].data = "lab")
<1> SUFFICES ASSUME Inv, [Next]_vars, NEW n \in Nodes
             PROVE  DataSafe(n)' /\ (dir[n].data = "lab" => dir'[n].data = "lab")
  OBVIOUS
<1>0. /\ op \in [Nodes -> Ops] /\ op' \in [Nodes -> Ops] /\ DataSafe(n) /\ dir \in [Nodes -> Dirs]
      /\ op[n].kind = "join" => n \notin Founders
  BY OpStep DEF Inv, Types, InPhase, JoinPhase, Joining
<1>1. CASE configureBackup(n)
  BY <1>0, <1>1 DEF configureBackup, BackupDirectory, At, Goto, DataSafe, Dirs, Ops
<1>2. CASE configureWipe(n)
  BY <1>0, <1>2 DEF configureWipe, Wipes, At, Goto, DataSafe, Dirs, Ops
<1>3. CASE configureMark(n)
  BY <1>0, <1>3 DEF configureMark, At, Goto, DataSafe, Dirs, Ops
<1>4. CASE configureUp(n)
  BY <1>0, <1>4 DEF configureUp, At, Goto, DataSafe, Dirs, Ops
<1>5. CASE ~Configures(n)
  <2>1. ASSUME NEW m \in Nodes \ {n}, Configures(m) PROVE dir'[n] = dir[n]
    BY <1>0, <2>1
       DEF Configures, configureBackup, BackupDirectory, configureWipe, configureMark, configureUp
  <2>2. dir'[n] = dir[n]
    BY <1>5, <2>1, Frames DEF Framed
  <2>3. op'[n].kind = "join" /\ op'[n].pc \in {"wipe", "mark", "up"} => op'[n] = op[n]
    BY <1>5, DirSteps DEF Configures
  <2> QED BY <1>0, <2>2, <2>3 DEF DataSafe
<1> QED BY <1>1, <1>2, <1>3, <1>4, <1>5 DEF Configures

\* A node that is promoted has caught up, and nothing is cleared after that.
LEMMA QuorumStep == Inv /\ [Next]_vars => \A n \in Nodes : QuorumSafe(n)'
<1> SUFFICES ASSUME Inv, [Next]_vars, NEW n \in Nodes
             PROVE  QuorumSafe(n)'
  OBVIOUS
<1>0. /\ QuorumSafe(n) /\ Progress(n) /\ raft \in [Nodes -> {"out", "nonvoter", "voter"}]
      /\ join[n] \in Joins
      /\ op[n].kind = "join" => n \notin Founders /\ join[n].phase = JoinPhase[op[n].pc]
  BY JournalMoves DEF Inv, Types, InPhase, JoinPhase, Joining
<1>1. n \in caught /\ n \notin caught' => configureWipe(n)
  BY Frames DEF Framed, Catches, configureWipe, catchUp
<1>2. configureWipe(n) => n \notin Founders /\ join[n].phase = "credentials" /\ UNCHANGED <<join, raft>>
  BY <1>0 DEF configureWipe, At, JoinPhase
<1>3. raft'[n] = "voter" => raft[n] = "voter" \/ Promote(n)
  BY <1>0, Frames DEF Framed, Regroups, configureUp, joinRemove, Promote, removeRaft, removeRQLite
<1>4. Promote(n) => join[n].phase = "nonvoterRemoved" /\ UNCHANGED <<join, caught>>
  BY <1>0 DEF Promote, At, JoinPhase
<1>5. join'[n].phase \in {"promotionReady", "nonvoterRemoved", "promoted", "complete"} => n \in caught
  <2>1. Told(n).phase = "credentials"
    BY <1>0 DEF Told, Joins
  <2>2. \/ join'[n].phase \in {join[n].phase, "validated", "credentials", "nonvoter"}
        \/ join'[n].phase = "promotionReady" /\ n \in caught
        \/ join[n].phase \in {"promotionReady", "nonvoterRemoved", "promoted"}
    <3>1. CASE join'[n] = join[n] \/ join'[n] = Told(n)
      BY <2>1, <3>1
    <3>2. CASE \E t \in Tokens, ad \in JoinAddrs :
                  join'[n] = [phase |-> "validated", tok |-> t, addr |-> ad, mem |-> None]
      BY <3>2
    <3> QED BY <1>0, <3>1, <3>2 DEF Progress
  <2> QED BY <1>0, <2>2 DEF QuorumSafe
<1>6. join[n].phase \in {"nonvoterRemoved", "promoted", "complete"}
        => join'[n].phase \in {"nonvoterRemoved", "promoted", "complete"}
  BY <1>0 DEF Progress
<1>7. CASE configureWipe(n)
  BY <1>0, <1>2, <1>7 DEF QuorumSafe
<1>8. CASE ~configureWipe(n)
  BY <1>0, <1>1, <1>3, <1>4, <1>5, <1>6, <1>8 DEF QuorumSafe
<1> QED BY <1>7, <1>8

----------------------------------------------------------------------------
(* Removals. *)

\* A member that has joined is only ever taken out of the raft group.
LEMMA SettledStays ==
  Inv /\ [Next]_vars => \A n \in Nodes : Settled(n) => Settled(n)' /\ (~InLab(n) => ~InLab(n)')
<1> SUFFICES ASSUME Inv, [Next]_vars, NEW n \in Nodes, Settled(n)
             PROVE  Settled(n)' /\ (~InLab(n) => ~InLab(n)')
  OBVIOUS
<1>0. /\ Progress(n) /\ raft \in [Nodes -> {"out", "nonvoter", "voter"}]
      /\ op[n].kind = "join" => /\ n \notin Founders /\ join[n].phase = JoinPhase[op[n].pc]
                                /\ op[n].pc \in DOMAIN JoinPhase
  BY JournalMoves DEF Inv, Types, InPhase, JoinPhase, Joining
<1>1. op[n].kind # "join"
  BY <1>0 DEF Settled, JoinPhase
<1>2. join[n].phase = "complete" => join'[n].phase = "complete"
  BY <1>0 DEF Progress
<1>3. raft[n] = "out" => raft'[n] = "out"
  BY <1>0, <1>1, Frames DEF Framed, Regroups, configureUp, joinRemove, Promote, removeRaft, removeRQLite, At
<1> QED BY <1>2, <1>3 DEF Settled, InLab

\* A removed member is not written back as active.
LEMMA GoneStays ==
  Inv /\ [Next]_vars => \A n \in gone : n \in Nodes => ~Active(n)'
<1> SUFFICES ASSUME Inv, [Next]_vars, NEW n \in gone, n \in Nodes
             PROVE  ~Active(n)'
  OBVIOUS
<1>0. db \in Tables /\ ~Active(n)
  BY DEF Inv, Types, RemovalSafe
<1>1. ASSUME NEW k \in Nodes, Puts(k) PROVE ~Active(n)'
  <2>1. PICK m \in Nodes, rec \in Rows : putMember(k, m, rec) /\ (m \in gone => rec.st # "active")
    BY <1>1, PutRows
  <2>2. db'.mem = [db.mem EXCEPT ![m] = rec]
    BY <1>0, <2>1, PutType DEF Records
  <2>3. db'.mem[n] = IF n = m THEN rec ELSE db.mem[n]
    BY <1>0, <2>2 DEF Tables, Members
  <2> QED BY <1>0, <2>1, <2>3 DEF Active
<1>2. ASSUME NEW k \in Nodes, monitor(k) PROVE db'.mem = db.mem
  BY <1>0, <1>2 DEF monitor, Tables
<1>3. ASSUME NEW k \in Nodes, NEW t \in Tokens, CreateInvitation(k, t) PROVE db'.mem = db.mem
  BY <1>0, <1>3 DEF CreateInvitation, Tables
<1>4. ASSUME NEW k \in Nodes, NEW m \in Nodes, enrollClaim(k, m) PROVE db'.mem = db.mem
  BY <1>0, <1>4 DEF enrollClaim, Tables
<1> QED BY <1>0, <1>1, <1>2, <1>3, <1>4, Frames DEF Framed, Writes, Puts, Active

\* The tombstone is written when the member has left the raft group.
LEMMA RemovalStep == Inv /\ [Next]_vars => \A n \in Nodes : RemovalSafe(n)'
<1> SUFFICES ASSUME Inv, [Next]_vars, NEW n \in Nodes
             PROVE  RemovalSafe(n)'
  OBVIOUS
<1>0. /\ op \in [Nodes -> Ops] /\ op' \in [Nodes -> Ops] /\ db \in Tables /\ join \in [Nodes -> Joins]
      /\ raft \in [Nodes -> {"out", "nonvoter", "voter"}] /\ Moved(n) /\ Progress(n) /\ RemovalSafe(n)
  BY Moves, OpStep, JournalMoves DEF Inv, Types
<1>1. db'.mem[n] # None => n \in Founders \/ join'[n].phase # "none"
  <2>1. join[n].phase # "none" => join'[n].phase # "none"
    <3>1. Told(n).phase = "credentials"
      BY <1>0 DEF Told, Joins
    <3> QED BY <1>0, <3>1 DEF Progress
  <2>2. ASSUME NEW k \in Nodes, Puts(k) PROVE db'.mem[n] # None => db.mem[n] # None \/ join[n].phase # "none"
    <3>1. PICK m \in Nodes, rec \in Rows :
             putMember(k, m, rec) /\ (db.mem[m] # None \/ join[m].phase # "none")
      BY <2>2, PutRows
    <3>2. db'.mem = [db.mem EXCEPT ![m] = rec]
      BY <1>0, <3>1, PutType DEF Records
    <3>3. db'.mem[n] = IF n = m THEN rec ELSE db.mem[n]
      BY <1>0, <3>2 DEF Tables, Members
    <3> QED BY <3>1, <3>3
  <2>3. ASSUME NEW k \in Nodes, monitor(k) PROVE db'.mem = db.mem
    BY <1>0, <2>3 DEF monitor, Tables
  <2>4. ASSUME NEW k \in Nodes, NEW t \in Tokens, CreateInvitation(k, t) PROVE db'.mem = db.mem
    BY <1>0, <2>4 DEF CreateInvitation, Tables
  <2>5. ASSUME NEW k \in Nodes, NEW m \in Nodes, enrollClaim(k, m) PROVE db'.mem = db.mem
    BY <1>0, <2>5 DEF enrollClaim, Tables
  <2> QED BY <1>0, <2>1, <2>2, <2>3, <2>4, <2>5, Frames DEF Framed, Writes, Puts, RemovalSafe
<1>2. op'[n].kind = "remove" /\ op'[n].calm =>
         /\ (Settled(op[n].on))'
         /\ op'[n].pc \in {"tombstone", "final"} => (~InLab(op[n].on))'
  <2> SUFFICES ASSUME op'[n].kind = "remove", op'[n].calm
               PROVE  /\ (Settled(op[n].on))'
                      /\ op'[n].pc \in {"tombstone", "final"} => (~InLab(op[n].on))'
    OBVIOUS
  <2>0. op[n].kind = "remove" => op[n].on \in Nodes
    BY DEF Inv, RemovesRight
  <2>1. ASSUME op[n].kind = "remove", op'[n].on = op[n].on, (op'[n].calm => op[n].calm),
               op'[n].pc \in {"tombstone", "final"} =>
                  op[n].pc \in {"tombstone", "final"} \/ raft'[op[n].on] = "out"
        PROVE  /\ (Settled(op[n].on))'
               /\ op'[n].pc \in {"tombstone", "final"} => (~InLab(op[n].on))'
    <3> DEFINE m == op[n].on
    <3>1. m \in Nodes /\ Settled(m) /\ (op[n].pc \in {"tombstone", "final"} => ~InLab(m))
      BY <1>0, <2>0, <2>1 DEF RemovalSafe
    <3>2. /\ m \in Founders \/ join'[m].phase = "complete"
          /\ raft[m] = "out" => raft'[m] = "out"
      BY <3>1, SettledStays DEF Settled, InLab
    <3> QED BY <2>1, <3>1, <3>2 DEF Settled, InLab
  <2>2. CASE op'[n] = op[n]
    BY <2>1, <2>2
  <2>3. CASE removePut(n) \/ removeTrust(n)
    <3>1. /\ op[n].kind = "remove" /\ op'[n].on = op[n].on /\ (op'[n].calm => op[n].calm)
          /\ op'[n].pc \in {"tombstone", "final"} => op[n].pc \in {"tombstone", "final"}
      BY <1>0, <2>3 DEF removePut, removeTrust, Goto, Leave, Idle, Removal, Ops
    <3> QED BY <2>1, <3>1
  <2>4. CASE removeRaft(n)
    <3>1. op[n].kind = "remove" /\ op'[n].on = op[n].on /\ (op'[n].calm => op[n].calm)
      BY <1>0, <2>4 DEF removeRaft, At, Goto, Ops
    <3>2. raft'[op[n].on] = "out"
      BY <1>0, <2>0, <2>4, <3>1 DEF removeRaft, removeRQLite
    <3> QED BY <2>1, <3>1, <3>2
  <2>5. ASSUME NEW m \in Nodes, NEW o \in Removals, Remove(n, m, o)
        PROVE  /\ (Settled(op[n].on))'
               /\ op'[n].pc \in {"tombstone", "final"} => (~InLab(op[n].on))'
    <3>1. op'[n].on = m /\ op'[n].pc = "removing" /\ op'[n].calm = (m # None => ~JoinPending(m))
      BY <1>0, <2>5, Zenon DEF Remove, Enter
    <3>2. ~JoinPending(m)
      BY <3>1, LabAssumption
    <3>3. db.mem[m] # None
      BY <2>5 DEF Remove
    <3>4. Settled(m)
      BY <3>2, <3>3 DEF Inv, RemovalSafe, Settled, JoinPending
    <3>5. m \in Founders \/ join'[m].phase = "complete"
      BY <3>4, SettledStays DEF Settled
    <3> QED BY <3>1, <3>5 DEF Settled
  <2>6. ~AnswerMove(n)
    <3>1. SUFFICES ASSUME AnswerMove(n) PROVE FALSE
      OBVIOUS
    <3>2. op'[n].kind = op[n].kind
      BY <1>0, <3>1 DEF AnswerMove, Ops
    <3> QED BY <3>1, <3>2 DEF AnswerMove, enrollClaim, enrollReplay, Requests, At, Inv, InPhase
  <2> QED BY <1>0, <2>2, <2>3, <2>4, <2>5, <2>6 DEF Moved, RemoveMove, Idle
<1>3. n \in gone' => Settled(n)' /\ ~InLab(n)' /\ ~Active(n)'
  <2>1. CASE n \in gone
    BY <1>0, <2>1, SettledStays, GoneStays DEF RemovalSafe
  <2>2. CASE n \notin gone /\ n \in gone'
    <3>1. PICK k \in Nodes : removePut(k) /\ op[k].pc = "tombstone" /\ op[k].calm /\ op[k].on = n
      BY <2>2, Frames DEF Framed, Buries, removePut
    <3>2. Settled(n) /\ ~InLab(n)
      BY <3>1 DEF removePut, Inv, RemovalSafe
    <3>3. op[k].rec \in Rows
      BY <3>1 DEF removePut, Inv, RemovesRight
    <3>4. putMember(k, n, [op[k].rec EXCEPT !.st = "removed"])
      BY <3>1 DEF removePut
    <3> DEFINE rec == [op[k].rec EXCEPT !.st = "removed"]
    <3>5. rec \in Rows /\ rec.st = "removed"
      BY <3>3, RowFacts DEF Statuses
    <3> HIDE DEF rec
    <3>6. db'.mem = [db.mem EXCEPT ![n] = rec]
      BY <1>0, <3>4, <3>5, PutType DEF Records, rec
    <3>7. db'.mem[n] = rec
      BY <1>0, <3>6 DEF Tables, Members
    <3> QED BY <3>2, <3>5, <3>7, SettledStays DEF Active
  <2> QED BY <2>1, <2>2
<1> QED BY <1>1, <1>2, <1>3 DEF RemovalSafe

----------------------------------------------------------------------------
(* The invariant and the theorems. *)

\* The invariant holds when the services start.
LEMMA InvInit == Init => Inv
<1> SUFFICES ASSUME Init PROVE Inv
  OBVIOUS
<1>1. \A n \in Nodes : Member("active", 0, Home(n)) \in Rows /\ Member("active", 0, Home(n)) # None
  BY LabAssumption, RowFacts DEF Statuses
<1>2. Start \in Members /\ \A n \in Nodes : Standalone(n) \in Members /\ Standalone(n)[n] # None
  BY <1>1 DEF Start, Standalone, Members, Records
<1>3. \A n \in Founders : Start[n] # None
  BY <1>1, LabAssumption DEF Start
<1>4. \A n \in Nodes : Start[n] # None => n \in Founders
  BY DEF Start
<1>5. db \in Tables /\ node \in [Nodes -> Copies] /\ join \in [Nodes -> Joins] /\ rot \in [Nodes -> Rotations]
  BY <1>2 DEF Init, Tables, Copies, Joins, Rotations, RotationPhases, Phases, Records
<1>6. ident \in [Nodes -> Idents] /\ dir \in [Nodes -> Dirs]
  <2>1. [cert |-> 0, torn |-> FALSE] \in Idents
    BY DEF Idents
  <2>2. \A d \in {"lab", "standalone"} : [data |-> d, backup |-> "none", marker |-> FALSE] \in Dirs
    BY DEF Dirs
  <2> QED BY <2>1, <2>2 DEF Init
<1>7. op \in [Nodes -> Ops]
  <2>1. Idle \in Ops
    <3>1. "none" \in Kinds /\ "none" \in Steps /\ None \in Records /\ None \in {None} \cup Nodes
      BY DEF Kinds, Steps, Records
    <3>2. TRUE \in BOOLEAN
      OBVIOUS
    <3> QED BY <3>1, <3>2, Zenon DEF Idle, Ops
  <2> QED BY <2>1 DEF Init
<1>8. Types /\ Revisions
  BY <1>2, <1>5, <1>6, <1>7, LabAssumption DEF Types, Revisions, Init
<1>9. \A t \in Tokens : Invited(t)
  BY DEF Init, Invited
<1>10. ASSUME NEW n \in Nodes
       PROVE  Recorded(n) /\ Joining(n) /\ EnrollsRight(n) /\ InPhase(n) /\ RemovesRight(n)
  BY <1>2, <1>3 DEF Init, Recorded, InLab, Joining, EnrollsRight, InPhase, RemovesRight, Idle
<1>11. ASSUME NEW n \in Nodes
       PROVE  DataSafe(n) /\ QuorumSafe(n) /\ RemovalSafe(n)
  BY <1>4 DEF Init, DataSafe, QuorumSafe, RemovalSafe, Idle
<1> QED BY <1>8, <1>9, <1>10, <1>11 DEF Inv

\* Every step preserves the invariant.
LEMMA InvStep == Inv /\ [Next]_vars => Inv'
BY TypesStep, TablesStep, RecordedStep, JoiningStep, EnrollsStep, PhaseStep, RemovesStep, DataStep,
   QuorumStep, RemovalStep DEF Inv

\* It holds in every state.
LEMMA InvTheorem == Spec => []Inv
BY InvInit, InvStep, PTL DEF Spec

\* Every member that counts in the quorum of the lab has its data, and the database an
\* appliance had before it joined is in place or in a complete copy (ConfigureLab, Join):
\* for every lab, however often its joins, removals and rotations fail and are repeated.
THEOREM JoinKeepsData == Spec => []JoinSafe
<1>1. Inv => TypeOK
  <2> SUFFICES ASSUME Inv PROVE TypeOK
    OBVIOUS
  <2>1. ASSUME NEW n \in Nodes
        PROVE  /\ db.mem[n] \in Records /\ db.applied[n] \in 0..db.rev
               /\ \A m \in Nodes : node[n].mem[m] \in Records
               /\ node[n].rev <= db.rev
    BY DEF Inv, Types, Revisions, Tables, Copies, Members
  <2>2. ASSUME NEW n \in Nodes
        PROVE  /\ raft[n] \in {"out", "nonvoter", "voter"} /\ ident[n] \in Idents
               /\ join[n].phase \in Phases /\ rot[n].phase \in RotationPhases /\ op[n].kind \in Kinds
               /\ join[n].phase \notin {"none", "validated"} => n \in Known(join[n].mem)
    BY DEF Inv, Types, Joins, Rotations, Ops, Joining, Known
  <2>3. \A t \in Tokens : db.inv[t] # None => db.inv[t].by \in {None} \cup Nodes
    BY DEF Inv, Types, Tables, Invitations
  <2> QED BY <2>1, <2>2, <2>3 DEF TypeOK, Inv, Types, Idents, RotationPhases, Kinds
<1>2. Inv => VoterCaughtUp
  BY DEF Inv, QuorumSafe, VoterCaughtUp
<1>3. Inv => StandaloneKept
  BY DEF Inv, Types, Dirs, DataSafe, StandaloneKept
<1> QED BY <1>1, <1>2, <1>3, InvTheorem, PTL DEF JoinSafe

\* A join that is repeated never clears the data of the lab (the marker of
\* ConfigureLab).
THEOREM LabDataStays == Spec => LabDataKept
<1>1. Inv /\ [Next]_vars => [\A n \in Nodes : dir[n].data = "lab" => dir'[n].data = "lab"]_vars
  BY DataStep
<1> QED BY <1>1, InvTheorem, PTL DEF Spec, LabDataKept

\* A member removed while it had no join outstanding is never in the raft group and
\* never active again, though removals, rotations and joins of others interleave with
\* its removal (service.go Remove: the raft group first, then the tombstone).
THEOREM RemovedOut == Spec => []RemovedStaysOut
<1>1. Inv => RemovedStaysOut
  BY DEF Inv, Types, RemovalSafe, RemovedStaysOut
<1> QED BY <1>1, InvTheorem, PTL

-----------------------------------------------------------------------------
(***************************************************************************)
(* CredentialsUsable for any lab and any number of joins, removals,        *)
(* rotations and failures.  A rotation has its two credentials accepted    *)
(* before it replaces the files, and withdraws the old one only when every *)
(* member has acknowledged the revision that brought the new one.  That    *)
(* this is enough rests on two facts the invariant records: the table is a *)
(* function of its revision, so a copy at least as new as the revision of  *)
(* the rotation names the new credential; and a member that was not active *)
(* at the wait reads the table again before its join is complete.          *)
(***************************************************************************)

\* The number of the credential a member has when it becomes one: founders made theirs
\* themselves, the others got one signed for their enrollment.
First(n) == IF n \in Founders THEN 0 ELSE 1

\* The records a member has before its rotation, while both credentials are accepted,
\* and when the old one is withdrawn.
Old(n, r)  == r.cert = First(n) /\ r.prev = None
Twin(n, r) == r.cert = First(n) + 1 /\ r.prev = First(n)
New(n, r)  == r.cert = First(n) + 1 /\ r.prev = None

\* The phases of a rotation: journalled, and those in which the files are replaced.
Rotating(n) == rot[n].phase # "none"
Replaced == {"awaiting", "complete"}

\* A record of n, wherever it is kept, belongs to a phase the rotation of n has reached.
FitsIn(n, phase, r) ==
  r # None => \/ Old(n, r)
              \/ phase # "none" /\ Twin(n, r)
              \/ phase \in Replaced /\ New(n, r)

\* It does so now.
Fits(n, r) == FitsIn(n, rot[n].phase, r)

\* The copy of a member: it was read from the lab's database since its join.
HasRead(p) == Settled(p) \/ (op[p].kind = "join" /\ op[p].pc \in {"active", "sync"})

\* Every record of the table, of a copy that counts and of an operation fits.
Fitting ==
  \A n \in Nodes :
     /\ Fits(n, db.mem[n])
     /\ \A p \in Nodes : HasRead(p) => Fits(n, node[p].mem[n])
     /\ \A p \in Nodes : op[p].kind \in {"enroll", "remove", "release"} /\ op[p].on = n => Fits(n, op[p].rec)

\* Who nobody removes is neither being removed nor removed, in any record.
Withdrawn(r) == r # None /\ r.st \in {"removing", "removed"}

\* No member that nobody removes is in such a record.
Unremoved ==
  \A n \in Nodes \ marked :
     /\ ~Withdrawn(db.mem[n])
     /\ \A p \in Nodes : HasRead(p) => ~Withdrawn(node[p].mem[n])
     /\ \A p \in Nodes : op[p].kind = "release" => op[p].on # n

\* A member that nobody removes is active, and knows it while it rotates.
Staying ==
  \A n \in Nodes \ marked :
     /\ Settled(n) \/ (op[n].kind = "join" /\ op[n].pc = "sync") => Active(n)
     /\ Rotating(n) => node[n].mem[n].st = "active"

\* The journal of a rotation.
Journalled ==
  \A n \in Nodes :
     /\ Rotating(n) => Settled(n) /\ rot[n].cert = First(n) + 1
     /\ rot[n].phase = "prepared" => Old(n, rot[n].old) /\ rot[n].old.st = "active"
     /\ rot[n].phase \in {"authorized", "awaiting"} => rot[n].rev <= db.rev

\* From its authorization on, an active record names the new credential, and until the
\* files are replaced the old one as well.
Ahead(n) ==
  rot[n].phase \in {"authorized"} \cup Replaced \/ (op[n].kind = "rotate" /\ op[n].pc = "authorize")

\* This holds of the table, and of the copy that the withdrawal is made from.
Authorizing ==
  \A n \in Nodes :
     /\ Ahead(n) /\ Active(n) => db.mem[n].cert = First(n) + 1
     /\ rot[n].phase \in Replaced /\ node[n].mem[n].st = "active" /\ op[n].kind = "rotate" /\ op[n].pc = "clear"
          => node[n].mem[n].cert = First(n) + 1

\* The files of a member follow the phases of its join and of its rotation.
Installed(n) == op[n].kind = "join" /\ op[n].pc \in {"backup", "wipe", "mark", "up", "joined"}

\* A half-written pair is one that a start repairs, and a whole one is that of the phase.
Identified ==
  \A n \in Nodes :
     /\ ident[n].torn => \/ join[n].phase = "credentials" /\ ~Installed(n)
                         \/ rot[n].phase = "authorized" /\ ~(op[n].kind = "rotate" /\ op[n].pc = "restart")
     /\ n \in Founders \/ join[n].phase \notin {"none", "validated", "credentials"} \/ Installed(n) =>
          \/ ident[n].cert = First(n) /\ rot[n].phase \notin Replaced
                                      /\ ~(op[n].kind = "rotate" /\ op[n].pc = "restart")
          \/ ident[n].cert = First(n) + 1 /\ rot[n].phase \in {"authorized"} \cup Replaced
     /\ Active(n) => n \in Founders \/ join[n].phase \in {"promoted", "complete"}

\* What a member has read and acknowledged.
Acknowledged ==
  \A p \in Nodes :
     /\ IF Settled(p) THEN db.applied[p] <= node[p].rev ELSE db.applied[p] = 0
     /\ Settled(p) /\ node[p].rev = db.rev => node[p].mem = db.mem
     /\ \A m \in Nodes \ marked :
          Settled(p) /\ rot[m].phase \in {"authorized", "awaiting"} /\ node[p].rev >= rot[m].rev
             => node[p].mem[m] # None /\ node[p].mem[m].cert = First(m) + 1

\* The old credential is withdrawn only when everybody knows the new one.
Withdrawing(m) ==
  \/ op[m].kind = "rotate" /\ op[m].pc = "clear"
  \/ db.mem[m] # None /\ New(m, db.mem[m])

\* Then everybody who stays has the new one in his copy.
Informed ==
  \A m, p \in Nodes \ marked :
     Withdrawing(m) /\ Settled(p) => node[p].mem[m] # None /\ node[p].mem[m].cert = First(m) + 1

\* The inductive invariant, beside that of LabMembership_proof.
CredInv == /\ Fitting /\ Unremoved /\ Staying /\ Journalled /\ Authorizing /\ Identified
           /\ Acknowledged /\ Informed

----------------------------------------------------------------------------
(* What a step does to the records, the copies, the journals and the files. *)

\* The record of m is replaced by one that its writer has prepared.
Rewritten(m) ==
  LET r == db'.mem[m]
  IN  /\ db'.rev = db.rev + 1 /\ db'.applied = db.applied
      /\ \A k \in Nodes \ {m} : db'.mem[k] = db.mem[k]
      /\ r \in Rows
      /\ \/ \E a \in Nodes : /\ op[a].kind = "enroll" /\ op[a].on = m
                             /\ r.st = "enrolling" /\ r.cert = op[a].rec.cert /\ r.prev = op[a].rec.prev
         \/ \E a \in Nodes : /\ op[a].kind \in {"remove", "release"} /\ op[a].on = m
                             /\ r.st # "active" /\ r.cert = op[a].rec.cert /\ r.prev = op[a].rec.prev
         \/ /\ op[m].kind = "join" /\ op[m].pc = "active"
            /\ r.st = "active" /\ r.cert = node[m].mem[m].cert /\ r.prev = node[m].mem[m].prev
         \/ /\ op[m].kind = "rotate" /\ op[m].pc = "put"
            /\ r.st = rot[m].old.st /\ r.cert = rot[m].cert /\ r.prev = rot[m].old.cert
         \/ /\ op[m].kind = "rotate" /\ op[m].pc = "clear"
            /\ r.st = node[m].mem[m].st /\ r.cert = node[m].mem[m].cert /\ r.prev = None

\* The fields of a record that is replaced.
LEMMA RowFields ==
  ASSUME NEW r \in Rows
  PROVE  /\ \A st \in Statuses : /\ [r EXCEPT !.st = st].cert = r.cert
                                 /\ [r EXCEPT !.st = st].prev = r.prev
         /\ [r EXCEPT !.prev = None].st = r.st /\ [r EXCEPT !.prev = None].cert = r.cert
         /\ [r EXCEPT !.prev = None].prev = None
         /\ \A c \in Nat : /\ [r EXCEPT !.cert = c, !.prev = r.cert].st = r.st
                           /\ [r EXCEPT !.cert = c, !.prev = r.cert].cert = c
                           /\ [r EXCEPT !.cert = c, !.prev = r.cert].prev = r.cert
BY DEF Rows

\* A write of one record leaves the others and the acknowledgements.
LEMMA PutFields ==
  ASSUME Inv, NEW n \in Nodes, NEW m \in Nodes, NEW rec \in Rows, putMember(n, m, rec)
  PROVE  /\ db'.rev = db.rev + 1 /\ db'.applied = db.applied
         /\ \A k \in Nodes \ {m} : db'.mem[k] = db.mem[k]
         /\ db'.mem[m] = rec
<1>1. db \in Tables /\ rec \in Records
  BY DEF Inv, Types, Records
<1>2. /\ db'.rev = db.rev + 1 /\ db'.applied = db.applied
      /\ db'.mem = [db.mem EXCEPT ![m] = rec]
  BY <1>1, PutType
<1> QED BY <1>1, <1>2 DEF Tables, Members

\* Every step leaves the records or replaces one of them.
LEMMA RecordSteps ==
  ASSUME Inv, [Next]_vars
  PROVE  \/ db'.mem = db.mem /\ db'.rev = db.rev
         \/ \E m \in Nodes : Rewritten(m)
<1>0. db \in Tables
  BY DEF Inv, Types
<1>1. ASSUME NEW n \in Nodes, enrollPut(n) PROVE Rewritten(op[n].on)
  <2>1. /\ op[n].on \in Nodes /\ op[n].rec \in Rows /\ op[n].rec.st = "enrolling"
        /\ op[n].kind = "enroll"
    BY <1>1 DEF enrollPut, Inv, EnrollsRight
  <2>2. putMember(n, op[n].on, op[n].rec)
    BY <1>1 DEF enrollPut
  <2> QED BY <2>1, <2>2, PutFields DEF Rewritten
<1>2. ASSUME NEW n \in Nodes, removePut(n) \/ releasePut(n) PROVE Rewritten(op[n].on)
  <2>1. /\ op[n].on \in Nodes /\ op[n].rec \in Rows /\ op[n].rec.st # "active"
        /\ op[n].kind \in {"remove", "release"}
    BY <1>2 DEF removePut, releasePut, At, Inv, RemovesRight
  <2>2. PICK rec \in Rows : /\ putMember(n, op[n].on, rec) /\ rec.st # "active"
                            /\ rec.cert = op[n].rec.cert /\ rec.prev = op[n].rec.prev
    <3>1. CASE putMember(n, op[n].on, op[n].rec)
      BY <2>1, <3>1, Zenon
    <3>2. CASE putMember(n, op[n].on, [op[n].rec EXCEPT !.st = "removed"])
      <4>1. /\ [op[n].rec EXCEPT !.st = "removed"] \in Rows
            /\ [op[n].rec EXCEPT !.st = "removed"].st # "active"
        BY <2>1, RowFacts DEF Statuses
      <4>2. /\ [op[n].rec EXCEPT !.st = "removed"].cert = op[n].rec.cert
            /\ [op[n].rec EXCEPT !.st = "removed"].prev = op[n].rec.prev
        BY <2>1, RowFields DEF Statuses
      <4> QED BY <3>2, <4>1, <4>2, Zenon
    <3> QED BY <1>2, <3>1, <3>2 DEF removePut, releasePut
  <2> QED BY <2>1, <2>2, PutFields DEF Rewritten
<1>3. ASSUME NEW n \in Nodes PROVE node[n].mem[n] \in Rows
  BY DEF Inv, Types, Copies, Members, Records, Recorded
<1>4. ASSUME NEW n \in Nodes, joinActive(n) PROVE Rewritten(n)
  <2> DEFINE mine == node[n].mem[n]
             rec == [mine EXCEPT !.st = "active"]
  <2>1. putMember(n, n, rec) /\ op[n].kind = "join" /\ op[n].pc = "active"
    BY <1>4 DEF joinActive, At
  <2>2. rec \in Rows /\ rec.st = "active" /\ rec.cert = mine.cert /\ rec.prev = mine.prev
    BY <1>3, RowFacts, RowFields DEF Statuses
  <2> HIDE DEF rec
  <2> QED BY <2>1, <2>2, PutFields DEF Rewritten
<1>5. ASSUME NEW n \in Nodes, rotatePut(n) PROVE Rewritten(n)
  <2>1. rot[n].old \in Rows /\ rot[n].cert \in Nat
    BY <1>5 DEF rotatePut, At, Inv, InPhase, RotationPhase, Types, Rotations
  <2>2. putMember(n, n, Both(n)) /\ op[n].kind = "rotate" /\ op[n].pc = "put"
    BY <1>5 DEF rotatePut, At
  <2>3. /\ Both(n) \in Rows /\ Both(n).st = rot[n].old.st /\ Both(n).cert = rot[n].cert
        /\ Both(n).prev = rot[n].old.cert
    BY <2>1, RowFacts, RowFields DEF Both
  <2> QED BY <2>2, <2>3, PutFields DEF Rewritten
<1>6. ASSUME NEW n \in Nodes, rotateClear(n) PROVE Rewritten(n)
  <2> DEFINE mine == node[n].mem[n]
             rec == [mine EXCEPT !.prev = None]
  <2>1. putMember(n, n, rec) /\ op[n].kind = "rotate" /\ op[n].pc = "clear"
    BY <1>6 DEF rotateClear, At
  <2>2. rec \in Rows /\ rec.st = mine.st /\ rec.cert = mine.cert /\ rec.prev = None
    BY <1>3, RowFacts, RowFields
  <2> HIDE DEF rec
  <2> QED BY <2>1, <2>2, PutFields DEF Rewritten
<1>7. ASSUME NEW n \in Nodes, monitor(n) \/ \E t \in Tokens : CreateInvitation(n, t)
      PROVE  db'.mem = db.mem /\ db'.rev = db.rev
  BY <1>0, <1>7 DEF monitor, CreateInvitation, Tables
<1>8. ASSUME NEW n \in Nodes, NEW m \in Nodes, enrollClaim(n, m)
      PROVE  db'.mem = db.mem /\ db'.rev = db.rev
  BY <1>0, <1>8 DEF enrollClaim, Tables
<1>9. \A n \in Nodes : enrollPut(n) \/ removePut(n) \/ releasePut(n) => op[n].on \in Nodes
  BY DEF enrollPut, removePut, releasePut, At, Inv, EnrollsRight, RemovesRight
<1> QED BY <1>1, <1>2, <1>4, <1>5, <1>6, <1>7, <1>8, <1>9, Frames DEF Framed, Writes

\* A member brings its copy up to date.
Reads(p) ==
  /\ node'[p].mem = db.mem /\ node'[p].rev = db.rev /\ node[p].rev <= db.rev
  /\ db'.mem = db.mem /\ db'.rev = db.rev /\ InLab(p)

\* Every step leaves a copy or brings it up to date, but for the one of a join that
\* installs its credentials.
LEMMA CopySteps ==
  ASSUME Inv, [Next]_vars, NEW p \in Nodes
  PROVE  \/ node'[p] = node[p]
         \/ Reads(p)
         \/ op[p].kind = "join" /\ op[p].pc = "installed" /\ op'[p].kind = "join" /\ op'[p].pc = "backup"
<1>0. db \in Tables /\ node \in [Nodes -> Copies] /\ op \in [Nodes -> Ops]
  BY DEF Inv, Types
<1>1. ASSUME NEW n \in Nodes, refreshTrust(n), db'.mem = db.mem, db'.rev = db.rev
      PROVE  node'[p] = node[p] \/ Reads(p)
  BY <1>0, <1>1, RefreshType DEF Reads, refreshTrust, Copies, Tables
<1>2. ASSUME NEW n \in Nodes, joinInstalled(n)
      PROVE  \/ node'[p] = node[p]
             \/ op[p].kind = "join" /\ op[p].pc = "installed" /\ op'[p].kind = "join" /\ op'[p].pc = "backup"
  BY <1>0, <1>2 DEF joinInstalled, At, Goto, ApplyTrust, Ops
<1>3. ASSUME NEW n \in Nodes, monitor(n) \/ \E t \in Tokens : CreateInvitation(n, t)
      PROVE  refreshTrust(n) /\ db'.mem = db.mem /\ db'.rev = db.rev
  BY <1>0, <1>3 DEF monitor, CreateInvitation, Tables
<1>4. ASSUME NEW n \in Nodes,
             \/ enrollTrust(n) \/ joinTrust(n) \/ removeTrust(n) \/ releaseTrust(n)
             \/ rotateStart(n) \/ rotateResume(n) \/ rotateAuthorized(n) \/ rotateAwait(n)
             \/ rotateComplete(n)
      PROVE  refreshTrust(n) /\ db'.mem = db.mem /\ db'.rev = db.rev
  BY <1>4 DEF enrollTrust, joinTrust, removeTrust, releaseTrust, rotateStart, rotateResume,
              rotateAuthorized, rotateAwait, rotateComplete
<1> QED BY <1>1, <1>2, <1>3, <1>4, Frames DEF Framed, Copying

\* Every step leaves the rotation of n or takes it one phase on.
LEMMA RotationSteps ==
  ASSUME Inv, [Next]_vars, NEW n \in Nodes
  PROVE  \/ rot'[n] = rot[n]
         \/ /\ rot[n].phase = "none" /\ rot'[n].phase = "prepared" /\ Settled(n)
            /\ db.mem[n] \in Rows /\ db.mem[n].st = "active"
            /\ rot'[n].cert = db.mem[n].cert + 1 /\ rot'[n].old = db.mem[n]
            /\ Reads(n) /\ op'[n].kind = "rotate" /\ op'[n].pc = "put"
         \/ /\ op[n].kind = "rotate" /\ op[n].pc = "authorize" /\ op'[n].kind = "rotate" /\ op'[n].pc = "install"
            /\ rot[n].phase = "prepared" /\ rot'[n].phase = "authorized"
            /\ rot'[n].cert = rot[n].cert /\ rot'[n].rev = db.rev /\ Reads(n)
         \/ /\ op[n].kind = "rotate" /\ op[n].pc = "restart" /\ op'[n].kind = "rotate" /\ op'[n].pc = "await"
            /\ rot[n].phase = "authorized" /\ rot'[n].phase = "awaiting"
            /\ rot'[n].cert = rot[n].cert /\ rot'[n].rev = rot[n].rev
            /\ db'.mem = db.mem /\ db'.rev = db.rev
         \/ /\ op[n].kind = "rotate" /\ op[n].pc = "complete" /\ op'[n] = Idle
            /\ rot[n].phase = "awaiting" /\ rot'[n].phase = "complete"
            /\ rot'[n].cert = rot[n].cert /\ Reads(n)
<1>0. /\ db \in Tables /\ node \in [Nodes -> Copies] /\ op \in [Nodes -> Ops]
      /\ rot \in [Nodes -> Rotations] /\ InPhase(n)
  BY DEF Inv, Types
<1>1. ASSUME NEW m \in Nodes, m # n, Rotates(m) PROVE rot'[n] = rot[n]
  BY <1>0, <1>1 DEF Rotates, rotateStart, rotateAuthorized, rotateRestart, rotateComplete
<1>2. ASSUME refreshTrust(n), UNCHANGED db PROVE Reads(n)
  BY <1>0, <1>2, RefreshType DEF Reads, refreshTrust, Copies, Tables
<1>3. CASE rotateStart(n)
  <2>1. Settled(n) /\ db.mem[n] \in Rows
    BY <1>0, <1>3 DEF rotateStart, Serves, JoinPending, Settled, Inv, Recorded, RemovalSafe, Tables,
                      Members, Records
  <2>2. Reads(n)
    BY <1>2, <1>3 DEF rotateStart
  <2>3. op'[n].kind = "rotate" /\ op'[n].pc = "put"
    BY <1>0, <1>3 DEF rotateStart, Enter
  <2> QED BY <1>0, <1>3, <2>1, <2>2, <2>3 DEF rotateStart
<1>4. CASE rotateAuthorized(n)
  <2>1. Reads(n)
    BY <1>2, <1>4 DEF rotateAuthorized
  <2> QED BY <1>0, <1>4, <2>1 DEF rotateAuthorized, At, Goto, Ops, Rotations, InPhase, RotationPhase
<1>5. CASE rotateRestart(n)
  BY <1>0, <1>5 DEF rotateRestart, At, Goto, Ops, Rotations, InPhase, RotationPhase
<1>6. CASE rotateComplete(n)
  <2>1. Reads(n)
    BY <1>2, <1>6 DEF rotateComplete
  <2> QED BY <1>0, <1>6, <2>1 DEF rotateComplete, At, Leave, Ops, Rotations, InPhase, RotationPhase
<1> QED BY <1>1, <1>3, <1>4, <1>5, <1>6, Frames DEF Framed, Rotates

\* An operation about to install files is a join or a rotation.
LEMMA Installers ==
  ASSUME Inv, NEW n \in Nodes, op[n].pc = "install"
  PROVE  \/ op[n].kind = "join" /\ join[n].phase = "credentials"
         \/ op[n].kind = "rotate" /\ rot[n].phase = "authorized"
<1>1. /\ op[n].kind \in Kinds /\ InPhase(n) /\ EnrollsRight(n)
  BY DEF Inv, Types, Ops
<1> QED BY <1>1 DEF InPhase, EnrollsRight, Kinds, JoinPhase, RotationPhase

\* Every step leaves the files of n, begins to write them, ends, or repairs them.
LEMMA FileSteps ==
  ASSUME Inv, [Next]_vars, NEW n \in Nodes
  PROVE  \/ ident'[n] = ident[n]
         \/ /\ op[n].pc = "install" /\ op'[n].pc = "installed" /\ op'[n].kind = op[n].kind
            /\ ident'[n].cert = ident[n].cert /\ join'[n] = join[n] /\ rot'[n] = rot[n]
            /\ db'.mem = db.mem
         \/ /\ op[n].kind = "join" /\ op[n].pc = "installed"
            /\ op'[n].kind = "join" /\ op'[n].pc = "backup" /\ ident'[n].cert = 1 /\ ~ident'[n].torn
            /\ join'[n] = join[n] /\ rot'[n] = rot[n] /\ db'.mem = db.mem
         \/ /\ op[n].kind = "rotate" /\ op[n].pc = "installed"
            /\ op'[n].kind = "rotate" /\ op'[n].pc = "restart"
            /\ ident'[n].cert = rot[n].cert /\ ~ident'[n].torn
            /\ join'[n] = join[n] /\ rot'[n] = rot[n] /\ db'.mem = db.mem
         \/ /\ op'[n] = Idle /\ ident'[n] = PreparePendingIdentity(n)
            /\ join'[n] = join[n] /\ rot'[n] = rot[n] /\ db'.mem = db.mem
<1>0. op \in [Nodes -> Ops] /\ ident \in [Nodes -> Idents]
  BY DEF Inv, Types
<1>1. ASSUME NEW m \in Nodes, m # n, Installs(m) PROVE ident'[n] = ident[n]
  BY <1>0, <1>1 DEF Installs, installIdentity, joinInstalled, rotateInstalled, Restart
<1>2. CASE installIdentity(n)
  BY <1>0, <1>2 DEF installIdentity, Goto, Ops, Idents
<1>3. CASE joinInstalled(n)
  BY <1>0, <1>3 DEF joinInstalled, At, Goto, Ops, Idents
<1>4. CASE rotateInstalled(n)
  BY <1>0, <1>4 DEF rotateInstalled, At, Goto, Ops, Idents
<1>5. CASE Restart(n)
  <2>1. op'[n] = Idle
    BY <1>0, <1>5, FailedType DEF Restart, Stopped
  <2>2. ident'[n] = PreparePendingIdentity(n)
    BY <1>0, <1>5, Zenon DEF Restart
  <2> QED BY <1>5, <2>1, <2>2 DEF Restart
<1> QED BY <1>1, <1>2, <1>3, <1>4, <1>5, Frames DEF Framed, Installs

\* Acknowledgements: only a member that has joined, of what it has just read.
LEMMA AckSteps ==
  ASSUME Inv, [Next]_vars, NEW p \in Nodes
  PROVE  \/ db'.applied[p] = db.applied[p]
         \/ db'.applied[p] = db.rev /\ Reads(p) /\ Settled(p)
<1>0. db \in Tables /\ node \in [Nodes -> Copies]
  BY DEF Inv, Types
<1>1. ASSUME NEW n \in Nodes, Puts(n) PROVE db'.applied = db.applied
  <2>1. PICK m \in Nodes, rec \in Rows : putMember(n, m, rec)
    BY <1>1, PutRows
  <2> QED BY <2>1, PutFields
<1>2. ASSUME NEW n \in Nodes, monitor(n)
      PROVE  \/ db'.applied[p] = db.applied[p]
             \/ db'.applied[p] = db.rev /\ Reads(p) /\ Settled(p)
  <2>1. CASE n = p
    <3>1. Settled(p)
      BY <1>2, <2>1 DEF monitor, refreshTrust, JoinPending, Settled, Inv, Recorded, RemovalSafe
    <3>2. db'.applied[p] = db.rev /\ db'.mem = db.mem /\ db'.rev = db.rev
      BY <1>0, <1>2, <2>1 DEF monitor, Tables
    <3>3. Reads(p)
      BY <1>0, <1>2, <2>1, <3>2, RefreshType DEF Reads, monitor, refreshTrust, Copies, Tables
    <3> QED BY <3>1, <3>2, <3>3
  <2>2. CASE n # p
    BY <1>0, <1>2, <2>2 DEF monitor, Tables
  <2> QED BY <2>1, <2>2
<1>3. ASSUME NEW n \in Nodes, NEW t \in Tokens, CreateInvitation(n, t) PROVE db'.applied = db.applied
  BY <1>0, <1>3 DEF CreateInvitation, Tables
<1>4. ASSUME NEW n \in Nodes, NEW m \in Nodes, enrollClaim(n, m) PROVE db'.applied = db.applied
  BY <1>0, <1>4 DEF enrollClaim, Tables
<1> QED BY <1>1, <1>2, <1>3, <1>4, Frames DEF Framed, Writes, Puts

----------------------------------------------------------------------------
(* How an operation gets to a step. *)

\* How an operation gets to the steps the invariant speaks of.
LEMMA JoinSteps ==
  ASSUME Inv, [Next]_vars, NEW n \in Nodes, op'[n].kind = "join"
  PROVE  /\ op'[n].pc = "active" => \/ op[n].kind = "join" /\ op[n].pc = "active" /\ op'[n] = op[n]
                                    \/ Reads(n)
         /\ op'[n].pc = "sync" => \/ op[n].kind = "join" /\ op[n].pc = "sync"
                                  \/ /\ op[n].kind = "join" /\ op[n].pc = "active"
                                     /\ db'.mem[n] # None /\ db'.mem[n].st = "active"
         /\ Installed(n)' => \/ Installed(n)
                             \/ op[n].kind = "join" /\ op[n].pc = "installed" /\ ident'[n].cert = 1
                                /\ ~ident'[n].torn
<1>0. /\ op \in [Nodes -> Ops] /\ op' \in [Nodes -> Ops] /\ Moved(n) /\ join[n] \in Joins
      /\ db \in Tables /\ node \in [Nodes -> Copies] /\ ident \in [Nodes -> Idents]
  BY Moves, OpStep DEF Inv, Types
<1>1. CASE op'[n] \in {op[n], Idle}
  BY <1>1 DEF Idle, Installed
<1>2. CASE AnswerMove(n)
  BY <1>0, <1>2 DEF AnswerMove, Installed, Ops
<1>3. CASE \E t \in Tokens, ad \in JoinAddrs : Join(n, t, ad)
  BY <1>0, <1>3 DEF Join, Enter, Installed
<1>4. CASE ResumeJoin(n)
  BY <1>0, <1>4 DEF ResumeJoin, Enter, Resume, JoinPending, Joins, Phases, Installed
<1>5. CASE installIdentity(n) \/ joinLocal(n) \/ joinRemove(n) \/ Promote(n)
  BY <1>0, <1>5 DEF installIdentity, joinLocal, joinRemove, Promote, Goto, Ops, Installed
<1>6. CASE joinInstalled(n)
  BY <1>0, <1>6 DEF joinInstalled, At, Goto, Ops, Installed, Idents
<1>7. CASE configureBackup(n) \/ configureWipe(n)
  BY <1>0, <1>7 DEF configureBackup, configureWipe, BackupDirectory, At, Goto, Ops, Installed
<1>8. CASE configureMark(n) \/ configureUp(n)
  BY <1>0, <1>8 DEF configureMark, configureUp, At, Goto, Ops, Installed
<1>9. CASE joinSave(n)
  BY <1>0, <1>9 DEF joinSave, Saved, Resume, Goto, Ops, Installed
<1>10. CASE joinTrust(n)
  <2>1. Reads(n)
    BY <1>0, <1>10, RefreshType DEF joinTrust, Reads, refreshTrust, Copies, Tables
  <2> QED BY <1>0, <1>10, <2>1 DEF joinTrust, Goto, Leave, Idle, Ops, Installed
<1>11. CASE joinActive(n)
  <2> DEFINE mine == node[n].mem[n]
             rec == [mine EXCEPT !.st = "active"]
  <2>1. putMember(n, n, rec)
    BY <1>11 DEF joinActive
  <2>2. mine \in Rows
    BY DEF Inv, Types, Copies, Members, Records, Recorded
  <2>3. rec \in Rows /\ rec # None /\ rec.st = "active"
    BY <2>2, RowFacts DEF Statuses
  <2> HIDE DEF rec
  <2>4. db'.mem[n] = rec
    BY <2>1, <2>3, PutFields
  <2> QED BY <1>0, <1>11, <2>3, <2>4 DEF joinActive, At, Goto, Ops, Installed
<1> QED
  BY <1>0, <1>1, <1>2, <1>3, <1>4, <1>5, <1>6, <1>7, <1>8, <1>9, <1>10, <1>11
     DEF Moved, JoinMove

\* The same for a rotation.
LEMMA RotateSteps ==
  ASSUME Inv, [Next]_vars, NEW n \in Nodes, op'[n].kind = "rotate"
  PROVE  /\ op'[n].pc = "authorize" =>
              \/ op[n].kind = "rotate" /\ op[n].pc = "authorize" /\ op'[n] = op[n]
              \/ /\ op[n].kind = "rotate" /\ op[n].pc = "put" /\ rot[n].phase = "prepared"
                 /\ db'.mem[n].cert = rot[n].cert
         /\ op'[n].pc = "restart" =>
              \/ op[n].kind = "rotate" /\ op[n].pc = "restart"
              \/ op[n].kind = "rotate" /\ op[n].pc = "installed" /\ ident'[n].cert = rot[n].cert
                 /\ ~ident'[n].torn
         /\ op'[n].pc = "clear" =>
              \/ op[n].kind = "rotate" /\ op[n].pc = "clear"
              \/ /\ op[n].kind = "rotate" /\ op[n].pc = "await" /\ rot[n].phase = "awaiting"
                 /\ UNCHANGED <<rot, db, marked>> /\ Reads(n)
                 /\ PendingMembers(n) = {}
<1>0. /\ op \in [Nodes -> Ops] /\ op' \in [Nodes -> Ops] /\ Moved(n) /\ InPhase(n)
      /\ db \in Tables /\ node \in [Nodes -> Copies] /\ ident \in [Nodes -> Idents]
      /\ rot[n] \in Rotations
  BY Moves, OpStep DEF Inv, Types
<1>1. CASE op'[n] \in {op[n], Idle}
  BY <1>1 DEF Idle
<1>2. CASE AnswerMove(n)
  BY <1>0, <1>2 DEF AnswerMove, Ops
<1>3. CASE rotateStart(n) \/ rotateResume(n)
  BY <1>0, <1>3 DEF rotateStart, rotateResume, Enter
<1>4. CASE installIdentity(n) \/ rotateAuthorized(n) \/ rotateRestart(n) \/ rotateClear(n)
  BY <1>0, <1>4 DEF installIdentity, rotateAuthorized, rotateRestart, rotateClear, Goto, Ops
<1>5. CASE rotateInstalled(n)
  BY <1>0, <1>5 DEF rotateInstalled, At, Goto, Ops, Idents
<1>6. CASE rotatePut(n)
  <2>1. rot[n].old \in Rows /\ rot[n].cert \in Nat /\ rot[n].phase = "prepared"
    BY <1>0, <1>6 DEF rotatePut, At, InPhase, RotationPhase, Rotations
  <2>2. Both(n) \in Rows /\ Both(n).cert = rot[n].cert
    BY <2>1, RowFacts, RowFields DEF Both
  <2>3. db'.mem[n] = Both(n)
    BY <1>6, <2>2, PutFields DEF rotatePut
  <2> QED BY <1>0, <1>6, <2>1, <2>2, <2>3 DEF rotatePut, At, Goto, Ops
<1>7. CASE rotateAwait(n)
  <2>1. Reads(n)
    BY <1>0, <1>7, RefreshType DEF rotateAwait, Reads, refreshTrust, Copies, Tables
  <2>2. rot[n].phase = "awaiting"
    BY <1>0, <1>7 DEF rotateAwait, At, InPhase, RotationPhase
  <2> QED BY <1>0, <1>7, <2>1, <2>2 DEF rotateAwait, At, Goto, Leave, Idle, Ops
<1> QED BY <1>0, <1>1, <1>2, <1>3, <1>4, <1>5, <1>6, <1>7 DEF Moved, RotateMove

\* A record an operation carries is one it began with: the record of the enrollment, or
\* the one the lab has of the member that is to be removed or released.
LEMMA CarrySteps ==
  ASSUME Inv, [Next]_vars, NEW p \in Nodes, op'[p].kind \in {"enroll", "remove", "release"}
  PROVE  \/ op'[p].kind = op[p].kind /\ op'[p].on = op[p].on /\ op'[p].rec = op[p].rec
         \/ /\ op'[p].kind = "enroll" /\ op'[p].on \in Nodes \ Founders
            /\ op'[p].rec.cert = 1 /\ op'[p].rec.prev = None
         \/ /\ op'[p].kind \in {"remove", "release"} /\ db.mem[op'[p].on] \in Rows /\ op'[p].on \in Nodes
            /\ op'[p].rec.cert = db.mem[op'[p].on].cert /\ op'[p].rec.prev = db.mem[op'[p].on].prev
            /\ op'[p].kind = "release" => db.mem[op'[p].on].st = "removed"
<1>0. /\ op \in [Nodes -> Ops] /\ op' \in [Nodes -> Ops] /\ Moved(p) /\ db \in Tables
  BY Moves, OpStep DEF Inv, Types
<1>1. CASE op'[p] \in {op[p], Idle}
  BY <1>1 DEF Idle
<1>2. CASE AnswerMove(p)
  BY <1>0, <1>2 DEF AnswerMove, Ops
<1>3. CASE enrollPut(p) \/ enrollTrust(p)
  BY <1>0, <1>3 DEF enrollPut, enrollTrust, Goto, Ops
<1>4. CASE enrollCheck(p)
  BY <1>0, <1>4, FailedType DEF enrollCheck, Goto, Idle, Ops
<1>5. ASSUME NEW m \in Nodes, enrollClaim(p, m) \/ enrollReplay(p, m)
      PROVE  /\ op'[p].on \in Nodes \ Founders
             /\ op'[p].rec.cert = 1 /\ op'[p].rec.prev = None /\ op'[p].kind = "enroll"
  <2>1. m # p /\ op[m].kind = "join" /\ op[m].pc = "request"
    BY <1>5 DEF enrollClaim, enrollReplay, Requests, At, Idle
  <2>2. m \notin Founders
    BY <2>1 DEF Inv, InPhase, JoinPhase, Joining
  <2> DEFINE new(pc) == [kind |-> "enroll", pc |-> pc, on |-> m, rec |-> Enrolling(m), calm |-> FALSE]
  <2>3. op'[p] = new("put") \/ op'[p] = new("check")
    BY <1>0, <1>5, <2>1 DEF enrollClaim, enrollReplay
  <2>4. op'[p].on = m /\ op'[p].rec = Enrolling(m) /\ op'[p].kind = "enroll"
    BY <2>3
  <2> QED BY <2>2, <2>4 DEF Enrolling, Member
<1>6. CASE removePut(p) \/ removeTrust(p) \/ removeRaft(p)
  BY <1>0, <1>6 DEF removePut, removeTrust, removeRaft, Goto, Leave, Idle, Ops
<1>7. CASE releasePut(p)
  BY <1>0, <1>7 DEF releasePut, Goto, Ops
<1>8. ASSUME NEW m \in Nodes, NEW o \in Removals, Remove(p, m, o)
      PROVE  /\ db.mem[op'[p].on] \in Rows /\ op'[p].on \in Nodes /\ op'[p].kind = "remove"
             /\ op'[p].rec.cert = db.mem[op'[p].on].cert /\ op'[p].rec.prev = db.mem[op'[p].on].prev
  <2> DEFINE old == db.mem[m]
             rec == [old EXCEPT !.st = "removing", !.op = o]
  <2>1. old \in Rows
    BY <1>0, <1>8 DEF Remove, Tables, Members, Records
  <2>2. rec.cert = old.cert /\ rec.prev = old.prev
    BY <2>1 DEF Rows
  <2> HIDE DEF rec
  <2>3. op'[p].on = m /\ op'[p].rec = rec /\ op'[p].kind = "remove"
    BY <1>0, <1>8 DEF Remove, Enter, rec
  <2> QED BY <2>1, <2>2, <2>3
<1>9. ASSUME NEW m \in Nodes, ReleasePeerAddress(p, m)
      PROVE  /\ db.mem[op'[p].on] \in Rows /\ op'[p].on \in Nodes /\ op'[p].kind = "release"
             /\ op'[p].rec.cert = db.mem[op'[p].on].cert /\ op'[p].rec.prev = db.mem[op'[p].on].prev
             /\ db.mem[op'[p].on].st = "removed"
  <2> DEFINE old == db.mem[m]
             rec == [old EXCEPT !.rel = TRUE]
  <2>1. old \in Rows /\ old.st = "removed"
    BY <1>0, <1>9 DEF ReleasePeerAddress, Tables, Members, Records
  <2>2. rec.cert = old.cert /\ rec.prev = old.prev
    BY <2>1 DEF Rows
  <2> HIDE DEF rec
  <2>3. op'[p].on = m /\ op'[p].rec = rec /\ op'[p].kind = "release"
    BY <1>0, <1>9 DEF ReleasePeerAddress, Enter, rec
  <2> QED BY <2>1, <2>2, <2>3
<1>10. CASE op'[p].kind = "enroll" /\ EnrollMove(p)
  BY <1>3, <1>4, <1>5, <1>10 DEF EnrollMove
<1>11. CASE op'[p].kind = "remove" /\ RemoveMove(p)
  BY <1>6, <1>8, <1>11 DEF RemoveMove
<1>12. CASE op'[p].kind = "release" /\ ReleaseMove(p)
  BY <1>7, <1>9, <1>12 DEF ReleaseMove
<1> QED BY <1>0, <1>1, <1>2, <1>10, <1>11, <1>12 DEF Moved

\* A join is complete when the member has read the lab's records once more.
LEMMA SettleSteps ==
  ASSUME Inv, [Next]_vars, NEW n \in Nodes, Settled(n)'
  PROVE  Settled(n) \/ (op[n].kind = "join" /\ op[n].pc = "sync" /\ Reads(n))
<1>0. /\ join \in [Nodes -> Joins] /\ db \in Tables /\ node \in [Nodes -> Copies] /\ InPhase(n)
  BY DEF Inv, Types
<1>1. CASE UNCHANGED join
  BY <1>1 DEF Settled
<1>2. ASSUME NEW m \in Nodes, m # n, Journals(m), ~enrollReply(m) PROVE join'[n] = join[n]
  BY <1>0, <1>2 DEF Journals, Join, joinSave, joinLocal, joinTrust
<1>3. ASSUME NEW m \in Nodes, enrollReply(m) PROVE join'[n].phase \in {join[n].phase, "credentials"}
  BY <1>0, <1>3 DEF enrollReply, Joins
<1>4. CASE joinTrust(n) /\ op[n].pc = "sync"
  <2>1. Reads(n)
    BY <1>0, <1>4, RefreshType DEF joinTrust, Reads, refreshTrust, Copies, Tables
  <2> QED BY <1>4, <2>1 DEF joinTrust
<1>5. CASE (\E t \in Tokens, ad \in JoinAddrs : Join(n, t, ad)) \/ joinSave(n) \/ joinLocal(n)
  BY <1>0, <1>5 DEF Join, joinSave, joinLocal, Saved, Settled, Joins
<1>6. CASE joinTrust(n) /\ op[n].pc # "sync"
  BY <1>0, <1>6 DEF joinTrust, Settled
<1> QED BY <1>1, <1>2, <1>3, <1>4, <1>5, <1>6, Frames DEF Framed, Journals, Settled

\* A copy that counts was read in this step, or counted before and is the same.
LEMMA ReadSteps ==
  ASSUME Inv, [Next]_vars, NEW p \in Nodes
  PROVE  /\ HasRead(p)' => Reads(p) \/ (HasRead(p) /\ node'[p] = node[p])
         /\ Settled(p)' => Reads(p) \/ (Settled(p) /\ node'[p] = node[p])
<1>1. ASSUME op[p].kind = "join", op[p].pc = "installed", op'[p].kind = "join", op'[p].pc = "backup"
      PROVE  ~Settled(p)' /\ ~HasRead(p)'
  <2>1. p \notin Founders /\ join'[p].phase = "credentials"
    BY <1>1, PhaseStep DEF Inv, InPhase, JoinPhase, Joining
  <2> QED BY <1>1, <2>1 DEF HasRead, Settled
<1>2. HasRead(p)' => Reads(p) \/ HasRead(p)
  BY SettleSteps, JoinSteps DEF HasRead
<1>3. Settled(p)' => Reads(p) \/ Settled(p)
  BY SettleSteps
<1> QED BY <1>1, <1>2, <1>3, CopySteps

----------------------------------------------------------------------------
(* Each part of the invariant is preserved. *)

\* A record that fits goes on fitting.
LEMMA FitsStay ==
  ASSUME Inv, [Next]_vars, NEW n \in Nodes, NEW r, Fits(n, r)
  PROVE  FitsIn(n, rot'[n].phase, r)
BY RotationSteps DEF Fits, FitsIn, Replaced

\* First is a number.
LEMMA FirstType == \A n \in Nodes : First(n) \in Nat /\ First(n) # None /\ First(n) + 1 # None
BY LabAssumption DEF First

\* Every record of the members table goes on fitting.
LEMMA RecordsFit ==
  ASSUME Inv, CredInv, [Next]_vars, NEW n \in Nodes
  PROVE  FitsIn(n, rot'[n].phase, db'.mem[n])
<1>1. CASE db'.mem = db.mem
  BY <1>1, FitsStay DEF CredInv, Fitting
<1>2. ASSUME Rewritten(n) PROVE Fits(n, db'.mem[n])
  <2> DEFINE r == db'.mem[n]
  <2>1. ASSUME NEW a \in Nodes, op[a].kind \in {"enroll", "remove", "release"}, op[a].on = n,
               r.cert = op[a].rec.cert, r.prev = op[a].rec.prev
        PROVE  Fits(n, r)
    <3>1. Fits(n, op[a].rec) /\ op[a].rec # None
      BY <2>1, RowFacts DEF CredInv, Fitting, Inv, EnrollsRight, RemovesRight
    <3> QED BY <2>1, <3>1 DEF Fits, FitsIn, Old, Twin, New
  <2>2. node[n].mem[n] # None
    BY DEF Inv, Recorded
  <2>3. CASE op[n].kind = "join" /\ op[n].pc = "active" /\ r.cert = node[n].mem[n].cert
                /\ r.prev = node[n].mem[n].prev
    BY <2>2, <2>3 DEF CredInv, Fitting, HasRead, Fits, FitsIn, Old, Twin, New
  <2>4. CASE op[n].kind = "rotate" /\ op[n].pc = "put" /\ r.cert = rot[n].cert /\ r.prev = rot[n].old.cert
    <3>1. rot[n].phase = "prepared"
      BY <2>4 DEF Inv, InPhase, RotationPhase
    <3> QED BY <2>4, <3>1 DEF CredInv, Journalled, Rotating, Fits, FitsIn, Old, Twin
  <2>5. CASE op[n].kind = "rotate" /\ op[n].pc = "clear" /\ r.cert = node[n].mem[n].cert /\ r.prev = None
    <3>1. rot[n].phase = "awaiting"
      BY <2>5 DEF Inv, InPhase, RotationPhase
    <3>2. Settled(n)
      BY <3>1 DEF CredInv, Journalled, Rotating
    <3> QED BY <2>2, <2>5, <3>1, <3>2 DEF CredInv, Fitting, HasRead, Fits, FitsIn, Old, Twin, New, Replaced
  <2> QED BY <1>2, <2>1, <2>3, <2>4, <2>5 DEF Rewritten
<1>3. ASSUME NEW m \in Nodes, Rewritten(m), m # n PROVE db'.mem[n] = db.mem[n]
  BY <1>3 DEF Rewritten
<1> QED BY <1>1, <1>2, <1>3, FitsStay, RecordSteps DEF CredInv, Fitting

\* Fitting is preserved: whatever is read or carried is a record of the table.
LEMMA FittingStep ==
  ASSUME Inv, CredInv, [Next]_vars
  PROVE  Fitting'
<1> SUFFICES ASSUME NEW n \in Nodes, NEW p \in Nodes
             PROVE  /\ HasRead(p)' => FitsIn(n, rot'[n].phase, node'[p].mem[n])
                    /\ op'[p].kind \in {"enroll", "remove", "release"} /\ op'[p].on = n
                         => FitsIn(n, rot'[n].phase, op'[p].rec)
  BY RecordsFit DEF Fitting, Fits
<1>0. Fits(n, db.mem[n])
  BY DEF CredInv, Fitting
<1>1. HasRead(p)' => Fits(n, node'[p].mem[n])
  BY <1>0, ReadSteps DEF Reads, CredInv, Fitting
<1>2. ASSUME op'[p].kind \in {"enroll", "remove", "release"}, op'[p].on = n
      PROVE  Fits(n, op'[p].rec)
  <2>1. CASE op'[p].kind = op[p].kind /\ op'[p].on = op[p].on /\ op'[p].rec = op[p].rec
    BY <1>2, <2>1 DEF CredInv, Fitting
  <2>2. CASE n \notin Founders /\ op'[p].rec.cert = 1 /\ op'[p].rec.prev = None
    BY <2>2 DEF Fits, FitsIn, Old, First
  <2>3. CASE /\ db.mem[n] \in Rows
             /\ op'[p].rec.cert = db.mem[n].cert /\ op'[p].rec.prev = db.mem[n].prev
    <3>1. db.mem[n] # None
      BY <2>3, RowFacts
    <3> QED BY <1>0, <2>3, <3>1 DEF Fits, FitsIn, Old, Twin, New
  <2> QED BY <1>2, <2>1, <2>2, <2>3, CarrySteps
<1> QED BY <1>1, <1>2, FitsStay

\* Unremoved is preserved: only removals write records of members that leave.
LEMMA UnremovedStep ==
  ASSUME Inv, CredInv, [Next]_vars
  PROVE  Unremoved'
<1> SUFFICES ASSUME NEW n \in Nodes \ marked', NEW p \in Nodes
             PROVE  /\ ~Withdrawn(db'.mem[n])
                    /\ HasRead(p)' => ~Withdrawn(node'[p].mem[n])
                    /\ op'[p].kind = "release" => op'[p].on # n
  BY DEF Unremoved, Withdrawn
<1>0. n \in Nodes \ marked
  BY Frames DEF Framed, Marks, Remove
<1>1. /\ ~Withdrawn(db.mem[n]) /\ (HasRead(p) => ~Withdrawn(node[p].mem[n]))
      /\ \A q \in Nodes : op[q].kind = "release" => op[q].on # n
      /\ \A q \in Nodes : op[q].kind = "remove" => op[q].on # n
      /\ HasRead(n) => ~Withdrawn(node[n].mem[n])
  BY <1>0 DEF CredInv, Unremoved, Inv, RemovesRight
<1>2. HasRead(p)' => ~Withdrawn(node'[p].mem[n])
  BY <1>1, ReadSteps DEF Reads
<1>3. op'[p].kind = "release" => op'[p].on # n
  <2>1. db.mem[n] \in Rows /\ db.mem[n].st = "removed" => Withdrawn(db.mem[n])
    BY RowFacts DEF Withdrawn
  <2> QED BY <1>1, <2>1, CarrySteps
<1>4. ASSUME Rewritten(n) PROVE ~Withdrawn(db'.mem[n])
  <2>1. op[n].kind = "rotate" /\ op[n].pc = "clear" => HasRead(n)
    BY DEF Inv, InPhase, RotationPhase, CredInv, Journalled, Rotating, HasRead
  <2>2. op[n].kind = "rotate" /\ op[n].pc = "put" => rot[n].old.st = "active"
    BY DEF Inv, InPhase, RotationPhase, CredInv, Journalled
  <2>3. node[n].mem[n] # None
    BY DEF Inv, Recorded
  <2> QED BY <1>1, <1>4, <2>1, <2>2, <2>3 DEF Rewritten, Withdrawn
<1>5. ASSUME NEW m \in Nodes, Rewritten(m), m # n PROVE db'.mem[n] = db.mem[n]
  BY <1>5 DEF Rewritten
<1> QED BY <1>1, <1>2, <1>3, <1>4, <1>5, RecordSteps

\* Staying is preserved.
LEMMA StayingStep ==
  ASSUME Inv, CredInv, [Next]_vars
  PROVE  Staying'
<1> SUFFICES ASSUME NEW n \in Nodes \ marked'
             PROVE  /\ Settled(n)' \/ (op'[n].kind = "join" /\ op'[n].pc = "sync")
                         => db'.mem[n] # None /\ db'.mem[n].st = "active"
                    /\ rot'[n].phase # "none" => node'[n].mem[n].st = "active"
  BY DEF Staying, Active, Rotating
<1>0. n \in Nodes \ marked
  BY Frames DEF Framed, Marks, Remove
<1>1. /\ Settled(n) \/ (op[n].kind = "join" /\ op[n].pc = "sync") => Active(n)
      /\ rot[n].phase # "none" => node[n].mem[n].st = "active" /\ Settled(n)
      /\ \A q \in Nodes : op[q].kind \in {"release", "remove"} => op[q].on # n
  BY <1>0 DEF CredInv, Staying, Unremoved, Journalled, Rotating, Inv, RemovesRight
<1>2. ASSUME Rewritten(n), Settled(n) \/ (op[n].kind = "join" /\ op[n].pc = "sync")
      PROVE  db'.mem[n] # None /\ db'.mem[n].st = "active"
  <2>1. op[n].kind = "rotate" /\ op[n].pc = "clear" => rot[n].phase # "none"
    BY DEF Inv, InPhase, RotationPhase
  <2>2. op[n].kind = "rotate" /\ op[n].pc = "put" => rot[n].old.st = "active"
    BY DEF Inv, InPhase, RotationPhase, CredInv, Journalled
  <2>3. \A a \in Nodes : op[a].kind = "enroll" => op[a].on # n
    BY <1>2 DEF Inv, EnrollsRight, InPhase, JoinPhase, Joining, Settled
  <2>4. db'.mem[n] # None
    BY <1>2, RowFacts DEF Rewritten
  <2> QED BY <1>1, <1>2, <2>1, <2>2, <2>3, <2>4 DEF Rewritten
<1>3. ASSUME Settled(n) \/ (op[n].kind = "join" /\ op[n].pc = "sync")
      PROVE  db'.mem[n] # None /\ db'.mem[n].st = "active"
  <2>1. ASSUME NEW m \in Nodes, Rewritten(m), m # n PROVE db'.mem[n] = db.mem[n]
    BY <2>1 DEF Rewritten
  <2> QED BY <1>1, <1>2, <1>3, <2>1, RecordSteps DEF Active
<1>4. Settled(n)' \/ (op'[n].kind = "join" /\ op'[n].pc = "sync")
         => db'.mem[n] # None /\ db'.mem[n].st = "active"
  BY <1>3, SettleSteps, JoinSteps
<1>5. ASSUME rot'[n].phase # "none" PROVE node'[n].mem[n].st = "active"
  <2>1. Settled(n)
    BY <1>1, <1>5, RotationSteps
  <2>2. Settled(n)'
    BY <2>1, SettledStays
  <2>3. Reads(n) => node'[n].mem[n].st = "active"
    BY <1>1, <2>1 DEF Reads, Active
  <2> QED BY <1>1, <1>5, <2>2, <2>3, RotationSteps, ReadSteps
<1> QED BY <1>4, <1>5

\* Journalled is preserved.
LEMMA JournalledStep ==
  ASSUME Inv, CredInv, [Next]_vars
  PROVE  Journalled'
<1> SUFFICES ASSUME NEW n \in Nodes
             PROVE  /\ rot'[n].phase # "none" => Settled(n)' /\ rot'[n].cert = First(n) + 1
                    /\ rot'[n].phase = "prepared" =>
                          /\ rot'[n].old.cert = First(n) /\ rot'[n].old.prev = None
                          /\ rot'[n].old.st = "active"
                    /\ rot'[n].phase \in {"authorized", "awaiting"} => rot'[n].rev <= db'.rev
  BY DEF Journalled, Rotating, Old
<1>0. /\ rot[n].phase # "none" => Settled(n) /\ rot[n].cert = First(n) + 1
      /\ rot[n].phase = "prepared" => /\ rot[n].old.cert = First(n) /\ rot[n].old.prev = None
                                      /\ rot[n].old.st = "active"
      /\ rot[n].phase \in {"authorized", "awaiting"} => rot[n].rev <= db.rev
      /\ db.rev <= db'.rev /\ db.rev \in Nat /\ db'.rev \in Nat /\ rot[n].rev \in Nat
  BY TablesStep DEF CredInv, Journalled, Rotating, Old, Grows, Inv, Types, Tables, Rotations
<1>1. CASE rot'[n] = rot[n]
  BY <1>0, <1>1, SettledStays
<1>2. CASE rot'[n] # rot[n] /\ rot[n].phase = "none"
  <2>1. db.mem[n] \in Rows /\ Fits(n, db.mem[n]) /\ db.mem[n] # None
    BY <1>2, RotationSteps, RowFacts DEF CredInv, Fitting
  <2>2. db.mem[n].cert = First(n) /\ db.mem[n].prev = None
    BY <1>2, <2>1 DEF Fits, FitsIn, Old, Replaced
  <2> QED BY <1>2, <2>2, RotationSteps, SettledStays
<1>3. CASE rot'[n] # rot[n] /\ rot[n].phase # "none"
  BY <1>0, <1>3, RotationSteps, SettledStays DEF Reads
<1> QED BY <1>1, <1>2, <1>3

\* Authorizing is preserved.
LEMMA AuthorizingStep ==
  ASSUME Inv, CredInv, [Next]_vars
  PROVE  Authorizing'
<1> SUFFICES ASSUME NEW n \in Nodes
             PROVE  /\ Ahead(n)' /\ Active(n)' => db'.mem[n].cert = First(n) + 1
                    /\ /\ rot'[n].phase \in Replaced /\ node'[n].mem[n].st = "active"
                       /\ op'[n].kind = "rotate" /\ op'[n].pc = "clear"
                       => node'[n].mem[n].cert = First(n) + 1
  BY DEF Authorizing
<1>0. /\ Ahead(n) /\ Active(n) => db.mem[n].cert = First(n) + 1
      /\ /\ rot[n].phase \in Replaced /\ node[n].mem[n].st = "active"
         /\ op[n].kind = "rotate" /\ op[n].pc = "clear"
         => node[n].mem[n].cert = First(n) + 1
      /\ Rotating(n) => Settled(n) /\ rot[n].cert = First(n) + 1
      /\ op[n].kind = "rotate" => rot[n].phase = RotationPhase[op[n].pc] /\ op[n].pc \in DOMAIN RotationPhase
      /\ op[n].kind = "join" => join[n].phase = JoinPhase[op[n].pc] /\ n \notin Founders
                                /\ op[n].pc \in DOMAIN JoinPhase
  BY DEF CredInv, Authorizing, Journalled, Inv, InPhase, Joining, JoinPhase
<1>1. op[n].kind = "rotate" => Rotating(n)
  BY <1>0 DEF Rotating, RotationPhase
<1>2. Ahead(n) => Rotating(n)
  BY <1>1 DEF Ahead, Rotating, Replaced
<1>3. ASSUME Ahead(n), Rewritten(n), Active(n)' PROVE db'.mem[n].cert = First(n) + 1
  <2>1. ~(op[n].kind = "join" /\ op[n].pc = "active")
    BY <1>0, <1>2, <1>3 DEF Settled, JoinPhase
  <2>2. op[n].kind = "rotate" /\ op[n].pc = "clear" => rot[n].phase \in Replaced
    BY <1>0 DEF RotationPhase, Replaced
  <2> QED BY <1>0, <1>1, <1>3, <2>1, <2>2 DEF Rewritten, Active
<1>4. ASSUME Ahead(n), Active(n)' PROVE db'.mem[n].cert = First(n) + 1
  <2>1. ASSUME NEW m \in Nodes, Rewritten(m), m # n PROVE db'.mem[n] = db.mem[n]
    BY <2>1 DEF Rewritten
  <2> QED BY <1>0, <1>3, <1>4, <2>1, RecordSteps DEF Active
<1>5. ASSUME Ahead(n)', ~Ahead(n) PROVE db'.mem[n].cert = First(n) + 1
  <2>1. rot'[n].phase \in {"authorized"} \cup Replaced => Ahead(n)
    BY <1>0, RotationSteps DEF Ahead, RotationPhase, Replaced
  <2> QED BY <1>0, <1>1, <1>5, <2>1, RotateSteps DEF Ahead
<1>6. ASSUME node'[n].mem[n].st = "active", op'[n].kind = "rotate", op'[n].pc = "clear"
      PROVE  node'[n].mem[n].cert = First(n) + 1
  <2>1. rot[n].phase = "awaiting"
    BY <1>0, <1>6, RotateSteps DEF RotationPhase
  <2>2. Reads(n) => node'[n].mem[n].cert = First(n) + 1
    <3>1. node'[n].mem[n] # None
      BY CopiesStep
    <3> QED BY <1>0, <1>6, <2>1, <3>1 DEF Reads, Ahead, Active, Replaced
  <2>3. Settled(n)'
    BY <1>0, <2>1, SettledStays DEF Rotating
  <2> QED BY <1>0, <1>6, <2>1, <2>2, <2>3, ReadSteps, RotateSteps DEF Replaced
<1> QED BY <1>4, <1>5, <1>6

\* A join leaves the phase in which it installs its credentials when it has.
LEMMA CredentialSteps ==
  ASSUME Inv, [Next]_vars, NEW n \in Nodes, join[n].phase = "credentials", join'[n] # join[n]
  PROVE  Installed(n) /\ join'[n].phase = "nonvoter"
<1>0. join \in [Nodes -> Joins] /\ InPhase(n)
  BY DEF Inv, Types
<1>1. ASSUME NEW m \in Nodes, m # n, Journals(m), ~enrollReply(m) PROVE join'[n] = join[n]
  BY <1>0, <1>1 DEF Journals, Join, joinSave, joinLocal, joinTrust
<1>2. ASSUME NEW m \in Nodes, enrollReply(m) PROVE join'[n] = join[n]
  BY <1>0, <1>2 DEF enrollReply
<1>3. CASE joinSave(n)
  BY <1>0, <1>3 DEF joinSave, Saved, InPhase, JoinPhase, Installed, Joins
<1>4. CASE (\E t \in Tokens, ad \in JoinAddrs : Join(n, t, ad)) \/ joinLocal(n) \/ joinTrust(n)
  BY <1>0, <1>4 DEF Join, joinLocal, joinTrust, At, InPhase, JoinPhase
<1> QED BY <1>1, <1>2, <1>3, <1>4, Frames DEF Framed, Journals

\* Identified is preserved.
LEMMA IdentifiedStep ==
  ASSUME Inv, CredInv, [Next]_vars
  PROVE  Identified'
<1> DEFINE Ready(n) == n \in Founders \/ join[n].phase \notin {"none", "validated", "credentials"} \/ Installed(n)
           Restarting(n) == op[n].kind = "rotate" /\ op[n].pc = "restart"
           OnOld(n) == ident[n].cert = First(n) /\ rot[n].phase \notin Replaced /\ ~Restarting(n)
           OnNew(n) == ident[n].cert = First(n) + 1 /\ rot[n].phase \in {"authorized"} \cup Replaced
<1> SUFFICES ASSUME NEW n \in Nodes
             PROVE  /\ ident'[n].torn => \/ join'[n].phase = "credentials" /\ ~Installed(n)'
                                         \/ rot'[n].phase = "authorized" /\ ~Restarting(n)'
                    /\ Ready(n)' => OnOld(n)' \/ OnNew(n)'
                    /\ Active(n)' => n \in Founders \/ join'[n].phase \in {"promoted", "complete"}
  BY DEF Identified
<1>0. /\ ident[n].torn => \/ join[n].phase = "credentials" /\ ~Installed(n)
                          \/ rot[n].phase = "authorized" /\ ~Restarting(n)
      /\ Ready(n) => OnOld(n) \/ OnNew(n)
      /\ Active(n) => n \in Founders \/ join[n].phase \in {"promoted", "complete"}
      /\ Rotating(n) => Settled(n) /\ rot[n].cert = First(n) + 1
      /\ op[n].kind = "rotate" => rot[n].phase = RotationPhase[op[n].pc] /\ op[n].pc \in DOMAIN RotationPhase
      /\ op[n].kind = "join" => join[n].phase = JoinPhase[op[n].pc] /\ n \notin Founders
                                /\ op[n].pc \in DOMAIN JoinPhase
      /\ join[n].phase # "none" => n \notin Founders
  BY DEF CredInv, Identified, Journalled, Inv, InPhase, Joining, JoinPhase
<1>1. ASSUME ident'[n].torn
      PROVE  \/ join'[n].phase = "credentials" /\ ~Installed(n)'
             \/ rot'[n].phase = "authorized" /\ ~Restarting(n)'
  <2>1. CASE ident'[n] = ident[n] /\ join[n].phase = "credentials" /\ ~Installed(n)
    BY <1>1, <2>1, CredentialSteps, JoinSteps DEF Installed
  <2>2. CASE ident'[n] = ident[n] /\ rot[n].phase = "authorized" /\ ~Restarting(n)
    BY <1>1, <2>2, RotationSteps, RotateSteps
  <2>3. CASE op[n].pc = "install" /\ op'[n].pc = "installed" /\ op'[n].kind = op[n].kind
              /\ join'[n] = join[n] /\ rot'[n] = rot[n]
    BY <2>3, Installers DEF Installed
  <2>4. CASE ident'[n] = PreparePendingIdentity(n)
    BY <1>0, <1>1, <2>4 DEF PreparePendingIdentity
  <2> QED BY <1>0, <1>1, <2>1, <2>2, <2>3, <2>4, FileSteps
<1>2. ASSUME Ready(n)' PROVE OnOld(n)' \/ OnNew(n)'
  <2>1. ASSUME Installed(n)', ~Ready(n) PROVE OnOld(n)'
    <3>1. op'[n].kind = "join" /\ ident'[n].cert = 1
      BY <2>1, JoinSteps DEF Installed
    <3>2. n \notin Founders /\ ~Rotating(n)
      BY <1>0, <2>1 DEF Settled
    <3> QED BY <3>1, <3>2, RotationSteps DEF Rotating, First, Replaced
  <2>2. ASSUME join'[n].phase \notin {"none", "validated", "credentials"}, ~Ready(n)
        PROVE  FALSE
    <3>1. join[n] \in Joins /\ Progress(n)
      BY JournalMoves DEF Inv, Types
    <3>2. join[n].phase \in {"none", "validated", "credentials"} /\ ~Installed(n)
      BY <2>2, Zenon
    <3>3. join'[n] # join[n]
      BY <2>2, <3>2
    <3>4. CASE join[n].phase = "none"
      <4>1. \E t \in Tokens, ad \in JoinAddrs :
               join'[n] = [phase |-> "validated", tok |-> t, addr |-> ad, mem |-> None]
        BY <3>1, <3>3, <3>4 DEF Progress
      <4> QED BY <2>2, <4>1
    <3>5. CASE join[n].phase = "validated"
      <4>1. join'[n] = Told(n)
        BY <3>1, <3>3, <3>5 DEF Progress
      <4> QED BY <2>2, <3>1, <4>1 DEF Told, Joins
    <3>6. CASE join[n].phase = "credentials"
      BY <3>2, <3>3, <3>6, CredentialSteps
    <3> QED BY <3>2, <3>4, <3>5, <3>6
  <2>3. ASSUME Ready(n), ident'[n].cert = ident[n].cert PROVE OnOld(n)' \/ OnNew(n)'
    <3>1. Restarting(n)' => ident'[n].cert = First(n) + 1 /\ rot'[n].phase = "authorized"
      <4>1. InPhase(n)'
        BY PhaseStep
      <4> QED BY <1>0, <2>3, <4>1, RotateSteps, FirstType DEF InPhase, RotationPhase, Rotating
    <3>2. ASSUME ident[n].cert = First(n) + 1 PROVE rot'[n].phase \in {"authorized"} \cup Replaced
      BY <1>0, <2>3, <3>2, RotationSteps, FirstType DEF Replaced
    <3>3. ASSUME ident[n].cert = First(n) PROVE rot'[n].phase \notin Replaced
      BY <1>0, <2>3, <3>3, RotationSteps, FirstType DEF Replaced, RotationPhase
    <3> QED BY <1>0, <2>3, <3>1, <3>2, <3>3
  <2>4. CASE Ready(n) /\ op[n].kind = "join" /\ op[n].pc = "installed"
    BY <1>0, <2>4 DEF Installed, JoinPhase
  <2>5. CASE op[n].kind = "rotate" /\ op[n].pc = "installed" /\ ident'[n].cert = rot[n].cert
              /\ rot'[n] = rot[n]
    BY <1>0, <2>5 DEF RotationPhase, Rotating
  <2>6. CASE op'[n] = Idle /\ ident'[n] = PreparePendingIdentity(n) /\ rot'[n] = rot[n] /\ join'[n] = join[n]
    <3>1. ~Restarting(n)' /\ ~Installed(n)'
      BY <2>6 DEF Idle, Installed
    <3>2. CASE rot[n].phase \in {"authorized", "awaiting"}
      BY <1>0, <2>6, <3>2 DEF PreparePendingIdentity, Rotating, Replaced
    <3>3. CASE rot[n].phase \notin {"authorized", "awaiting"} /\ join[n].phase = "credentials"
      BY <1>0, <1>2, <2>6, <3>1, <3>3
    <3>4. CASE rot[n].phase \notin {"authorized", "awaiting"} /\ join[n].phase # "credentials"
      <4>1. ident'[n] = ident[n]
        BY <2>6, <3>4 DEF PreparePendingIdentity
      <4> QED BY <1>2, <2>1, <2>2, <2>3, <4>1
    <3> QED BY <3>2, <3>3, <3>4
  <2> QED BY <1>2, <2>1, <2>2, <2>3, <2>4, <2>5, <2>6, FileSteps
<1>3. ASSUME Active(n)' PROVE n \in Founders \/ join'[n].phase \in {"promoted", "complete"}
  <2>1. ASSUME Rewritten(n) PROVE n \in Founders \/ join[n].phase \in {"promoted", "complete"}
    BY <1>0, <1>3, <2>1 DEF Rewritten, Active, JoinPhase, RotationPhase, Rotating, Settled
  <2>2. ASSUME NEW m \in Nodes, Rewritten(m), m # n PROVE db'.mem[n] = db.mem[n]
    BY <2>2 DEF Rewritten
  <2>3. n \in Founders \/ join[n].phase \in {"promoted", "complete"}
    BY <1>0, <1>3, <2>1, <2>2, RecordSteps DEF Active
  <2> QED BY <2>3, JournalMoves DEF Progress
<1> QED BY <1>1, <1>2, <1>3

\* Acknowledged is preserved.
LEMMA AcknowledgedStep ==
  ASSUME Inv, CredInv, [Next]_vars
  PROVE  Acknowledged'
<1> SUFFICES ASSUME NEW p \in Nodes
             PROVE  /\ IF Settled(p)' THEN db'.applied[p] <= node'[p].rev ELSE db'.applied[p] = 0
                    /\ Settled(p)' /\ node'[p].rev = db'.rev => node'[p].mem = db'.mem
                    /\ \A m \in Nodes \ marked' :
                         /\ Settled(p)' /\ rot'[m].phase \in {"authorized", "awaiting"}
                         /\ node'[p].rev >= rot'[m].rev
                         => node'[p].mem[m] # None /\ node'[p].mem[m].cert = First(m) + 1
  BY DEF Acknowledged
<1>0. /\ db \in Tables /\ db' \in Tables /\ node[p] \in Copies
      /\ db.applied[p] <= db.rev /\ node[p].rev <= db.rev
      /\ IF Settled(p) THEN db.applied[p] <= node[p].rev ELSE db.applied[p] = 0
      /\ Settled(p) /\ node[p].rev = db.rev => node[p].mem = db.mem
  BY TablesStep DEF Inv, Types, Revisions, CredInv, Acknowledged
<1>1. IF Settled(p)' THEN db'.applied[p] <= node'[p].rev ELSE db'.applied[p] = 0
  <2>1. CASE Settled(p)'
    BY <1>0, <2>1, AckSteps, ReadSteps DEF Reads, Tables, Copies
  <2>2. CASE ~Settled(p)'
    BY <1>0, <2>2, AckSteps, SettledStays
  <2> QED BY <2>1, <2>2
<1>2. Settled(p)' /\ node'[p].rev = db'.rev => node'[p].mem = db'.mem
  BY <1>0, ReadSteps, RecordSteps DEF Reads, Rewritten, Tables, Copies
<1>3. ASSUME NEW m \in Nodes \ marked', Settled(p)', rot'[m].phase \in {"authorized", "awaiting"},
             node'[p].rev >= rot'[m].rev
      PROVE  node'[p].mem[m] # None /\ node'[p].mem[m].cert = First(m) + 1
  <2>0. m \in Nodes \ marked
    BY Frames DEF Framed, Marks, Remove
  <2>1. Ahead(m) /\ Rotating(m) /\ rot[m] \in Rotations
    BY <1>3, RotationSteps DEF Ahead, Rotating, Replaced, Inv, Types
  <2>2. Active(m) /\ db.mem[m].cert = First(m) + 1
    BY <2>0, <2>1 DEF CredInv, Journalled, Staying, Authorizing
  <2>3. CASE Reads(p)
    BY <2>2, <2>3 DEF Reads, Active
  <2>4. CASE Settled(p) /\ node'[p] = node[p] /\ rot[m].phase = "prepared"
    <3>1. rot'[m].rev = db.rev
      BY <1>3, <2>4, RotationSteps
    <3>2. node[p].mem = db.mem
      BY <1>0, <1>3, <2>4, <3>1 DEF Tables, Copies
    <3> QED BY <2>2, <2>4, <3>2 DEF Active
  <2>5. CASE Settled(p) /\ node'[p] = node[p] /\ rot[m].phase # "prepared"
    <3>1. rot[m].phase \in {"authorized", "awaiting"} /\ rot'[m].rev = rot[m].rev
      BY <1>3, <2>1, <2>5, RotationSteps DEF Rotating
    <3> QED BY <1>3, <2>0, <2>5, <3>1 DEF CredInv, Acknowledged
  <2> QED BY <1>3, <2>3, <2>4, <2>5, ReadSteps
<1> QED BY <1>1, <1>2, <1>3

\* Informed is preserved: the await found every member that stays at the new revision.
LEMMA InformedStep ==
  ASSUME Inv, CredInv, [Next]_vars
  PROVE  Informed'
<1> SUFFICES ASSUME NEW m \in Nodes \ marked', NEW p \in Nodes \ marked', Withdrawing(m)', Settled(p)'
             PROVE  node'[p].mem[m] # None /\ node'[p].mem[m].cert = First(m) + 1
  BY DEF Informed
<1>0. m \in Nodes \ marked /\ p \in Nodes \ marked
  BY Frames DEF Framed, Marks, Remove
<1>1. op[m].kind = "rotate" => Rotating(m) /\ rot[m].phase = RotationPhase[op[m].pc]
                               /\ op[m].pc \in DOMAIN RotationPhase
  BY DEF Inv, InPhase, Rotating, RotationPhase
<1>2. ASSUME Rotating(m), Ahead(m) PROVE db.mem[m] # None /\ db.mem[m].cert = First(m) + 1
  BY <1>0, <1>2 DEF CredInv, Journalled, Staying, Authorizing, Active
<1>3. CASE Withdrawing(m)
  <2>1. db.mem[m] # None /\ db.mem[m].cert = First(m) + 1
    BY <1>1, <1>2, <1>3 DEF Withdrawing, New, Ahead, RotationPhase, Replaced
  <2> QED BY <1>0, <1>3, <2>1, ReadSteps DEF Reads, CredInv, Informed
<1>4. CASE ~Withdrawing(m) /\ op'[m].kind = "rotate" /\ op'[m].pc = "clear"
  <2>1. /\ Reads(m) /\ PendingMembers(m) = {} /\ rot[m].phase = "awaiting"
    BY <1>4, RotateSteps DEF Withdrawing
  <2>2. db.mem[m] # None /\ db.mem[m].cert = First(m) + 1
    BY <1>2, <2>1 DEF Rotating, Ahead, Replaced
  <2>3. CASE Reads(p)
    BY <2>2, <2>3 DEF Reads
  <2>4. CASE ~Reads(p)
    <3>1. p # m /\ Settled(p) /\ node'[p] = node[p] /\ Active(p)
      BY <1>0, <2>1, <2>4, ReadSteps DEF CredInv, Staying
    <3>2. ~(db.applied[p] < rot[m].rev)
      BY <1>0, <2>1, <3>1 DEF PendingMembers, Known, Active
    <3>3. db.applied[p] <= node[p].rev /\ db.applied[p] \in Nat /\ node[p].rev \in Nat /\ rot[m].rev \in Nat
      BY <1>0, <3>1 DEF CredInv, Acknowledged, Inv, Types, Tables, Copies, Rotations
    <3>4. node[p].rev >= rot[m].rev
      BY <3>2, <3>3
    <3> QED BY <1>0, <2>1, <3>1, <3>4 DEF CredInv, Acknowledged
  <2> QED BY <2>3, <2>4
<1>5. CASE ~Withdrawing(m) /\ db'.mem[m] # None /\ New(m, db'.mem[m])
  <2>1. Rewritten(m)
    <3>1. ASSUME NEW k \in Nodes, Rewritten(k), k # m PROVE db'.mem[m] = db.mem[m]
      BY <3>1 DEF Rewritten
    <3> QED BY <1>5, <3>1, RecordSteps DEF Withdrawing
  <2> DEFINE r == db'.mem[m]
  <2>2. First(m) \in Nat /\ First(m) # None
    BY FirstType
  <2>3. ASSUME NEW x, Fits(m, x), x # None, r.cert = x.cert, r.prev = x.prev PROVE Rotating(m)
    BY <1>5, <2>2, <2>3 DEF Fits, FitsIn, Old, New, Twin, Replaced, Rotating
  <2>4. ASSUME NEW a \in Nodes, op[a].kind = "enroll", op[a].on = m PROVE ~Rotating(m) /\ op[a].rec # None
    BY <2>4, RowFacts DEF Inv, EnrollsRight, Joining, CredInv, Journalled, Settled
  <2>5. \A a \in Nodes : op[a].kind \in {"remove", "release"} => op[a].on # m
    BY <1>0 DEF CredInv, Unremoved, Inv, RemovesRight
  <2>6. op[m].kind = "join" /\ op[m].pc = "active" => ~Rotating(m) /\ HasRead(m)
    BY DEF Inv, InPhase, JoinPhase, Joining, CredInv, Journalled, Settled, HasRead
  <2>7. node[m].mem[m] # None
    BY DEF Inv, Recorded
  <2>8. op[m].kind = "rotate" /\ op[m].pc = "put" => rot[m].old.cert = First(m)
    BY <1>1 DEF CredInv, Journalled, Old, RotationPhase
  <2> QED BY <1>0, <1>5, <2>1, <2>2, <2>3, <2>4, <2>5, <2>6, <2>7, <2>8
             DEF Rewritten, Withdrawing, CredInv, Fitting, New
<1> QED BY <1>3, <1>4, <1>5 DEF Withdrawing

----------------------------------------------------------------------------
(* The theorem. *)

\* It holds when the founders have formed their lab.
LEMMA CredInit == Init => CredInv
<1> SUFFICES ASSUME Init PROVE CredInv
  OBVIOUS
<1>0. /\ \A n \in Nodes : op[n] = Idle /\ rot[n].phase = "none" /\ join[n].phase = "none"
                          /\ ident[n].cert = 0 /\ ~ident[n].torn
      /\ marked = {} /\ db.rev = 1
  BY DEF Init
<1>1. \A n \in Nodes : /\ op[n].kind = "none" /\ ~Installed(n)
                       /\ Settled(n) <=> n \in Founders
                       /\ HasRead(n) <=> n \in Founders
  BY <1>0 DEF Idle, Installed, Settled, HasRead
<1>2. /\ \A n \in Nodes : db.mem[n] = IF n \in Founders THEN Member("active", 0, Home(n)) ELSE None
      /\ \A p \in Founders : node[p].mem = db.mem /\ node[p].rev = 1
      /\ \A p \in Nodes : db.applied[p] = IF p \in Founders THEN 1 ELSE 0
  BY LabAssumption DEF Init, Start
<1>3. \A n \in Nodes : /\ Member("active", 0, Home(n)).st = "active"
                       /\ Member("active", 0, Home(n)).cert = 0
                       /\ Member("active", 0, Home(n)).prev = None
                       /\ Member("active", 0, Home(n)) # None
  BY LabAssumption, RowFacts DEF Member, Statuses
<1>4. Fitting
  BY <1>0, <1>1, <1>2, <1>3, LabAssumption DEF Fitting, Fits, FitsIn, Old, First
<1>5. Unremoved
  BY <1>0, <1>1, <1>2, <1>3, LabAssumption DEF Unremoved, Withdrawn
<1>6. Staying /\ Journalled /\ Authorizing
  BY <1>0, <1>1, <1>2, <1>3 DEF Staying, Journalled, Authorizing, Active, Rotating, Ahead, Replaced
<1>7. Identified
  BY <1>0, <1>1, <1>2, <1>3 DEF Identified, First, Replaced, Active
<1>8. Acknowledged
  BY <1>0, <1>1, <1>2, <1>3 DEF Acknowledged
<1>9. Informed
  BY <1>0, <1>1, <1>2, <1>3 DEF Informed, Withdrawing, New, First
<1> QED BY <1>4, <1>5, <1>6, <1>7, <1>8, <1>9 DEF CredInv

\* Every step preserves it.
LEMMA CredStep == Inv /\ CredInv /\ [Next]_vars => CredInv'
BY FittingStep, UnremovedStep, StayingStep, JournalledStep, AuthorizingStep, IdentifiedStep,
   AcknowledgedStep, InformedStep DEF CredInv

\* It holds in every state.
LEMMA CredTheorem == Spec => []CredInv
BY CredInit, CredStep, InvTheorem, PTL DEF Spec

\* Two members that nobody removes never lose each other over a rotation, and a member
\* can serve with the files it has, or with those a start repairs, wherever a join or a
\* rotation was interrupted (rotation.go RotateIdentity, enrollment.go
\* PreparePendingIdentity): for every lab and any number of failures.
THEOREM CredentialsStayUsable == Spec => []CredentialsUsable
<1>1. Inv /\ CredInv => CredentialsOverlap
  <2> SUFFICES ASSUME Inv, CredInv, NEW m \in Nodes, NEW p \in Nodes, m # p, Active(m), Active(p),
                      ~JoinPending(p), {m, p} \cap marked = {}, node[p].mem[m] # None
               PROVE  Valid(db.mem[m]) \cap Valid(node[p].mem[m]) # {}
    BY DEF CredentialsOverlap
  <2>1. Settled(p) /\ m \in Nodes \ marked /\ p \in Nodes \ marked
    BY DEF Active, JoinPending, Settled, Inv, RemovalSafe
  <2>2. Fits(m, db.mem[m]) /\ Fits(m, node[p].mem[m]) /\ db.mem[m] # None
    BY <2>1 DEF CredInv, Fitting, HasRead, Active
  <2>3. First(m) # None /\ First(m) + 1 # None /\ First(m) \in Nat
    BY FirstType
  <2>4. CASE New(m, db.mem[m])
    BY <2>1, <2>2, <2>3, <2>4 DEF CredInv, Informed, Withdrawing, New, Valid
  <2>5. CASE Twin(m, db.mem[m])
    BY <2>2, <2>3, <2>5 DEF Fits, FitsIn, Old, Twin, New, Valid
  <2>6. CASE Old(m, db.mem[m])
    <3>1. rot[m].phase \notin Replaced
      BY <2>3, <2>6 DEF CredInv, Authorizing, Ahead, Old
    <3> QED BY <2>2, <2>3, <2>6, <3>1 DEF Fits, FitsIn, Old, Twin, Valid
  <2> QED BY <2>2, <2>4, <2>5, <2>6 DEF Fits, FitsIn
<1>2. Inv /\ CredInv => IdentityUsable
  <2> SUFFICES ASSUME Inv, CredInv, NEW n \in Nodes
               PROVE  /\ ~PreparePendingIdentity(n).torn
                      /\ Active(n) => ident[n].cert \in Valid(db.mem[n])
    BY DEF IdentityUsable
  <2>1. ~PreparePendingIdentity(n).torn
    BY DEF CredInv, Identified, PreparePendingIdentity
  <2>2. ASSUME Active(n) PROVE ident[n].cert \in Valid(db.mem[n])
    <3>1. Fits(n, db.mem[n]) /\ db.mem[n] # None
      BY <2>2 DEF CredInv, Fitting, Active
    <3>2. First(n) # None /\ First(n) + 1 # None /\ First(n) \in Nat
      BY FirstType
    <3>3. n \in Founders \/ join[n].phase \notin {"none", "validated", "credentials"}
      BY <2>2 DEF CredInv, Identified
    <3>4. CASE ident[n].cert = First(n) /\ rot[n].phase \notin Replaced
      BY <3>1, <3>2, <3>4 DEF Fits, FitsIn, Old, Twin, Valid
    <3>5. CASE ident[n].cert = First(n) + 1 /\ rot[n].phase \in {"authorized"} \cup Replaced
      <4>1. db.mem[n].cert = First(n) + 1
        BY <2>2, <3>5 DEF CredInv, Authorizing, Ahead
      <4> QED BY <3>2, <3>5, <4>1 DEF Valid
    <3> QED BY <3>3, <3>4, <3>5 DEF CredInv, Identified
  <2> QED BY <2>1, <2>2
<1> QED BY <1>1, <1>2, InvTheorem, CredTheorem, PTL DEF CredentialsUsable

===============================================================================

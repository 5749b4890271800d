------------------------------ MODULE Schedule ------------------------------
(***************************************************************************)
(* One schedule (escala) and its assignments, under concurrent requests    *)
(* (src/src/repositories/ScheduleRepository.ts and the service that calls  *)
(* it).  Every request runs one PostgreSQL transaction at READ COMMITTED:  *)
(* each statement sees what has been committed when it runs plus the       *)
(* transaction's own writes, a written row stays locked until the end, and *)
(* a statement waits for the locks of the rows it writes.  Only update     *)
(* takes the lock of the schedule row first; the operations on single      *)
(* assignments never take it.  The notification intent is written in the   *)
(* same transaction, from the difference of two reads made inside it.      *)
(*                                                                         *)
(* Users are the possible members; the managers who act on the schedule    *)
(* are not among them, so that withoutActor removes nobody.                *)
(***************************************************************************)
EXTENDS Naturals, FiniteSets

CONSTANTS Users,        \* users who may be assigned
          Roles,        \* functions an assignment may have
          Clients,      \* concurrent requests
          Ids,          \* assignment ids, reused when nothing refers to them
          Answers,      \* AssignmentStatus: PENDING and the answers, never told apart
          Ops           \* kinds of request in this instance

NoRole == "none"
AllOps == {"update", "add", "remove", "delete", "respond", "resolve"}

ASSUME RolesAssumption == NoRole \notin Roles
ASSUME IdsAssumption == Ids \subseteq Nat \ {0} /\ Ids # {}
ASSUME AnswersAssumption == "PENDING" \in Answers
ASSUME OpsAssumption == Ops \subseteq AllOps

VARIABLES
    root,   \* the Schedule row: "absent", "active" or "deleted"
    rows,   \* the ScheduleAssignment row of each user, by (scheduleId, userId)
    told,   \* history: the role each member was last told, in commit order
    tx      \* each client's request and transaction

vars == <<root, rows, told, tx>>

Membership == [Users -> Roles \cup {NoRole}]
Row == [id : Ids \cup {0}, role : Roles \cup {NoRole}, status : Answers,
        sub : {"none", "open", "resolved"}, live : BOOLEAN]

NoRow == [id |-> 0, role |-> NoRole, status |-> "PENDING", sub |-> "none",
          live |-> FALSE]
NewRow(i, r) == [id |-> i, role |-> r, status |-> "PENDING", sub |-> "none",
                 live |-> TRUE]

\* isActive and not deletedAt
Members(r) == [u \in Users |-> IF r[u].live THEN r[u].role ELSE NoRole]

Requests ==
    [op : {"none", "delete"}]
    \cup [op : {"update"}, next : Membership, assigner : BOOLEAN]
    \cup [op : {"add"}, user : Users, role : Roles]
    \cup [op : {"remove", "resolve"}, user : Users, id : Ids]
    \cup [op : {"respond"}, user : Users, id : Ids, owner : BOOLEAN,
          status : Answers, ask : BOOLEAN]

NoTx == [pc |-> "idle", req |-> [op |-> "none"],
         before |-> [u \in Users |-> NoRole],
         existing |-> [u \in Users |-> [id |-> 0, role |-> NoRole]],
         todo |-> {}, pending |-> [u \in {} |-> NoRow],
         notes |-> [u \in {} |-> NoRole]]

\* Functions from some of the users.
Partial(T) == UNION {[U -> T] : U \in SUBSET Users}

Tx == [pc : {"idle", "lock", "before", "existing", "drop", "save", "check", "insert",
             "erase", "sweep", "root", "answer", "resolve", "commit"},
       req : Requests,
       before : Membership,
       existing : [Users -> [id : Ids \cup {0}, role : Roles \cup {NoRole}]],
       todo : SUBSET Users,
       pending : Partial(Row),
       notes : Partial(Roles \cup {NoRole})]

TypeOK ==
    /\ root \in {"absent", "active", "deleted"}
    /\ rows \in [Users -> Row]
    /\ told \in Membership
    /\ tx \in [Clients -> Tx]

Init ==
    /\ root = "absent"
    /\ rows = [u \in Users |-> NoRow]
    /\ told = [u \in Users |-> NoRole]
    /\ tx = [c \in Clients |-> NoTx]

-----------------------------------------------------------------------------
(***************************************************************************)
(* Transactions.                                                           *)
(***************************************************************************)
At(c, p) == tx[c].pc = p
Op(c) == tx[c].req.op

\* Later writes win: g over f.
Overlay(g, f) == [u \in DOMAIN f |-> IF u \in DOMAIN g THEN g[u] ELSE f[u]]

\* What a statement of c sees.
View(c) == Overlay(tx[c].pending, rows)

\* No other transaction has written, and so locked, a row of U.
Free(c, U) == \A d \in Clients \ {c} : DOMAIN tx[d].pending \cap U = {}

HoldsRoot(c) ==
    \/ Op(c) = "update" /\ tx[c].pc \notin {"idle", "lock"}
    \/ Op(c) = "delete" /\ tx[c].pc = "commit"

\* Mutant: update does not lock the schedule.
LockIgnored(c) == c \in Clients

RootFree(c) == \A d \in Clients \ {c} : ~HoldsRoot(d)

Goto(c, p) == tx' = [tx EXCEPT ![c].pc = p]

\* The transaction is rolled back: an early return, an error, a timeout, a
\* deadlock's victim or the death of the process.
Refuse(c) == tx' = [tx EXCEPT ![c] = NoTx] /\ UNCHANGED <<root, rows, told>>

\* A statement writes the rows g and the transaction goes on at p.
Write(c, g, p) ==
    /\ Free(c, DOMAIN g)
    /\ tx' = [tx EXCEPT ![c].pending = [u \in DOMAIN @ \cup DOMAIN g |->
                            IF u \in DOMAIN g THEN g[u] ELSE @[u]],
                        ![c].todo = @ \ DOMAIN g,
                        ![c].pc = p]
    /\ UNCHANGED <<root, rows, told>>

\* Assignment ids of u that a row or a request refers to.
Referenced(u) ==
    {rows[u].id}
    \cup {tx[c].existing[u].id : c \in Clients}
    \cup {tx[c].req.id : c \in {d \in Clients : /\ Op(d) \in {"remove", "resolve", "respond"}
                                                /\ tx[d].req.user = u}}
    \cup {tx[c].pending[u].id : c \in {d \in Clients : u \in DOMAIN tx[d].pending}}

\* uuid()
FreshId(u) == CHOOSE i \in Ids : i \notin Referenced(u)

\* INSERT of an assignment: waits for an uncommitted row with the same
\* (scheduleId, userId), fails on a committed one, active or not.
Insert(c, u, r, p) ==
    /\ Free(c, {u})
    /\ IF View(c)[u].id # 0
       THEN Refuse(c)
       ELSE /\ Ids \ Referenced(u) # {}
            /\ Write(c, [v \in {u} |-> NewRow(FreshId(u), r)], p)

-----------------------------------------------------------------------------
(***************************************************************************)
(* Requests: what the service checks before it calls the repository.       *)
(***************************************************************************)
Request(c, req, p) ==
    /\ req.op \in Ops
    /\ At(c, "idle") /\ root = "active"
    /\ tx' = [tx EXCEPT ![c].req = req, ![c].pc = p]
    /\ UNCHANGED <<root, rows, told>>

\* updateForUser: without schedule:assign_members the request must leave the
\* members as they are.
RequestUpdate(c) ==
    \E next \in Membership, assigner \in BOOLEAN :
        /\ assigner \/ next = Members(rows)
        /\ Request(c, [op |-> "update", next |-> next, assigner |-> assigner], "lock")

RequestAdd(c) ==
    \E u \in Users, r \in Roles :
        Request(c, [op |-> "add", user |-> u, role |-> r], "before")

RequestRemove(c) ==
    \E u \in Users :
        /\ rows[u].live
        /\ Request(c, [op |-> "remove", user |-> u, id |-> rows[u].id], "before")

RequestDelete(c) == Request(c, [op |-> "delete"], "before")

\* updateAssignmentStatus: a member answers only while PENDING, a manager any time.
RequestRespond(c) ==
    \E u \in Users, owner \in BOOLEAN, status \in Answers, ask \in BOOLEAN :
        /\ rows[u].live
        /\ owner => rows[u].status = "PENDING"
        /\ Request(c, [op |-> "respond", user |-> u, id |-> rows[u].id, owner |-> owner,
                       status |-> status, ask |-> ask], "answer")

\* The id comes from the manager's screen.
RequestResolve(c) ==
    \E u \in Users :
        /\ rows[u].live
        /\ Request(c, [op |-> "resolve", user |-> u, id |-> rows[u].id], "resolve")

\* create: nobody sees the rows before the commit, which also records that
\* every member is told.
CreateSchedule ==
    \E members \in Membership :
        /\ root = "absent" /\ root' = "active"
        /\ rows' = [u \in Users |-> IF members[u] = NoRole THEN NoRow
                                    ELSE NewRow(FreshId(u), members[u])]
        /\ told' = members
        /\ UNCHANGED tx

-----------------------------------------------------------------------------
(***************************************************************************)
(* update                                                                  *)
(***************************************************************************)

\* UPDATE Schedule SET updatedAt WHERE isActive
LockRoot(c) ==
    /\ At(c, "lock") /\ RootFree(c)
    /\ IF root = "active" THEN Goto(c, "before") /\ UNCHANGED <<root, rows, told>>
                          ELSE Refuse(c)

\* loadScheduleNotificationSnapshot, of update, add, remove and delete.
ReadBefore(c) ==
    /\ At(c, "before")
    /\ tx' = [tx EXCEPT ![c].before = Members(rows),
                        ![c].pc = [update |-> "existing", add |-> "check",
                                   remove |-> "erase", delete |-> "check"][Op(c)]]
    /\ UNCHANGED <<root, rows, told>>

\* Mutant: what the service checked before the transaction is trusted.
CheckedBefore(c) == At(c, "existing")

\* The check repeated under the lock.
MayAssign(c) == tx[c].req.assigner \/ tx[c].req.next = Members(rows)

ReadExisting(c) ==
    /\ At(c, "existing")
    /\ IF MayAssign(c)
       THEN /\ tx' = [tx EXCEPT ![c].existing =
                          [u \in Users |-> IF rows[u].live
                                           THEN [id |-> rows[u].id, role |-> rows[u].role]
                                           ELSE [id |-> 0, role |-> NoRole]],
                                ![c].pc = "drop"]
            /\ UNCHANGED <<root, rows, told>>
       ELSE Refuse(c)


\* Mutant: the assignments are all written anew, as the songs are.
WriteAllAnew(c) == {u \in Users : tx[c].req.next[u] # NoRole}

\* Members of the request whose row the loop over it writes.
ToSave(c) == {u \in Users : tx[c].req.next[u] \notin {NoRole, tx[c].existing[u].role}}

\* DELETE of the rows, active or not, of users the request leaves out.
DropOthers(c) ==
    /\ At(c, "drop")
    /\ LET gone == {u \in Users : rows[u].id # 0 /\ tx[c].req.next[u] = NoRole}
       IN  /\ Free(c, gone)
           /\ tx' = [tx EXCEPT ![c].pending = [u \in gone |-> NoRow],
                               ![c].todo = ToSave(c),
                               ![c].pc = "save"]
    /\ UNCHANGED <<root, rows, told>>

\* The update by id of a member whose role changes: an error when the row is gone.
ChangeRole(c, u) ==
    /\ Free(c, {u})
    /\ IF rows[u].id = tx[c].existing[u].id
       THEN Write(c, [v \in {u} |-> [rows[u] EXCEPT !.role = tx[c].req.next[u],
                                                    !.status = "PENDING",
                                                    !.sub = "none"]], "save")
       ELSE Refuse(c)

\* One turn of the loop over the request's assignments.
SaveAssignment(c, u) ==
    /\ At(c, "save") /\ u \in tx[c].todo
    /\ IF tx[c].existing[u].role = NoRole THEN Insert(c, u, tx[c].req.next[u], "save")
                                          ELSE ChangeRole(c, u)

\* enqueueScheduleUpdated: nothing when nothing changed; otherwise members of
\* the second read are told their role, those it no longer has their removal.
Notes(before, after, edited) ==
    [u \in {v \in Users : /\ edited \/ before # after
                          /\ before[v] # NoRole \/ after[v] # NoRole} |-> after[u]]

\* The second snapshot and the event, of update, add and remove.  An update
\* may also have changed the title, the date, the comments or the songs.
ReadAfter(c) ==
    /\ At(c, "save") /\ tx[c].todo = {}
    /\ \E edited \in BOOLEAN :
         /\ edited => Op(c) = "update"
         /\ tx' = [tx EXCEPT ![c].notes = Notes(tx[c].before, Members(View(c)), edited),
                             ![c].pc = "commit"]
    /\ UNCHANGED <<root, rows, told>>

-----------------------------------------------------------------------------
(***************************************************************************)
(* The other operations.                                                   *)
(***************************************************************************)

\* findFirst of the active schedule, of add and delete: no lock is taken.
CheckActive(c) ==
    /\ At(c, "check")
    /\ IF root = "active"
       THEN /\ Goto(c, [add |-> "insert", delete |-> "sweep"][Op(c)])
            /\ UNCHANGED <<root, rows, told>>
       ELSE Refuse(c)

\* createAssignment
CreateAssignment(c) ==
    /\ At(c, "insert")
    /\ Insert(c, tx[c].req.user, tx[c].req.role, "save")

\* deleteAssignment: by id, active or not.
DeleteAssignment(c) ==
    /\ At(c, "erase")
    /\ LET u == tx[c].req.user
       IN  /\ Free(c, {u})
           /\ IF rows[u].id = tx[c].req.id THEN Write(c, [v \in {u} |-> NoRow], "save")
                                           ELSE Refuse(c)

\* deleteSchedule: the assignments are deactivated ...
SweepAssignments(c) ==
    /\ At(c, "sweep")
    /\ LET active == {u \in Users : rows[u].live}
       IN  Write(c, [u \in active |-> [rows[u] EXCEPT !.live = FALSE]], "root")

\* ... then the schedule, by id, and the members of the first read are told.
DeactivateRoot(c) ==
    /\ At(c, "root") /\ RootFree(c)
    /\ tx' = [tx EXCEPT ![c].notes = [u \in {v \in Users : tx[c].before[v] # NoRole} |-> NoRole],
                        ![c].pc = "commit"]
    /\ UNCHANGED <<root, rows, told>>

\* updateAssignmentStatus: the row must still be there and active; its status
\* is not looked at again.
AnswerAssignment(c) ==
    /\ At(c, "answer")
    /\ LET u == tx[c].req.user
           answered == [rows[u] EXCEPT !.status = tx[c].req.status,
                                       !.sub = IF tx[c].req.ask THEN "open" ELSE @]
       IN  /\ Free(c, {u})
           /\ IF rows[u].id = tx[c].req.id /\ rows[u].live /\ root = "active"
              THEN Write(c, [v \in {u} |-> answered], "commit")
              ELSE Refuse(c)

\* Mutant: resolved whatever the state of the request.
AnyRequest(u) == rows[u].live

\* substituteRequestedAt is set, substituteResolvedAt is not
OpenRequest(u) == rows[u].live /\ rows[u].sub = "open"

\* resolveSubstitution
ResolveSubstitution(c) ==
    /\ At(c, "resolve")
    /\ LET u == tx[c].req.user
       IN  /\ Free(c, {u})
           /\ IF rows[u].id = tx[c].req.id /\ OpenRequest(u) /\ root = "active"
              THEN Write(c, [v \in {u} |-> [rows[u] EXCEPT !.sub = "resolved"]], "commit")
              ELSE Refuse(c)

-----------------------------------------------------------------------------
Commit(c) ==
    /\ At(c, "commit")
    /\ rows' = View(c)
    /\ told' = Overlay(tx[c].notes, told)
    /\ root' = IF Op(c) = "delete" THEN "deleted" ELSE root
    /\ tx' = [tx EXCEPT ![c] = NoTx]

\* An error, a timeout, a deadlock's victim, the death of the process.  A
\* failing COMMIT is a failure just before it.
Abort(c) ==
    /\ tx[c].pc \notin {"idle", "commit"}
    /\ Refuse(c)

ClientStep(c) ==
    \/ RequestUpdate(c) \/ RequestAdd(c) \/ RequestRemove(c)
    \/ RequestDelete(c) \/ RequestRespond(c) \/ RequestResolve(c)
    \/ LockRoot(c)
    \/ ReadBefore(c)
    \/ ReadExisting(c)
    \/ DropOthers(c)
    \/ \E u \in Users : SaveAssignment(c, u)
    \/ ReadAfter(c)
    \/ CheckActive(c)
    \/ CreateAssignment(c)
    \/ DeleteAssignment(c)
    \/ SweepAssignments(c)
    \/ DeactivateRoot(c)
    \/ AnswerAssignment(c)
    \/ ResolveSubstitution(c)
    \/ Commit(c)
    \/ Abort(c)

Next == CreateSchedule \/ \E c \in Clients : ClientStep(c)

Spec == Init /\ [][Next]_vars

-----------------------------------------------------------------------------
(***************************************************************************)
(* Properties                                                              *)
(***************************************************************************)

\* Every member knows their role and nobody else believes to be a member: what
\* was last recorded for a user is what the schedule says.  True of instances
\* without add, remove and delete, where the root lock orders the reads the
\* notifications are made from (adr-schedule-notifications.md: the schedule and
\* the intent to notify may not diverge).
ToldMatches ==
    \A u \in Users : told[u] = IF root = "active" THEN Members(rows)[u] ELSE NoRole

\* The transaction of c takes effect.
Commits(c) == At(c, "commit") /\ tx'[c].pc = "idle"

\* Saving a schedule without schedule:assign_members never changes who is on it
\* or in which role, whatever was saved between the service's check and the
\* transaction (the comment in update on the lock of the root).
UnprivilegedKeepsMembers ==
    [][\A c \in Clients :
         Commits(c) /\ Op(c) = "update" /\ ~tx[c].req.assigner =>
             Members(rows') = Members(rows)]_vars

\* Saving a schedule keeps the answer and the open substitution request of every
\* member whose role it leaves alone, also those given while it was being saved
\* (the loop of update writes only the rows whose role differs).
AnswersSurviveSaving ==
    [][\A c \in Clients, u \in Users :
         /\ Commits(c) /\ Op(c) = "update"
         /\ rows[u].live /\ rows[u].role = tx[c].req.next[u]
         => rows'[u] = rows[u]]_vars

\* A substitution request is resolved once: of two managers, the second is
\* refused (resolveSubstitution looks at the row under its lock).
SubstitutionResolvedOnce ==
    [][\A c \in Clients :
         Commits(c) /\ Op(c) = "resolve" =>
             rows[tx[c].req.user].sub = "open" /\ rows[tx[c].req.user].id = tx[c].req.id]_vars

\* A member answers an assignment once: the second answer is refused with "Esta
\* escala já foi respondida" (updateAssignmentStatus of the service).
OwnerRespondsOnce ==
    [][\A c \in Clients :
         Commits(c) /\ Op(c) = "respond" /\ tx[c].req.owner =>
             rows[tx[c].req.user].status = "PENDING"]_vars
=============================================================================

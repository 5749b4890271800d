----------------------------- MODULE ScheduleProofs -----------------------------
(***************************************************************************)
(* Proofs about Schedule, for any number of members, roles and overlapping *)
(* requests: the types of its state; that saving keeps the answers it does *)
(* not concern and a substitution is resolved once, whatever the           *)
(* operations; and, where only saves, answers and resolutions run, that    *)
(* what members were told is what the schedule says and that a save        *)
(* without permission over members leaves them alone.                      *)
(***************************************************************************)
EXTENDS Schedule, TLAPS

\* The steps of each kind of request.
StepOf(op, p) ==
    \/ op = "none" /\ p = "idle"
    \/ op = "update" /\ p \in {"lock", "before", "existing", "drop", "save", "commit"}
    \/ op = "add" /\ p \in {"before", "check", "insert", "save", "commit"}
    \/ op = "remove" /\ p \in {"before", "erase", "save", "commit"}
    \/ op = "delete" /\ p \in {"before", "check", "sweep", "root", "commit"}
    \/ op = "respond" /\ p \in {"answer", "commit"}
    \/ op = "resolve" /\ p \in {"resolve", "commit"}

\* An active assignment exists and has a role.
Sane(row) == row.live => row.id # 0 /\ row.role # NoRole

\* A transaction is at a step of its request and has written nothing before its
\* first write, what is left to save has a role; only requests of this instance run.
WellFormed(c) ==
    /\ StepOf(Op(c), tx[c].pc)
    /\ Op(c) \in Ops \cup {"none"}
    /\ tx[c].pc \notin {"save", "root", "commit"} => DOMAIN tx[c].pending = {}
    /\ \A u \in DOMAIN tx[c].pending : Sane(tx[c].pending[u])
    /\ Op(c) # "update" => tx[c].todo = {}
    /\ Op(c) = "update" /\ tx[c].pc = "save" =>
           \A u \in tx[c].todo : tx[c].req.next[u] # NoRole

\* Nobody acts on a schedule that is not there.
NothingBeforeCreation ==
    root = "absent" => /\ \A u \in Users : rows[u] = NoRow /\ told[u] = NoRole
                       /\ \A c \in Clients : tx[c] = NoTx

ShapeInv ==
    /\ TypeOK
    /\ \A u \in Users : Sane(rows[u])
    /\ \A c \in Clients : WellFormed(c)
    /\ NothingBeforeCreation

-----------------------------------------------------------------------------
(***************************************************************************)
(* Partial functions, requests and fresh ids.                              *)
(***************************************************************************)
LEMMA PartialIs ==
    ASSUME NEW T, NEW g \in Partial(T)
    PROVE  /\ DOMAIN g \in SUBSET Users /\ g \in [DOMAIN g -> T]
           /\ \A u \in DOMAIN g : g[u] \in T
<1>1. PICK U \in SUBSET Users : g \in [U -> T]
  BY DEF Partial
<1> QED
  BY <1>1

LEMMA PartialHas ==
    ASSUME NEW T, NEW U \in SUBSET Users, NEW g \in [U -> T]
    PROVE  g \in Partial(T)
  BY DEF Partial

LEMMA RequestIs ==
    ASSUME NEW req \in Requests
    PROVE  /\ req.op \in AllOps \cup {"none"}
           /\ req.op = "update" => req.next \in Membership /\ req.assigner \in BOOLEAN
           /\ req.op = "add" => req.user \in Users /\ req.role \in Roles
           /\ req.op \in {"remove", "resolve", "respond"} => req.user \in Users /\ req.id \in Ids
           /\ req.op = "respond" => req.status \in Answers
  BY DEF Requests, AllOps

LEMMA FreshIdIsFresh ==
    ASSUME NEW u \in Users, Ids \ Referenced(u) # {}
    PROVE  FreshId(u) \in Ids /\ FreshId(u) \notin Referenced(u)
  BY DEF FreshId

LEMMA NewRowIsRow ==
    ASSUME NEW i \in Ids, NEW r \in Roles
    PROVE  NewRow(i, r) \in Row /\ Sane(NewRow(i, r))
  BY IdsAssumption, AnswersAssumption, RolesAssumption DEF NewRow, Row, Sane

LEMMA NoRowIsRow == NoRow \in Row /\ Sane(NoRow)
  BY AnswersAssumption DEF NoRow, Row, Sane

LEMMA NoTxIsTx == NoTx \in Tx
<1>1. /\ [u \in {} |-> NoRow] \in Partial(Row)
      /\ [u \in {} |-> NoRole] \in Partial(Roles \cup {NoRole})
  <2>1. {} \in SUBSET Users
    OBVIOUS
  <2> QED
    BY <2>1, PartialHas
<1> QED
  BY <1>1 DEF NoTx, Tx, Requests, Membership

\* What is known of a transaction from its type.
LEMMA TxIs ==
    ASSUME TypeOK, NEW c \in Clients
    PROVE  /\ tx[c] \in Tx /\ tx[c].req \in Requests
           /\ tx[c].todo \in SUBSET Users
           /\ tx[c].before \in Membership
           /\ \A u \in Users : /\ tx[c].existing[u].id \in Ids \cup {0}
                               /\ tx[c].existing[u].role \in Roles \cup {NoRole}
           /\ DOMAIN tx[c].pending \in SUBSET Users
           /\ \A u \in DOMAIN tx[c].pending : tx[c].pending[u] \in Row
           /\ DOMAIN tx[c].notes \in SUBSET Users
           /\ \A u \in DOMAIN tx[c].notes : tx[c].notes[u] \in Roles \cup {NoRole}
<1>1. tx[c] \in Tx
  BY DEF TypeOK
<1>2. tx[c].pending \in Partial(Row) /\ tx[c].notes \in Partial(Roles \cup {NoRole})
  BY <1>1 DEF Tx
<1>3. /\ DOMAIN tx[c].pending \in SUBSET Users
      /\ \A u \in DOMAIN tx[c].pending : tx[c].pending[u] \in Row
  BY <1>2, PartialIs
<1>4. /\ DOMAIN tx[c].notes \in SUBSET Users
      /\ \A u \in DOMAIN tx[c].notes : tx[c].notes[u] \in Roles \cup {NoRole}
  BY <1>2, PartialIs
<1> QED
  BY <1>1, <1>3, <1>4 DEF Tx

-----------------------------------------------------------------------------
(***************************************************************************)
(* The shape of the state.                                                 *)
(***************************************************************************)
\* A step of c alone, in its own transaction.
Alone(c) ==
    /\ UNCHANGED <<root, rows, told>>
    /\ tx' \in [Clients -> Tx]
    /\ \A d \in Clients \ {c} : tx'[d] = tx[d]

\* Everything a write does.
Wrote(c, S, g, p) ==
    /\ Alone(c) /\ Free(c, S)
    /\ tx'[c].pc = p /\ tx'[c].req = tx[c].req
    /\ tx'[c].before = tx[c].before /\ tx'[c].existing = tx[c].existing
    /\ tx'[c].todo = tx[c].todo \ S /\ tx'[c].notes = tx[c].notes
    /\ DOMAIN tx'[c].pending = DOMAIN tx[c].pending \cup S
    /\ \A u \in S : tx'[c].pending[u] = g[u]
    /\ \A u \in DOMAIN tx[c].pending \ S : tx'[c].pending[u] = tx[c].pending[u]

LEMMA WriteWrote ==
    ASSUME TypeOK, NEW c \in Clients, NEW S \in SUBSET Users, NEW g \in [S -> Row],
           NEW p \in {"save", "root", "commit"}, Write(c, g, p)
    PROVE  Wrote(c, S, g, p)
<1> DEFINE old == tx[c].pending
           new == [u \in DOMAIN old \cup S |-> IF u \in S THEN g[u] ELSE old[u]]
<1>1. tx \in [Clients -> Tx] /\ DOMAIN g = S
  BY DEF TypeOK
<1>2. /\ DOMAIN old \in SUBSET Users
      /\ \A u \in DOMAIN old : old[u] \in Row
      /\ tx[c] \in Tx
  BY TxIs
<1>3. new \in Partial(Row)
  <2>1. new \in [DOMAIN old \cup S -> Row] /\ DOMAIN old \cup S \in SUBSET Users
    BY <1>2
  <2> HIDE DEF new
  <2> QED
    BY <2>1, PartialHas
<1>4. /\ tx' = [tx EXCEPT ![c].pending = new, ![c].todo = @ \ S, ![c].pc = p]
      /\ Free(c, S) /\ UNCHANGED <<root, rows, told>>
  BY <1>1 DEF Write
<1>5. /\ DOMAIN new = DOMAIN old \cup S
      /\ \A u \in S : new[u] = g[u]
      /\ \A u \in DOMAIN old \ S : new[u] = old[u]
  OBVIOUS
<1> HIDE DEF new
<1>6. tx' = [tx EXCEPT ![c] = [tx[c] EXCEPT !.pending = new, !.todo = @ \ S, !.pc = p]]
  BY <1>4, <1>1, <1>2 DEF Tx
<1>7. [tx[c] EXCEPT !.pending = new, !.todo = @ \ S, !.pc = p] \in Tx
  BY <1>2, <1>3 DEF Tx
<1>8. Alone(c)
  BY <1>1, <1>4, <1>6, <1>7 DEF Alone
<1>9. tx'[c] = [tx[c] EXCEPT !.pending = new, !.todo = @ \ S, !.pc = p]
  BY <1>6, <1>1
<1>10. /\ tx'[c].pc = p /\ tx'[c].req = tx[c].req
       /\ tx'[c].before = tx[c].before /\ tx'[c].existing = tx[c].existing
       /\ tx'[c].todo = tx[c].todo \ S /\ tx'[c].notes = tx[c].notes /\ tx'[c].pending = new
  BY <1>2, <1>9 DEF Tx
<1> QED
  BY <1>4, <1>5, <1>8, <1>10 DEF Wrote

LEMMA RefuseIs ==
    ASSUME TypeOK, NEW c \in Clients, Refuse(c)
    PROVE  Alone(c) /\ tx'[c] = NoTx
  BY NoTxIsTx DEF Refuse, Alone, TypeOK

LEMMA NoTxIsWellFormed ==
    ASSUME NEW c \in Clients, tx'[c] = NoTx PROVE WellFormed(c)'
  BY DEF WellFormed, NoTx, StepOf, Op

\* It is enough to look at the transaction that takes the step.
LEMMA AloneKeepsShape ==
    ASSUME ShapeInv, NEW c \in Clients, Alone(c), root # "absent", WellFormed(c)'
    PROVE  ShapeInv'
<1>1. TypeOK'
  BY DEF ShapeInv, TypeOK, Alone
<1>2. ASSUME NEW d \in Clients PROVE WellFormed(d)'
  <2>1. CASE d = c
    BY <2>1
  <2>2. CASE d # c
    <3>1. tx'[d] = tx[d] /\ WellFormed(d)
      BY <2>2, <1>2 DEF Alone, ShapeInv
    <3> QED
      BY <3>1 DEF WellFormed, Op
  <2> QED
    BY <2>1, <2>2
<1> QED
  BY <1>1, <1>2 DEF ShapeInv, Alone, NothingBeforeCreation

LEMMA BusyMeansCreated ==
    ASSUME ShapeInv, NEW c \in Clients, tx[c].pc # "idle" PROVE root # "absent"
  BY DEF ShapeInv, NothingBeforeCreation, NoTx

LEMMA BusyHasRequest ==
    ASSUME ShapeInv, NEW c \in Clients
    PROVE  /\ StepOf(Op(c), tx[c].pc) /\ tx[c].req \in Requests
           /\ Op(c) \in Ops \cup {"none"}
           /\ tx[c].pc # "idle" => Op(c) # "none"
  BY TxIs DEF ShapeInv, WellFormed, StepOf

\* Refusing, aborting and every early return.
LEMMA RefuseKeepsShape ==
    ASSUME ShapeInv, NEW c \in Clients, tx[c].pc # "idle", Refuse(c)
    PROVE  ShapeInv'
  BY RefuseIs, NoTxIsWellFormed, AloneKeepsShape, BusyMeansCreated DEF ShapeInv

\* A write of sane rows that goes on at a step of the request.
LEMMA WriteKeepsShape ==
    ASSUME ShapeInv, NEW c \in Clients, tx[c].pc # "idle",
           NEW S \in SUBSET Users, NEW g \in [S -> Row], NEW p \in {"save", "root", "commit"},
           Write(c, g, p), StepOf(Op(c), p), \A u \in S : Sane(g[u]),
           Op(c) = "update" => tx[c].pc = "save"
    PROVE  ShapeInv'
<1>1. Wrote(c, S, g, p)
  BY WriteWrote DEF ShapeInv
<1>2. WellFormed(c) /\ root # "absent"
  BY BusyMeansCreated DEF ShapeInv
<1>3. WellFormed(c)'
  <2>1. \A u \in DOMAIN tx'[c].pending : Sane(tx'[c].pending[u])
    BY <1>1, <1>2 DEF Wrote, WellFormed
  <2> QED
    BY <1>1, <1>2, <2>1 DEF Wrote, WellFormed, Op
<1> QED
  BY <1>1, <1>2, <1>3, AloneKeepsShape DEF Wrote

\* A step that replaces the transaction of c by another record.
LEMMA BecomesKeepsShape ==
    ASSUME ShapeInv, NEW c \in Clients, root # "absent", NEW t \in Tx,
           tx' = [tx EXCEPT ![c] = t], UNCHANGED <<root, rows, told>>,
           StepOf(t.req.op, t.pc), t.pc # "save", t.req.op \in Ops \cup {"none"},
           t.pending = tx[c].pending, t.req.op # "update" => t.todo = {},
           t.pc \notin {"save", "root", "commit"} => DOMAIN tx[c].pending = {}
    PROVE  ShapeInv'
<1>1. tx \in [Clients -> Tx] /\ WellFormed(c)
  BY DEF ShapeInv, TypeOK
<1>2. Alone(c) /\ tx'[c] = t
  BY <1>1 DEF Alone
<1>3. WellFormed(c)'
  BY <1>1, <1>2 DEF WellFormed, Op
<1> QED
  BY <1>2, <1>3, AloneKeepsShape

LEMMA RequestKeepsShape ==
    ASSUME ShapeInv, NEW c \in Clients, NEW req \in Requests,
           NEW p \in {"lock", "before", "answer", "resolve"},
           Request(c, req, p), StepOf(req.op, p)
    PROVE  ShapeInv'
<1> DEFINE t == [tx[c] EXCEPT !.req = req, !.pc = p]
<1>1. tx \in [Clients -> Tx] /\ WellFormed(c) /\ tx[c] \in Tx
  BY DEF ShapeInv, TypeOK
<1>2. /\ t \in Tx /\ t.req = req /\ t.pc = p /\ t.pending = tx[c].pending
      /\ t.todo = tx[c].todo /\ tx' = [tx EXCEPT ![c] = t]
  BY <1>1 DEF Tx, Request
<1>3. DOMAIN tx[c].pending = {} /\ tx[c].todo = {} /\ root # "absent"
  BY <1>1 DEF WellFormed, Request, At, StepOf
<1>4. UNCHANGED <<root, rows, told>> /\ req.op \in Ops
  BY DEF Request
<1> HIDE DEF t
<1> QED
  BY <1>2, <1>3, <1>4, BecomesKeepsShape

LEMMA InsertKeepsShape ==
    ASSUME ShapeInv, NEW c \in Clients, NEW u \in Users, NEW r \in Roles,
           tx[c].pc # "idle", StepOf(Op(c), "save"), Insert(c, u, r, "save"),
           Op(c) = "update" => tx[c].pc = "save"
    PROVE  ShapeInv'
<1>1. CASE View(c)[u].id # 0
  BY <1>1, RefuseKeepsShape DEF Insert
<1>2. CASE View(c)[u].id = 0
  <2> DEFINE g == [v \in {u} |-> NewRow(FreshId(u), r)]
  <2>1. Ids \ Referenced(u) # {} /\ Write(c, g, "save")
    BY <1>2 DEF Insert
  <2>2. NewRow(FreshId(u), r) \in Row /\ Sane(NewRow(FreshId(u), r))
    BY <2>1, FreshIdIsFresh, NewRowIsRow
  <2>3. g \in [{u} -> Row] /\ {u} \in SUBSET Users /\ \A v \in {u} : Sane(g[v])
    BY <2>2
  <2> HIDE DEF g
  <2> QED
    BY <2>1, <2>3, WriteKeepsShape
<1> QED
  BY <1>1, <1>2

LEMMA InitShape == Init => ShapeInv
<1> SUFFICES ASSUME Init PROVE ShapeInv
  OBVIOUS
<1>1. TypeOK
  BY NoTxIsTx, NoRowIsRow DEF Init, TypeOK, Membership
<1>2. \A c \in Clients : WellFormed(c)
  BY DEF Init, WellFormed, NoTx, StepOf, Op
<1> QED
  BY <1>1, <1>2, NoRowIsRow DEF ShapeInv, Init, NothingBeforeCreation

LEMMA CreateKeepsShape == ShapeInv /\ CreateSchedule => ShapeInv'
<1> SUFFICES ASSUME ShapeInv, NEW members \in Membership,
                    root = "absent", root' = "active", told' = members, UNCHANGED tx,
                    rows' = [u \in Users |-> IF members[u] = NoRole THEN NoRow
                                             ELSE NewRow(FreshId(u), members[u])]
             PROVE  ShapeInv'
  BY DEF CreateSchedule
<1>1. ASSUME NEW u \in Users PROVE FreshId(u) \in Ids
  <2>1. rows[u].id = 0
    BY DEF ShapeInv, NothingBeforeCreation, NoRow
  <2>2. Referenced(u) \subseteq {0}
    BY <2>1 DEF ShapeInv, NothingBeforeCreation, Referenced, NoTx, Op
  <2>3. Ids \ Referenced(u) # {}
    BY <2>2, IdsAssumption
  <2> QED
    BY <2>3, FreshIdIsFresh
<1>2. ASSUME NEW u \in Users PROVE rows'[u] \in Row /\ Sane(rows'[u])
  <2>1. CASE members[u] = NoRole
    BY <2>1, NoRowIsRow
  <2>2. CASE members[u] # NoRole
    <3>1. members[u] \in Roles
      BY <2>2 DEF Membership
    <3>2. rows'[u] = NewRow(FreshId(u), members[u])
      BY <2>2
    <3> QED
      BY <3>1, <3>2, <1>1, NewRowIsRow
  <2> QED
    BY <2>1, <2>2
<1>3. TypeOK'
  BY <1>2 DEF ShapeInv, TypeOK
<1>4. ASSUME NEW c \in Clients PROVE WellFormed(c)'
  BY DEF ShapeInv, WellFormed, Op
<1> QED
  BY <1>2, <1>3, <1>4 DEF ShapeInv, NothingBeforeCreation

\* Requests arrive.
LEMMA ArrivalsKeepShape ==
    ASSUME ShapeInv, NEW c \in Clients,
           \/ RequestUpdate(c) \/ RequestAdd(c) \/ RequestRemove(c)
           \/ RequestDelete(c) \/ RequestRespond(c) \/ RequestResolve(c)
    PROVE  ShapeInv'
<1>1. ASSUME NEW u \in Users, rows[u].live PROVE rows[u].id \in Ids
  BY <1>1 DEF ShapeInv, TypeOK, Row, Sane
<1>2. CASE RequestUpdate(c)
  <2>1. PICK next \in Membership, assigner \in BOOLEAN :
            Request(c, [op |-> "update", next |-> next, assigner |-> assigner], "lock")
    BY <1>2 DEF RequestUpdate
  <2>2. [op |-> "update", next |-> next, assigner |-> assigner] \in Requests
    BY DEF Requests
  <2> QED
    BY <2>1, <2>2, RequestKeepsShape DEF StepOf
<1>3. CASE RequestAdd(c)
  <2>1. PICK u \in Users, r \in Roles :
            Request(c, [op |-> "add", user |-> u, role |-> r], "before")
    BY <1>3 DEF RequestAdd
  <2>2. [op |-> "add", user |-> u, role |-> r] \in Requests
    BY DEF Requests
  <2> QED
    BY <2>1, <2>2, RequestKeepsShape DEF StepOf
<1>4. CASE RequestRemove(c)
  <2>1. PICK u \in Users :
            rows[u].live /\ Request(c, [op |-> "remove", user |-> u, id |-> rows[u].id], "before")
    BY <1>4 DEF RequestRemove
  <2>2. [op |-> "remove", user |-> u, id |-> rows[u].id] \in Requests
    BY <2>1, <1>1 DEF Requests
  <2> QED
    BY <2>1, <2>2, RequestKeepsShape DEF StepOf
<1>5. CASE RequestDelete(c)
  <2>1. [op |-> "delete"] \in Requests
    BY DEF Requests
  <2> QED
    BY <1>5, <2>1, RequestKeepsShape DEF StepOf, RequestDelete
<1>6. CASE RequestRespond(c)
  <2>1. PICK u \in Users, owner \in BOOLEAN, status \in Answers, ask \in BOOLEAN :
            rows[u].live /\ Request(c, [op |-> "respond", user |-> u, id |-> rows[u].id,
                                      owner |-> owner, status |-> status, ask |-> ask], "answer")
    BY <1>6 DEF RequestRespond
  <2>2. [op |-> "respond", user |-> u, id |-> rows[u].id, owner |-> owner,
         status |-> status, ask |-> ask] \in Requests
    BY <2>1, <1>1 DEF Requests
  <2> QED
    BY <2>1, <2>2, RequestKeepsShape DEF StepOf
<1>7. CASE RequestResolve(c)
  <2>1. PICK u \in Users :
            rows[u].live /\ Request(c, [op |-> "resolve", user |-> u, id |-> rows[u].id], "resolve")
    BY <1>7 DEF RequestResolve
  <2>2. [op |-> "resolve", user |-> u, id |-> rows[u].id] \in Requests
    BY <2>1, <1>1 DEF Requests
  <2> QED
    BY <2>1, <2>2, RequestKeepsShape DEF StepOf
<1> QED
  BY <1>2, <1>3, <1>4, <1>5, <1>6, <1>7

\* A transaction reads: nothing is written, and its request stays.
Reads(c, p) ==
    /\ Alone(c)
    /\ tx'[c].pc = p /\ tx'[c].req = tx[c].req
    /\ tx'[c].pending = tx[c].pending /\ tx'[c].todo = tx[c].todo

LEMMA ReadKeepsShape ==
    ASSUME ShapeInv, NEW c \in Clients, tx[c].pc # "idle", NEW p, Reads(c, p),
           StepOf(Op(c), p), p # "save",
           p \notin {"save", "root", "commit"} => DOMAIN tx[c].pending = {}
    PROVE  ShapeInv'
<1>1. WellFormed(c)'
  BY DEF ShapeInv, WellFormed, Op, Reads
<1> QED
  BY <1>1, AloneKeepsShape, BusyMeansCreated DEF Reads

\* What each read leaves in the transaction.
LEMMA LockRootReads ==
    ASSUME ShapeInv, NEW c \in Clients, LockRoot(c)
    PROVE  \/ Reads(c, "before") /\ RootFree(c)
           \/ Refuse(c)
<1>1. tx \in [Clients -> Tx] /\ tx[c] \in Tx
  BY DEF ShapeInv, TypeOK
<1>2. CASE root = "active"
  <2> DEFINE t == [tx[c] EXCEPT !.pc = "before"]
  <2>1. /\ t \in Tx /\ t.pc = "before" /\ t.req = tx[c].req /\ t.pending = tx[c].pending
        /\ t.todo = tx[c].todo /\ tx' = [tx EXCEPT ![c] = t] /\ UNCHANGED <<root, rows, told>> /\ RootFree(c)
    BY <1>1, <1>2 DEF Tx, LockRoot, Goto
  <2> HIDE DEF t
  <2> QED
    BY <2>1, <1>1 DEF Reads, Alone
<1>3. CASE root # "active"
  BY <1>3 DEF LockRoot
<1> QED
  BY <1>2, <1>3

LEMMA MembersAreMembership ==
    ASSUME NEW r \in [Users -> Row] PROVE Members(r) \in Membership
  BY DEF Members, Membership, Row

LEMMA ReadBeforeReads ==
    ASSUME ShapeInv, NEW c \in Clients, ReadBefore(c)
    PROVE  \E p \in {"existing", "check", "erase"} :
               /\ Reads(c, p) /\ StepOf(Op(c), p)
               /\ p = "existing" <=> Op(c) = "update"
               /\ tx'[c].before = Members(rows) /\ tx'[c].existing = tx[c].existing
<1>1. tx \in [Clients -> Tx] /\ tx[c] \in Tx /\ rows \in [Users -> Row]
  BY DEF ShapeInv, TypeOK
<1>2. Op(c) \in {"update", "add", "remove", "delete"}
  BY BusyHasRequest DEF ReadBefore, At, StepOf
<1> DEFINE p == [update |-> "existing", add |-> "check", remove |-> "erase",
                 delete |-> "check"][Op(c)]
           t == [tx[c] EXCEPT !.before = Members(rows), !.pc = p]
<1>3. /\ p \in {"existing", "check", "erase"} /\ StepOf(Op(c), p)
      /\ p = "existing" <=> Op(c) = "update"
  BY <1>2 DEF StepOf
<1>4. /\ tx' = [tx EXCEPT ![c].before = Members(rows), ![c].pc = p]
      /\ UNCHANGED <<root, rows, told>>
  BY DEF ReadBefore
<1> HIDE DEF p
<1>5. /\ t \in Tx /\ t.pc = p /\ t.req = tx[c].req /\ t.pending = tx[c].pending
      /\ t.before = Members(rows) /\ t.existing = tx[c].existing /\ t.todo = tx[c].todo
      /\ tx' = [tx EXCEPT ![c] = t]
  BY <1>1, <1>3, <1>4, MembersAreMembership DEF Tx
<1> HIDE DEF t
<1>6. Reads(c, p) /\ tx'[c] = t
  BY <1>5, <1>1, <1>4 DEF Reads, Alone
<1> QED
  BY <1>3, <1>5, <1>6

\* The assignments of the active rows.
Active(r) == [u \in Users |-> IF r[u].live THEN [id |-> r[u].id, role |-> r[u].role]
                                           ELSE [id |-> 0, role |-> NoRole]]

LEMMA ReadExistingReads ==
    ASSUME ShapeInv, NEW c \in Clients, ReadExisting(c)
    PROVE  \/ /\ MayAssign(c) /\ Reads(c, "drop")
              /\ tx'[c].existing = Active(rows)
              /\ tx'[c].before = tx[c].before
           \/ Refuse(c)
<1>1. tx \in [Clients -> Tx] /\ tx[c] \in Tx /\ rows \in [Users -> Row]
  BY DEF ShapeInv, TypeOK
<1>2. CASE MayAssign(c)
  <2> DEFINE t == [tx[c] EXCEPT !.existing = Active(rows), !.pc = "drop"]
  <2>1. Active(rows) \in [Users -> [id : Ids \cup {0}, role : Roles \cup {NoRole}]]
    BY <1>1 DEF Active, Row
  <2>2. /\ tx' = [tx EXCEPT ![c].existing = Active(rows), ![c].pc = "drop"]
        /\ UNCHANGED <<root, rows, told>>
    BY <1>2 DEF ReadExisting, Active
  <2>3. /\ t \in Tx /\ t.pc = "drop" /\ t.req = tx[c].req /\ t.pending = tx[c].pending
        /\ t.todo = tx[c].todo /\ t.existing = Active(rows) /\ t.before = tx[c].before
        /\ tx' = [tx EXCEPT ![c] = t]
    BY <1>1, <2>1, <2>2 DEF Tx
  <2> HIDE DEF t
  <2>4. Reads(c, "drop") /\ tx'[c] = t
    BY <2>2, <2>3, <1>1 DEF Reads, Alone
  <2> QED
    BY <1>2, <2>3, <2>4
<1>3. CASE ~MayAssign(c)
  BY <1>3 DEF ReadExisting
<1> QED
  BY <1>2, <1>3

LEMMA ReadAfterReads ==
    ASSUME ShapeInv, NEW c \in Clients, ReadAfter(c)
    PROVE  /\ Reads(c, "commit")
           /\ tx'[c].before = tx[c].before /\ tx'[c].existing = tx[c].existing
           /\ \E edited \in BOOLEAN :
                tx'[c].notes = Notes(tx[c].before, Members(View(c)), edited)
<1>1. /\ tx \in [Clients -> Tx] /\ tx[c] \in Tx /\ rows \in [Users -> Row]
      /\ tx[c].before \in Membership
      /\ DOMAIN tx[c].pending \in SUBSET Users
      /\ \A u \in DOMAIN tx[c].pending : tx[c].pending[u] \in Row
  BY TxIs DEF ShapeInv, TypeOK
<1>2. View(c) \in [Users -> Row]
  BY <1>1 DEF View, Overlay
<1>3. Members(View(c)) \in Membership
  BY <1>2, MembersAreMembership
<1>4. PICK edited \in BOOLEAN :
        tx' = [tx EXCEPT ![c].notes = Notes(tx[c].before, Members(View(c)), edited),
                         ![c].pc = "commit"]
  BY DEF ReadAfter
<1> DEFINE n == Notes(tx[c].before, Members(View(c)), edited)
           t == [tx[c] EXCEPT !.notes = n, !.pc = "commit"]
<1>5. n \in Partial(Roles \cup {NoRole})
  <2>1. PICK U \in SUBSET Users : n \in [U -> Roles \cup {NoRole}]
    <3>1. \A u \in Users : Members(View(c))[u] \in Roles \cup {NoRole}
      BY <1>3 DEF Membership
    <3>2. n \in [DOMAIN n -> Roles \cup {NoRole}] /\ DOMAIN n \in SUBSET Users
      BY <3>1 DEF Notes
    <3> QED
      BY <3>2
  <2> HIDE DEF n
  <2> QED
    BY <2>1, PartialHas
<1>6. tx' = [tx EXCEPT ![c].notes = n, ![c].pc = "commit"] /\ UNCHANGED <<root, rows, told>>
  BY <1>4 DEF ReadAfter
<1> HIDE DEF n
<1>7. /\ t \in Tx /\ t.pc = "commit" /\ t.req = tx[c].req /\ t.pending = tx[c].pending
      /\ t.before = tx[c].before /\ t.existing = tx[c].existing /\ t.todo = tx[c].todo
      /\ t.notes = n /\ tx' = [tx EXCEPT ![c] = t]
  BY <1>1, <1>5, <1>6 DEF Tx
<1> HIDE DEF t
<1>8. Reads(c, "commit") /\ tx'[c] = t
  BY <1>1, <1>6, <1>7 DEF Reads, Alone
<1> QED
  BY <1>7, <1>8 DEF n

LEMMA CheckActiveReads ==
    ASSUME ShapeInv, NEW c \in Clients, CheckActive(c)
    PROVE  \/ \E p \in {"insert", "sweep"} : Reads(c, p) /\ StepOf(Op(c), p)
           \/ Refuse(c)
<1>1. tx \in [Clients -> Tx] /\ tx[c] \in Tx
  BY DEF ShapeInv, TypeOK
<1>2. Op(c) \in {"add", "delete"}
  BY BusyHasRequest DEF CheckActive, At, StepOf
<1>3. CASE root = "active"
  <2> DEFINE p == [add |-> "insert", delete |-> "sweep"][Op(c)]
             t == [tx[c] EXCEPT !.pc = p]
  <2>1. p \in {"insert", "sweep"} /\ StepOf(Op(c), p)
    BY <1>2 DEF StepOf
  <2>2. tx' = [tx EXCEPT ![c].pc = p] /\ UNCHANGED <<root, rows, told>>
    BY <1>3 DEF CheckActive, Goto
  <2> HIDE DEF p
  <2>3. /\ t \in Tx /\ t.pc = p /\ t.req = tx[c].req /\ t.pending = tx[c].pending
        /\ t.todo = tx[c].todo /\ tx' = [tx EXCEPT ![c] = t]
    BY <1>1, <2>1, <2>2 DEF Tx
  <2> HIDE DEF t
  <2>4. Reads(c, p)
    BY <1>1, <2>2, <2>3 DEF Reads, Alone
  <2> QED
    BY <2>1, <2>4
<1>4. CASE root # "active"
  BY <1>4 DEF CheckActive
<1> QED
  BY <1>3, <1>4

LEMMA DeactivateRootReads ==
    ASSUME ShapeInv, NEW c \in Clients, DeactivateRoot(c)
    PROVE  Reads(c, "commit") /\ RootFree(c)
<1>1. tx \in [Clients -> Tx] /\ tx[c] \in Tx
  BY DEF ShapeInv, TypeOK
<1> DEFINE U == {v \in Users : tx[c].before[v] # NoRole}
           n == [u \in U |-> NoRole]
           t == [tx[c] EXCEPT !.notes = n, !.pc = "commit"]
<1>2. n \in [U -> Roles \cup {NoRole}] /\ U \in SUBSET Users
  OBVIOUS
<1>3. tx' = [tx EXCEPT ![c].notes = n, ![c].pc = "commit"]
      /\ UNCHANGED <<root, rows, told>> /\ RootFree(c)
  BY DEF DeactivateRoot
<1> HIDE DEF n, U
<1>4. n \in Partial(Roles \cup {NoRole})
  BY <1>2, PartialHas
<1>5. /\ t \in Tx /\ t.pc = "commit" /\ t.req = tx[c].req /\ t.pending = tx[c].pending
      /\ t.todo = tx[c].todo /\ tx' = [tx EXCEPT ![c] = t]
  BY <1>1, <1>3, <1>4 DEF Tx
<1> HIDE DEF t
<1> QED
  BY <1>1, <1>3, <1>5 DEF Reads, Alone

\* The rows of users a save leaves out.
Gone(c) == {u \in Users : rows[u].id # 0 /\ tx[c].req.next[u] = NoRole}

LEMMA DropOthersIs ==
    ASSUME ShapeInv, NEW c \in Clients, DropOthers(c)
    PROVE  /\ Alone(c) /\ Free(c, Gone(c)) /\ Op(c) = "update"
           /\ tx'[c].pc = "save" /\ tx'[c].req = tx[c].req
           /\ tx'[c].before = tx[c].before /\ tx'[c].existing = tx[c].existing
           /\ tx'[c].todo = ToSave(c)
           /\ DOMAIN tx'[c].pending = Gone(c)
           /\ \A u \in Gone(c) : tx'[c].pending[u] = NoRow
<1>1. tx \in [Clients -> Tx] /\ tx[c] \in Tx
  BY DEF ShapeInv, TypeOK
<1> DEFINE n == [u \in Gone(c) |-> NoRow]
           t == [tx[c] EXCEPT !.pending = n, !.todo = ToSave(c), !.pc = "save"]
<1>2. n \in [Gone(c) -> Row] /\ Gone(c) \in SUBSET Users
  BY NoRowIsRow DEF Gone
<1>3. /\ tx' = [tx EXCEPT ![c].pending = n, ![c].todo = ToSave(c), ![c].pc = "save"]
      /\ UNCHANGED <<root, rows, told>> /\ Free(c, Gone(c))
  BY DEF DropOthers, Gone
<1>4. DOMAIN n = Gone(c) /\ \A u \in Gone(c) : n[u] = NoRow
  OBVIOUS
<1> HIDE DEF n
<1>5. n \in Partial(Row) /\ ToSave(c) \in SUBSET Users
  BY <1>2, PartialHas DEF ToSave
<1>6. /\ t \in Tx /\ t.pc = "save" /\ t.req = tx[c].req /\ t.pending = n
      /\ t.before = tx[c].before /\ t.existing = tx[c].existing /\ t.todo = ToSave(c)
      /\ tx' = [tx EXCEPT ![c] = t]
  BY <1>1, <1>3, <1>5 DEF Tx
<1>7. Op(c) = "update"
  BY BusyHasRequest DEF DropOthers, At, StepOf
<1> HIDE DEF t
<1> QED
  BY <1>1, <1>3, <1>4, <1>6, <1>7 DEF Alone

\* The row a save gives a member it adds, and one whose role it changes.
Added(c, u, row) ==
    /\ tx[c].existing[u].role = NoRole /\ View(c)[u].id = 0
    /\ row = NewRow(FreshId(u), tx[c].req.next[u]) /\ FreshId(u) \notin Referenced(u)

Changed(c, u, row) ==
    /\ tx[c].existing[u].role # NoRole /\ rows[u].id = tx[c].existing[u].id
    /\ row = [rows[u] EXCEPT !.role = tx[c].req.next[u], !.status = "PENDING", !.sub = "none"]

LEMMA SaveIs ==
    ASSUME ShapeInv, NEW c \in Clients, NEW u \in Users, SaveAssignment(c, u), ~Refuse(c)
    PROVE  \E row \in Row :
               /\ Write(c, [v \in {u} |-> row], "save")
               /\ Sane(row) /\ (Added(c, u, row) \/ Changed(c, u, row))
               /\ Op(c) = "update" /\ tx[c].pc = "save" /\ u \in tx[c].todo
<1>1. tx[c].pc = "save" /\ u \in tx[c].todo /\ StepOf(Op(c), "save")
  BY BusyHasRequest DEF SaveAssignment, At
<1>2. Op(c) = "update"
  BY <1>1 DEF ShapeInv, WellFormed
<1>3. tx[c].req.next[u] \in Roles
  BY <1>1, <1>2, RequestIs, BusyHasRequest DEF ShapeInv, WellFormed, Op, Membership
<1>4. CASE tx[c].existing[u].role = NoRole
  <2>1. /\ View(c)[u].id = 0 /\ Ids \ Referenced(u) # {}
        /\ Write(c, [v \in {u} |-> NewRow(FreshId(u), tx[c].req.next[u])], "save")
    BY <1>4 DEF SaveAssignment, Insert
  <2>2. FreshId(u) \in Ids /\ FreshId(u) \notin Referenced(u)
    BY <2>1, FreshIdIsFresh
  <2>3. /\ NewRow(FreshId(u), tx[c].req.next[u]) \in Row
        /\ Sane(NewRow(FreshId(u), tx[c].req.next[u]))
    BY <2>2, <1>3, NewRowIsRow
  <2> QED
    BY <1>1, <1>2, <1>4, <2>1, <2>2, <2>3 DEF Added
<1>5. CASE tx[c].existing[u].role # NoRole
  <2> DEFINE row == [rows[u] EXCEPT !.role = tx[c].req.next[u], !.status = "PENDING",
                                    !.sub = "none"]
  <2>1. Write(c, [v \in {u} |-> row], "save") /\ rows[u].id = tx[c].existing[u].id
    BY <1>5 DEF SaveAssignment, ChangeRole
  <2>2. rows[u] \in Row /\ Sane(rows[u])
    BY DEF ShapeInv, TypeOK
  <2>3. row \in Row /\ Sane(row)
    BY <1>3, <2>2, AnswersAssumption, RolesAssumption DEF Row, Sane
  <2> QED
    BY <1>1, <1>2, <1>5, <2>1, <2>3 DEF Changed
<1> QED
  BY <1>4, <1>5

\* The row that createAssignment inserts, if it does not fail.
LEMMA CreateAssignmentIs ==
    ASSUME ShapeInv, NEW c \in Clients, CreateAssignment(c), ~Refuse(c)
    PROVE  \E u \in Users, row \in Row :
               /\ Write(c, [v \in {u} |-> row], "save")
               /\ Sane(row) /\ row.id \notin Referenced(u)
               /\ Op(c) = "add" /\ tx[c].pc = "insert"
<1> DEFINE u == tx[c].req.user
           row == NewRow(FreshId(u), tx[c].req.role)
<1>1. Op(c) = "add" /\ tx[c].pc = "insert"
  BY BusyHasRequest DEF CreateAssignment, At, StepOf
<1>2. u \in Users /\ tx[c].req.role \in Roles
  BY <1>1, BusyHasRequest, RequestIs DEF Op
<1>3. Ids \ Referenced(u) # {} /\ Write(c, [v \in {u} |-> row], "save")
  BY DEF CreateAssignment, Insert
<1>4. FreshId(u) \in Ids /\ FreshId(u) \notin Referenced(u)
  BY <1>2, <1>3, FreshIdIsFresh
<1>5. row \in Row /\ Sane(row)
  BY <1>2, <1>4, NewRowIsRow
<1>6. row.id = FreshId(u)
  BY DEF NewRow
<1> HIDE DEF u, row
<1> QED
  BY <1>1, <1>2, <1>3, <1>4, <1>5, <1>6

LEMMA DeleteAssignmentIs ==
    ASSUME ShapeInv, NEW c \in Clients, DeleteAssignment(c), ~Refuse(c)
    PROVE  \E u \in Users :
               /\ Write(c, [v \in {u} |-> NoRow], "save")
               /\ Op(c) = "remove" /\ tx[c].pc = "erase"
<1>1. Op(c) = "remove" /\ tx[c].pc = "erase"
  BY BusyHasRequest DEF DeleteAssignment, At, StepOf
<1>2. tx[c].req.user \in Users
  BY <1>1, BusyHasRequest, RequestIs DEF Op
<1> QED
  BY <1>1, <1>2 DEF DeleteAssignment

LEMMA SweepIs ==
    ASSUME ShapeInv, NEW c \in Clients, SweepAssignments(c)
    PROVE  /\ Op(c) = "delete" /\ tx[c].pc = "sweep"
           /\ \E U \in SUBSET Users : \E g \in [U -> Row] :
                /\ Write(c, g, "root")
                /\ \A u \in U : Sane(g[u]) /\ g[u] = [rows[u] EXCEPT !.live = FALSE]
<1> DEFINE live == {u \in Users : rows[u].live}
           g == [u \in live |-> [rows[u] EXCEPT !.live = FALSE]]
<1>1. Op(c) = "delete" /\ tx[c].pc = "sweep"
  BY BusyHasRequest DEF SweepAssignments, At, StepOf
<1>2. ASSUME NEW u \in Users, rows[u].live PROVE [rows[u] EXCEPT !.live = FALSE] \in Row
  BY DEF ShapeInv, TypeOK, Row
<1>3. ASSUME NEW u \in Users, rows[u].live PROVE Sane([rows[u] EXCEPT !.live = FALSE])
  BY DEF ShapeInv, TypeOK, Row, Sane
<1>4. g \in [live -> Row] /\ live \in SUBSET Users
  BY <1>2
<1>5. Write(c, g, "root")
  BY DEF SweepAssignments
<1>6. \A u \in live : Sane(g[u]) /\ g[u] = [rows[u] EXCEPT !.live = FALSE]
  BY <1>3
<1> HIDE DEF live, g
<1> QED
  BY <1>1, <1>4, <1>5, <1>6

\* An answer and a resolution change neither the id nor the role of the row, which
\* is active.
LEMMA AnswerIs ==
    ASSUME ShapeInv, NEW c \in Clients, AnswerAssignment(c), ~Refuse(c)
    PROVE  \E u \in Users, row \in Row :
               /\ Write(c, [v \in {u} |-> row], "commit")
               /\ rows[u].live /\ row.live /\ row.id = rows[u].id /\ row.role = rows[u].role
               /\ Op(c) = "respond" /\ tx[c].pc = "answer"
<1> DEFINE u == tx[c].req.user
           row == [rows[u] EXCEPT !.status = tx[c].req.status,
                                  !.sub = IF tx[c].req.ask THEN "open" ELSE @]
<1>1. Op(c) = "respond" /\ tx[c].pc = "answer"
  BY BusyHasRequest DEF AnswerAssignment, At, StepOf
<1>2. u \in Users /\ tx[c].req.status \in Answers
  BY <1>1, BusyHasRequest, RequestIs DEF Op
<1>3. rows[u].live /\ Write(c, [v \in {u} |-> row], "commit")
  BY DEF AnswerAssignment
<1>4. /\ row \in Row
      /\ row.live = rows[u].live /\ row.id = rows[u].id /\ row.role = rows[u].role
  BY <1>2 DEF ShapeInv, TypeOK, Row
<1> HIDE DEF u, row
<1> QED
  BY <1>1, <1>2, <1>3, <1>4

LEMMA ResolveIs ==
    ASSUME ShapeInv, NEW c \in Clients, ResolveSubstitution(c), ~Refuse(c)
    PROVE  \E u \in Users, row \in Row :
               /\ Write(c, [v \in {u} |-> row], "commit")
               /\ rows[u].live /\ row.live /\ row.id = rows[u].id /\ row.role = rows[u].role
               /\ Op(c) = "resolve" /\ tx[c].pc = "resolve"
               /\ u = tx[c].req.user /\ rows[u].id = tx[c].req.id /\ rows[u].sub = "open"
<1> DEFINE u == tx[c].req.user
           row == [rows[u] EXCEPT !.sub = "resolved"]
<1>1. Op(c) = "resolve" /\ tx[c].pc = "resolve"
  BY BusyHasRequest DEF ResolveSubstitution, At, StepOf
<1>2. u \in Users
  BY <1>1, BusyHasRequest, RequestIs DEF Op
<1>3. /\ rows[u].live /\ rows[u].sub = "open" /\ rows[u].id = tx[c].req.id
      /\ Write(c, [v \in {u} |-> row], "commit")
  BY DEF ResolveSubstitution, OpenRequest
<1>4. /\ row \in Row
      /\ row.live = rows[u].live /\ row.id = rows[u].id /\ row.role = rows[u].role
  BY <1>2 DEF ShapeInv, TypeOK, Row
<1>5. u = tx[c].req.user
  OBVIOUS
<1> HIDE DEF u, row
<1> QED
  BY <1>1, <1>2, <1>3, <1>4, <1>5

\* A commit makes the rows written by c the rows of all.
LEMMA CommitIs ==
    ASSUME ShapeInv, NEW c \in Clients, Commit(c)
    PROVE  /\ tx[c].pc = "commit" /\ tx'[c] = NoTx /\ tx' \in [Clients -> Tx]
           /\ \A d \in Clients \ {c} : tx'[d] = tx[d]
           /\ rows' \in [Users -> Row] /\ rows' = View(c)
           /\ \A u \in Users : /\ u \in DOMAIN tx[c].pending => rows'[u] = tx[c].pending[u]
                               /\ u \notin DOMAIN tx[c].pending => rows'[u] = rows[u]
           /\ told' \in Membership
           /\ \A u \in Users : told'[u] = IF u \in DOMAIN tx[c].notes THEN tx[c].notes[u]
                                                                     ELSE told[u]
           /\ root' = IF Op(c) = "delete" THEN "deleted" ELSE root
<1>1. tx \in [Clients -> Tx] /\ rows \in [Users -> Row] /\ told \in Membership
  BY DEF ShapeInv, TypeOK
<1>2. /\ \A u \in DOMAIN tx[c].pending : tx[c].pending[u] \in Row
      /\ \A u \in DOMAIN tx[c].notes : tx[c].notes[u] \in Roles \cup {NoRole}
  BY TxIs DEF ShapeInv
<1>3. tx' = [tx EXCEPT ![c] = NoTx] /\ tx[c].pc = "commit"
  BY DEF Commit, At
<1>4. /\ rows' = [u \in Users |-> IF u \in DOMAIN tx[c].pending THEN tx[c].pending[u]
                                                              ELSE rows[u]]
      /\ rows' = View(c)
  BY <1>1 DEF Commit, View, Overlay
<1>5. told' = [u \in Users |-> IF u \in DOMAIN tx[c].notes THEN tx[c].notes[u] ELSE told[u]]
  BY <1>1 DEF Commit, Overlay, Membership
<1>6. rows' \in [Users -> Row]
  BY <1>1, <1>2, <1>4
<1>7. told' \in Membership
  BY <1>1, <1>2, <1>5 DEF Membership
<1>8. tx' \in [Clients -> Tx] /\ tx'[c] = NoTx /\ \A d \in Clients \ {c} : tx'[d] = tx[d]
  BY <1>1, <1>3, NoTxIsTx
<1> QED
  BY <1>3, <1>4, <1>5, <1>6, <1>7, <1>8 DEF Commit

LEMMA CommitKeepsShape ==
    ASSUME ShapeInv, NEW c \in Clients, Commit(c) PROVE ShapeInv'
<1>1. root # "absent" /\ root' \in {"active", "deleted"}
  BY CommitIs, BusyMeansCreated DEF ShapeInv, TypeOK
<1>2. TypeOK'
  BY <1>1, CommitIs DEF TypeOK
<1>3. \A u \in Users : Sane(rows'[u])
  BY CommitIs DEF ShapeInv, WellFormed
<1>4. ASSUME NEW d \in Clients PROVE WellFormed(d)'
  <2>1. CASE d = c
    BY <2>1, CommitIs, NoTxIsWellFormed
  <2>2. CASE d # c
    <3>1. tx'[d] = tx[d] /\ WellFormed(d)
      BY <2>2, CommitIs DEF ShapeInv
    <3> QED
      BY <3>1 DEF WellFormed, Op
  <2> QED
    BY <2>1, <2>2
<1> QED
  BY <1>1, <1>2, <1>3, <1>4 DEF ShapeInv, NothingBeforeCreation

LEMMA RowKeepsShape ==
    ASSUME ShapeInv, NEW c \in Clients, tx[c].pc # "idle", NEW u \in Users, NEW row \in Row,
           NEW p \in {"save", "root", "commit"}, Write(c, [v \in {u} |-> row], p),
           StepOf(Op(c), p), Sane(row), Op(c) = "update" => tx[c].pc = "save"
    PROVE  ShapeInv'
<1> DEFINE g == [v \in {u} |-> row]
<1>1. g \in [{u} -> Row] /\ {u} \in SUBSET Users /\ \A v \in {u} : Sane(g[v])
  OBVIOUS
<1> HIDE DEF g
<1> QED
  BY <1>1, WriteKeepsShape DEF g

LEMMA NextKeepsShape == ShapeInv /\ [Next]_vars => ShapeInv'
<1> SUFFICES ASSUME ShapeInv, [Next]_vars PROVE ShapeInv'
  OBVIOUS
<1>1. CASE CreateSchedule
  BY <1>1, CreateKeepsShape
<1>2. ASSUME NEW c \in Clients, ClientStep(c) PROVE ShapeInv'
  <2>1. CASE Refuse(c) /\ tx[c].pc # "idle"
    BY <2>1, RefuseKeepsShape
  <2>2. CASE \/ RequestUpdate(c) \/ RequestAdd(c) \/ RequestRemove(c)
             \/ RequestDelete(c) \/ RequestRespond(c) \/ RequestResolve(c)
    BY <2>2, ArrivalsKeepShape
  <2> SUFFICES ASSUME ~Refuse(c), tx[c].pc # "idle" PROVE ShapeInv'
    BY <1>2, <2>1, <2>2, CommitKeepsShape, BusyHasRequest
       DEF ClientStep, LockRoot, ReadBefore, ReadExisting, DropOthers, SaveAssignment,
           ReadAfter, CheckActive, CreateAssignment, DeleteAssignment, SweepAssignments,
           DeactivateRoot, AnswerAssignment, ResolveSubstitution, Commit, Abort, At
  <2> USE BusyHasRequest DEF At, StepOf
  <2>3. DOMAIN tx[c].pending = {} \/ tx[c].pc \in {"save", "root", "commit"}
    BY DEF ShapeInv, WellFormed
  <2>4. CASE LockRoot(c)
    BY <2>3, <2>4, LockRootReads, ReadKeepsShape DEF LockRoot
  <2>5. CASE ReadBefore(c)
    <3>1. PICK p \in {"existing", "check", "erase"} : Reads(c, p) /\ StepOf(Op(c), p)
      BY <2>5, ReadBeforeReads
    <3> QED
      BY <2>3, <2>5, <3>1, ReadKeepsShape DEF ReadBefore
  <2>6. CASE ReadExisting(c)
    BY <2>3, <2>6, ReadExistingReads, ReadKeepsShape DEF ReadExisting
  <2>7. CASE DropOthers(c)
    <3>1. WellFormed(c)'
      BY <2>7, DropOthersIs, NoRowIsRow DEF ShapeInv, WellFormed, Op, ToSave
    <3> QED
      BY <2>7, <3>1, DropOthersIs, AloneKeepsShape, BusyMeansCreated
  <2>8. ASSUME NEW u \in Users, SaveAssignment(c, u) PROVE ShapeInv'
    <3>1. PICK row \in Row :
              /\ Write(c, [v \in {u} |-> row], "save") /\ Sane(row)
              /\ Op(c) = "update" /\ tx[c].pc = "save"
      BY <2>8, SaveIs
    <3> QED
      BY <3>1, RowKeepsShape
  <2>9. CASE ReadAfter(c)
    BY <2>9, ReadAfterReads, ReadKeepsShape DEF ReadAfter
  <2>10. CASE CheckActive(c)
    BY <2>3, <2>10, CheckActiveReads, ReadKeepsShape DEF CheckActive
  <2>11. CASE CreateAssignment(c)
    <3>1. PICK u \in Users, row \in Row :
              /\ Write(c, [v \in {u} |-> row], "save") /\ Sane(row) /\ Op(c) = "add"
      BY <2>11, CreateAssignmentIs
    <3> QED
      BY <3>1, RowKeepsShape
  <2>12. CASE DeleteAssignment(c)
    <3>1. PICK u \in Users :
              Write(c, [v \in {u} |-> NoRow], "save") /\ Op(c) = "remove"
      BY <2>12, DeleteAssignmentIs
    <3> QED
      BY <3>1, RowKeepsShape, NoRowIsRow
  <2>13. CASE SweepAssignments(c)
    <3>1. PICK U \in SUBSET Users : \E g \in [U -> Row] :
              Write(c, g, "root") /\ Op(c) = "delete" /\ \A u \in U : Sane(g[u])
      BY <2>13, SweepIs
    <3> QED
      BY <3>1, WriteKeepsShape
  <2>14. CASE DeactivateRoot(c)
    BY <2>14, DeactivateRootReads, ReadKeepsShape DEF DeactivateRoot
  <2>15. CASE AnswerAssignment(c)
    <3>1. PICK u \in Users, row \in Row :
              Write(c, [v \in {u} |-> row], "commit") /\ Op(c) = "respond"
              /\ row.live /\ row.id = rows[u].id /\ row.role = rows[u].role /\ rows[u].live
      BY <2>15, AnswerIs
    <3> QED
      BY <3>1, RowKeepsShape DEF ShapeInv, Sane
  <2>16. CASE ResolveSubstitution(c)
    <3>1. PICK u \in Users, row \in Row :
              Write(c, [v \in {u} |-> row], "commit") /\ Op(c) = "resolve"
              /\ row.live /\ row.id = rows[u].id /\ row.role = rows[u].role /\ rows[u].live
      BY <2>16, ResolveIs
    <3> QED
      BY <3>1, RowKeepsShape DEF ShapeInv, Sane
  <2>17. CASE Commit(c)
    BY <2>17, CommitKeepsShape
  <2>18. ~Abort(c)
    BY DEF Abort
  <2>19. /\ ~RequestUpdate(c) /\ ~RequestAdd(c) /\ ~RequestRemove(c)
         /\ ~RequestDelete(c) /\ ~RequestRespond(c) /\ ~RequestResolve(c)
    BY DEF RequestUpdate, RequestAdd, RequestRemove, RequestDelete, RequestRespond,
           RequestResolve, Request
  <2> QED
    BY <1>2, <2>4, <2>5, <2>6, <2>7, <2>8, <2>9, <2>10, <2>11, <2>12, <2>13, <2>14, <2>15,
       <2>16, <2>17, <2>18, <2>19 DEF ClientStep
<1>3. CASE UNCHANGED vars
  BY <1>3 DEF vars, ShapeInv, TypeOK, WellFormed, Op, NothingBeforeCreation
<1> QED
  BY <1>1, <1>2, <1>3 DEF Next

LEMMA ShapeInductive == Spec => []ShapeInv
  BY InitShape, NextKeepsShape, PTL DEF Spec

-----------------------------------------------------------------------------
(***************************************************************************)
(* Locks, and what a save knows of the rows.                               *)
(***************************************************************************)
\* A row is written by one transaction at a time.
RowsAreLocked ==
    \A c, d \in Clients : c # d => DOMAIN tx[c].pending \cap DOMAIN tx[d].pending = {}

\* One transaction at a time holds the schedule row.
RootIsLocked == \A c, d \in Clients : HoldsRoot(c) /\ HoldsRoot(d) => c = d

\* A save that has read the existing assignments.
Knows(c) == Op(c) = "update" /\ tx[c].pc \in {"drop", "save", "commit"}

\* As long as a member's row is the one a save has read, committed or about to be
\* committed by another request, its role is the one the save has read.
ExistingIsCurrent ==
    \A c \in Clients, u \in Users :
        Knows(c) /\ tx[c].existing[u].role # NoRole =>
            /\ tx[c].existing[u].id # 0
            /\ rows[u].id = tx[c].existing[u].id => rows[u].role = tx[c].existing[u].role
            /\ \A d \in Clients \ {c} :
                 u \in DOMAIN tx[d].pending /\ tx[d].pending[u].id = tx[c].existing[u].id =>
                     tx[d].pending[u].role = tx[c].existing[u].role

\* Only saves change the role of a row.
OthersKeepRoles ==
    \A c \in Clients : Op(c) # "update" =>
        \A u \in DOMAIN tx[c].pending :
            tx[c].pending[u].id # 0 /\ tx[c].pending[u].id = rows[u].id =>
                tx[c].pending[u].role = rows[u].role

\* A save writes no row that has the role it asks for.
SavesChange ==
    \A c \in Clients : Op(c) = "update" =>
        \A u \in DOMAIN tx[c].pending : ~(rows[u].live /\ rows[u].role = tx[c].req.next[u])

\* What is left to save is not written yet and differs from what was read.
LeftToSave ==
    \A c \in Clients : Op(c) = "update" /\ tx[c].pc = "save" =>
        \A u \in tx[c].todo : /\ u \notin DOMAIN tx[c].pending
                              /\ tx[c].req.next[u] # tx[c].existing[u].role

\* A resolution has locked the open request it resolves.
ResolvesOpen ==
    \A c \in Clients : Op(c) = "resolve" /\ tx[c].pc = "commit" =>
        /\ tx[c].req.user \in DOMAIN tx[c].pending
        /\ rows[tx[c].req.user].sub = "open" /\ rows[tx[c].req.user].id = tx[c].req.id

SaveInv ==
    /\ ShapeInv /\ RowsAreLocked /\ RootIsLocked
    /\ ExistingIsCurrent /\ OthersKeepRoles /\ SavesChange /\ LeftToSave /\ ResolvesOpen

-----------------------------------------------------------------------------
\* A step that writes nothing: an arrival, a refusal, a read other than that of the
\* existing assignments.
LEMMA QuietKeepsSaves ==
    ASSUME SaveInv, ShapeInv', NEW c \in Clients, Alone(c),
           DOMAIN tx'[c].pending # {} => tx'[c].pending = tx[c].pending /\ tx'[c].req = tx[c].req,
           Knows(c)' => /\ Knows(c) /\ tx'[c].existing = tx[c].existing,
           HoldsRoot(c)' => HoldsRoot(c) \/ RootFree(c),
           tx'[c].pc # "save", ~(Op(c)' = "resolve" /\ tx'[c].pc = "commit")
    PROVE  SaveInv'
<1> USE DEF Alone, Op
<1>1. RowsAreLocked'
  BY DEF SaveInv, RowsAreLocked
<1>2. RootIsLocked'
  BY DEF SaveInv, RootIsLocked, HoldsRoot, RootFree
<1>3. ExistingIsCurrent'
  BY DEF SaveInv, ExistingIsCurrent, Knows
<1>4. OthersKeepRoles' /\ SavesChange' /\ LeftToSave' /\ ResolvesOpen'
  BY DEF SaveInv, OthersKeepRoles, SavesChange, LeftToSave, ResolvesOpen
<1> QED
  BY <1>1, <1>2, <1>3, <1>4 DEF SaveInv

\* What the write of a row sees to.
Fits(c, u, row, p) ==
    /\ \A d \in Clients \ {c} :
         Knows(d) /\ tx[d].existing[u].role # NoRole /\ row.id = tx[d].existing[u].id =>
             row.role = tx[d].existing[u].role
    /\ Op(c) # "update" => (row.id # 0 /\ row.id = rows[u].id => row.role = rows[u].role)
    /\ Op(c) = "update" => /\ tx[c].pc = "save" /\ p = "save"
                           /\ ~(rows[u].live /\ rows[u].role = tx[c].req.next[u])
    /\ Op(c) = "delete" => p = "root"
    /\ Op(c) = "resolve" => /\ u = tx[c].req.user
                            /\ rows[u].sub = "open" /\ rows[u].id = tx[c].req.id

\* A step that writes.
LEMMA WriteKeepsSaves ==
    ASSUME SaveInv, ShapeInv', NEW c \in Clients, NEW S \in SUBSET Users, NEW g \in [S -> Row],
           NEW p \in {"save", "root", "commit"}, Wrote(c, S, g, p),
           S # {} \/ (Op(c) = "delete" /\ p = "root"), \A u \in S : Fits(c, u, g[u], p)
    PROVE  SaveInv'
<1> USE DEF Alone, Op, Wrote, Fits
<1>1. RowsAreLocked'
  BY DEF SaveInv, RowsAreLocked, Free
<1>2. RootIsLocked'
  BY DEF SaveInv, RootIsLocked, HoldsRoot
<1>3. ExistingIsCurrent'
  <2> SUFFICES ASSUME NEW d \in Clients, NEW u \in Users, Knows(d)',
                      tx'[d].existing[u].role # NoRole
               PROVE  /\ tx[d].existing[u].id # 0
                      /\ rows[u].id = tx[d].existing[u].id => rows[u].role = tx[d].existing[u].role
                      /\ \A e \in Clients \ {d} :
                           u \in DOMAIN tx'[e].pending /\ tx'[e].pending[u].id = tx[d].existing[u].id =>
                               tx'[e].pending[u].role = tx[d].existing[u].role
    BY DEF ExistingIsCurrent
  <2>1. Knows(d) /\ tx[d].existing[u].role # NoRole
    BY DEF Knows
  <2>2. /\ tx[d].existing[u].id # 0
        /\ rows[u].id = tx[d].existing[u].id => rows[u].role = tx[d].existing[u].role
    BY <2>1 DEF SaveInv, ExistingIsCurrent
  <2>3. ASSUME NEW e \in Clients \ {d}, u \in DOMAIN tx'[e].pending,
               tx'[e].pending[u].id = tx[d].existing[u].id
        PROVE  tx'[e].pending[u].role = tx[d].existing[u].role
    <3>1. CASE e = c /\ u \in S
      BY <2>1, <2>3, <3>1
    <3>2. CASE ~(e = c /\ u \in S)
      BY <2>1, <2>3, <3>2 DEF SaveInv, ExistingIsCurrent
    <3> QED
      BY <3>1, <3>2
  <2> QED
    BY <2>2, <2>3
<1>4. OthersKeepRoles'
  <2> SUFFICES ASSUME NEW d \in Clients, Op(d) # "update", NEW u \in DOMAIN tx'[d].pending,
                      tx'[d].pending[u].id # 0, tx'[d].pending[u].id = rows[u].id
               PROVE  tx'[d].pending[u].role = rows[u].role
    BY DEF OthersKeepRoles
  <2>1. CASE d = c /\ u \in S
    BY <2>1
  <2>2. CASE ~(d = c /\ u \in S)
    BY <2>2 DEF SaveInv, OthersKeepRoles
  <2> QED
    BY <2>1, <2>2
<1>5. SavesChange'
  BY DEF SaveInv, SavesChange
<1>6. LeftToSave'
  BY DEF SaveInv, LeftToSave
<1>7. ResolvesOpen'
  BY DEF SaveInv, ResolvesOpen
<1> QED
  BY <1>1, <1>2, <1>3, <1>4, <1>5, <1>6, <1>7 DEF SaveInv

\* The rows another transaction has read or written are not written by a commit.
LEMMA CommitKeepsSaves ==
    ASSUME SaveInv, NEW c \in Clients, Commit(c) PROVE SaveInv'
<1>1. /\ tx'[c] = NoTx /\ \A d \in Clients \ {c} : tx'[d] = tx[d]
      /\ \A u \in Users : /\ u \in DOMAIN tx[c].pending => rows'[u] = tx[c].pending[u]
                          /\ u \notin DOMAIN tx[c].pending => rows'[u] = rows[u]
      /\ ShapeInv'
  BY CommitIs, CommitKeepsShape DEF SaveInv
<1>2. /\ DOMAIN NoTx.pending = {} /\ NoTx.req.op = "none" /\ NoTx.pc = "idle"
  BY DEF NoTx
<1>3. ASSUME NEW d \in Clients \ {c}
      PROVE  /\ \A u \in DOMAIN tx[d].pending : rows'[u] = rows[u]
             /\ DOMAIN tx[d].pending \in SUBSET Users
  BY <1>1, TxIs DEF SaveInv, ShapeInv, RowsAreLocked
<1> USE DEF Op
<1>4. RowsAreLocked'
  BY <1>1, <1>2 DEF SaveInv, RowsAreLocked
<1>5. RootIsLocked'
  BY <1>1, <1>2 DEF SaveInv, RootIsLocked, HoldsRoot
<1>6. ExistingIsCurrent'
  <2> SUFFICES ASSUME NEW d \in Clients \ {c}, NEW u \in Users, Knows(d),
                      tx[d].existing[u].role # NoRole
               PROVE  /\ tx[d].existing[u].id # 0
                      /\ rows'[u].id = tx[d].existing[u].id => rows'[u].role = tx[d].existing[u].role
                      /\ \A e \in Clients \ {d} :
                           u \in DOMAIN tx'[e].pending /\ tx'[e].pending[u].id = tx[d].existing[u].id =>
                               tx'[e].pending[u].role = tx[d].existing[u].role
    BY <1>1, <1>2 DEF ExistingIsCurrent, Knows
  <2>1. /\ tx[d].existing[u].id # 0
        /\ rows[u].id = tx[d].existing[u].id => rows[u].role = tx[d].existing[u].role
        /\ \A e \in Clients \ {d} :
             u \in DOMAIN tx[e].pending /\ tx[e].pending[u].id = tx[d].existing[u].id =>
                 tx[e].pending[u].role = tx[d].existing[u].role
    BY DEF SaveInv, ExistingIsCurrent
  <2> QED
    BY <1>1, <1>2, <2>1
<1>7. OthersKeepRoles'
  BY <1>1, <1>2, <1>3 DEF SaveInv, OthersKeepRoles
<1>8. SavesChange'
  BY <1>1, <1>2, <1>3 DEF SaveInv, SavesChange
<1>9. LeftToSave'
  BY <1>1, <1>2 DEF SaveInv, LeftToSave
<1>10. ResolvesOpen'
  BY <1>1, <1>2, <1>3 DEF SaveInv, ResolvesOpen
<1> QED
  BY <1>1, <1>4, <1>5, <1>6, <1>7, <1>8, <1>9, <1>10 DEF SaveInv

LEMMA RefuseKeepsSaves ==
    ASSUME SaveInv, ShapeInv', NEW c \in Clients, Refuse(c) PROVE SaveInv'
<1>1. Alone(c) /\ tx'[c] = NoTx
  BY RefuseIs DEF SaveInv, ShapeInv
<1> QED
  BY <1>1, QuietKeepsSaves DEF NoTx, Knows, HoldsRoot, Op

\* What an arriving request leaves in the transaction.
Arrives(c) ==
    /\ Alone(c) /\ tx[c].pc = "idle" /\ DOMAIN tx'[c].pending = {}
    /\ tx'[c].pc \in {"lock", "before", "answer", "resolve"}
    /\ Op(c)' = "update" => tx'[c].pc = "lock"
    /\ tx'[c].notes = tx[c].notes

LEMMA ArrivalIs ==
    ASSUME ShapeInv, ShapeInv', NEW c \in Clients,
           \/ RequestUpdate(c) \/ RequestAdd(c) \/ RequestRemove(c)
           \/ RequestDelete(c) \/ RequestRespond(c) \/ RequestResolve(c)
    PROVE  Arrives(c)
<1> DEFINE Asks(req, p) == Request(c, req, p) /\ (req.op = "update" => p = "lock")
<1>1. \E p \in {"lock", "before", "answer", "resolve"} : \E req : Asks(req, p)
  <2>1. CASE RequestUpdate(c)
    <3>1. PICK next \in Membership, assigner \in BOOLEAN :
              Asks([op |-> "update", next |-> next, assigner |-> assigner], "lock")
      BY <2>1 DEF RequestUpdate
    <3> QED
      BY <3>1
  <2>2. CASE RequestAdd(c)
    <3>1. PICK u \in Users, r \in Roles :
              Asks([op |-> "add", user |-> u, role |-> r], "before")
      BY <2>2 DEF RequestAdd
    <3> QED
      BY <3>1
  <2>3. CASE RequestRemove(c)
    <3>1. PICK u \in Users : Asks([op |-> "remove", user |-> u, id |-> rows[u].id], "before")
      BY <2>3 DEF RequestRemove
    <3> QED
      BY <3>1
  <2>4. CASE RequestDelete(c)
    <3>1. Asks([op |-> "delete"], "before")
      BY <2>4 DEF RequestDelete
    <3> QED
      BY <3>1
  <2>5. CASE RequestRespond(c)
    <3>1. PICK u \in Users, owner \in BOOLEAN, status \in Answers, ask \in BOOLEAN :
              Asks([op |-> "respond", user |-> u, id |-> rows[u].id, owner |-> owner,
                    status |-> status, ask |-> ask], "answer")
      BY <2>5 DEF RequestRespond
    <3> QED
      BY <3>1
  <2>6. CASE RequestResolve(c)
    <3>1. PICK u \in Users : Asks([op |-> "resolve", user |-> u, id |-> rows[u].id], "resolve")
      BY <2>6 DEF RequestResolve
    <3> QED
      BY <3>1
  <2> QED
    BY <2>1, <2>2, <2>3, <2>4, <2>5, <2>6
<1>2. PICK p \in {"lock", "before", "answer", "resolve"} :
        \E req : Request(c, req, p) /\ (req.op = "update" => p = "lock")
  BY <1>1
<1>3. PICK req : Request(c, req, p) /\ (req.op = "update" => p = "lock")
  BY <1>2
<1>4. /\ tx \in [Clients -> Tx] /\ tx' \in [Clients -> Tx] /\ tx[c] \in Tx
      /\ tx' = [tx EXCEPT ![c].req = req, ![c].pc = p] /\ UNCHANGED <<root, rows, told>>
      /\ DOMAIN tx[c].pending = {} /\ tx[c].pc = "idle"
  BY <1>3 DEF Request, ShapeInv, TypeOK, WellFormed, At
<1>5. /\ tx'[c].pc = p /\ tx'[c].req = req /\ tx'[c].pending = tx[c].pending
      /\ tx'[c].notes = tx[c].notes
  BY <1>4 DEF Tx
<1> QED
  BY <1>3, <1>4, <1>5 DEF Arrives, Alone, Op

LEMMA ArrivalKeepsSaves ==
    ASSUME SaveInv, ShapeInv', NEW c \in Clients, Arrives(c)
    PROVE  SaveInv'
  BY QuietKeepsSaves DEF Arrives, Knows, HoldsRoot

\* The read of the existing assignments: no other save is at work, and other requests
\* keep the roles of the rows they have written.
LEMMA ReadExistingKeepsSaves ==
    ASSUME SaveInv, ShapeInv', NEW c \in Clients, tx[c].pc = "existing",
           Reads(c, "drop"), tx'[c].existing = Active(rows)
    PROVE  SaveInv'
<1> USE DEF Reads, Alone, Op
<1>1. Op(c) = "update" /\ HoldsRoot(c)
  BY BusyHasRequest DEF SaveInv, StepOf, HoldsRoot
<1>2. ASSUME NEW d \in Clients \ {c}, Op(d) = "update"
      PROVE  DOMAIN tx[d].pending = {} /\ ~Knows(d)
  <2>1. ~HoldsRoot(d)
    BY <1>1 DEF SaveInv, RootIsLocked
  <2>2. tx[d].pc \in {"idle", "lock"}
    BY <1>2, <2>1 DEF HoldsRoot
  <2> QED
    BY <2>2 DEF SaveInv, ShapeInv, WellFormed, Knows
<1>3. RowsAreLocked' /\ RootIsLocked'
  BY <1>1 DEF SaveInv, RowsAreLocked, RootIsLocked, HoldsRoot
<1>4. ExistingIsCurrent'
  <2> SUFFICES ASSUME NEW u \in Users, Active(rows)[u].role # NoRole
               PROVE  /\ Active(rows)[u].id # 0
                      /\ rows[u].id = Active(rows)[u].id => rows[u].role = Active(rows)[u].role
                      /\ \A d \in Clients \ {c} :
                           u \in DOMAIN tx[d].pending /\ tx[d].pending[u].id = Active(rows)[u].id =>
                               tx[d].pending[u].role = Active(rows)[u].role
    BY <1>2 DEF ExistingIsCurrent, Knows
  <2>1. rows[u].live /\ Active(rows)[u].id = rows[u].id /\ Active(rows)[u].role = rows[u].role
    BY DEF Active
  <2>2. rows[u].id # 0
    BY <2>1 DEF SaveInv, ShapeInv, Sane
  <2>3. ASSUME NEW d \in Clients \ {c}, u \in DOMAIN tx[d].pending, tx[d].pending[u].id = rows[u].id
        PROVE  tx[d].pending[u].role = rows[u].role
    BY <1>2, <2>2, <2>3 DEF SaveInv, OthersKeepRoles
  <2> QED
    BY <2>1, <2>2, <2>3
<1>5. OthersKeepRoles' /\ SavesChange' /\ LeftToSave' /\ ResolvesOpen'
  BY DEF SaveInv, OthersKeepRoles, SavesChange, LeftToSave, ResolvesOpen
<1> QED
  BY <1>3, <1>4, <1>5 DEF SaveInv

LEMMA DropOthersKeepsSaves ==
    ASSUME SaveInv, ShapeInv', NEW c \in Clients, DropOthers(c) PROVE SaveInv'
<1>1. /\ Alone(c) /\ Free(c, Gone(c)) /\ Op(c) = "update" /\ tx[c].pc = "drop"
      /\ tx'[c].pc = "save" /\ tx'[c].req = tx[c].req
      /\ tx'[c].existing = tx[c].existing /\ tx'[c].todo = ToSave(c)
      /\ DOMAIN tx'[c].pending = Gone(c)
      /\ \A u \in Gone(c) : tx'[c].pending[u] = NoRow
  BY DropOthersIs DEF SaveInv, DropOthers, At
<1>2. NoRow.id = 0
  BY DEF NoRow
<1>3. ASSUME NEW u \in Gone(c) PROVE ~(rows[u].live /\ rows[u].role = tx[c].req.next[u])
  BY DEF SaveInv, ShapeInv, Sane, Gone
<1> USE DEF Alone, Op
<1>4. RowsAreLocked'
  BY <1>1 DEF SaveInv, RowsAreLocked, Free
<1>5. RootIsLocked'
  BY <1>1 DEF SaveInv, RootIsLocked, HoldsRoot
<1>6. ExistingIsCurrent'
  BY <1>1, <1>2 DEF SaveInv, ExistingIsCurrent, Knows, Gone
<1>7. OthersKeepRoles' /\ SavesChange' /\ LeftToSave' /\ ResolvesOpen'
  BY <1>1, <1>3 DEF SaveInv, OthersKeepRoles, SavesChange, LeftToSave, ResolvesOpen, ToSave, Gone
<1> QED
  BY <1>4, <1>5, <1>6, <1>7 DEF SaveInv

LEMMA RowKeepsSaves ==
    ASSUME SaveInv, ShapeInv', NEW c \in Clients, NEW u \in Users, NEW row \in Row,
           NEW p \in {"save", "root", "commit"}, Write(c, [v \in {u} |-> row], p),
           Fits(c, u, row, p)
    PROVE  SaveInv'
<1> DEFINE S == {u}
           g == [v \in S |-> row]
<1>1. g \in [S -> Row] /\ S \in SUBSET Users /\ S # {}
  OBVIOUS
<1>2. Wrote(c, S, g, p)
  <2> HIDE DEF g
  <2> QED
    BY <1>1, WriteWrote DEF SaveInv, ShapeInv, g
<1>3. \A v \in S : Fits(c, v, g[v], p)
  OBVIOUS
<1> HIDE DEF g, S
<1> QED
  BY <1>1, <1>2, <1>3, WriteKeepsSaves

\* One turn of the loop of a save.
LEMMA SaveKeepsSaves ==
    ASSUME SaveInv, ShapeInv', NEW c \in Clients, NEW u \in Users, SaveAssignment(c, u)
    PROVE  SaveInv'
<1>1. CASE Refuse(c)
  BY <1>1, RefuseKeepsSaves
<1>2. CASE ~Refuse(c)
  <2>1. PICK row \in Row :
            /\ Write(c, [v \in {u} |-> row], "save")
            /\ Added(c, u, row) \/ Changed(c, u, row)
            /\ Op(c) = "update" /\ tx[c].pc = "save" /\ u \in tx[c].todo
    BY <1>2, SaveIs DEF SaveInv
  <2>2. \A d \in Clients \ {c} : ~Knows(d)
    BY <2>1 DEF SaveInv, RootIsLocked, HoldsRoot, Knows
  <2>3. u \notin DOMAIN tx[c].pending /\ tx[c].req.next[u] # tx[c].existing[u].role
    BY <2>1 DEF SaveInv, LeftToSave
  <2>4. ~(rows[u].live /\ rows[u].role = tx[c].req.next[u])
    <3>1. CASE Added(c, u, row)
      <4>1. rows[u].id = 0
        BY <2>3, <3>1 DEF Added, View, Overlay, SaveInv, ShapeInv, TypeOK
      <4> QED
        BY <4>1 DEF SaveInv, ShapeInv, Sane
    <3>2. CASE Changed(c, u, row)
      <4>1. rows[u].role = tx[c].existing[u].role
        BY <2>1, <3>2 DEF Changed, SaveInv, ExistingIsCurrent, Knows
      <4> QED
        BY <4>1, <2>3
    <3> QED
      BY <2>1, <3>1, <3>2
  <2>5. Fits(c, u, row, "save")
    BY <2>1, <2>2, <2>4 DEF Fits
  <2> QED
    BY <2>1, <2>5, RowKeepsSaves
<1> QED
  BY <1>1, <1>2

LEMMA CreateAssignmentKeepsSaves ==
    ASSUME SaveInv, ShapeInv', NEW c \in Clients, CreateAssignment(c), ~Refuse(c)
    PROVE  SaveInv'
<1>1. PICK u \in Users, row \in Row :
          /\ Write(c, [v \in {u} |-> row], "save")
          /\ row.id \notin Referenced(u) /\ Op(c) = "add"
  BY CreateAssignmentIs DEF SaveInv
<1>2. row.id # rows[u].id /\ \A d \in Clients : row.id # tx[d].existing[u].id
  BY <1>1 DEF Referenced
<1>3. Fits(c, u, row, "save")
  BY <1>1, <1>2 DEF Fits
<1> QED
  BY <1>1, <1>3, RowKeepsSaves

LEMMA DeleteAssignmentKeepsSaves ==
    ASSUME SaveInv, ShapeInv', NEW c \in Clients, DeleteAssignment(c), ~Refuse(c)
    PROVE  SaveInv'
<1>1. PICK u \in Users : Write(c, [v \in {u} |-> NoRow], "save") /\ Op(c) = "remove"
  BY DeleteAssignmentIs DEF SaveInv
<1>2. NoRow \in Row /\ NoRow.id = 0
  BY NoRowIsRow DEF NoRow
<1>3. \A d \in Clients :
        Knows(d) /\ tx[d].existing[u].role # NoRole => NoRow.id # tx[d].existing[u].id
  BY <1>2 DEF SaveInv, ExistingIsCurrent
<1>4. Fits(c, u, NoRow, "save")
  BY <1>1, <1>2, <1>3 DEF Fits
<1> QED
  BY <1>1, <1>2, <1>4, RowKeepsSaves

LEMMA SweepKeepsSaves ==
    ASSUME SaveInv, ShapeInv', NEW c \in Clients, SweepAssignments(c)
    PROVE  SaveInv'
<1>1. Op(c) = "delete"
  BY SweepIs DEF SaveInv
<1>2. PICK U \in SUBSET Users : \E g \in [U -> Row] :
          /\ Write(c, g, "root")
          /\ \A u \in U : Sane(g[u]) /\ g[u] = [rows[u] EXCEPT !.live = FALSE]
  BY SweepIs DEF SaveInv
<1>3. PICK g \in [U -> Row] :
          /\ Write(c, g, "root")
          /\ \A u \in U : Sane(g[u]) /\ g[u] = [rows[u] EXCEPT !.live = FALSE]
  BY <1>2
<1>4. Wrote(c, U, g, "root")
  BY <1>3, WriteWrote DEF SaveInv, ShapeInv
<1>5. ASSUME NEW u \in U PROVE Fits(c, u, g[u], "root")
  <2>1. g[u].id = rows[u].id /\ g[u].role = rows[u].role
    BY <1>3 DEF SaveInv, ShapeInv, TypeOK, Row
  <2>2. \A d \in Clients \ {c} :
          Knows(d) /\ tx[d].existing[u].role # NoRole /\ g[u].id = tx[d].existing[u].id =>
              g[u].role = tx[d].existing[u].role
    BY <2>1 DEF SaveInv, ExistingIsCurrent
  <2> QED
    BY <1>1, <2>1, <2>2 DEF Fits
<1> QED
  BY <1>1, <1>4, <1>5, WriteKeepsSaves

LEMMA AnswerKeepsSaves ==
    ASSUME SaveInv, ShapeInv', NEW c \in Clients, ~Refuse(c),
           AnswerAssignment(c) \/ ResolveSubstitution(c)
    PROVE  SaveInv'
<1>1. PICK u \in Users, row \in Row :
          /\ Write(c, [v \in {u} |-> row], "commit")
          /\ row.id = rows[u].id /\ row.role = rows[u].role
          /\ Op(c) \in {"respond", "resolve"}
          /\ Op(c) = "resolve" =>
                u = tx[c].req.user /\ rows[u].id = tx[c].req.id /\ rows[u].sub = "open"
  <2>1. CASE AnswerAssignment(c)
    BY <2>1, AnswerIs DEF SaveInv
  <2>2. CASE ResolveSubstitution(c)
    BY <2>2, ResolveIs DEF SaveInv
  <2> QED
    BY <2>1, <2>2
<1>2. \A d \in Clients \ {c} :
        Knows(d) /\ tx[d].existing[u].role # NoRole /\ row.id = tx[d].existing[u].id =>
            row.role = tx[d].existing[u].role
  BY <1>1 DEF SaveInv, ExistingIsCurrent
<1>3. Fits(c, u, row, "commit")
  BY <1>1, <1>2 DEF Fits
<1> QED
  BY <1>1, <1>3, RowKeepsSaves

\* Every other read.
LEMMA ReadKeepsSaves ==
    ASSUME SaveInv, ShapeInv', NEW c \in Clients, NEW p, Reads(c, p), p \notin {"drop", "save"},
           Op(c) = "update" /\ p = "commit" =>
               tx[c].pc = "save" /\ tx'[c].existing = tx[c].existing,
           HoldsRoot(c)' => HoldsRoot(c) \/ RootFree(c),
           Op(c) # "resolve"
    PROVE  SaveInv'
<1>1. Knows(c)' => Knows(c) /\ tx'[c].existing = tx[c].existing
  BY DEF Reads, Knows, Op
<1> QED
  BY <1>1, QuietKeepsSaves DEF Reads, Op

LEMMA NextKeepsSaves == SaveInv /\ [Next]_vars => SaveInv'
<1> SUFFICES ASSUME SaveInv, [Next]_vars PROVE SaveInv'
  OBVIOUS
<1>0. ShapeInv /\ ShapeInv'
  BY NextKeepsShape DEF SaveInv
<1>1. CASE CreateSchedule
  <2>1. tx' = tx /\ \A c \in Clients : tx[c] = NoTx
    BY <1>0, <1>1 DEF CreateSchedule, ShapeInv, NothingBeforeCreation
  <2>2. NoTx.pc = "idle" /\ NoTx.req.op = "none" /\ DOMAIN NoTx.pending = {}
    BY DEF NoTx
  <2> QED
    BY <1>0, <2>1, <2>2 DEF SaveInv, RowsAreLocked, RootIsLocked, HoldsRoot, Op, Knows,
       ExistingIsCurrent, OthersKeepRoles, SavesChange, LeftToSave, ResolvesOpen
<1>2. ASSUME NEW c \in Clients, ClientStep(c) PROVE SaveInv'
  <2> USE BusyHasRequest, <1>0 DEF At
  <2>1. CASE Refuse(c)
    BY <2>1, RefuseKeepsSaves
  <2>2. CASE \/ RequestUpdate(c) \/ RequestAdd(c) \/ RequestRemove(c)
             \/ RequestDelete(c) \/ RequestRespond(c) \/ RequestResolve(c)
    BY <2>2, ArrivalIs, ArrivalKeepsSaves
  <2> SUFFICES ASSUME ~Refuse(c) PROVE SaveInv'
    BY <2>1
  <2>3. CASE LockRoot(c)
    BY <2>3, LockRootReads, ReadKeepsSaves DEF LockRoot, StepOf
  <2>4. CASE ReadBefore(c)
    <3>1. PICK p \in {"existing", "check", "erase"} :
            Reads(c, p) /\ StepOf(Op(c), p) /\ tx[c].pc = "before"
      BY <2>4, ReadBeforeReads DEF ReadBefore
    <3>2. HoldsRoot(c)' => HoldsRoot(c)
      BY <3>1 DEF HoldsRoot, Reads, Op
    <3> QED
      BY <3>1, <3>2, ReadKeepsSaves DEF StepOf
  <2>5. CASE ReadExisting(c)
    BY <2>5, ReadExistingReads, ReadExistingKeepsSaves DEF ReadExisting
  <2>6. CASE DropOthers(c)
    BY <2>6, DropOthersKeepsSaves
  <2>7. ASSUME NEW u \in Users, SaveAssignment(c, u) PROVE SaveInv'
    BY <2>7, SaveKeepsSaves
  <2>8. CASE ReadAfter(c)
    <3>1. Reads(c, "commit") /\ tx'[c].existing = tx[c].existing /\ tx[c].pc = "save"
      BY <2>8, ReadAfterReads DEF ReadAfter
    <3>2. HoldsRoot(c)' => HoldsRoot(c)
      BY <3>1 DEF HoldsRoot, Reads, Op, StepOf
    <3> QED
      BY <3>1, <3>2, ReadKeepsSaves DEF StepOf
  <2>9. CASE CheckActive(c)
    <3>1. PICK p \in {"insert", "sweep"} : Reads(c, p) /\ StepOf(Op(c), p)
      BY <2>9, CheckActiveReads
    <3>2. HoldsRoot(c)' => HoldsRoot(c)
      BY <3>1 DEF HoldsRoot, Reads, Op, StepOf
    <3> QED
      BY <3>1, <3>2, ReadKeepsSaves DEF StepOf
  <2>10. CASE CreateAssignment(c)
    BY <2>10, CreateAssignmentKeepsSaves
  <2>11. CASE DeleteAssignment(c)
    BY <2>11, DeleteAssignmentKeepsSaves
  <2>12. CASE SweepAssignments(c)
    BY <2>12, SweepKeepsSaves
  <2>13. CASE DeactivateRoot(c)
    BY <2>13, DeactivateRootReads, ReadKeepsSaves DEF DeactivateRoot, StepOf
  <2>14. CASE AnswerAssignment(c) \/ ResolveSubstitution(c)
    BY <2>14, AnswerKeepsSaves
  <2>15. CASE Commit(c)
    BY <2>15, CommitKeepsSaves
  <2>16. ~Abort(c)
    BY DEF Abort
  <2> QED
    BY <1>2, <2>2, <2>3, <2>4, <2>5, <2>6, <2>7, <2>8, <2>9, <2>10, <2>11, <2>12, <2>13,
       <2>14, <2>15, <2>16 DEF ClientStep
<1>3. CASE UNCHANGED vars
  BY <1>0, <1>3 DEF vars, SaveInv, RowsAreLocked, RootIsLocked, HoldsRoot, Op, Knows,
     ExistingIsCurrent, OthersKeepRoles, SavesChange, LeftToSave, ResolvesOpen
<1> QED
  BY <1>1, <1>2, <1>3 DEF Next

LEMMA InitSaves == Init => SaveInv
<1> SUFFICES ASSUME Init PROVE SaveInv
  OBVIOUS
<1>1. ShapeInv /\ \A c \in Clients : tx[c] = NoTx
  BY InitShape DEF Init
<1>2. NoTx.pc = "idle" /\ NoTx.req.op = "none" /\ DOMAIN NoTx.pending = {}
  BY DEF NoTx
<1> QED
  BY <1>1, <1>2 DEF SaveInv, RowsAreLocked, RootIsLocked, HoldsRoot, Op, Knows,
     ExistingIsCurrent, OthersKeepRoles, SavesChange, LeftToSave, ResolvesOpen

LEMMA SaveInductive == Spec => []SaveInv
  BY InitSaves, NextKeepsSaves, PTL DEF Spec

-----------------------------------------------------------------------------
(***************************************************************************)
(* Theorems of every instance.                                             *)
(***************************************************************************)
\* A request's step leaves the transactions of the others alone.
LEMMA StepsAreTheirOwn ==
    ASSUME ShapeInv, NEW d \in Clients, ClientStep(d), NEW c \in Clients \ {d}
    PROVE  tx'[c] = tx[c]
<1>1. tx \in [Clients -> Tx]
  BY DEF ShapeInv, TypeOK
<1>2. CASE Refuse(d)
  BY <1>1, <1>2 DEF Refuse
<1>3. ASSUME NEW g, NEW p, Write(d, g, p) PROVE tx'[c] = tx[c]
  BY <1>1, <1>3 DEF Write
<1>4. CASE RequestUpdate(d) \/ RequestAdd(d) \/ RequestRemove(d)
  BY <1>1, <1>4 DEF RequestUpdate, RequestAdd, RequestRemove, Request
<1>5. CASE RequestDelete(d) \/ RequestRespond(d) \/ RequestResolve(d)
  BY <1>1, <1>5 DEF RequestDelete, RequestRespond, RequestResolve, Request
<1>6. CASE LockRoot(d) \/ CheckActive(d)
  BY <1>1, <1>2, <1>6 DEF LockRoot, CheckActive, Goto
<1>7. CASE ReadBefore(d) \/ ReadAfter(d) \/ DeactivateRoot(d)
  BY <1>1, <1>7 DEF ReadBefore, ReadAfter, DeactivateRoot
<1>8. CASE ReadExisting(d) \/ DropOthers(d)
  BY <1>1, <1>2, <1>8 DEF ReadExisting, DropOthers
<1>9. CASE \E u \in Users : SaveAssignment(d, u)
  BY <1>2, <1>3, <1>9 DEF SaveAssignment, Insert, ChangeRole
<1>10. CASE CreateAssignment(d) \/ DeleteAssignment(d)
  BY <1>2, <1>3, <1>10 DEF CreateAssignment, DeleteAssignment, Insert
<1>11. CASE SweepAssignments(d)
  BY <1>3, <1>11 DEF SweepAssignments
<1>12. CASE AnswerAssignment(d) \/ ResolveSubstitution(d)
  BY <1>2, <1>3, <1>12 DEF AnswerAssignment, ResolveSubstitution
<1>13. CASE Commit(d)
  BY <1>1, <1>13 DEF Commit
<1>14. CASE Abort(d)
  BY <1>2, <1>14 DEF Abort
<1> QED
  BY <1>4, <1>5, <1>6, <1>7, <1>8, <1>9, <1>10, <1>11, <1>12, <1>13, <1>14 DEF ClientStep

\* What the properties call committing is done by Commit alone.
LEMMA CommitsIsCommit ==
    ASSUME ShapeInv, Next, NEW c \in Clients, Commits(c)
    PROVE  Commit(c)
<1>1. tx'[c] # tx[c] /\ tx[c].pc = "commit"
  BY DEF Commits, At
<1>2. PICK d \in Clients : ClientStep(d)
  BY <1>1 DEF Next, CreateSchedule
<1>3. d = c
  BY <1>1, <1>2, StepsAreTheirOwn
<1> QED
  BY <1>1, <1>2, <1>3
     DEF ClientStep, RequestUpdate, RequestAdd, RequestRemove, RequestDelete, RequestRespond,
         RequestResolve, Request, LockRoot, ReadBefore, ReadExisting, DropOthers,
         SaveAssignment, ReadAfter, CheckActive, CreateAssignment, DeleteAssignment,
         SweepAssignments, DeactivateRoot, AnswerAssignment, ResolveSubstitution, Abort, At

\* The types of the schedule, its assignments, what members were told and the
\* transactions of the requests.
THEOREM ScheduleTypes == Spec => []TypeOK
<1>1. ShapeInv => TypeOK
  BY DEF ShapeInv
<1> QED
  BY <1>1, ShapeInductive, PTL

\* A save keeps the answer and the open substitution request of every member whose
\* role it leaves alone, whatever requests overlap with it.
THEOREM AnswersSurvive == Spec => AnswersSurviveSaving
<1> DEFINE Survive ==
        \A c \in Clients, u \in Users :
            /\ Commits(c) /\ Op(c) = "update"
            /\ rows[u].live /\ rows[u].role = tx[c].req.next[u]
            => rows'[u] = rows[u]
<1>1. SaveInv /\ [Next]_vars => [Survive]_vars
  <2> SUFFICES ASSUME SaveInv, Next, NEW c \in Clients, NEW u \in Users,
                      Commits(c), Op(c) = "update", rows[u].live,
                      rows[u].role = tx[c].req.next[u]
               PROVE  rows'[u] = rows[u]
    OBVIOUS
  <2>1. Commit(c)
    BY CommitsIsCommit DEF SaveInv
  <2>2. u \notin DOMAIN tx[c].pending
    BY DEF SaveInv, SavesChange
  <2> QED
    BY <2>1, <2>2, CommitIs DEF SaveInv
<1> QED
  BY <1>1, SaveInductive, PTL DEF Spec, AnswersSurviveSaving

\* Of several managers who resolve a substitution request one succeeds.
THEOREM ResolvedOnce == Spec => SubstitutionResolvedOnce
<1> DEFINE Resolve ==
        \A c \in Clients :
            Commits(c) /\ Op(c) = "resolve" =>
                rows[tx[c].req.user].sub = "open" /\ rows[tx[c].req.user].id = tx[c].req.id
<1>1. SaveInv => Resolve
  BY DEF SaveInv, ResolvesOpen, Commits, At
<1> QED
  BY <1>1, SaveInductive, PTL DEF Spec, SubstitutionResolvedOnce

-----------------------------------------------------------------------------
(***************************************************************************)
(* Instances in which members are saved, answer and are substituted, and   *)
(* nobody adds or removes a member by another way.                         *)
(***************************************************************************)
SavesOnly == Ops \subseteq {"update", "respond", "resolve"}

\* Answers and resolutions change nobody's membership and tell members nothing.
KeepsMembers(c) ==
    Op(c) # "update" =>
        /\ DOMAIN tx[c].notes = {}
        /\ \A u \in DOMAIN tx[c].pending : /\ tx[c].pending[u].live = rows[u].live
                                          /\ tx[c].pending[u].role = rows[u].role

\* Under the lock of the schedule, the first read of a save stays true.
BeforeIsCurrent(c) ==
    Op(c) = "update" /\ tx[c].pc \in {"existing", "drop", "save", "commit"} =>
        tx[c].before = Members(rows)

\* What a save is about to record is the difference it is about to make.
NotesAreTrue(c) ==
    Op(c) = "update" /\ tx[c].pc = "commit" =>
        \E edited \in BOOLEAN : tx[c].notes = Notes(tx[c].before, Members(View(c)), edited)

\* A save without permission over members finds nothing to write but inactive rows.
LeavesMembers(c) ==
    Knows(c) /\ ~tx[c].req.assigner =>
        /\ tx[c].req.next = Members(rows)
        /\ \A u \in Users : tx[c].existing[u].role = Members(rows)[u]
        /\ tx[c].pc = "save" => tx[c].todo = {}
        /\ \A u \in DOMAIN tx[c].pending : ~rows[u].live /\ ~tx[c].pending[u].live

Tells(c) == KeepsMembers(c) /\ BeforeIsCurrent(c) /\ NotesAreTrue(c) /\ LeavesMembers(c)

ToldInv ==
    /\ SaveInv /\ ToldMatches /\ root # "deleted"
    /\ \A c \in Clients : Tells(c)

LEMMA AloneKeepsTold ==
    ASSUME ToldInv, SaveInv', NEW c \in Clients, Alone(c), Tells(c)' PROVE ToldInv'
<1>1. ASSUME NEW d \in Clients PROVE Tells(d)'
  <2>1. CASE d = c
    BY <2>1
  <2>2. CASE d # c
    <3>1. tx'[d] = tx[d] /\ rows' = rows /\ Tells(d)
      BY <2>2 DEF Alone, ToldInv
    <3>2. View(d)' = View(d)
      BY <3>1 DEF View, Overlay
    <3>3. NotesAreTrue(d)'
      BY <3>1, <3>2 DEF Tells, NotesAreTrue, Op
    <3>4. KeepsMembers(d)' /\ BeforeIsCurrent(d)' /\ LeavesMembers(d)'
      BY <3>1 DEF Tells, KeepsMembers, BeforeIsCurrent, LeavesMembers, Op, Knows
    <3> QED
      BY <3>3, <3>4 DEF Tells
  <2> QED
    BY <2>1, <2>2
<1>2. ToldMatches' /\ root' # "deleted"
  BY DEF Alone, ToldInv, ToldMatches, Members
<1> QED
  BY <1>1, <1>2 DEF ToldInv

\* Two functions from users that agree everywhere, as members.
LEMMA SameMembers ==
    ASSUME NEW r, NEW q,
           \A u \in Users : q[u].live = r[u].live /\ (r[u].live => q[u].role = r[u].role)
    PROVE  Members(q) = Members(r)
  BY DEF Members

LEMMA MembersOf ==
    ASSUME NEW r, NEW u \in Users
    PROVE  Members(r)[u] = IF r[u].live THEN r[u].role ELSE NoRole
  BY DEF Members

\* The commit of an answer or a resolution.
LEMMA AnswerCommitKeepsTold ==
    ASSUME ToldInv, SaveInv', NEW c \in Clients, Commit(c), Op(c) \in {"respond", "resolve"}
    PROVE  ToldInv'
<1>1. /\ tx'[c] = NoTx /\ \A d \in Clients \ {c} : tx'[d] = tx[d]
      /\ \A u \in Users : /\ u \in DOMAIN tx[c].pending => rows'[u] = tx[c].pending[u]
                          /\ u \notin DOMAIN tx[c].pending => rows'[u] = rows[u]
      /\ \A u \in Users : told'[u] = IF u \in DOMAIN tx[c].notes THEN tx[c].notes[u] ELSE told[u]
      /\ root' = root /\ rows' \in [Users -> Row] /\ rows \in [Users -> Row]
  BY CommitIs DEF ToldInv, SaveInv, ShapeInv, TypeOK
<1>2. /\ DOMAIN tx[c].notes = {}
      /\ \A u \in Users : rows'[u].live = rows[u].live /\ rows'[u].role = rows[u].role
  BY <1>1 DEF ToldInv, Tells, KeepsMembers
<1>3. Members(rows') = Members(rows)
  BY <1>2, SameMembers
<1>4. ASSUME NEW d \in Clients PROVE Tells(d)'
  <2>1. CASE d = c
    BY <2>1, <1>1 DEF NoTx, Tells, KeepsMembers, BeforeIsCurrent, NotesAreTrue, LeavesMembers,
                      Op, Knows
  <2>2. CASE d # c
    <3>1. tx'[d] = tx[d] /\ Tells(d)
      BY <1>1, <2>2 DEF ToldInv
    <3>2. DOMAIN tx[d].pending \in SUBSET Users
      BY TxIs DEF ToldInv, SaveInv, ShapeInv
    <3>3. Members(View(d)') = Members(View(d))
      <4>1. ASSUME NEW u \in Users
            PROVE  /\ View(d)'[u].live = View(d)[u].live
                   /\ View(d)'[u].role = View(d)[u].role
        <5>1. /\ View(d)'[u] = IF u \in DOMAIN tx[d].pending THEN tx[d].pending[u] ELSE rows'[u]
              /\ View(d)[u] = IF u \in DOMAIN tx[d].pending THEN tx[d].pending[u] ELSE rows[u]
          BY <1>1, <3>1 DEF View, Overlay
        <5> QED
          BY <5>1, <1>2
      <4> QED
        BY <4>1, SameMembers
    <3>4. KeepsMembers(d)' /\ BeforeIsCurrent(d)' /\ LeavesMembers(d)'
      BY <1>2, <1>3, <3>1, <3>2 DEF Tells, KeepsMembers, BeforeIsCurrent, LeavesMembers, Op, Knows
    <3>5. NotesAreTrue(d)'
      BY <3>1, <3>3 DEF Tells, NotesAreTrue, Op
    <3> QED
      BY <3>4, <3>5 DEF Tells
  <2> QED
    BY <2>1, <2>2
<1>5. ToldMatches'
  BY <1>1, <1>2, <1>3 DEF ToldInv, ToldMatches
<1> QED
  BY <1>1, <1>4, <1>5 DEF ToldInv

\* The commit of a save: its notes make what members were told what the schedule says,
\* and no other save has read the schedule.
LEMMA UpdateCommitKeepsTold ==
    ASSUME ToldInv, SaveInv', NEW c \in Clients, Commit(c), Op(c) = "update", root = "active",
           \A d \in Clients : Op(d) \in {"update", "respond", "resolve", "none"}
    PROVE  ToldInv'
<1>1. /\ tx'[c] = NoTx /\ \A d \in Clients \ {c} : tx'[d] = tx[d]
      /\ \A u \in Users : /\ u \in DOMAIN tx[c].pending => rows'[u] = tx[c].pending[u]
                          /\ u \notin DOMAIN tx[c].pending => rows'[u] = rows[u]
      /\ \A u \in Users : told'[u] = IF u \in DOMAIN tx[c].notes THEN tx[c].notes[u] ELSE told[u]
      /\ root' = root /\ rows' = View(c) /\ tx[c].pc = "commit"
  BY CommitIs DEF ToldInv, SaveInv, ShapeInv
<1>2. ASSUME NEW d \in Clients \ {c}, Op(d) = "update"
      PROVE  tx[d].pc \in {"idle", "lock", "before"}
  BY <1>1, <1>2 DEF ToldInv, SaveInv, RootIsLocked, HoldsRoot
<1>3. ASSUME NEW d \in Clients PROVE Tells(d)'
  <2>1. CASE d = c
    BY <2>1, <1>1 DEF NoTx, Tells, KeepsMembers, BeforeIsCurrent, NotesAreTrue, LeavesMembers,
                      Op, Knows
  <2>2. CASE d # c
    <3>1. tx'[d] = tx[d] /\ Tells(d)
      BY <1>1, <2>2 DEF ToldInv
    <3>2. \A u \in DOMAIN tx[d].pending : rows'[u] = rows[u]
      <4>1. DOMAIN tx[d].pending \in SUBSET Users
        BY TxIs DEF ToldInv, SaveInv, ShapeInv
      <4>2. DOMAIN tx[d].pending \cap DOMAIN tx[c].pending = {}
        BY <2>2 DEF ToldInv, SaveInv, RowsAreLocked
      <4> QED
        BY <1>1, <4>1, <4>2
    <3>3. KeepsMembers(d)'
      BY <3>1, <3>2 DEF Tells, KeepsMembers, Op
    <3>4. BeforeIsCurrent(d)' /\ NotesAreTrue(d)' /\ LeavesMembers(d)'
      BY <1>2, <2>2, <3>1 DEF BeforeIsCurrent, NotesAreTrue, LeavesMembers, Op, Knows
    <3> QED
      BY <3>3, <3>4 DEF Tells
  <2> QED
    BY <2>1, <2>2
<1>4. ASSUME NEW u \in Users PROVE told'[u] = Members(rows')[u]
  <2>1. PICK edited \in BOOLEAN : tx[c].notes = Notes(tx[c].before, Members(rows'), edited)
    BY <1>1 DEF ToldInv, Tells, NotesAreTrue
  <2>2. tx[c].before = Members(rows) /\ told[u] = Members(rows)[u]
    BY <1>1 DEF ToldInv, Tells, BeforeIsCurrent, ToldMatches
  <2>3. /\ u \in DOMAIN tx[c].notes <=>
              /\ edited \/ Members(rows) # Members(rows')
              /\ Members(rows)[u] # NoRole \/ Members(rows')[u] # NoRole
        /\ u \in DOMAIN tx[c].notes => tx[c].notes[u] = Members(rows')[u]
    BY <2>1, <2>2 DEF Notes
  <2> QED
    BY <1>1, <2>2, <2>3
<1>5. ToldMatches' /\ root' # "deleted"
  BY <1>1, <1>4 DEF ToldInv, ToldMatches
<1> QED
  BY <1>3, <1>5 DEF ToldInv

LEMMA CreateKeepsTold ==
    ASSUME ToldInv, SaveInv', CreateSchedule PROVE ToldInv'
<1>1. /\ tx' = tx /\ \A c \in Clients : tx[c] = NoTx
      /\ root' = "active"
  BY DEF CreateSchedule, ToldInv, SaveInv, ShapeInv, NothingBeforeCreation
<1>2. \A c \in Clients : Tells(c)'
  BY <1>1 DEF NoTx, Tells, KeepsMembers, BeforeIsCurrent, NotesAreTrue, LeavesMembers, Op, Knows
<1>3. ASSUME NEW u \in Users PROVE told'[u] = Members(rows')[u]
  BY DEF CreateSchedule, Members, NewRow, NoRow
<1> QED
  BY <1>1, <1>2, <1>3 DEF ToldInv, ToldMatches

LEMMA NextKeepsTold == SavesOnly => (ToldInv /\ [Next]_vars => ToldInv')
<1> SUFFICES ASSUME SavesOnly, ToldInv, [Next]_vars PROVE ToldInv'
  OBVIOUS
<1>1. SaveInv /\ SaveInv' /\ ShapeInv /\ ShapeInv'
  BY NextKeepsSaves DEF ToldInv, SaveInv
<1>2. \A d \in Clients : Op(d) \in {"update", "respond", "resolve", "none"}
  BY <1>1, BusyHasRequest DEF SavesOnly
<1>3. CASE CreateSchedule
  BY <1>1, <1>3, CreateKeepsTold
<1>4. ASSUME NEW c \in Clients, ClientStep(c) PROVE ToldInv'
  <2>1. Tells(c) /\ StepOf(Op(c), tx[c].pc)
    BY <1>1, BusyHasRequest DEF ToldInv
  <2>2. CASE Refuse(c)
    <3>1. Alone(c) /\ tx'[c] = NoTx
      BY <1>1, <2>2, RefuseIs DEF ShapeInv
    <3>2. Tells(c)'
      BY <3>1 DEF NoTx, Tells, KeepsMembers, BeforeIsCurrent, NotesAreTrue, LeavesMembers, Op, Knows
    <3> QED
      BY <1>1, <3>1, <3>2, AloneKeepsTold
  <2>3. CASE \/ RequestUpdate(c) \/ RequestAdd(c) \/ RequestRemove(c)
             \/ RequestDelete(c) \/ RequestRespond(c) \/ RequestResolve(c)
    <3>1. Arrives(c)
      BY <1>1, <2>3, ArrivalIs
    <3>2. Op(c) = "none"
      BY <2>1, <3>1 DEF Arrives, StepOf
    <3>3. Tells(c)'
      BY <2>1, <3>1, <3>2
         DEF Arrives, Tells, KeepsMembers, BeforeIsCurrent, NotesAreTrue, LeavesMembers, Knows
    <3> QED
      BY <1>1, <3>1, <3>3, AloneKeepsTold DEF Arrives
  <2> SUFFICES ASSUME ~Refuse(c) PROVE ToldInv'
    BY <2>2
  <2>4. CASE LockRoot(c)
    <3>1. Reads(c, "before") /\ Op(c) = "update"
      BY <1>1, <2>1, <2>4, LockRootReads DEF LockRoot, StepOf, At
    <3>2. Tells(c)'
      BY <3>1 DEF Reads, Tells, KeepsMembers, BeforeIsCurrent, NotesAreTrue, LeavesMembers, Op, Knows
    <3> QED
      BY <1>1, <3>1, <3>2, AloneKeepsTold DEF Reads
  <2>5. CASE ReadBefore(c)
    <3>1. Op(c) = "update"
      BY <1>2, <2>1, <2>5 DEF ReadBefore, StepOf, At
    <3>2. Reads(c, "existing") /\ tx'[c].before = Members(rows)
      BY <1>1, <2>5, <3>1, ReadBeforeReads
    <3>3. Tells(c)'
      BY <3>1, <3>2
         DEF Reads, Alone, Tells, KeepsMembers, BeforeIsCurrent, NotesAreTrue, LeavesMembers, Op, Knows
    <3> QED
      BY <1>1, <3>2, <3>3, AloneKeepsTold DEF Reads
  <2>6. CASE ReadExisting(c)
    <3>1. /\ Op(c) = "update" /\ MayAssign(c) /\ Reads(c, "drop")
          /\ tx'[c].existing = Active(rows) /\ tx'[c].before = tx[c].before
          /\ tx[c].pc = "existing"
      BY <1>1, <2>1, <2>6, ReadExistingReads DEF ReadExisting, StepOf, At
    <3>2. BeforeIsCurrent(c)' /\ KeepsMembers(c)' /\ NotesAreTrue(c)'
      BY <2>1, <3>1 DEF Reads, Alone, Tells, KeepsMembers, BeforeIsCurrent, NotesAreTrue, Op
    <3>3. DOMAIN tx[c].pending = {}
      BY <1>1, <3>1 DEF ShapeInv, WellFormed
    <3>4. \A u \in Users : Active(rows)[u].role = Members(rows)[u]
      BY DEF Active, Members
    <3>5. LeavesMembers(c)'
      BY <3>1, <3>3, <3>4 DEF Reads, Alone, LeavesMembers, MayAssign, Knows, Op
    <3> QED
      BY <1>1, <3>1, <3>2, <3>5, AloneKeepsTold DEF Reads, Tells
  <2>7. CASE DropOthers(c)
    <3>1. /\ Alone(c) /\ Op(c) = "update" /\ tx[c].pc = "drop"
          /\ tx'[c].pc = "save" /\ tx'[c].req = tx[c].req
          /\ tx'[c].before = tx[c].before /\ tx'[c].existing = tx[c].existing
          /\ tx'[c].todo = ToSave(c) /\ DOMAIN tx'[c].pending = Gone(c)
          /\ \A u \in Gone(c) : tx'[c].pending[u] = NoRow
      BY <1>1, <2>7, DropOthersIs DEF DropOthers, At
    <3>2. BeforeIsCurrent(c)' /\ KeepsMembers(c)' /\ NotesAreTrue(c)'
      BY <2>1, <3>1 DEF Alone, Tells, KeepsMembers, BeforeIsCurrent, NotesAreTrue, Op
    <3>3. ASSUME ~tx[c].req.assigner
          PROVE  /\ tx[c].req.next = Members(rows)
                 /\ \A u \in Users : tx[c].existing[u].role = Members(rows)[u]
                 /\ ToSave(c) = {}
                 /\ \A u \in Gone(c) : ~rows[u].live /\ ~tx'[c].pending[u].live
      <4>1. /\ tx[c].req.next = Members(rows)
            /\ \A u \in Users : tx[c].existing[u].role = Members(rows)[u]
        BY <2>1, <3>1, <3>3 DEF Tells, LeavesMembers, Knows
      <4>2. ToSave(c) = {}
        BY <4>1 DEF ToSave
      <4>3. ASSUME NEW u \in Gone(c) PROVE ~rows[u].live
        <5>1. Members(rows)[u] = NoRole /\ u \in Users
          BY <4>1 DEF Gone
        <5> QED
          BY <1>1, <5>1, MembersOf DEF ShapeInv, Sane
      <4>4. \A u \in Gone(c) : ~tx'[c].pending[u].live
        BY <3>1 DEF NoRow
      <4> QED
        BY <4>1, <4>2, <4>3, <4>4
    <3>4. LeavesMembers(c)'
      BY <3>1, <3>3 DEF Alone, LeavesMembers, Knows, Op
    <3> QED
      BY <1>1, <3>1, <3>2, <3>4, AloneKeepsTold DEF Tells
  <2>8. ASSUME NEW u \in Users, SaveAssignment(c, u) PROVE ToldInv'
    <3>1. PICK row \in Row :
              /\ Write(c, [v \in {u} |-> row], "save")
              /\ Sane(row) /\ (Added(c, u, row) \/ Changed(c, u, row))
              /\ Op(c) = "update" /\ tx[c].pc = "save" /\ u \in tx[c].todo
      BY <1>1, <2>8, SaveIs
    <3> DEFINE g == [v \in {u} |-> row]
    <3>2. g \in [{u} -> Row] /\ {u} \in SUBSET Users
      OBVIOUS
    <3> HIDE DEF g
    <3>3. Wrote(c, {u}, g, "save")
      BY <1>1, <3>1, <3>2, WriteWrote DEF ShapeInv, g
    <3>4. tx[c].req.assigner
      BY <1>1, <2>1, <3>1, RequestIs, BusyHasRequest DEF Tells, LeavesMembers, Knows
    <3>5. Tells(c)'
      BY <2>1, <3>1, <3>3, <3>4
         DEF Wrote, Alone, Tells, KeepsMembers, BeforeIsCurrent, NotesAreTrue, LeavesMembers, Op, Knows
    <3> QED
      BY <1>1, <3>3, <3>5, AloneKeepsTold DEF Wrote
  <2>9. CASE ReadAfter(c)
    <3>1. /\ Reads(c, "commit") /\ tx[c].pc = "save"
          /\ tx'[c].before = tx[c].before /\ tx'[c].existing = tx[c].existing
          /\ \E edited \in BOOLEAN :
               tx'[c].notes = Notes(tx[c].before, Members(View(c)), edited)
      BY <1>1, <2>9, ReadAfterReads DEF ReadAfter, At
    <3>2. Op(c) = "update"
      BY <1>2, <2>1, <3>1 DEF StepOf
    <3>3. View(c)' = View(c)
      BY <3>1 DEF Reads, Alone, View, Overlay
    <3>4. NotesAreTrue(c)'
      BY <3>1, <3>3 DEF NotesAreTrue
    <3>5. BeforeIsCurrent(c)' /\ KeepsMembers(c)' /\ LeavesMembers(c)'
      BY <2>1, <3>1, <3>2
         DEF Reads, Alone, Tells, KeepsMembers, BeforeIsCurrent, LeavesMembers, Op, Knows
    <3> QED
      BY <1>1, <3>1, <3>4, <3>5, AloneKeepsTold DEF Reads, Tells
  <2>10. CASE AnswerAssignment(c) \/ ResolveSubstitution(c)
    <3>1. PICK u \in Users, row \in Row :
              /\ Write(c, [v \in {u} |-> row], "commit")
              /\ row.live = rows[u].live /\ row.role = rows[u].role
              /\ Op(c) \in {"respond", "resolve"} /\ tx[c].pc \in {"answer", "resolve"}
      <4>1. CASE AnswerAssignment(c)
        BY <1>1, <4>1, AnswerIs
      <4>2. CASE ResolveSubstitution(c)
        BY <1>1, <4>2, ResolveIs
      <4> QED
        BY <2>10, <4>1, <4>2
    <3> DEFINE g == [v \in {u} |-> row]
    <3>2. g \in [{u} -> Row] /\ {u} \in SUBSET Users /\ g[u] = row
      OBVIOUS
    <3> HIDE DEF g
    <3>3. Wrote(c, {u}, g, "commit")
      BY <1>1, <3>1, <3>2, WriteWrote DEF ShapeInv, g
    <3>4. Tells(c)'
      BY <2>1, <3>1, <3>2, <3>3
         DEF Wrote, Alone, Tells, KeepsMembers, BeforeIsCurrent, NotesAreTrue, LeavesMembers, Op, Knows
    <3> QED
      BY <1>1, <3>3, <3>4, AloneKeepsTold DEF Wrote
  <2>11. CASE Commit(c)
    <3>1. root = "active"
      BY <1>1, <2>11, BusyMeansCreated DEF Commit, At, ToldInv, ShapeInv, TypeOK
    <3>2. Op(c) \in {"update", "respond", "resolve"}
      BY <1>1, <1>2, <2>11, BusyHasRequest DEF Commit, At
    <3> QED
      BY <1>1, <1>2, <2>11, <3>1, <3>2, AnswerCommitKeepsTold, UpdateCommitKeepsTold
  <2>12. /\ ~CheckActive(c) /\ ~CreateAssignment(c) /\ ~DeleteAssignment(c)
         /\ ~SweepAssignments(c) /\ ~DeactivateRoot(c) /\ ~Abort(c)
    BY <1>2, <2>1 DEF CheckActive, CreateAssignment, DeleteAssignment, SweepAssignments,
                      DeactivateRoot, Abort, At, StepOf
  <2> QED
    BY <1>4, <2>3, <2>4, <2>5, <2>6, <2>7, <2>8, <2>9, <2>10, <2>11, <2>12 DEF ClientStep
<1>5. CASE UNCHANGED vars
  BY <1>1, <1>5 DEF vars, ToldInv, ToldMatches, Tells, KeepsMembers, BeforeIsCurrent,
     NotesAreTrue, LeavesMembers, Op, Knows, View, Members
<1> QED
  BY <1>3, <1>4, <1>5 DEF Next

LEMMA InitTold == Init => ToldInv
<1> SUFFICES ASSUME Init PROVE ToldInv
  OBVIOUS
<1>1. SaveInv /\ \A c \in Clients : tx[c] = NoTx
  BY InitSaves DEF Init
<1>2. \A c \in Clients : Tells(c)
  BY <1>1 DEF NoTx, Tells, KeepsMembers, BeforeIsCurrent, NotesAreTrue, LeavesMembers, Op, Knows
<1> QED
  BY <1>1, <1>2 DEF ToldInv, ToldMatches, Init

LEMMA ToldInductive == SavesOnly => (Spec => []ToldInv)
<1> SUFFICES ASSUME SavesOnly PROVE Spec => []ToldInv
  OBVIOUS
<1>1. ToldInv /\ [Next]_vars => ToldInv'
  BY NextKeepsTold
<1> QED
  BY <1>1, InitTold, PTL DEF Spec

\* Where members change by saves only, what each user was last told is what the
\* schedule says: the lock of its row orders the reads the notes are made from.
THEOREM ToldIsTrue == SavesOnly => (Spec => []ToldMatches)
<1> SUFFICES ASSUME SavesOnly PROVE Spec => []ToldMatches
  OBVIOUS
<1>1. ToldInv => ToldMatches
  BY DEF ToldInv
<1> QED
  BY <1>1, ToldInductive, PTL

\* Where members change by saves only, a save without permission over members changes
\* neither who they are nor their roles.
THEOREM UnprivilegedSavesKeep == SavesOnly => (Spec => UnprivilegedKeepsMembers)
<1> DEFINE Keep ==
        \A c \in Clients :
            Commits(c) /\ Op(c) = "update" /\ ~tx[c].req.assigner =>
                Members(rows') = Members(rows)
<1> SUFFICES ASSUME SavesOnly PROVE Spec => UnprivilegedKeepsMembers
  OBVIOUS
<1>1. ToldInv /\ [Next]_vars => [Keep]_vars
  <2> SUFFICES ASSUME ToldInv, Next, NEW c \in Clients,
                      Commits(c), Op(c) = "update", ~tx[c].req.assigner
               PROVE  Members(rows') = Members(rows)
    OBVIOUS
  <2>1. Commit(c) /\ tx[c].pc = "commit"
    BY CommitsIsCommit DEF ToldInv, SaveInv, Commit, At
  <2>2. \A u \in Users : rows'[u].live = rows[u].live /\ (rows[u].live => rows'[u].role = rows[u].role)
    <3>1. \A u \in Users :
            /\ u \in DOMAIN tx[c].pending => rows'[u] = tx[c].pending[u]
            /\ u \notin DOMAIN tx[c].pending => rows'[u] = rows[u]
      BY <2>1, CommitIs DEF ToldInv, SaveInv
    <3>2. rows \in [Users -> Row] /\ rows' \in [Users -> Row]
      BY <2>1, CommitIs DEF ToldInv, SaveInv, ShapeInv, TypeOK
    <3>3. \A u \in DOMAIN tx[c].pending : ~rows[u].live /\ ~tx[c].pending[u].live
      BY <2>1 DEF ToldInv, Tells, LeavesMembers, Knows
    <3>4. \A u \in Users : rows[u].live \in BOOLEAN /\ rows'[u].live \in BOOLEAN
      BY <3>2 DEF Row
    <3> QED
      BY <3>1, <3>3, <3>4
  <2> QED
    BY <2>2, SameMembers
<1> QED
  BY <1>1, ToldInductive, PTL DEF Spec, UnprivilegedKeepsMembers

=============================================================================

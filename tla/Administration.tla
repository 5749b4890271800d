---------------------------- MODULE Administration ----------------------------
(***************************************************************************)
(* What global administrators do to people and churches, and what that    *)
(* does to sessions (src/src/services/adminService.ts, with                *)
(* src/src/repositories/AdminRepository.ts and                             *)
(* src/src/middlewares/authMiddleware.ts).                                 *)
(*                                                                         *)
(* A request is authenticated, reads the person, may count the             *)
(* administrators, writes, and revokes the sessions: separate statements,  *)
(* any of which may fail and end the request.  Names, e-mails, passwords'  *)
(* text, MFA and the audit log are left out.                               *)
(***************************************************************************)
EXTENDS Naturals, FiniteSets

CONSTANTS People, Churches,
          Logins,           \* sessions
          AdminRequests,
          UserChanges,      \* [role, church, password]: what updates may ask for
          FirstAdmin,       \* the administrator the bootstrap script made
          NoChurch, Nobody

Roles == {"GLOBAL_ADMIN", "MEMBER"}
Same == "same"              \* a field the update does not name

ASSUME AdminAssumption ==
    /\ FirstAdmin \in People /\ Nobody \notin People \cup Logins
    /\ NoChurch \notin Churches
    /\ UserChanges \subseteq [role: Roles \cup {Same},
                              church: Churches \cup {NoChurch, Same},
                              password: BOOLEAN]

VARIABLES
    person,     \* User: role, church and isActive
    open,       \* churches that are active
    login,      \* AuthSession: whose, and whether it is live
    job         \* what each request is doing

adminVars == <<person, open, login, job>>

Idle == [pc |-> "idle"]

AdminInit ==
    /\ person \in [People -> [role: Roles, church: Churches \cup {NoChurch}, active: {TRUE}]]
    /\ \A u \in People : /\ person[u].role = "GLOBAL_ADMIN" <=> u = FirstAdmin
                         /\ person[u].church = NoChurch <=> u = FirstAdmin
    /\ open = Churches
    /\ login = [s \in Logins |-> [user |-> Nobody, live |-> FALSE]]
    /\ job = [r \in AdminRequests |-> Idle]

AdminTypeOK ==
    /\ person \in [People -> [role: Roles, church: Churches \cup {NoChurch}, active: BOOLEAN]]
    /\ open \subseteq Churches
    /\ login \in [Logins -> [user: People \cup {Nobody}, live: BOOLEAN]]
    /\ \A r \in AdminRequests :
          job[r].pc \in {"idle", "read", "count", "write", "revoke", "failed"}

Eligible(u) == /\ u # Nobody /\ person[u].active
               /\ person[u].role = "GLOBAL_ADMIN" \/ person[u].church \in open

\* Every request asks the database who its session belongs to.
Authenticated(s) == login[s].live /\ Eligible(login[s].user)
AsAdmin(s) == Authenticated(s) /\ person[login[s].user].role = "GLOBAL_ADMIN"

SessionsOf(us) == {s \in Logins : login[s].live /\ login[s].user \in us}
RevokeSessionsOf(us) ==
    login' = [s \in Logins |-> [login[s] EXCEPT !.live = @ /\ login[s].user \notin us]]

Becomes(r, j) == job' = [job EXCEPT ![r] = j]
InChurch(c) == {u \in People : person[u].church = c}

-----------------------------------------------------------------------------
SignIn(s, u) ==
    /\ login[s].user = Nobody /\ Eligible(u)
    /\ login' = [login EXCEPT ![s] = [user |-> u, live |-> TRUE]]
    /\ UNCHANGED <<person, open, job>>

\* updateUser: an administrator may not change the own role or church.
StartUpdate(r, s, u, change) ==
    /\ job[r] = Idle /\ AsAdmin(s)
    /\ login[s].user = u => change.role = Same /\ change.church = Same
    /\ Becomes(r, [pc |-> "read", user |-> u, change |-> change])
    /\ UNCHANGED <<person, open, login>>

\* Only the fields the request names change.
Wanted(p, change) == [role |-> IF change.role = Same THEN p.role ELSE change.role,
                      church |-> IF change.church = Same THEN p.church ELSE change.church,
                      active |-> p.active]

GlobalTransition(p, q) == (p.role = "GLOBAL_ADMIN") # (q.role = "GLOBAL_ADMIN")

ReadUser(r) ==
    /\ job[r].pc = "read"
    /\ LET p == person[job[r].user]
           q == Wanted(p, job[r].change)
       IN Becomes(r, IF (q.role = "GLOBAL_ADMIN") # (q.church = NoChurch) THEN Idle
                     ELSE [pc |-> IF GlobalTransition(q, p) /\ q.role = "MEMBER"
                                  THEN "count" ELSE "write",
                           user |-> job[r].user, change |-> job[r].change,
                           saw |-> p, want |-> q])
    /\ UNCHANGED <<person, open, login>>

CountGlobalAdmins(r) ==
    /\ job[r].pc = "count"
    /\ LET admins == {u \in People : person[u].role = "GLOBAL_ADMIN" /\ person[u].active}
       IN Becomes(r, IF Cardinality(admins) > 1 THEN [job[r] EXCEPT !.pc = "write"] ELSE Idle)
    /\ UNCHANGED <<person, open, login>>

\* Which users a write concerns and which of their sessions were live at it.
Wrote(us, whole, signsOut) == [pc |-> "revoke", users |-> us, church |-> whole,
                                 signsOut |-> signsOut, alive |-> SessionsOf(us)]

UpdateUser(r) ==
    /\ job[r].pc = "write"
    /\ LET j == job[r]
       IN /\ person' = [person EXCEPT ![j.user] = Wanted(@, j.change)]
          /\ Becomes(r, Wrote({j.user}, NoChurch,
                                \/ j.change.password \/ GlobalTransition(j.saw, j.want)
                                \/ j.saw.church # j.want.church))
    /\ UNCHANGED <<open, login>>

\* The generic routes: no check of who the last administrator is.
DeactivateUser(r, s, u) ==
    /\ job[r] = Idle /\ AsAdmin(s)
    /\ person' = [person EXCEPT ![u].active = FALSE]
    /\ Becomes(r, Wrote({u}, NoChurch, TRUE))
    /\ UNCHANGED <<open, login>>

DeactivateTenant(r, s, c) ==
    /\ job[r] = Idle /\ AsAdmin(s)
    /\ open' = open \ {c}
    /\ Becomes(r, Wrote(InChurch(c), c, TRUE))
    /\ UNCHANGED <<person, login>>

Activate(s, u, c) ==
    /\ AsAdmin(s)
    /\ \/ person' = [person EXCEPT ![u].active = TRUE] /\ UNCHANGED open
       \/ open' = open \cup {c} /\ UNCHANGED person
    /\ UNCHANGED <<login, job>>

\* Mutant: only those who could not sign in again are signed out.
RevokeBarredSessions(r) ==
    /\ job[r].pc = "revoke"
    /\ IF job[r].signsOut
       THEN RevokeSessionsOf({u \in job[r].users : ~Eligible(u)})
       ELSE UNCHANGED login
    /\ Becomes(r, Idle)
    /\ UNCHANGED <<person, open>>

\* revokeUserSessions, or revokeTenantSessions for whoever is in the church by now.
RevokeSessions(r) ==
    /\ job[r].pc = "revoke"
    /\ IF job[r].signsOut
       THEN RevokeSessionsOf(IF job[r].church = NoChurch THEN job[r].users
                                                        ELSE InChurch(job[r].church))
       ELSE UNCHANGED login
    /\ Becomes(r, Idle)
    /\ UNCHANGED <<person, open>>

\* A statement fails and the request answers 500; what was written stays.
RequestFails(r) ==
    /\ job[r].pc \notin {"idle", "failed"}
    /\ Becomes(r, [pc |-> "failed"])
    /\ UNCHANGED <<person, open, login>>

\* The script makes a member global without revoking anything.
PromoteGlobalAdmin(u) ==
    /\ person[u].role # "GLOBAL_ADMIN"
    /\ person' = [person EXCEPT ![u].role = "GLOBAL_ADMIN", ![u].church = NoChurch]
    /\ UNCHANGED <<open, login, job>>

AdminNext ==
    \/ \E s \in Logins, u \in People : SignIn(s, u)
    \/ \E r \in AdminRequests, s \in Logins :
          \/ \E u \in People :
                \/ \E change \in UserChanges : StartUpdate(r, s, u, change)
                \/ DeactivateUser(r, s, u)
          \/ \E c \in Churches : DeactivateTenant(r, s, c)
    \/ \E r \in AdminRequests :
          \/ ReadUser(r) \/ CountGlobalAdmins(r) \/ UpdateUser(r) \/ RevokeSessions(r)
          \/ RequestFails(r)
    \/ \E s \in Logins, u \in People, c \in Churches : Activate(s, u, c)
    \/ \E u \in People : PromoteGlobalAdmin(u)

AdminSpec == AdminInit /\ [][AdminNext]_adminVars

-----------------------------------------------------------------------------
\* When an update that changes a password, a church or a global role returns, or a
\* deactivation does, no session is live that was live when it wrote: a sign-in that
\* slips in before the write is caught.  A person who left the church that is being
\* closed is the concern of the request that moved them.
ChangedUsersAreSignedOut ==
    [][\A r \in AdminRequests :
         job[r].pc = "revoke" /\ job'[r] = Idle /\ job[r].signsOut =>
            \A s \in job[r].alive :
               login'[s].live => /\ job[r].church # NoChurch
                                 /\ person[login[s].user].church # job[r].church]_adminVars
=============================================================================

---------------------------- MODULE AuthSessions ----------------------------
(***************************************************************************)
(* Server sessions of one user and their refresh tokens                    *)
(* (src/src/services/authSessionService.ts, called from authService.ts and *)
(* authRepository.ts).                                                     *)
(*                                                                         *)
(* Requests run PostgreSQL transactions at READ COMMITTED.  The variables  *)
(* hold the committed rows; what a transaction has written so far is kept  *)
(* in tx[p], invisible to the others, and locks the rows it touches until  *)
(* it commits or aborts.  An UPDATE chooses its rows among the committed   *)
(* ones when it starts, waits for the locks on them and then looks again   *)
(* at each row it waited for.                                              *)
(*                                                                         *)
(* Expiry is not modelled: a token found expired is answered "invalid" and *)
(* nothing is written, as if it had not been presented.                    *)
(***************************************************************************)
EXTENDS Naturals

CONSTANTS Sessions,     \* sessions the user may open, each with one family
          Tokens,       \* refresh tokens (jti) that may be issued
          Requests,     \* server requests that may be under way at once
          MaxPassword,  \* bound: passwords are versions 1..MaxPassword
          None          \* neither a session nor a token

ASSUME NoneAssumption == None \notin Sessions \cup Tokens
ASSUME PasswordAssumption == MaxPassword \in Nat \ {0}

Passwords == 1..MaxPassword

\* "logout_global" stands for every caller of revokeUserSessions.
Reasons == {"refresh_reuse", "logout", "logout_global", "password_changed"}

VARIABLES
    session,    \* AuthSession: "free" (no row), "live" or its revokeReason
    family,     \* the session's RefreshTokenFamily, likewise
    owner,      \* the session a token belongs to, None before it is issued
    consumed,   \* tokens with consumedAt and replacedByJti set
    revoked,    \* tokens with revokedAt set
    password,   \* the user's password
    openedWith, \* history: the password each session was opened with
    ended,      \* history: sessions a request was told are over
    pc,         \* where each request is
    tx          \* what each request has read, and written but not committed

rows == <<session, family, owner, consumed, revoked, password, openedWith>>
vars == <<session, family, owner, consumed, revoked, password, openedWith,
          ended, pc, tx>>

Transactions ==
    [token : Tokens \cup {None},    \* rotateServerSession: the token presented
     password : Passwords,          \* login: the password that was compared
     reason : Reasons \cup {"none"},
     named : SUBSET Sessions,       \* sessions this request is to end
     todo : SUBSET Sessions,        \* those of them not reached yet
     at : Sessions \cup {None},     \* the one being revoked
     targets : SUBSET Tokens,       \* rows chosen by the token UPDATE
     tokens : SUBSET Tokens,        \* written: tokens revoked
     families : SUBSET Sessions,    \* written: families revoked
     sessions : SUBSET Sessions]    \* written: sessions revoked

NoTx == [token |-> None, password |-> 1, reason |-> "none", named |-> {},
         todo |-> {}, at |-> None, targets |-> {}, tokens |-> {},
         families |-> {}, sessions |-> {}]

TypeOK ==
    /\ session \in [Sessions -> {"free", "live"} \cup Reasons]
    /\ family \in [Sessions -> {"free", "live"} \cup Reasons]
    /\ owner \in [Tokens -> Sessions \cup {None}]
    /\ consumed \in SUBSET Tokens
    /\ revoked \in SUBSET Tokens
    /\ password \in Passwords
    /\ openedWith \in [Sessions -> Passwords]
    /\ ended \in SUBSET Sessions
    /\ pc \in [Requests -> {"idle", "create", "consume", "exchange", "find",
                            "next", "tokens", "family", "session"}]
    /\ tx \in [Requests -> Transactions]

Init ==
    /\ session = [s \in Sessions |-> "free"]
    /\ family = [s \in Sessions |-> "free"]
    /\ owner = [t \in Tokens |-> None]
    /\ consumed = {}
    /\ revoked = {}
    /\ password = 1
    /\ openedWith = [s \in Sessions |-> 1]
    /\ ended = {}
    /\ pc = [p \in Requests |-> "idle"]
    /\ tx = [p \in Requests |-> NoTx]

Go(p, from, to) == pc[p] = from /\ pc' = [pc EXCEPT ![p] = to]

-----------------------------------------------------------------------------
(***************************************************************************)
(* Row locks held by the uncommitted writes of the other requests.         *)
(***************************************************************************)
TokenFree(p, t) == \A q \in Requests \ {p} :
                      /\ t \notin tx[q].tokens
                      /\ ~(pc[q] = "exchange" /\ tx[q].token = t)

FamilyFree(p, s) == \A q \in Requests \ {p} : s \notin tx[q].families

SessionFree(p, s) == \A q \in Requests \ {p} : s \notin tx[q].sessions

UserFree(p) == \A q \in Requests \ {p} : tx[q].reason # "password_changed"

-----------------------------------------------------------------------------
(***************************************************************************)
(* AuthService.login: the password is compared long before createServer-   *)
(* Session writes the session, its family and the first token, together.   *)
(***************************************************************************)
LoginCompare(p) ==
    /\ Go(p, "idle", "create")
    /\ tx' = [tx EXCEPT ![p].password = password]
    /\ UNCHANGED <<rows, ended>>

CreateServerSession(p, s, t) ==
    /\ session[s] = "free" /\ owner[t] = None
    /\ Go(p, "create", "idle")
    /\ session' = [session EXCEPT ![s] = "live"]
    /\ family' = [family EXCEPT ![s] = "live"]
    /\ owner' = [owner EXCEPT ![t] = s]
    /\ openedWith' = [openedWith EXCEPT ![s] = tx[p].password]
    /\ tx' = [tx EXCEPT ![p] = NoTx]
    /\ UNCHANGED <<consumed, revoked, password, ended>>

-----------------------------------------------------------------------------
(***************************************************************************)
(* rotateServerSession.                                                    *)
(***************************************************************************)

\* Mutant: a reused token is refused and nothing is revoked.
ReuseIsOnlyRefused(p, t, s) ==
    tx' = [tx EXCEPT ![p] = [NoTx EXCEPT !.token = t, !.reason = "refresh_reuse",
                                         !.named = {s}]]

\* The request has to revoke s and then answers that the token was reused.
ReuseFound(p, t, s) ==
    tx' = [tx EXCEPT ![p] = [NoTx EXCEPT !.token = t, !.reason = "refresh_reuse",
                                         !.named = {s}, !.todo = {s}]]

\* Token, family and session are read by successive queries.  Reading them at
\* once loses nothing: what changes in between is caught by Consume.
RotateRead(p, t) ==
    LET s == owner[t] IN
    /\ s # None
    /\ \/ /\ t \in consumed
          /\ Go(p, "idle", "next")
          /\ ReuseFound(p, t, s)
       \/ /\ t \notin consumed \cup revoked
          /\ family[s] = "live" /\ session[s] = "live"
          /\ Go(p, "idle", "consume")
          /\ tx' = [tx EXCEPT ![p].token = t]
    /\ UNCHANGED <<rows, ended>>

\* Mutant: the update of the token is not conditional.
ConsumeUnconditionally(p) ==
    /\ TokenFree(p, tx[p].token)
    /\ Go(p, "consume", "exchange")
    /\ UNCHANGED <<rows, ended, tx>>

\* updateMany with consumedAt and revokedAt null: one row, or the race is lost.
Consume(p) ==
    LET t == tx[p].token IN
    /\ TokenFree(p, t)
    /\ IF t \in consumed \cup revoked
       THEN Go(p, "consume", "next") /\ ReuseFound(p, t, owner[t])
       ELSE Go(p, "consume", "exchange") /\ UNCHANGED tx
    /\ UNCHANGED <<rows, ended>>

\* Mutant: the successor is issued, the presented token stays good.
ExchangeKeepingToken(p, u) ==
    /\ owner[u] = None
    /\ Go(p, "exchange", "idle")
    /\ owner' = [owner EXCEPT ![u] = owner[tx[p].token]]
    /\ tx' = [tx EXCEPT ![p] = NoTx]
    /\ UNCHANGED <<session, family, consumed, revoked, password, openedWith, ended>>

\* The successor is inserted, the session row's expiry is extended whether or
\* not it was revoked meanwhile, and the transaction commits.
Exchange(p, u) ==
    LET t == tx[p].token IN
    /\ Go(p, "exchange", "idle")
    /\ owner[u] = None
    /\ SessionFree(p, owner[t])
    /\ consumed' = consumed \cup {t}
    /\ owner' = [owner EXCEPT ![u] = owner[t]]
    /\ tx' = [tx EXCEPT ![p] = NoTx]
    /\ UNCHANGED <<session, family, revoked, password, openedWith, ended>>

-----------------------------------------------------------------------------
(***************************************************************************)
(* Requests that revoke: one session (logout), or those of the user found  *)
(* live (logout from everywhere, password change, whose transaction first  *)
(* writes the user row).                                                   *)
(***************************************************************************)
RevokeSession(p, s) ==
    /\ session[s] # "free"
    /\ Go(p, "idle", "next")
    /\ tx' = [tx EXCEPT ![p].reason = "logout", ![p].named = {s}, ![p].todo = {s}]
    /\ UNCHANGED <<rows, ended>>

RevokeUserSessions(p) ==
    /\ Go(p, "idle", "find")
    /\ tx' = [tx EXCEPT ![p].reason = "logout_global"]
    /\ UNCHANGED <<rows, ended>>

ChangePassword(p) ==
    /\ password < MaxPassword
    /\ UserFree(p)
    /\ Go(p, "idle", "find")
    /\ tx' = [tx EXCEPT ![p].reason = "password_changed"]
    /\ UNCHANGED <<rows, ended>>

FindSessions(p) ==
    LET live == {s \in Sessions : session[s] = "live"} IN
    /\ Go(p, "find", "next")
    /\ tx' = [tx EXCEPT ![p].named = live, ![p].todo = live]
    /\ UNCHANGED <<rows, ended>>

-----------------------------------------------------------------------------
(***************************************************************************)
(* revokeFamilyInTransaction, for each session the request has to end.     *)
(***************************************************************************)

\* The token UPDATE starts: a successor not committed yet is not among its rows.
RevokeNext(p, s) ==
    /\ s \in tx[p].todo
    /\ Go(p, "next", "tokens")
    /\ tx' = [tx EXCEPT ![p].at = s,
                        ![p].todo = @ \ {s},
                        ![p].targets = {t \in Tokens : owner[t] = s /\ t \notin revoked}]
    /\ UNCHANGED <<rows, ended>>

\* ... gets its locks, in the end, and leaves out rows revoked meanwhile.
RevokeTokens(p) ==
    /\ \A t \in tx[p].targets : TokenFree(p, t)
    /\ Go(p, "tokens", "family")
    /\ tx' = [tx EXCEPT ![p].tokens = @ \cup (tx[p].targets \ revoked),
                        ![p].targets = {}]
    /\ UNCHANGED <<rows, ended>>

RevokeFamily(p) ==
    LET s == tx[p].at IN
    /\ FamilyFree(p, s)
    /\ Go(p, "family", "session")
    /\ tx' = [tx EXCEPT ![p].families = IF family[s] = "live" THEN @ \cup {s} ELSE @]
    /\ UNCHANGED <<rows, ended>>

RevokeAuthSession(p) ==
    LET s == tx[p].at IN
    /\ SessionFree(p, s)
    /\ Go(p, "session", "next")
    /\ tx' = [tx EXCEPT ![p].sessions = IF session[s] = "live" THEN @ \cup {s} ELSE @,
                        ![p].at = None]
    /\ UNCHANGED <<rows, ended>>

\* A revoked column becomes the request's reason in the rows it wrote.
Written(old, S, r) == [s \in Sessions |-> IF s \in S THEN r ELSE old[s]]

\* The last session is done: the transaction commits and the caller is told.
Commit(p) ==
    /\ tx[p].todo = {}
    /\ Go(p, "next", "idle")
    /\ revoked' = revoked \cup tx[p].tokens
    /\ family' = Written(family, tx[p].families, tx[p].reason)
    /\ session' = Written(session, tx[p].sessions, tx[p].reason)
    /\ password' = IF tx[p].reason = "password_changed" THEN password + 1 ELSE password
    /\ ended' = ended \cup tx[p].named
    /\ tx' = [tx EXCEPT ![p] = NoTx]
    /\ UNCHANGED <<owner, consumed, openedWith>>

\* Time-out, deadlock victim, lost connection or death of the process.
Abort(p) ==
    /\ pc[p] # "idle" /\ pc' = [pc EXCEPT ![p] = "idle"]
    /\ tx' = [tx EXCEPT ![p] = NoTx]
    /\ UNCHANGED <<rows, ended>>

-----------------------------------------------------------------------------
Login(p) == LoginCompare(p) \/ \E s \in Sessions, t \in Tokens : CreateServerSession(p, s, t)

Rotate(p) == \/ \E t \in Tokens : RotateRead(p, t)
             \/ Consume(p)
             \/ \E u \in Tokens : Exchange(p, u)

Revoke(p) == \/ \E s \in Sessions : RevokeSession(p, s)
             \/ RevokeUserSessions(p)
             \/ ChangePassword(p)
             \/ FindSessions(p)
             \/ \E s \in Sessions : RevokeNext(p, s)
             \/ RevokeTokens(p)
             \/ RevokeFamily(p)
             \/ RevokeAuthSession(p)
             \/ Commit(p)

Next == \E p \in Requests : Login(p) \/ Rotate(p) \/ Revoke(p) \/ Abort(p)

Spec == Init /\ [][Next]_vars

-----------------------------------------------------------------------------
(***************************************************************************)
(* Properties                                                              *)
(***************************************************************************)

\* Concurrent refreshes never leave two good tokens in one session: whatever
\* races, at most one of its tokens has not been consumed (the conditional
\* update of rotateServerSession and the insert in the same transaction).
SingleChain ==
    \A t, u \in Tokens \ consumed :
        owner[t] = owner[u] /\ owner[t] # None => t = u

\* A session and its token family end together and for the same reason, also
\* when several requests end them at once (revokeFamilyInTransaction).
FamilyFollowsSession == \A s \in Sessions : family[s] = session[s]

\* When a request was told that a session is over, by a logout, a password
\* change that found it live or the answer that its token was reused, it is.
EndedIsOver == \A s \in ended : session[s] \in Reasons

\* A session that ended keeps its first reason: no later revocation or late
\* rotation revives or overwrites it.
RevocationIsFinal ==
    [][\A s \in Sessions : session[s] \in Reasons => session'[s] = session[s]]_vars

\* No session opened with an older password outlives a password change.
LiveSessionsUsePassword ==
    \A s \in Sessions : session[s] = "live" => openedWith[s] = password

\* Tokens that rotateServerSession would exchange.
Usable(s) == IF session[s] = "live" /\ family[s] = "live"
             THEN {t \in Tokens : owner[t] = s /\ t \notin consumed \cup revoked}
             ELSE {}

\* The transactions implement the abstract session: one token, exchanged for
\* one successor, and none once the session is over.
Chain == INSTANCE SessionChain
           WITH state <- session, usable <- [s \in Sessions |-> Usable(s)]

ChainSpec == Chain!Spec
=============================================================================

------------------------- MODULE AuthSessionsProofs -------------------------
(***************************************************************************)
(* Theorems about server sessions, for any number of sessions, tokens,     *)
(* concurrent requests and password changes.                               *)
(***************************************************************************)
EXTENDS AuthSessions, TLAPS

-----------------------------------------------------------------------------
(***************************************************************************)
(* The inductive invariant.                                                *)
(***************************************************************************)
Revoking(p) == pc[p] \in {"next", "tokens", "family", "session"}

\* A request that is not revoking has written nothing.
NothingWritten ==
    \A p \in Requests : ~Revoking(p) =>
        /\ tx[p].tokens = {} /\ tx[p].families = {} /\ tx[p].sessions = {}
        /\ tx[p].named = {} /\ tx[p].todo = {}

\* Tokens belong to sessions that were opened; a revoked one to an ended session.
TokensHaveSessions ==
    /\ \A t \in Tokens : owner[t] # None => session[owner[t]] # "free"
    /\ \A t \in consumed : owner[t] # None
    /\ \A t \in revoked : owner[t] # None /\ session[owner[t]] \in Reasons

\* A rotation under way holds a token nobody else is consuming.
RotationsAreExclusive ==
    /\ \A p \in Requests : pc[p] \in {"consume", "exchange"} =>
          tx[p].token \in Tokens /\ owner[tx[p].token] # None
    /\ \A p \in Requests : pc[p] = "exchange" => tx[p].token \notin consumed
    /\ \A p, q \in Requests : p # q /\ pc[p] = "exchange" /\ pc[q] = "exchange" =>
          tx[p].token # tx[q].token

\* What a revoking request has written: rows of live sessions, a family always
\* with its session, and everything it went through already is over.
SoundWrites(p) ==
    /\ tx[p].reason \in Reasons
    /\ tx[p].todo \subseteq tx[p].named
    /\ \A s \in tx[p].named : session[s] # "free"
    /\ pc[p] # "next" => tx[p].at \in tx[p].named
    /\ tx[p].sessions \subseteq tx[p].families
    /\ \A s \in tx[p].families : session[s] = "live"
    /\ \A s \in tx[p].families \ tx[p].sessions : pc[p] = "session" /\ s = tx[p].at
    /\ pc[p] = "session" =>
          tx[p].at \in tx[p].families \/ session[tx[p].at] \in Reasons
    /\ \A s \in tx[p].named \ tx[p].todo :
          \/ pc[p] # "next" /\ s = tx[p].at
          \/ s \in tx[p].sessions
          \/ session[s] \in Reasons
    /\ pc[p] = "tokens" => \A t \in tx[p].targets : owner[t] = tx[p].at
    /\ \A t \in tx[p].tokens :
          /\ owner[t] # None
          /\ \/ pc[p] \in {"family", "session"} /\ owner[t] = tx[p].at
             \/ owner[t] \in tx[p].sessions
             \/ session[owner[t]] \in Reasons

RevocationsAreSound == \A p \in Requests : Revoking(p) => SoundWrites(p)

\* Two requests never hold the same family row.
FamiliesAreExclusive ==
    \A p, q \in Requests : p # q => tx[p].families \cap tx[q].families = {}

\* Only one request at a time changes the password, and there is a next one.
PasswordIsExclusive ==
    /\ \A p \in Requests : tx[p].reason = "password_changed" => password < MaxPassword
    /\ \A p, q \in Requests : tx[p].reason = "password_changed"
                               /\ tx[q].reason = "password_changed" => p = q

\* A request that looks for the user's sessions knows why.
FindingHasReason == \A p \in Requests : pc[p] = "find" => tx[p].reason \in Reasons

IInv == /\ TypeOK
        /\ FindingHasReason
        /\ NothingWritten
        /\ PasswordIsExclusive
        /\ TokensHaveSessions
        /\ RotationsAreExclusive
        /\ RevocationsAreSound
        /\ FamiliesAreExclusive
        /\ SingleChain
        /\ FamilyFollowsSession
        /\ EndedIsOver

-----------------------------------------------------------------------------
(***************************************************************************)
(* Types.                                                                  *)
(***************************************************************************)

\* A request's record is replaced by another of the same type.
LEMMA TxType ==
    ASSUME TypeOK, NEW p \in Requests, NEW r \in Transactions,
           tx' = [tx EXCEPT ![p] = r]
    PROVE  tx' \in [Requests -> Transactions]
BY DEF TypeOK

\* The idle transaction is a transaction.
LEMMA NoTxType == NoTx \in Transactions
BY PasswordAssumption DEF NoTx, Transactions, Passwords

\* Finding a token reused starts a revocation of its session.
LEMMA ReuseType ==
    ASSUME TypeOK, NEW p \in Requests, NEW t \in Tokens, NEW s \in Sessions,
           ReuseFound(p, t, s)
    PROVE  tx' \in [Requests -> Transactions]
<1> DEFINE r == [NoTx EXCEPT !.token = t, !.reason = "refresh_reuse",
                             !.named = {s}, !.todo = {s}]
<1>1. r \in Transactions
  BY NoTxType DEF Transactions, Reasons
<1>2. tx' = [tx EXCEPT ![p] = r]
  BY DEF ReuseFound
<1> HIDE DEF r
<1> QED BY <1>1, <1>2, TxType

\* Every step keeps the types.
LEMMA TypeStep == IInv /\ [Next]_vars => TypeOK'
<1> SUFFICES ASSUME TypeOK, PasswordIsExclusive, RotationsAreExclusive,
                    RevocationsAreSound, [Next]_vars
             PROVE  TypeOK'
  BY DEF IInv
<1> USE DEF Go, rows
<1>1. CASE UNCHANGED vars
  BY <1>1 DEF vars, TypeOK
<1>2. ASSUME NEW p \in Requests, Login(p) PROVE TypeOK'
  <2>t. tx[p] \in Transactions
    BY DEF TypeOK
  <2>1. CASE LoginCompare(p)
    <3> DEFINE r == [tx[p] EXCEPT !.password = password]
    <3>1. r \in Transactions
      BY <2>t DEF Transactions, TypeOK
    <3>2. tx' = [tx EXCEPT ![p] = r]
      BY <2>1 DEF LoginCompare
    <3> HIDE DEF r
    <3> QED BY <2>1, <3>1, <3>2, TxType DEF LoginCompare, TypeOK
  <2>2. ASSUME NEW s \in Sessions, NEW t \in Tokens, CreateServerSession(p, s, t)
        PROVE TypeOK'
    <3>1. tx' \in [Requests -> Transactions]
      BY <2>2, TxType, NoTxType DEF CreateServerSession
    <3>2. tx[p].password \in Passwords
      BY <2>t DEF Transactions
    <3> QED BY <2>2, <3>1, <3>2 DEF CreateServerSession, TypeOK
  <2> QED BY <1>2, <2>1, <2>2 DEF Login
<1>3. ASSUME NEW p \in Requests, Rotate(p) PROVE TypeOK'
  <2>t. tx[p] \in Transactions
    BY DEF TypeOK
  <2>1. ASSUME NEW t \in Tokens, RotateRead(p, t) PROVE TypeOK'
    <3> DEFINE r == [tx[p] EXCEPT !.token = t]
    <3>1. r \in Transactions
      BY <2>t DEF Transactions
    <3>2. owner[t] \in Sessions
      BY <2>1 DEF RotateRead, TypeOK
    <3>3. ReuseFound(p, t, owner[t]) \/ tx' = [tx EXCEPT ![p] = r]
      BY <2>1 DEF RotateRead
    <3> HIDE DEF r
    <3>4. tx' \in [Requests -> Transactions]
      BY <3>1, <3>2, <3>3, TxType, ReuseType
    <3> QED BY <2>1, <3>4 DEF RotateRead, TypeOK
  <2>2. CASE Consume(p)
    <3>1. \/ ReuseFound(p, tx[p].token, owner[tx[p].token])
             /\ tx[p].token \in Tokens /\ owner[tx[p].token] \in Sessions
          \/ UNCHANGED tx
      BY <2>2 DEF Consume, TypeOK, RotationsAreExclusive
    <3>2. tx' \in [Requests -> Transactions]
      BY <3>1, ReuseType DEF TypeOK
    <3> QED BY <2>2, <3>2 DEF Consume, TypeOK
  <2>3. ASSUME NEW u \in Tokens, Exchange(p, u) PROVE TypeOK'
    <3>1. tx' \in [Requests -> Transactions]
      BY <2>3, TxType, NoTxType DEF Exchange
    <3>2. tx[p].token \in Tokens
      BY <2>3 DEF Exchange, RotationsAreExclusive
    <3> QED BY <2>3, <3>1, <3>2 DEF Exchange, TypeOK
  <2> QED BY <1>3, <2>1, <2>2, <2>3 DEF Rotate
<1>4. ASSUME NEW p \in Requests, Revoke(p) PROVE TypeOK'
  <2>t. tx[p] \in Transactions
    BY DEF TypeOK
  <2>1. ASSUME NEW s \in Sessions, RevokeSession(p, s) PROVE TypeOK'
    <3> DEFINE r == [tx[p] EXCEPT !.reason = "logout", !.named = {s}, !.todo = {s}]
    <3>1. r \in Transactions
      BY <2>t DEF Transactions, Reasons
    <3>2. tx' = [tx EXCEPT ![p] = r]
      BY <2>1 DEF RevokeSession
    <3> HIDE DEF r
    <3> QED BY <2>1, <3>1, <3>2, TxType DEF RevokeSession, TypeOK
  <2>2. ASSUME NEW reason \in Reasons, tx' = [tx EXCEPT ![p].reason = reason]
        PROVE  tx' \in [Requests -> Transactions]
    <3> DEFINE r == [tx[p] EXCEPT !.reason = reason]
    <3>1. r \in Transactions
      BY <2>t DEF Transactions
    <3>2. tx' = [tx EXCEPT ![p] = r]
      BY <2>2
    <3> HIDE DEF r
    <3> QED BY <3>1, <3>2, TxType
  <2>3. CASE RevokeUserSessions(p)
    BY <2>2, <2>3 DEF RevokeUserSessions, TypeOK, Reasons
  <2>4. CASE ChangePassword(p)
    BY <2>2, <2>4 DEF ChangePassword, TypeOK, Reasons
  <2>5. CASE FindSessions(p)
    <3> DEFINE live == {s \in Sessions : session[s] = "live"}
               r == [tx[p] EXCEPT !.named = live, !.todo = live]
    <3>1. r \in Transactions
      BY <2>t DEF Transactions
    <3>2. tx' = [tx EXCEPT ![p] = r]
      BY <2>5 DEF FindSessions
    <3> HIDE DEF r
    <3> QED BY <2>5, <3>1, <3>2, TxType DEF FindSessions, TypeOK
  <2>6. ASSUME NEW s \in Sessions, RevokeNext(p, s) PROVE TypeOK'
    <3> DEFINE r == [tx[p] EXCEPT !.at = s, !.todo = tx[p].todo \ {s},
                                  !.targets = {t \in Tokens : owner[t] = s /\ t \notin revoked}]
    <3>1. r \in Transactions
      BY <2>t DEF Transactions
    <3>2. tx' = [tx EXCEPT ![p] = r]
      BY <2>6 DEF RevokeNext
    <3> HIDE DEF r
    <3> QED BY <2>6, <3>1, <3>2, TxType DEF RevokeNext, TypeOK
  <2>7. CASE RevokeTokens(p)
    <3> DEFINE r == [tx[p] EXCEPT !.tokens = tx[p].tokens \cup (tx[p].targets \ revoked),
                                  !.targets = {}]
    <3>1. r \in Transactions
      BY <2>t DEF Transactions
    <3>2. tx' = [tx EXCEPT ![p] = r]
      BY <2>7 DEF RevokeTokens
    <3> HIDE DEF r
    <3> QED BY <2>7, <3>1, <3>2, TxType DEF RevokeTokens, TypeOK
  <2>8. CASE RevokeFamily(p)
    <3> DEFINE r == [tx[p] EXCEPT !.families = IF family[tx[p].at] = "live"
                                               THEN tx[p].families \cup {tx[p].at}
                                               ELSE tx[p].families]
    <3>1. tx[p].at \in Sessions
      BY <2>t, <2>8 DEF RevokeFamily, RevocationsAreSound, Revoking, SoundWrites, Transactions
    <3>2. r \in Transactions
      BY <2>t, <3>1 DEF Transactions
    <3>3. tx' = [tx EXCEPT ![p] = r]
      BY <2>8 DEF RevokeFamily
    <3> HIDE DEF r
    <3> QED BY <2>8, <3>2, <3>3, TxType DEF RevokeFamily, TypeOK
  <2>9. CASE RevokeAuthSession(p)
    <3> DEFINE r == [tx[p] EXCEPT !.sessions = IF session[tx[p].at] = "live"
                                               THEN tx[p].sessions \cup {tx[p].at}
                                               ELSE tx[p].sessions,
                                  !.at = None]
    <3>1. tx[p].at \in Sessions
      BY <2>t, <2>9 DEF RevokeAuthSession, RevocationsAreSound, Revoking, SoundWrites,
                        Transactions
    <3>2. r \in Transactions
      BY <2>t, <3>1 DEF Transactions
    <3>3. tx' = [tx EXCEPT ![p] = r]
      BY <2>9 DEF RevokeAuthSession
    <3> HIDE DEF r
    <3> QED BY <2>9, <3>2, <3>3, TxType DEF RevokeAuthSession, TypeOK
  <2>10. CASE Commit(p)
    <3>1. tx' \in [Requests -> Transactions]
      BY <2>10, TxType, NoTxType DEF Commit
    <3>2. /\ tx[p].reason \in Reasons
          /\ tx[p].tokens \subseteq Tokens
          /\ tx[p].named \subseteq Sessions
      BY <2>t, <2>10 DEF Commit, RevocationsAreSound, Revoking, SoundWrites, Transactions
    <3>3. password' \in Passwords
      BY <2>10, PasswordAssumption DEF Commit, PasswordIsExclusive, Passwords, TypeOK
    <3>4. /\ session' \in [Sessions -> {"free", "live"} \cup Reasons]
          /\ family' \in [Sessions -> {"free", "live"} \cup Reasons]
      BY <2>10, <3>2 DEF Commit, Written, TypeOK
    <3> QED BY <2>10, <3>1, <3>2, <3>3, <3>4 DEF Commit, TypeOK
  <2> QED BY <1>4, <2>1, <2>3, <2>4, <2>5, <2>6, <2>7, <2>8, <2>9, <2>10 DEF Revoke
<1>5. ASSUME NEW p \in Requests, Abort(p) PROVE TypeOK'
  BY <1>5, TxType, NoTxType DEF Abort, TypeOK
<1> QED BY <1>1, <1>2, <1>3, <1>4, <1>5 DEF Next

-----------------------------------------------------------------------------
(***************************************************************************)
(* Steps inside a transaction change no row and concern one request.       *)
(***************************************************************************)

\* What has to be shown of such a step by request p.
LocalFacts(p) ==
    /\ ~Revoking(p)' => /\ tx'[p].tokens = {} /\ tx'[p].families = {}
                        /\ tx'[p].sessions = {}
                        /\ tx'[p].named = {} /\ tx'[p].todo = {}
    /\ pc'[p] = "find" => tx'[p].reason \in Reasons
    /\ tx'[p].reason = "password_changed" =>
          tx[p].reason = "password_changed" \/ (password < MaxPassword /\ UserFree(p))
    /\ pc'[p] \in {"consume", "exchange"} =>
          tx'[p].token \in Tokens /\ owner[tx'[p].token] # None
    /\ pc'[p] = "exchange" =>
          tx'[p].token \notin consumed /\ TokenFree(p, tx'[p].token)
    /\ Revoking(p)' => SoundWrites(p)'
    /\ \A s \in tx'[p].families : s \in tx[p].families \/ FamilyFree(p, s)

\* A step that only moves one request and its unwritten notes disturbs no committed row.
LEMMA LocalStep ==
    ASSUME IInv, TypeOK', NEW p \in Requests, UNCHANGED <<rows, ended>>,
           \A q \in Requests \ {p} : tx'[q] = tx[q] /\ pc'[q] = pc[q],
           LocalFacts(p)
    PROVE  IInv'
<1> USE DEF rows, IInv
<1>1. NothingWritten' /\ FindingHasReason'
  BY DEF NothingWritten, FindingHasReason, LocalFacts, Revoking
<1>2. PasswordIsExclusive'
  BY DEF PasswordIsExclusive, LocalFacts, UserFree
<1>3. TokensHaveSessions'
  BY DEF TokensHaveSessions
<1>4. RotationsAreExclusive'
  BY DEF RotationsAreExclusive, LocalFacts, TokenFree
<1>5. RevocationsAreSound'
  <2> SUFFICES ASSUME NEW q \in Requests, Revoking(q)' PROVE SoundWrites(q)'
    BY DEF RevocationsAreSound
  <2>1. CASE q = p
    BY <2>1 DEF LocalFacts
  <2>2. CASE q # p
    BY <2>2 DEF RevocationsAreSound, Revoking, SoundWrites
  <2> QED BY <2>1, <2>2
<1>6. FamiliesAreExclusive'
  BY DEF FamiliesAreExclusive, LocalFacts, FamilyFree
<1>7. SingleChain' /\ FamilyFollowsSession' /\ EndedIsOver'
  BY DEF SingleChain, FamilyFollowsSession, EndedIsOver
<1> QED BY <1>1, <1>2, <1>3, <1>4, <1>5, <1>6, <1>7

\* The steps of a transaction before its commit keep the invariant.
LEMMA LoginSteps ==
    ASSUME IInv, TypeOK', NEW p \in Requests, LoginCompare(p)
    PROVE  IInv'
<1>1. /\ pc[p] = "idle" /\ pc' = [pc EXCEPT ![p] = "create"]
      /\ tx' = [tx EXCEPT ![p].password = password]
      /\ UNCHANGED <<rows, ended>>
  BY DEF LoginCompare, Go
<1>2. /\ \A q \in Requests \ {p} : tx'[q] = tx[q] /\ pc'[q] = pc[q]
      /\ pc'[p] = "create"
      /\ tx'[p] = [tx[p] EXCEPT !.password = password]
  BY <1>1 DEF IInv, TypeOK
<1>3. LocalFacts(p)
  BY <1>1, <1>2 DEF LocalFacts, IInv, TypeOK, Transactions, NothingWritten, Revoking
<1> QED BY <1>1, <1>2, <1>3, LocalStep

\* Finding a reuse, at the read or at the lost race, keeps the invariant.
LEMMA ReuseSteps ==
    ASSUME IInv, TypeOK', NEW p \in Requests, NEW t \in Tokens, owner[t] # None,
           ReuseFound(p, t, owner[t]), pc' = [pc EXCEPT ![p] = "next"],
           UNCHANGED <<rows, ended>>
    PROVE  IInv'
<1> DEFINE s == owner[t]
<1>1. /\ \A q \in Requests \ {p} : tx'[q] = tx[q] /\ pc'[q] = pc[q]
      /\ pc'[p] = "next"
      /\ tx'[p] = [NoTx EXCEPT !.token = t, !.reason = "refresh_reuse",
                               !.named = {s}, !.todo = {s}]
  BY DEF IInv, TypeOK, ReuseFound
<1>2. /\ tx'[p].reason = "refresh_reuse"
      /\ tx'[p].named = {s} /\ tx'[p].todo = {s}
      /\ tx'[p].tokens = {} /\ tx'[p].families = {} /\ tx'[p].sessions = {}
  BY <1>1 DEF NoTx
<1>3. session[s] # "free" /\ session' = session
  BY DEF IInv, TokensHaveSessions, rows
<1>4. SoundWrites(p)'
  BY <1>1, <1>2, <1>3 DEF SoundWrites, Reasons
<1>5. LocalFacts(p)
  BY <1>1, <1>2, <1>4 DEF LocalFacts, Revoking
<1> QED BY <1>1, <1>5, LocalStep

\* Reading a token and winning its conditional update keep the invariant.
LEMMA RotationSteps ==
    ASSUME IInv, TypeOK', NEW p \in Requests,
           Consume(p) \/ \E t \in Tokens : RotateRead(p, t)
    PROVE  IInv'
<1>1. ASSUME NEW t \in Tokens, RotateRead(p, t) PROVE IInv'
  <2>1. CASE ReuseFound(p, t, owner[t]) /\ Go(p, "idle", "next")
    BY <1>1, <2>1, ReuseSteps DEF RotateRead, Go
  <2>2. CASE Go(p, "idle", "consume") /\ tx' = [tx EXCEPT ![p].token = t]
    <3>1. /\ \A q \in Requests \ {p} : tx'[q] = tx[q] /\ pc'[q] = pc[q]
          /\ pc[p] = "idle" /\ pc'[p] = "consume"
          /\ tx'[p] = [tx[p] EXCEPT !.token = t]
          /\ UNCHANGED <<rows, ended>>
          /\ owner[t] # None
      BY <1>1, <2>2 DEF RotateRead, Go, IInv, TypeOK
    <3>2. LocalFacts(p)
      BY <3>1 DEF LocalFacts, IInv, TypeOK, Transactions, NothingWritten, Revoking
    <3> QED BY <3>1, <3>2, LocalStep
  <2> QED BY <1>1, <2>1, <2>2 DEF RotateRead
<1>2. CASE Consume(p)
  <2> DEFINE t == tx[p].token
  <2>1. t \in Tokens /\ owner[t] # None /\ UNCHANGED <<rows, ended>>
    BY <1>2 DEF Consume, Go, IInv, RotationsAreExclusive
  <2>2. CASE t \in consumed \cup revoked
    BY <1>2, <2>1, <2>2, ReuseSteps DEF Consume, Go
  <2>3. CASE t \notin consumed \cup revoked
    <3>1. /\ \A q \in Requests \ {p} : tx'[q] = tx[q] /\ pc'[q] = pc[q]
          /\ pc[p] = "consume" /\ pc'[p] = "exchange"
          /\ tx'[p] = tx[p]
          /\ TokenFree(p, t)
      BY <1>2, <2>3 DEF Consume, Go, IInv, TypeOK
    <3>2. LocalFacts(p)
      BY <3>1, <2>1, <2>3 DEF LocalFacts, IInv, TypeOK, NothingWritten, Revoking
    <3> QED BY <2>1, <3>1, <3>2, LocalStep
  <2> QED BY <2>2, <2>3
<1> QED BY <1>1, <1>2

\* Naming the sessions to revoke keeps the invariant.
LEMMA StartRevoking ==
    ASSUME IInv, TypeOK', NEW p \in Requests,
           \/ \E s \in Sessions : RevokeSession(p, s)
           \/ RevokeUserSessions(p)
           \/ ChangePassword(p)
           \/ FindSessions(p)
    PROVE  IInv'
<1>t. tx[p] \in Transactions
  BY DEF IInv, TypeOK
<1>w. ~Revoking(p) => /\ tx[p].tokens = {} /\ tx[p].families = {} /\ tx[p].sessions = {}
                      /\ tx[p].named = {} /\ tx[p].todo = {}
  BY DEF IInv, NothingWritten
<1>1. ASSUME NEW s \in Sessions, RevokeSession(p, s) PROVE IInv'
  <2>1. /\ \A q \in Requests \ {p} : tx'[q] = tx[q] /\ pc'[q] = pc[q]
        /\ pc[p] = "idle" /\ pc'[p] = "next"
        /\ tx'[p] = [tx[p] EXCEPT !.reason = "logout", !.named = {s}, !.todo = {s}]
        /\ UNCHANGED <<rows, ended>>
        /\ session[s] # "free" /\ session' = session
    BY <1>1 DEF RevokeSession, Go, IInv, TypeOK, rows
  <2>2. /\ tx'[p].reason = "logout" /\ tx'[p].named = {s} /\ tx'[p].todo = {s}
        /\ tx'[p].tokens = {} /\ tx'[p].families = {} /\ tx'[p].sessions = {}
    BY <2>1, <1>t, <1>w DEF Transactions, Revoking
  <2>3. SoundWrites(p)'
    BY <2>1, <2>2 DEF SoundWrites, Reasons
  <2>4. LocalFacts(p)
    BY <2>1, <2>2, <2>3 DEF LocalFacts, Revoking
  <2> QED BY <2>1, <2>4, LocalStep
<1>2. ASSUME NEW r \in Reasons, Go(p, "idle", "find"), UNCHANGED <<rows, ended>>,
             tx' = [tx EXCEPT ![p].reason = r],
             r = "password_changed" => password < MaxPassword /\ UserFree(p)
      PROVE  IInv'
  <2>1. /\ \A q \in Requests \ {p} : tx'[q] = tx[q] /\ pc'[q] = pc[q]
        /\ pc[p] = "idle" /\ pc'[p] = "find"
        /\ tx'[p] = [tx[p] EXCEPT !.reason = r]
    BY <1>2 DEF Go, IInv, TypeOK
  <2>2. /\ tx'[p].reason = r
        /\ tx'[p].tokens = {} /\ tx'[p].families = {} /\ tx'[p].sessions = {}
        /\ tx'[p].named = {} /\ tx'[p].todo = {}
    BY <2>1, <1>t, <1>w DEF Transactions, Revoking
  <2>3. LocalFacts(p)
    BY <1>2, <2>1, <2>2 DEF LocalFacts, Revoking
  <2> QED BY <1>2, <2>1, <2>3, LocalStep
<1>3. CASE RevokeUserSessions(p)
  BY <1>2, <1>3 DEF RevokeUserSessions, Reasons
<1>4. CASE ChangePassword(p)
  BY <1>2, <1>4 DEF ChangePassword, Reasons
<1>5. CASE FindSessions(p)
  <2> DEFINE live == {s \in Sessions : session[s] = "live"}
  <2>1. /\ \A q \in Requests \ {p} : tx'[q] = tx[q] /\ pc'[q] = pc[q]
        /\ pc[p] = "find" /\ pc'[p] = "next"
        /\ tx'[p] = [tx[p] EXCEPT !.named = live, !.todo = live]
        /\ UNCHANGED <<rows, ended>> /\ session' = session
    BY <1>5 DEF FindSessions, Go, IInv, TypeOK, rows
  <2>2. /\ tx'[p].reason = tx[p].reason /\ tx'[p].named = live /\ tx'[p].todo = live
        /\ tx'[p].tokens = {} /\ tx'[p].families = {} /\ tx'[p].sessions = {}
    BY <2>1, <1>t, <1>w DEF Transactions, Revoking
  <2>3. tx[p].reason \in Reasons
    BY <2>1 DEF IInv, FindingHasReason
  <2>4. SoundWrites(p)'
    BY <2>1, <2>2, <2>3 DEF SoundWrites
  <2>5. LocalFacts(p)
    BY <2>1, <2>2, <2>4 DEF LocalFacts, Revoking
  <2> QED BY <1>5, <2>1, <2>5, LocalStep
<1> QED BY <1>1, <1>3, <1>4, <1>5

\* The three updates of revokeFamilyInTransaction keep the invariant.
LEMMA RevokingSteps ==
    ASSUME IInv, TypeOK', NEW p \in Requests,
           \/ \E s \in Sessions : RevokeNext(p, s)
           \/ RevokeTokens(p)
           \/ RevokeFamily(p)
           \/ RevokeAuthSession(p)
    PROVE  IInv'
<1>t. tx[p] \in Transactions
  BY DEF IInv, TypeOK
<1>s. Revoking(p) => SoundWrites(p)
  BY DEF IInv, RevocationsAreSound
<1>1. ASSUME NEW s \in Sessions, RevokeNext(p, s) PROVE IInv'
  <2>1. /\ \A q \in Requests \ {p} : tx'[q] = tx[q] /\ pc'[q] = pc[q]
        /\ pc[p] = "next" /\ pc'[p] = "tokens"
        /\ tx'[p] = [tx[p] EXCEPT !.at = s, !.todo = tx[p].todo \ {s},
                                  !.targets = {t \in Tokens : owner[t] = s /\ t \notin revoked}]
        /\ s \in tx[p].todo
        /\ UNCHANGED <<rows, ended>> /\ session' = session /\ owner' = owner
    BY <1>1 DEF RevokeNext, Go, IInv, TypeOK, rows
  <2>2. /\ tx'[p].reason = tx[p].reason /\ tx'[p].named = tx[p].named
        /\ tx'[p].todo = tx[p].todo \ {s} /\ tx'[p].at = s
        /\ tx'[p].targets = {t \in Tokens : owner[t] = s /\ t \notin revoked}
        /\ tx'[p].tokens = tx[p].tokens /\ tx'[p].families = tx[p].families
        /\ tx'[p].sessions = tx[p].sessions
    BY <2>1, <1>t DEF Transactions
  <2>3. SoundWrites(p)'
    BY <2>1, <2>2, <1>s DEF SoundWrites, Revoking
  <2>4. LocalFacts(p)
    BY <2>1, <2>2, <2>3 DEF LocalFacts, Revoking
  <2> QED BY <2>1, <2>4, LocalStep
<1>2. CASE RevokeTokens(p)
  <2>1. /\ \A q \in Requests \ {p} : tx'[q] = tx[q] /\ pc'[q] = pc[q]
        /\ pc[p] = "tokens" /\ pc'[p] = "family"
        /\ tx'[p] = [tx[p] EXCEPT !.tokens = tx[p].tokens \cup (tx[p].targets \ revoked),
                                  !.targets = {}]
        /\ UNCHANGED <<rows, ended>> /\ session' = session /\ owner' = owner
    BY <1>2 DEF RevokeTokens, Go, IInv, TypeOK, rows
  <2>2. /\ tx'[p].reason = tx[p].reason /\ tx'[p].named = tx[p].named
        /\ tx'[p].todo = tx[p].todo /\ tx'[p].at = tx[p].at
        /\ tx'[p].tokens = tx[p].tokens \cup (tx[p].targets \ revoked)
        /\ tx'[p].families = tx[p].families /\ tx'[p].sessions = tx[p].sessions
    BY <2>1, <1>t DEF Transactions
  <2>3. \A t \in tx[p].targets : owner[t] = tx[p].at /\ owner[t] # None
    BY <2>1, <1>s, <1>t, NoneAssumption DEF SoundWrites, Revoking, Transactions
  <2>4. SoundWrites(p)'
    BY <2>1, <2>2, <2>3, <1>s DEF SoundWrites, Revoking
  <2>5. LocalFacts(p)
    BY <2>1, <2>2, <2>4 DEF LocalFacts, Revoking
  <2> QED BY <2>1, <2>5, LocalStep
<1>3. CASE RevokeFamily(p)
  <2> DEFINE s == tx[p].at
             F == IF family[s] = "live" THEN tx[p].families \cup {s} ELSE tx[p].families
  <2>1. /\ \A q \in Requests \ {p} : tx'[q] = tx[q] /\ pc'[q] = pc[q]
        /\ pc[p] = "family" /\ pc'[p] = "session"
        /\ tx'[p] = [tx[p] EXCEPT !.families = F]
        /\ FamilyFree(p, s)
        /\ UNCHANGED <<rows, ended>> /\ session' = session /\ owner' = owner
    BY <1>3 DEF RevokeFamily, Go, IInv, TypeOK, rows
  <2>2. /\ tx'[p].reason = tx[p].reason /\ tx'[p].named = tx[p].named
        /\ tx'[p].todo = tx[p].todo /\ tx'[p].at = s
        /\ tx'[p].tokens = tx[p].tokens
        /\ tx'[p].families = F /\ tx'[p].sessions = tx[p].sessions
    BY <2>1, <1>t DEF Transactions
  <2>3. /\ s \in Sessions /\ family[s] = session[s] /\ session[s] # "free"
        /\ session[s] \in {"free", "live"} \cup Reasons
    BY <2>1, <1>s, <1>t DEF SoundWrites, Revoking, Transactions, IInv, TypeOK,
                            FamilyFollowsSession
  <2>4. SoundWrites(p)'
    BY <2>1, <2>2, <2>3, <1>s DEF SoundWrites, Revoking
  <2>5. LocalFacts(p)
    BY <2>1, <2>2, <2>4 DEF LocalFacts, Revoking
  <2> QED BY <2>1, <2>5, LocalStep
<1>4. CASE RevokeAuthSession(p)
  <2> DEFINE s == tx[p].at
             S == IF session[s] = "live" THEN tx[p].sessions \cup {s} ELSE tx[p].sessions
  <2>1. /\ \A q \in Requests \ {p} : tx'[q] = tx[q] /\ pc'[q] = pc[q]
        /\ pc[p] = "session" /\ pc'[p] = "next"
        /\ tx'[p] = [tx[p] EXCEPT !.sessions = S, !.at = None]
        /\ UNCHANGED <<rows, ended>> /\ session' = session /\ owner' = owner
    BY <1>4 DEF RevokeAuthSession, Go, IInv, TypeOK, rows
  <2>2. /\ tx'[p].reason = tx[p].reason /\ tx'[p].named = tx[p].named
        /\ tx'[p].todo = tx[p].todo
        /\ tx'[p].tokens = tx[p].tokens
        /\ tx'[p].families = tx[p].families /\ tx'[p].sessions = S
    BY <2>1, <1>t DEF Transactions
  <2>3. session[s] = "live" <=> s \in tx[p].families
    BY <2>1, <1>s DEF SoundWrites, Revoking, Reasons
  <2>4. s \in tx[p].sessions \/ session[s] = "live" \/ session[s] \in Reasons
    BY <2>1, <1>s DEF SoundWrites, Revoking
  <2>5. SoundWrites(p)'
    BY <2>1, <2>2, <2>3, <2>4, <1>s DEF SoundWrites, Revoking
  <2>6. LocalFacts(p)
    BY <2>1, <2>2, <2>5 DEF LocalFacts, Revoking
  <2> QED BY <2>1, <2>6, LocalStep
<1> QED BY <1>1, <1>2, <1>3, <1>4

\* A rollback keeps the invariant.
LEMMA AbortStep ==
    ASSUME IInv, TypeOK', NEW p \in Requests, Abort(p)
    PROVE  IInv'
<1>1. /\ \A q \in Requests \ {p} : tx'[q] = tx[q] /\ pc'[q] = pc[q]
      /\ pc'[p] = "idle" /\ tx'[p] = NoTx
      /\ UNCHANGED <<rows, ended>>
  BY DEF Abort, IInv, TypeOK
<1>2. LocalFacts(p)
  BY <1>1 DEF LocalFacts, Revoking, NoTx
<1> QED BY <1>1, <1>2, LocalStep

-----------------------------------------------------------------------------
(***************************************************************************)
(* The three steps that change rows.                                       *)
(***************************************************************************)

\* What another request has written stays sound when the rows it holds are
\* left alone, and no session is taken back or revived.
LEMMA OtherRequest ==
    ASSUME NEW q \in Requests, SoundWrites(q), tx'[q] = tx[q], pc'[q] = pc[q],
           tx[q] \in Transactions,
           \A s \in Sessions : session[s] # "free" => session'[s] # "free",
           \A s \in Sessions : session[s] \in Reasons => session'[s] \in Reasons,
           \A s \in tx[q].families : session'[s] = session[s],
           \A t \in Tokens : owner[t] # None => owner'[t] = owner[t],
           \A t \in Tokens : owner[t] \in Sessions \cup {None},
           None \notin Sessions
    PROVE  SoundWrites(q)'
<1>1. /\ tx[q].named \subseteq Sessions /\ tx[q].families \subseteq Sessions
      /\ tx[q].tokens \subseteq Tokens /\ tx[q].targets \subseteq Tokens
      /\ tx[q].at \in Sessions \cup {None}
  BY DEF Transactions
<1>2. \A s \in Sessions : session[s] \in Reasons => session'[s] \in Reasons
  OBVIOUS
<1>3. \A t \in tx[q].targets : owner[t] = tx[q].at /\ pc[q] = "tokens" => owner'[t] = owner[t]
  BY <1>1 DEF SoundWrites
<1> QED BY <1>1, <1>2, <1>3 DEF SoundWrites

\* Opening a session keeps the invariant.
LEMMA CreateStep ==
    ASSUME IInv, TypeOK', NEW p \in Requests, NEW s \in Sessions, NEW t \in Tokens,
           CreateServerSession(p, s, t)
    PROVE  IInv'
<1>1. /\ session[s] = "free" /\ owner[t] = None
      /\ pc[p] = "create" /\ pc'[p] = "idle" /\ tx'[p] = NoTx
      /\ \A q \in Requests \ {p} : tx'[q] = tx[q] /\ pc'[q] = pc[q]
      /\ session' = [session EXCEPT ![s] = "live"]
      /\ family' = [family EXCEPT ![s] = "live"]
      /\ owner' = [owner EXCEPT ![t] = s]
      /\ UNCHANGED <<consumed, revoked, password, ended>>
  BY DEF CreateServerSession, Go, IInv, TypeOK
<1>t. TypeOK /\ None \notin Sessions
  BY NoneAssumption DEF IInv
<1>2. FindingHasReason' /\ NothingWritten' /\ PasswordIsExclusive' /\ FamiliesAreExclusive'
  BY <1>1, <1>t DEF IInv, FindingHasReason, NothingWritten, Revoking, PasswordIsExclusive,
                    FamiliesAreExclusive, NoTx
<1>3. TokensHaveSessions'
  BY <1>1, <1>t DEF IInv, TypeOK, TokensHaveSessions, Reasons
<1>4. RotationsAreExclusive'
  BY <1>1, <1>t DEF IInv, TypeOK, RotationsAreExclusive
<1>5. RevocationsAreSound'
  <2> SUFFICES ASSUME NEW q \in Requests, Revoking(q)' PROVE SoundWrites(q)'
    BY DEF RevocationsAreSound
  <2>1. q # p /\ SoundWrites(q)
    BY <1>1 DEF Revoking, IInv, RevocationsAreSound
  <2>2. \A r \in tx[q].families : session'[r] = session[r]
    BY <1>1, <1>t, <2>1 DEF SoundWrites, TypeOK
  <2>3. \A r \in Sessions : /\ session[r] # "free" => session'[r] = session[r]
                            /\ session[r] \in Reasons => session'[r] = session[r]
    BY <1>1, <1>t DEF TypeOK, Reasons
  <2>4. \A u \in Tokens : owner[u] # None => owner'[u] = owner[u]
    BY <1>1, <1>t DEF TypeOK
  <2> QED BY <1>1, <1>t, <2>1, <2>2, <2>3, <2>4, OtherRequest DEF TypeOK
<1>6. SingleChain'
  <2>1. \A u \in Tokens : owner[u] # s
    BY <1>1, <1>t DEF IInv, TokensHaveSessions
  <2> QED BY <1>1, <1>t, <2>1 DEF IInv, TypeOK, SingleChain
<1>7. FamilyFollowsSession' /\ EndedIsOver'
  BY <1>1, <1>t DEF IInv, TypeOK, FamilyFollowsSession, EndedIsOver, Reasons
<1> QED BY <1>2, <1>3, <1>4, <1>5, <1>6, <1>7 DEF IInv

\* Committing a rotation keeps the invariant.
LEMMA ExchangeStep ==
    ASSUME IInv, TypeOK', NEW p \in Requests, NEW u \in Tokens, Exchange(p, u)
    PROVE  IInv'
<1> DEFINE t == tx[p].token
           s == owner[t]
<1>t. TypeOK /\ None \notin Sessions
  BY NoneAssumption DEF IInv
<1>1. /\ owner[u] = None
      /\ pc[p] = "exchange" /\ pc'[p] = "idle" /\ tx'[p] = NoTx
      /\ \A q \in Requests \ {p} : tx'[q] = tx[q] /\ pc'[q] = pc[q]
      /\ consumed' = consumed \cup {t}
      /\ owner' = [owner EXCEPT ![u] = s]
      /\ UNCHANGED <<session, family, revoked, password, ended>>
  BY DEF Exchange, Go, IInv, TypeOK
<1>2. t \in Tokens /\ s # None /\ s \in Sessions /\ t \notin consumed /\ t # u
  BY <1>1, <1>t DEF IInv, TypeOK, RotationsAreExclusive
<1>3. FindingHasReason' /\ NothingWritten' /\ PasswordIsExclusive' /\ FamiliesAreExclusive'
  BY <1>1, <1>t DEF IInv, FindingHasReason, NothingWritten, Revoking, PasswordIsExclusive,
                    FamiliesAreExclusive, NoTx
<1>4. TokensHaveSessions'
  BY <1>1, <1>2, <1>t DEF IInv, TypeOK, TokensHaveSessions
<1>5. RotationsAreExclusive'
  BY <1>1, <1>2, <1>t DEF IInv, TypeOK, RotationsAreExclusive
<1>6. RevocationsAreSound'
  <2> SUFFICES ASSUME NEW q \in Requests, Revoking(q)' PROVE SoundWrites(q)'
    BY DEF RevocationsAreSound
  <2>1. q # p /\ SoundWrites(q)
    BY <1>1 DEF Revoking, IInv, RevocationsAreSound
  <2>2. \A v \in Tokens : owner[v] # None => owner'[v] = owner[v]
    BY <1>1, <1>t DEF TypeOK
  <2> QED BY <1>1, <1>t, <2>1, <2>2, OtherRequest DEF TypeOK
<1>7. SingleChain'
  <2>1. \A v \in Tokens \ consumed : owner[v] = s => v = t
    BY <1>2 DEF IInv, SingleChain
  <2> QED BY <1>1, <1>2, <1>t, <2>1 DEF IInv, TypeOK, SingleChain
<1>8. FamilyFollowsSession' /\ EndedIsOver'
  BY <1>1 DEF IInv, FamilyFollowsSession, EndedIsOver
<1> QED BY <1>3, <1>4, <1>5, <1>6, <1>7, <1>8 DEF IInv

\* Committing a revocation keeps the invariant.
LEMMA CommitStep ==
    ASSUME IInv, TypeOK', NEW p \in Requests, Commit(p)
    PROVE  IInv'
<1> DEFINE S == tx[p].sessions
           r == tx[p].reason
<1>t. TypeOK /\ None \notin Sessions /\ tx[p] \in Transactions
  BY NoneAssumption DEF IInv, TypeOK
<1>1. /\ tx[p].todo = {}
      /\ pc[p] = "next" /\ pc'[p] = "idle" /\ tx'[p] = NoTx
      /\ \A q \in Requests \ {p} : tx'[q] = tx[q] /\ pc'[q] = pc[q]
      /\ revoked' = revoked \cup tx[p].tokens
      /\ family' = Written(family, tx[p].families, r)
      /\ session' = Written(session, S, r)
      /\ password' = IF r = "password_changed" THEN password + 1 ELSE password
      /\ ended' = ended \cup tx[p].named
      /\ UNCHANGED <<owner, consumed>>
  BY DEF Commit, Go, IInv, TypeOK
<1>2. SoundWrites(p)
  BY <1>1 DEF IInv, RevocationsAreSound, Revoking
<1>3. /\ S = tx[p].families /\ S \subseteq Sessions /\ r \in Reasons
      /\ \A s \in S : session[s] = "live"
  BY <1>1, <1>2, <1>t DEF SoundWrites, Transactions
<1>4. \A s \in Sessions : session'[s] = IF s \in S THEN r ELSE session[s]
  BY <1>1 DEF Written
<1>5. \A s \in Sessions : /\ session[s] # "free" => session'[s] # "free"
                          /\ session[s] \in Reasons => session'[s] = session[s]
  BY <1>3, <1>4 DEF Reasons
<1>6. FindingHasReason' /\ NothingWritten' /\ FamiliesAreExclusive'
  BY <1>1 DEF IInv, FindingHasReason, NothingWritten, Revoking, FamiliesAreExclusive, NoTx
<1>7. PasswordIsExclusive'
  <2>1. \A q \in Requests \ {p} : r = "password_changed" => tx[q].reason # "password_changed"
    BY DEF IInv, PasswordIsExclusive
  <2>2. tx'[p].reason # "password_changed"
    BY <1>1 DEF NoTx
  <2> QED BY <1>1, <2>1, <2>2 DEF IInv, PasswordIsExclusive
<1>8. TokensHaveSessions'
  <2>1. \A t \in tx[p].tokens : t \in Tokens /\ owner[t] # None /\ session'[owner[t]] \in Reasons
    BY <1>1, <1>2, <1>3, <1>4, <1>5, <1>t DEF SoundWrites, TypeOK, Transactions
  <2>2. \A t \in Tokens : owner[t] # None => owner[t] \in Sessions
    BY <1>t DEF TypeOK
  <2> QED BY <1>1, <1>5, <1>t, <2>1, <2>2 DEF IInv, TypeOK, TokensHaveSessions
<1>9. RotationsAreExclusive'
  BY <1>1 DEF IInv, RotationsAreExclusive
<1>10. RevocationsAreSound'
  <2> SUFFICES ASSUME NEW q \in Requests, Revoking(q)' PROVE SoundWrites(q)'
    BY DEF RevocationsAreSound
  <2>1. q # p /\ SoundWrites(q)
    BY <1>1 DEF Revoking, IInv, RevocationsAreSound
  <2>2. tx[q] \in Transactions /\ tx[q].families \subseteq Sessions
    BY <1>t DEF TypeOK, Transactions
  <2>3. \A s \in tx[q].families : session'[s] = session[s]
    BY <1>3, <1>4, <2>1, <2>2 DEF IInv, FamiliesAreExclusive
  <2> QED BY <1>1, <1>5, <1>t, <2>1, <2>2, <2>3, OtherRequest DEF TypeOK
<1>11. SingleChain'
  BY <1>1 DEF IInv, SingleChain
<1>12. FamilyFollowsSession'
  BY <1>1, <1>3, <1>4 DEF IInv, FamilyFollowsSession, Written
<1>13. EndedIsOver'
  <2>1. \A s \in tx[p].named : s \in Sessions /\ (s \in S \/ session[s] \in Reasons)
    BY <1>1, <1>2, <1>t DEF SoundWrites, Transactions
  <2>2. ended \subseteq Sessions
    BY <1>t DEF TypeOK
  <2> QED BY <1>1, <1>3, <1>4, <1>5, <2>1, <2>2 DEF IInv, EndedIsOver
<1> QED BY <1>6, <1>7, <1>8, <1>9, <1>10, <1>11, <1>12, <1>13 DEF IInv

-----------------------------------------------------------------------------
\* Every step keeps the invariant.
LEMMA InvStep == IInv /\ [Next]_vars => IInv'
<1> SUFFICES ASSUME IInv, [Next]_vars PROVE IInv'
  OBVIOUS
<1>t. TypeOK'
  BY TypeStep
<1>1. CASE UNCHANGED vars
  <2> USE <1>1 DEF vars, IInv
  <2>1. FindingHasReason' /\ NothingWritten' /\ PasswordIsExclusive' /\ FamiliesAreExclusive'
    BY DEF FindingHasReason, NothingWritten, Revoking, PasswordIsExclusive, FamiliesAreExclusive
  <2>2. TokensHaveSessions' /\ RotationsAreExclusive'
    BY DEF TokensHaveSessions, RotationsAreExclusive
  <2>3. RevocationsAreSound'
    BY DEF RevocationsAreSound, Revoking, SoundWrites
  <2>4. SingleChain' /\ FamilyFollowsSession' /\ EndedIsOver'
    BY DEF SingleChain, FamilyFollowsSession, EndedIsOver
  <2> QED BY <1>t, <2>1, <2>2, <2>3, <2>4
<1>2. ASSUME NEW p \in Requests, Login(p) PROVE IInv'
  BY <1>2, <1>t, LoginSteps, CreateStep DEF Login
<1>3. ASSUME NEW p \in Requests, Rotate(p) PROVE IInv'
  BY <1>3, <1>t, RotationSteps, ExchangeStep DEF Rotate
<1>4. ASSUME NEW p \in Requests, Revoke(p) PROVE IInv'
  BY <1>4, <1>t, StartRevoking, RevokingSteps, CommitStep DEF Revoke
<1>5. ASSUME NEW p \in Requests, Abort(p) PROVE IInv'
  BY <1>5, <1>t, AbortStep
<1> QED BY <1>1, <1>2, <1>3, <1>4, <1>5 DEF Next

\* The invariant holds in every reachable state.
THEOREM Invariant == Spec => []IInv
<1>1. Init => IInv
  <2> USE DEF Init
  <2>1. Init => TypeOK
    BY PasswordAssumption, NoTxType DEF TypeOK, Passwords
  <2>2. Init => FindingHasReason /\ NothingWritten /\ PasswordIsExclusive /\ FamiliesAreExclusive
    BY DEF FindingHasReason, NothingWritten, PasswordIsExclusive, FamiliesAreExclusive, NoTx
  <2>3. Init => TokensHaveSessions /\ RotationsAreExclusive /\ RevocationsAreSound
    BY DEF TokensHaveSessions, RotationsAreExclusive, RevocationsAreSound, Revoking
  <2>4. Init => SingleChain /\ FamilyFollowsSession /\ EndedIsOver
    BY DEF SingleChain, FamilyFollowsSession, EndedIsOver
  <2> QED BY <2>1, <2>2, <2>3, <2>4 DEF IInv
<1> QED BY <1>1, InvStep, PTL DEF Spec

\* Every variable keeps its type.
THEOREM TypeCorrect == Spec => []TypeOK
<1>1. IInv => TypeOK
  BY DEF IInv
<1> QED BY <1>1, Invariant, PTL

\* However refreshes, logouts and password changes interleave, a session never
\* has two tokens that were not exchanged yet.
THEOREM ChainIsSingle == Spec => []SingleChain
<1>1. IInv => SingleChain
  BY DEF IInv
<1> QED BY <1>1, Invariant, PTL

\* A session and its token family are revoked together, for the same reason.
THEOREM FamilyAndSessionAgree == Spec => []FamilyFollowsSession
<1>1. IInv => FamilyFollowsSession
  BY DEF IInv
<1> QED BY <1>1, Invariant, PTL

\* A session somebody was told is over is over.
THEOREM EndedHolds == Spec => []EndedIsOver
<1>1. IInv => EndedIsOver
  BY DEF IInv
<1> QED BY <1>1, Invariant, PTL

\* The first reason of a revocation is kept for ever.
THEOREM RevocationFinal == Spec => RevocationIsFinal
<1>1. IInv /\ [Next]_vars =>
        [\A s \in Sessions : session[s] \in Reasons => session'[s] = session[s]]_vars
  <2> SUFFICES ASSUME IInv, [Next]_vars, NEW s \in Sessions, session[s] \in Reasons
               PROVE  session'[s] = session[s]
    OBVIOUS
  <2>1. ASSUME NEW p \in Requests, NEW z \in Sessions, NEW t \in Tokens,
               CreateServerSession(p, z, t)
        PROVE  session'[s] = session[s]
    BY <2>1 DEF CreateServerSession, IInv, TypeOK, Reasons
  <2>2. ASSUME NEW p \in Requests, Commit(p) PROVE session'[s] = session[s]
    <3>1. \A z \in tx[p].sessions : session[z] = "live"
      BY <2>2 DEF Commit, Go, IInv, RevocationsAreSound, Revoking, SoundWrites
    <3> QED BY <2>2, <3>1 DEF Commit, Written, Reasons
  <2> QED BY <2>1, <2>2
          DEF Next, vars, rows, Login, LoginCompare, Rotate, RotateRead, Consume, Exchange,
              Revoke, RevokeSession, RevokeUserSessions, ChangePassword, FindSessions,
              RevokeNext, RevokeTokens, RevokeFamily, RevokeAuthSession, Abort
<1> QED BY <1>1, Invariant, PTL DEF Spec, RevocationIsFinal

-----------------------------------------------------------------------------
(***************************************************************************)
(* Refinement.                                                             *)
(***************************************************************************)

\* Every step of the transactions is a step of the abstract session, or leaves
\* its state and its usable token unchanged.
LEMMA ChainStep == IInv /\ [Next]_vars => [Chain!Next]_(Chain!cvars)
<1> SUFFICES ASSUME IInv, [Next]_vars PROVE [Chain!Next]_(Chain!cvars)
  OBVIOUS
<1> USE DEF Chain!cvars
<1>t. TypeOK /\ FamilyFollowsSession /\ None \notin Sessions
  BY NoneAssumption DEF IInv
<1>1. CASE UNCHANGED rows
  BY <1>1 DEF rows, Usable
<1>2. ASSUME NEW p \in Requests, NEW s \in Sessions, NEW t \in Tokens,
             CreateServerSession(p, s, t)
      PROVE  Chain!Next
  <2>1. /\ session[s] = "free" /\ owner[t] = None
        /\ session' = [session EXCEPT ![s] = "live"]
        /\ family' = [family EXCEPT ![s] = "live"]
        /\ owner' = [owner EXCEPT ![t] = s]
        /\ consumed' = consumed /\ revoked' = revoked
    BY <1>2 DEF CreateServerSession
  <2>2. \A u \in Tokens : owner[u] # s
    BY <2>1, <1>t DEF IInv, TokensHaveSessions
  <2>3. t \notin consumed \cup revoked
    BY <2>1 DEF IInv, TokensHaveSessions
  <2>4. Usable(s)' = {t}
    BY <2>1, <2>2, <2>3, <1>t DEF Usable, TypeOK
  <2>5. \A z \in Sessions \ {s} : Usable(z)' = Usable(z)
    BY <2>1, <1>t DEF Usable, TypeOK
  <2>6. Chain!Open(s, t)
    BY <2>1, <2>4, <2>5 DEF Chain!Open
  <2> QED BY <2>6 DEF Chain!Next
<1>3. ASSUME NEW p \in Requests, NEW u \in Tokens, Exchange(p, u)
      PROVE  [Chain!Next]_(Chain!cvars)
  <2>0. PICK t \in Tokens, s \in Sessions : t = tx[p].token /\ s = owner[t]
    BY <1>3, <1>t DEF Exchange, Go, IInv, TypeOK, RotationsAreExclusive
  <2>1. /\ owner[u] = None
        /\ consumed' = consumed \cup {t}
        /\ owner' = [owner EXCEPT ![u] = s]
        /\ session' = session /\ family' = family /\ revoked' = revoked
    BY <1>3, <2>0 DEF Exchange
  <2>2. /\ s # None /\ t \notin consumed /\ t # u
        /\ u \notin consumed \cup revoked
    BY <2>0, <2>1, <1>3, <1>t DEF Exchange, Go, IInv, TypeOK, RotationsAreExclusive, TokensHaveSessions
  <2>3. \A z \in Sessions \ {s} : Usable(z)' = Usable(z)
    BY <2>0, <2>1, <2>2, <1>t DEF Usable, TypeOK
  <2>4. CASE session[s] = "live"
    <3>1. t \notin revoked /\ family[s] = "live"
      BY <2>0, <2>4, <1>t DEF IInv, TokensHaveSessions, FamilyFollowsSession, Reasons
    <3>2. \A v \in Tokens \ consumed : owner[v] = s => v = t
      BY <2>0, <2>2 DEF IInv, SingleChain
    <3>3. Usable(s) = {t}
      BY <2>0, <2>2, <2>4, <3>1, <3>2 DEF Usable
    <3>4. Usable(s)' = {u}
      BY <2>0, <2>1, <2>2, <2>4, <3>1, <3>2, <1>t DEF Usable, TypeOK
    <3>5. Chain!Exchange(s, t, u)
      BY <2>1, <2>2, <2>3, <3>3, <3>4 DEF Chain!Exchange
    <3> QED BY <3>5 DEF Chain!Next
  <2>5. CASE session[s] # "live"
    BY <2>1, <2>3, <2>5 DEF Usable
  <2> QED BY <2>4, <2>5
<1>4. ASSUME NEW p \in Requests, Commit(p)
      PROVE  Chain!Next
  <2> DEFINE S == tx[p].sessions
             r == tx[p].reason
  <2>1. SoundWrites(p) /\ pc[p] = "next" /\ tx[p] \in Transactions
    BY <1>4, <1>t DEF Commit, Go, IInv, RevocationsAreSound, Revoking, TypeOK
  <2>2. /\ S = tx[p].families /\ S \subseteq Sessions /\ r \in Reasons
        /\ tx[p].tokens \subseteq Tokens
        /\ \A s \in S : session[s] = "live"
        /\ \A t \in tx[p].tokens : owner[t] \in S \/ session[owner[t]] \in Reasons
    BY <2>1 DEF SoundWrites, Transactions
  <2>3. /\ session' = [s \in Sessions |-> IF s \in S THEN r ELSE session[s]]
        /\ family' = [s \in Sessions |-> IF s \in S THEN r ELSE family[s]]
        /\ revoked' = revoked \cup tx[p].tokens
        /\ owner' = owner /\ consumed' = consumed
    BY <1>4, <2>2 DEF Commit, Written
  <2>4. \A s \in S : Usable(s)' = {}
    BY <2>2, <2>3 DEF Usable, Reasons
  <2>5. \A s \in Sessions \ S : Usable(s)' = Usable(s)
    BY <2>2, <2>3 DEF Usable, Reasons
  <2> HIDE DEF S, r
  <2>6. Chain!End(S, r)
    BY <2>2, <2>3, <2>4, <2>5 DEF Chain!End
  <2> QED BY <2>2, <2>6 DEF Chain!Next
<1> QED BY <1>1, <1>2, <1>3, <1>4
        DEF Next, vars, rows, Login, LoginCompare, Rotate, RotateRead, Consume,
            Revoke, RevokeSession, RevokeUserSessions, ChangePassword, FindSessions,
            RevokeNext, RevokeTokens, RevokeFamily, RevokeAuthSession, Abort

\* The transactions implement the abstract session.
THEOREM Refinement == Spec => ChainSpec
<1>1. Init => Chain!Init
  BY DEF Init, Chain!Init, Usable
<1> QED BY <1>1, ChainStep, Invariant, PTL DEF Spec, ChainSpec, Chain!Spec
=============================================================================

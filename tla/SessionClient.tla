---------------------------- MODULE SessionClient ----------------------------
(***************************************************************************)
(* The session as the app keeps it (src/mobile/src/services/api.ts and     *)
(* store/authStore.ts), against the server SessionChain describes.         *)
(*                                                                         *)
(* Calls go through one axios instance.  A call answered 401 starts a      *)
(* refresh, or waits for the one that runs; a refresh that fails logs out, *)
(* and logging out makes calls of its own.  A caller therefore has a stack *)
(* of what it awaits, the last thing first.  Tokens are written to storage *)
(* key by key, and the app may be killed between any two steps.            *)
(* Registering stores a session exactly as logging in does.                *)
(*                                                                         *)
(* An access token stands for its session: it may expire at any moment.    *)
(* Refresh tokens are reused by the model once nobody holds them.          *)
(***************************************************************************)
EXTENDS Naturals, Sequences, FiniteSets

CONSTANTS Callers,          \* what may be awaited at the same time
          ClientSessions, ClientTokens,
          PushEnabled,      \* this device registered for push notifications
          Nothing

ASSUME NothingAssumption == Nothing \notin ClientSessions \cup ClientTokens
ASSUME PushEnabledAssumption == PushEnabled \in BOOLEAN

VARIABLES
    chain,          \* the server's sessions: "free", "live" or why they ended
    usable,         \* the tokens the server would exchange
    home,           \* the session a refresh token was issued for
    authToken,      \* auth_token in storage
    refreshToken,   \* refresh_token in storage
    deviceKey,      \* push_device_id is in storage
    signedIn,       \* authStore has a user
    isRefreshing,
    stack,          \* what each caller awaits
    cutShort        \* history: the app was killed with a spent token in storage

Server == INSTANCE SessionChain
            WITH Sessions <- ClientSessions, Tokens <- ClientTokens,
                 Reasons <- {"logout", "reuse"}, state <- chain

server == <<chain, usable, home>>
storage == <<authToken, refreshToken, deviceKey>>
clientVars == <<chain, usable, home, authToken, refreshToken, deviceKey, signedIn,
                isRefreshing, stack, cutShort>>

\* What a caller awaits: a call, a login or a logout; how far it is; whether it
\* is marked _retry; the session and the refresh token it has in hand.
Frame(op, at) == [op |-> op, at |-> at, retry |-> FALSE, access |-> Nothing, rt |-> Nothing]

Calls == {"get", "removeDevice", "postLogout"}
Flight == {"readRefresh", "postRefresh", "store1", "store2", "store3", "failed", "aborting"}

Top(t) == Head(stack[t])
At(t, at) == stack[t] # <<>> /\ Top(t).at = at
Becomes(t, frame) == stack' = [stack EXCEPT ![t] = <<frame>> \o Tail(@)]
Moves(t, at) == Becomes(t, [Top(t) EXCEPT !.at = at])
Awaits(t, at, frame) ==
    stack' = [stack EXCEPT ![t] = <<frame, [Top(t) EXCEPT !.at = at]>> \o Tail(@)]
Returns(t) == stack' = [stack EXCEPT ![t] = Tail(@)]

ClientInit ==
    /\ Server!Init
    /\ home = [u \in ClientTokens |-> Nothing]
    /\ authToken = Nothing /\ refreshToken = Nothing
    /\ deviceKey = PushEnabled
    /\ signedIn = FALSE /\ isRefreshing = FALSE
    /\ stack = [t \in Callers |-> <<>>]
    /\ cutShort = FALSE

ClientTypeOK ==
    /\ chain \in [ClientSessions -> {"free", "live", "logout", "reuse"}]
    /\ usable \in [ClientSessions -> SUBSET ClientTokens]
    /\ home \in [ClientTokens -> ClientSessions \cup {Nothing}]
    /\ authToken \in ClientSessions \cup {Nothing}
    /\ refreshToken \in ClientTokens \cup {Nothing}
    /\ {deviceKey, signedIn, isRefreshing, cutShort} \subseteq BOOLEAN
    /\ \A t \in Callers : Len(stack[t]) <= 5

\* A token nobody holds, to be issued anew.
Fresh(u) == /\ u # refreshToken
            /\ \A s \in ClientSessions : u \notin usable[s]
            /\ \A t \in Callers, i \in 1..5 : i <= Len(stack[t]) => stack[t][i].rt # u

-----------------------------------------------------------------------------
(***************************************************************************)
(* What the user and the screens start.                                    *)
(***************************************************************************)
StartCall(t) ==
    /\ signedIn /\ stack[t] = <<>>
    /\ stack' = [stack EXCEPT ![t] = <<Frame("get", "send")>>]
    /\ UNCHANGED <<server, storage, signedIn, isRefreshing, cutShort>>

StartLogin(t) ==
    /\ ~signedIn /\ stack[t] = <<>>
    /\ stack' = [stack EXCEPT ![t] = <<Frame("login", "submit")>>]
    /\ UNCHANGED <<server, storage, signedIn, isRefreshing, cutShort>>

StartLogout(t) ==
    /\ signedIn /\ stack[t] = <<>>
    /\ stack' = [stack EXCEPT ![t] = <<Frame("logout", "push")>>]
    /\ UNCHANGED <<server, storage, signedIn, isRefreshing, cutShort>>

-----------------------------------------------------------------------------
(***************************************************************************)
(* login: the tokens are stored before the user is set.                    *)
(***************************************************************************)
LoginSucceeds(t) ==
    /\ At(t, "submit")
    /\ \E s \in ClientSessions, u \in ClientTokens :
          /\ Fresh(u) /\ Server!Open(s, u)
          /\ home' = [home EXCEPT ![u] = s]
          /\ Becomes(t, [Top(t) EXCEPT !.at = "persist1", !.access = s, !.rt = u])
    /\ UNCHANGED <<storage, signedIn, isRefreshing, cutShort>>

LoginFails(t) ==
    /\ At(t, "submit") /\ Returns(t)
    /\ UNCHANGED <<server, storage, signedIn, isRefreshing, cutShort>>

\* persistSession writes one key after the other; refreshAccessToken likewise.
StoreAccess(t) ==
    /\ \/ At(t, "persist1") /\ Moves(t, "persist2")
       \/ At(t, "store1") /\ Moves(t, "store2")
    /\ authToken' = Top(t).access
    /\ UNCHANGED <<server, refreshToken, deviceKey, signedIn, isRefreshing, cutShort>>

\* Mutant: a refresh keeps the access token only.
StoreRefreshAtLogin(t) ==
    /\ \/ At(t, "persist2") /\ Moves(t, "persist3") /\ refreshToken' = Top(t).rt
       \/ At(t, "store2") /\ Moves(t, "store3") /\ UNCHANGED refreshToken
    /\ UNCHANGED <<server, authToken, deviceKey, signedIn, isRefreshing, cutShort>>

StoreRefresh(t) ==
    /\ \/ At(t, "persist2") /\ Moves(t, "persist3")
       \/ At(t, "store2") /\ Moves(t, "store3")
    /\ refreshToken' = Top(t).rt
    /\ UNCHANGED <<server, authToken, deviceKey, signedIn, isRefreshing, cutShort>>

LoginDone(t) ==
    /\ At(t, "persist3") /\ Returns(t)
    /\ signedIn' = TRUE
    /\ UNCHANGED <<server, storage, isRefreshing, cutShort>>

-----------------------------------------------------------------------------
(***************************************************************************)
(* A call and its 401.                                                     *)
(***************************************************************************)
\* The request interceptor takes the token that is stored now.
Send(t) ==
    /\ At(t, "send")
    /\ Becomes(t, [Top(t) EXCEPT !.at = "sent",
                                 !.access = IF authToken = Nothing THEN @ ELSE authToken])
    /\ UNCHANGED <<server, storage, signedIn, isRefreshing, cutShort>>

Accepted(t) == Top(t).access # Nothing /\ chain[Top(t).access] = "live"

\* The route ran, or the call failed for a reason other than the session; POST
\* /auth/logout revokes the session of its access token.
Answered(t) ==
    /\ At(t, "sent") /\ Returns(t)
    /\ \/ /\ Top(t).op = "postLogout" /\ Accepted(t)
          /\ Server!End({Top(t).access}, "logout")
       \/ UNCHANGED <<chain, usable>>
    /\ UNCHANGED <<home, storage, signedIn, isRefreshing, cutShort>>

\* Mutant: every call that is answered 401 refreshes by itself.
UnauthorizedAlone(t) ==
    /\ At(t, "sent")
    /\ IF Top(t).retry THEN Returns(t) /\ UNCHANGED isRefreshing
       ELSE /\ isRefreshing' = TRUE
            /\ Becomes(t, [Top(t) EXCEPT !.retry = TRUE, !.at = "readRefresh"])
    /\ UNCHANGED <<server, storage, signedIn, cutShort>>

\* 401: a token that expired, of a session that is over, or none.
Unauthorized(t) ==
    /\ At(t, "sent")
    /\ LET again == [Top(t) EXCEPT !.retry = TRUE]
       IN \/ /\ Top(t).retry
             /\ Returns(t) /\ UNCHANGED isRefreshing
          \/ /\ ~Top(t).retry /\ isRefreshing
             /\ Becomes(t, [again EXCEPT !.at = "queued"]) /\ UNCHANGED isRefreshing
          \/ /\ ~Top(t).retry /\ ~isRefreshing
             /\ isRefreshing' = TRUE
             /\ Becomes(t, [again EXCEPT !.at = "readRefresh"])
    /\ UNCHANGED <<server, storage, signedIn, cutShort>>

\* Mutant: a failed refresh forgets who waits for it.
ProcessQueueOnSuccess(t, ok, at) ==
    stack' = [c \in Callers |->
                IF c = t THEN <<[Top(t) EXCEPT !.at = at]>> \o Tail(stack[t])
                ELSE IF At(c, "queued") /\ ok
                     THEN <<[Top(c) EXCEPT !.at = "send"]>> \o Tail(stack[c])
                     ELSE stack[c]]

\* processQueue: those who wait go on, or are rejected; t itself is at "at" then.
ProcessQueue(t, ok, at) ==
    stack' = [c \in Callers |->
                IF c = t THEN <<[Top(t) EXCEPT !.at = at]>> \o Tail(stack[t])
                ELSE IF ~At(c, "queued") THEN stack[c]
                ELSE IF ok THEN <<[Top(c) EXCEPT !.at = "send"]>> \o Tail(stack[c])
                ELSE Tail(stack[c])]

ReadRefresh(t) ==
    /\ At(t, "readRefresh")
    /\ IF refreshToken = Nothing
       THEN ProcessQueue(t, FALSE, "failed")
       ELSE Becomes(t, [Top(t) EXCEPT !.at = "postRefresh", !.rt = refreshToken])
    /\ UNCHANGED <<server, storage, signedIn, isRefreshing, cutShort>>

\* POST /auth/refresh.  The exchange may happen and its answer be lost.
RefreshExchanged(t) ==
    /\ At(t, "postRefresh")
    /\ \E s \in ClientSessions, u \in ClientTokens :
          /\ Fresh(u) /\ Server!Exchange(s, Top(t).rt, u)
          /\ home' = [home EXCEPT ![u] = s]
          /\ \/ Becomes(t, [Top(t) EXCEPT !.at = "store1", !.access = s, !.rt = u])
             \/ ProcessQueue(t, FALSE, "failed")
    /\ UNCHANGED <<storage, signedIn, isRefreshing, cutShort>>

\* The server refuses it, having ended the session if the token is a spent one;
\* or the request never arrived.
RefreshRefused(t) ==
    /\ At(t, "postRefresh") /\ ProcessQueue(t, FALSE, "failed")
    /\ LET s == home[Top(t).rt]
       IN \/ chain[s] = "live" /\ Top(t).rt \notin usable[s] /\ Server!End({s}, "reuse")
          \/ UNCHANGED <<chain, usable>>
    /\ UNCHANGED <<home, storage, signedIn, isRefreshing, cutShort>>

\* The user is written and set, the queue released and the call sent again.
RefreshDone(t) ==
    /\ At(t, "store3") /\ ProcessQueue(t, TRUE, "send")
    /\ signedIn' = TRUE
    /\ isRefreshing' = FALSE
    /\ UNCHANGED <<server, storage, cutShort>>

\* clearStoredSession, then logout(false), then the finally.
RefreshFailed(t) ==
    /\ At(t, "failed")
    /\ authToken' = Nothing /\ refreshToken' = Nothing
    /\ Awaits(t, "aborting", Frame("logoutLocally", "push"))
    /\ UNCHANGED <<server, deviceKey, signedIn, isRefreshing, cutShort>>

RefreshAborted(t) ==
    /\ At(t, "aborting") /\ Returns(t)
    /\ isRefreshing' = FALSE
    /\ UNCHANGED <<server, storage, signedIn, cutShort>>

-----------------------------------------------------------------------------
(***************************************************************************)
(* logout: the push device, the server (unless it is a local logout) and   *)
(* then, whatever became of those, the client.                             *)
(***************************************************************************)
DisablePush(t) ==
    /\ At(t, "push")
    /\ IF deviceKey THEN Awaits(t, "removed", Frame("removeDevice", "send"))
                    ELSE Moves(t, "post")
    /\ UNCHANGED <<server, storage, signedIn, isRefreshing, cutShort>>

PushDisabled(t) ==
    /\ At(t, "removed") /\ Moves(t, "post")
    /\ deviceKey' = FALSE
    /\ UNCHANGED <<server, authToken, refreshToken, signedIn, isRefreshing, cutShort>>

RevokeOnServer(t) ==
    /\ At(t, "post")
    /\ IF Top(t).op = "logout" THEN Awaits(t, "clear", Frame("postLogout", "send"))
                               ELSE Moves(t, "clear")
    /\ UNCHANGED <<server, storage, signedIn, isRefreshing, cutShort>>

ClearSession(t) ==
    /\ At(t, "clear") /\ Returns(t)
    /\ authToken' = Nothing /\ refreshToken' = Nothing
    /\ signedIn' = FALSE
    /\ UNCHANGED <<server, deviceKey, isRefreshing, cutShort>>

-----------------------------------------------------------------------------
(***************************************************************************)
(* The app is killed and started again.                                    *)
(***************************************************************************)
Spent == refreshToken # Nothing /\ refreshToken \notin usable[home[refreshToken]]

Kill ==
    /\ stack' = [t \in Callers |-> <<>>]
    /\ isRefreshing' = FALSE /\ signedIn' = FALSE
    /\ cutShort' = (cutShort \/ Spent)
    /\ UNCHANGED <<server, storage>>

\* loadSession: what is stored is believed until a call says otherwise.
LoadSession ==
    /\ ~signedIn /\ authToken # Nothing /\ \A t \in Callers : stack[t] = <<>>
    /\ signedIn' = TRUE
    /\ UNCHANGED <<server, storage, isRefreshing, stack, cutShort>>

-----------------------------------------------------------------------------
\* What goes on by itself once it was started.
Proceeds(t) ==
    \/ LoginSucceeds(t) \/ LoginFails(t) \/ StoreAccess(t) \/ StoreRefresh(t) \/ LoginDone(t)
    \/ Send(t) \/ Answered(t) \/ Unauthorized(t)
    \/ ReadRefresh(t) \/ RefreshExchanged(t) \/ RefreshRefused(t)
    \/ RefreshDone(t) \/ RefreshFailed(t) \/ RefreshAborted(t)
    \/ DisablePush(t) \/ PushDisabled(t) \/ RevokeOnServer(t) \/ ClearSession(t)

ClientNext ==
    \/ \E t \in Callers : StartCall(t) \/ StartLogin(t) \/ StartLogout(t) \/ Proceeds(t)
    \/ Kill
    \/ LoadSession

\* Requests have timeouts and storage answers, so what was started goes on.
ClientFairness == \A t \in Callers : WF_clientVars(Proceeds(t))

ClientSpec == ClientInit /\ [][ClientNext]_clientVars /\ ClientFairness

-----------------------------------------------------------------------------
InFlight(t) == {i \in 1..Len(stack[t]) : stack[t][i].at \in Flight}

\* The app never presents a spent token, which would end its own session, unless
\* it was killed between the exchange and the write of the new token.
ReuseOnlyAfterKill == \A s \in ClientSessions : chain[s] = "reuse" => cutShort

\* A call that is waiting while the refresh has not settled yet does not wait for
\* ever: processQueue takes everybody who is there.
Waiting(t) == /\ At(t, "queued")
              /\ \E c \in Callers : \E i \in InFlight(c) :
                    stack[c][i].at \notin {"failed", "aborting"}
WaitersAreReleased == \A t \in Callers : Waiting(t) ~> ~At(t, "queued")

\* "Logout ... sempre limpa o cliente em finally"
\* (docs/security-program/adr-sessoes-refresh-tokens.md): once begun it ends.
LoggingOut(t) == \E i \in 1..Len(stack[t]) : stack[t][i].op \in {"logout", "logoutLocally"}
LogoutFinishes == \A t \in Callers : LoggingOut(t) ~> ~LoggingOut(t)
=============================================================================

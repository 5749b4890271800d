------------------------- MODULE SessionClientProofs -------------------------
(***************************************************************************)
(* Proofs about SessionClient: the types of its state, with a bound on how *)
(* deep its calls nest, and that a session is ended for the reuse of a     *)
(* token only after the app was killed, for any number of callers,         *)
(* sessions and tokens.                                                    *)
(*                                                                         *)
(* A caller's stack is a chain in which each call is awaited by the one    *)
(* below, with at most one refresh on it (ClientShape); of all callers one *)
(* refreshes at a time (OneRefresh). What makes reuse impossible is        *)
(* TokensInv: every token the app holds, shows to the server or has on its *)
(* way is known, and the one it would show is current, as long as no kill  *)
(* has come between the server's answer and the storage.                   *)
(***************************************************************************)
EXTENDS SessionClient, SequenceTheorems, TLAPS

(***************************************************************************)
(* What a caller awaits.                                                   *)
(***************************************************************************)
StepsOf(op) ==
    IF op = "login" THEN {"submit", "persist1", "persist2", "persist3"}
    ELSE IF op \in {"logout", "logoutLocally"} THEN {"push", "removed", "post", "clear"}
    ELSE {"send", "sent", "queued"} \cup Flight

AllSteps == {"submit", "persist1", "persist2", "persist3", "push", "removed", "post", "clear",
             "send", "sent", "queued"} \cup Flight

Frames ==
    {f \in [op: {"login", "logout", "logoutLocally"} \cup Calls, at: AllSteps, retry: BOOLEAN,
            access: ClientSessions \cup {Nothing}, rt: ClientTokens \cup {Nothing}] :
       f.at \in StepsOf(f.op)}

\* Frame "above" is what "below" waits for.
Link(above, below) ==
    \/ below.at = "removed" /\ above.op = "removeDevice"
    \/ below.at = "clear" /\ below.op = "logout" /\ above.op = "postLogout"
    \/ below.at = "aborting" /\ above.op = "logoutLocally"

Roots == {"get", "login", "logout"}

Nested(q) ==
    /\ \A i \in 1..(Len(q) - 1) : Link(q[i], q[i + 1])
    /\ q # <<>> => q[Len(q)].op \in Roots

Flying(q) == \E i \in 1..Len(q) : q[i].at \in Flight

Single(q) == \A i, j \in 1..Len(q) : q[i].at \in Flight /\ q[j].at \in Flight => i = j

StackOk(q) == q \in Seq(Frames) /\ Nested(q) /\ Single(q)

TopIn(q, ats) == q # <<>> /\ Head(q).at \in ats

-----------------------------------------------------------------------------
\* Refreshes and logouts do not nest without end.
LEMMA StackIsShort == ASSUME NEW q, StackOk(q) PROVE Len(q) <= 4
<1> SUFFICES ASSUME Len(q) >= 5 PROVE FALSE
  BY LenProperties DEF StackOk
<1>1. q \in Seq(Frames) /\ Len(q) \in Nat
  BY DEF StackOk
<1>2. \A i \in 1..5 : q[i] \in Frames
  BY <1>1, ElementOfSeq
<1>3. \A i \in 1..4 : Link(q[i], q[i + 1])
  BY <1>1 DEF StackOk, Nested
<1>4. Link(q[1], q[2]) /\ Link(q[2], q[3]) /\ Link(q[3], q[4]) /\ Link(q[4], q[5])
  <2>1. 1 + 1 = 2 /\ 2 + 1 = 3 /\ 3 + 1 = 4 /\ 4 + 1 = 5
    OBVIOUS
  <2> QED
    BY <1>3, <2>1
<1>5. \A i, j \in 1..5 : q[i].at = "aborting" /\ q[j].at = "aborting" => i = j
  BY <1>1 DEF StackOk, Single, Flight
<1> QED
  BY <1>2, <1>4, <1>5 DEF Frames, StepsOf, Link, Flight, Calls

LEMMA PopTop ==
    ASSUME NEW q, StackOk(q), q # <<>>
    PROVE  /\ StackOk(Tail(q))
           /\ Flying(Tail(q)) => Flying(q)
           /\ Head(q).at \in Flight => ~Flying(Tail(q))
           /\ Tail(q) # <<>> => Head(Tail(q)).at \in {"removed", "clear", "aborting"}
<1>1. /\ q \in Seq(Frames) /\ Len(q) \in Nat \ {0} /\ Head(q) = q[1]
      /\ Tail(q) \in Seq(Frames) /\ Len(Tail(q)) = Len(q) - 1
      /\ \A i \in 1..(Len(q) - 1) : i + 1 \in 1..Len(q) /\ Tail(q)[i] = q[i + 1]
  BY DEF StackOk
<1> DEFINE r == Tail(q)
<1> HIDE DEF r
<1>2. /\ r \in Seq(Frames) /\ Len(r) = Len(q) - 1
      /\ \A i \in 1..Len(r) : i + 1 \in 1..Len(q) /\ r[i] = q[i + 1]
  BY <1>1 DEF r
<1>3. Nested(r)
  <2>1. \A i \in 1..(Len(r) - 1) : Link(r[i], r[i + 1])
    <3> SUFFICES ASSUME NEW i \in 1..(Len(r) - 1) PROVE Link(r[i], r[i + 1])
      OBVIOUS
    <3>1. r[i] = q[i + 1] /\ r[i + 1] = q[(i + 1) + 1] /\ i + 1 \in 1..(Len(q) - 1)
      BY <1>1, <1>2
    <3> QED
      BY <3>1 DEF StackOk, Nested
  <2>2. r # <<>> => r[Len(r)] = q[Len(q)]
    BY <1>1, <1>2
  <2> QED
    BY <2>1, <2>2 DEF StackOk, Nested
<1>4. Single(r)
  BY <1>1, <1>2 DEF StackOk, Single
<1>5. Flying(r) => Flying(q)
  BY <1>2 DEF Flying
<1>6. Head(q).at \in Flight => ~Flying(r)
  BY <1>1, <1>2 DEF Flying, StackOk, Single
<1>7. r # <<>> => Head(r).at \in {"removed", "clear", "aborting"}
  <2> SUFFICES ASSUME r # <<>> PROVE Head(r).at \in {"removed", "clear", "aborting"}
    OBVIOUS
  <2>1. Len(r) # 0
    BY <1>2
  <2>2. 1 \in 1..(Len(q) - 1) /\ Head(r) = r[1] /\ r[1] = q[1 + 1]
    BY <1>1, <1>2, <2>1
  <2>3. Link(q[1], q[1 + 1])
    BY <2>2 DEF StackOk, Nested
  <2> QED
    BY <2>2, <2>3 DEF Link
<1> QED
  BY <1>2, <1>3, <1>4, <1>5, <1>6, <1>7 DEF StackOk, r

LEMMA ReplaceTop ==
    ASSUME NEW q, StackOk(q), q # <<>>, NEW f \in Frames, f.op = Head(q).op,
           f.at \in Flight => Head(q).at \in Flight \/ ~Flying(q)
    PROVE  /\ StackOk(<<f>> \o Tail(q))
           /\ <<f>> \o Tail(q) # <<>> /\ Head(<<f>> \o Tail(q)) = f
           /\ f.at \notin Flight /\ Flying(<<f>> \o Tail(q)) => Flying(q)
           /\ f.at \notin Flight /\ Head(q).at \in Flight => ~Flying(<<f>> \o Tail(q))
           /\ Head(q).at \in Flight => Flying(q)
<1>1. /\ q \in Seq(Frames) /\ Len(q) \in Nat \ {0} /\ Head(q) = q[1]
      /\ Tail(q) \in Seq(Frames) /\ Len(Tail(q)) = Len(q) - 1
      /\ \A i \in 1..(Len(q) - 1) : i + 1 \in 1..Len(q) /\ Tail(q)[i] = q[i + 1]
  BY DEF StackOk
<1>2. <<f>> \in Seq(Frames) /\ Len(<<f>>) = 1 /\ <<f>>[1] = f
  OBVIOUS
<1> DEFINE r == <<f>> \o Tail(q)
<1>3. /\ r \in Seq(Frames) /\ Len(r) = Len(q) /\ r[1] = f
      /\ \A i \in 2..Len(q) : r[i] = q[i]
  <2>1. Len(r) = 1 + (Len(q) - 1) /\ r \in Seq(Frames)
    BY <1>1, <1>2, ConcatProperties
  <2>2. \A i \in 1..Len(r) : r[i] = IF i <= 1 THEN f ELSE Tail(q)[i - 1]
    BY <1>1, <1>2, <2>1, ConcatProperties
  <2>3. \A i \in 2..Len(q) : i - 1 \in 1..(Len(q) - 1) /\ (i - 1) + 1 = i
    BY <1>1
  <2> QED
    BY <1>1, <2>1, <2>2, <2>3
<1> HIDE DEF r
<1>4. r # <<>> /\ Head(r) = f
  BY <1>1, <1>3
<1>5. Nested(r)
  <2>1. ASSUME NEW i \in 1..(Len(r) - 1) PROVE Link(r[i], r[i + 1])
    <3>1. Link(q[i], q[i + 1]) /\ r[i + 1] = q[i + 1] /\ r[i].op = q[i].op
      BY <1>1, <1>3 DEF StackOk, Nested
    <3> QED
      BY <3>1 DEF Link
  <2>2. r[Len(r)].op = q[Len(q)].op
    BY <1>1, <1>3
  <2> QED
    BY <2>1, <2>2 DEF StackOk, Nested
<1>6. Single(r)
  BY <1>1, <1>3 DEF StackOk, Single, Flying
<1>7. /\ f.at \notin Flight /\ Flying(r) => Flying(q)
      /\ f.at \notin Flight /\ Head(q).at \in Flight => ~Flying(r)
      /\ Head(q).at \in Flight => Flying(q)
  BY <1>1, <1>3 DEF StackOk, Single, Flying
<1> QED
  BY <1>3, <1>4, <1>5, <1>6, <1>7 DEF StackOk, r

LEMMA PushTop ==
    ASSUME NEW q, StackOk(q), q # <<>>, NEW f \in Frames, NEW g \in Frames,
           g.op = Head(q).op, f.at \notin Flight,
           g.at \in Flight <=> Head(q).at \in Flight, Link(f, g)
    PROVE  /\ StackOk(<<f, g>> \o Tail(q))
           /\ <<f, g>> \o Tail(q) # <<>> /\ Head(<<f, g>> \o Tail(q)) = f
           /\ Flying(<<f, g>> \o Tail(q)) => Flying(q)
<1>1. /\ q \in Seq(Frames) /\ Len(q) \in Nat \ {0} /\ Head(q) = q[1]
      /\ Tail(q) \in Seq(Frames) /\ Len(Tail(q)) = Len(q) - 1
      /\ \A i \in 1..(Len(q) - 1) : i + 1 \in 1..Len(q) /\ Tail(q)[i] = q[i + 1]
  BY DEF StackOk
<1>2. <<f, g>> \in Seq(Frames) /\ Len(<<f, g>>) = 2 /\ <<f, g>>[1] = f /\ <<f, g>>[2] = g
  OBVIOUS
<1> DEFINE r == <<f, g>> \o Tail(q)
<1>3. /\ r \in Seq(Frames) /\ Len(r) = Len(q) + 1 /\ r[1] = f /\ r[2] = g
      /\ \A i \in 3..Len(r) : i - 1 \in 2..Len(q) /\ r[i] = q[i - 1]
  <2>1. Len(r) = 2 + (Len(q) - 1) /\ r \in Seq(Frames)
    BY <1>1, <1>2, ConcatProperties
  <2>2. \A i \in 1..Len(r) : r[i] = IF i <= 2 THEN <<f, g>>[i] ELSE Tail(q)[i - 2]
    BY <1>1, <1>2, <2>1, ConcatProperties
  <2>3. \A i \in 3..Len(r) : i - 2 \in 1..(Len(q) - 1) /\ (i - 2) + 1 = i - 1
    BY <1>1, <2>1
  <2>4. 1 \in 1..Len(r) /\ 2 \in 1..Len(r)
    BY <1>1, <2>1
  <2> QED
    BY <1>1, <1>2, <2>1, <2>2, <2>3, <2>4
<1> HIDE DEF r
<1>4. r # <<>> /\ Head(r) = f
  BY <1>1, <1>3
<1>5. Nested(r)
  <2>1. ASSUME NEW i \in 1..(Len(r) - 1) PROVE Link(r[i], r[i + 1])
    <3>1. CASE i = 1
      BY <1>3, <3>1
    <3>2. CASE i = 2
      <4>1. Link(q[1], q[1 + 1]) /\ r[3] = q[2]
        BY <1>1, <1>3, <3>2 DEF StackOk, Nested
      <4> QED
        BY <1>1, <1>3, <3>2, <4>1 DEF Link
    <3>3. CASE i > 2
      <4>1. i - 1 \in 1..(Len(q) - 1) /\ r[i] = q[i - 1] /\ r[i + 1] = q[(i - 1) + 1]
        BY <1>1, <1>3, <3>3
      <4> QED
        BY <4>1 DEF StackOk, Nested
    <3> QED
      BY <3>1, <3>2, <3>3
  <2>2. r[Len(r)].op = q[Len(q)].op
    <3>1. CASE Len(q) = 1
      BY <1>1, <1>3, <3>1
    <3>2. CASE Len(q) # 1
      BY <1>1, <1>3, <3>2
    <3> QED
      BY <3>1, <3>2
  <2> QED
    BY <2>1, <2>2 DEF StackOk, Nested
<1>6. \A i \in 1..Len(r) : r[i].at \in Flight => /\ i - 1 \in 1..Len(q)
                                                /\ q[i - 1].at \in Flight
  <2> SUFFICES ASSUME NEW i \in 1..Len(r), r[i].at \in Flight
               PROVE  i - 1 \in 1..Len(q) /\ q[i - 1].at \in Flight
    OBVIOUS
  <2>1. i # 1
    BY <1>3
  <2>2. CASE i = 2
    BY <1>1, <1>3, <2>2
  <2>3. CASE i # 2
    BY <1>1, <1>3, <2>1, <2>3
  <2> QED
    BY <2>2, <2>3
<1>7. Single(r)
  <2> SUFFICES ASSUME NEW i \in 1..Len(r), NEW j \in 1..Len(r),
                      r[i].at \in Flight, r[j].at \in Flight
               PROVE  i = j
    BY DEF Single
  <2>1. i - 1 = j - 1
    BY <1>6 DEF StackOk, Single
  <2> QED
    BY <1>3, <2>1
<1>8. Flying(r) => Flying(q)
  BY <1>6 DEF Flying
<1> QED
  BY <1>3, <1>4, <1>5, <1>7, <1>8 DEF StackOk, r

-----------------------------------------------------------------------------
(***************************************************************************)
(* The inductive invariant.                                                *)
(***************************************************************************)
ClientShape ==
    /\ chain \in [ClientSessions -> {"free", "live", "logout", "reuse"}]
    /\ usable \in [ClientSessions -> SUBSET ClientTokens]
    /\ home \in [ClientTokens -> ClientSessions \cup {Nothing}]
    /\ authToken \in ClientSessions \cup {Nothing}
    /\ refreshToken \in ClientTokens \cup {Nothing}
    /\ deviceKey \in BOOLEAN /\ signedIn \in BOOLEAN
    /\ isRefreshing \in BOOLEAN /\ cutShort \in BOOLEAN
    /\ stack \in [Callers -> Seq(Frames)]

\* There is one refresh at a time, and isRefreshing says so.
OneRefresh ==
    \A t \in Callers :
        /\ StackOk(stack[t])
        /\ Flying(stack[t]) => isRefreshing
        /\ \A c \in Callers : Flying(stack[t]) /\ Flying(stack[c]) => t = c

\* A token of a session that was opened.
Known(u) == u \in ClientTokens /\ home[u] \in ClientSessions /\ chain[home[u]] # "free"

\* The server would exchange it, if its session had not ended.
Current(u) == chain[home[u]] = "live" => u \in usable[home[u]]

\* A new token on its way to storage, and a token that is being presented.
Held == {"persist1", "persist2", "store1", "store2"}
Shown == {"postRefresh"}
Spending == {"store1", "store2", "failed"}

Using(t) == TopIn(stack[t], Held \cup Shown)

KnownTokens ==
    /\ \A s \in ClientSessions : usable[s] # {} => chain[s] = "live"
    /\ refreshToken # Nothing => Known(refreshToken)
    /\ \A t \in Callers : Using(t) => Known(Top(t).rt)

\* A new token is current and in one place.
HeldAreCurrent ==
    \A t \in Callers : TopIn(stack[t], Held) =>
        /\ Current(Top(t).rt) /\ Top(t).rt # refreshToken
        /\ \A c \in Callers : Using(c) /\ Top(c).rt = Top(t).rt => c = t

\* A token that is presented is current, and so is the one in storage unless a
\* refresh is about to replace it, as long as the app was not killed at that time.
ShownAreCurrent ==
    ~cutShort =>
        /\ \A t \in Callers : TopIn(stack[t], Shown) => Current(Top(t).rt)
        /\ refreshToken = Nothing \/ Current(refreshToken)
           \/ \E t \in Callers : TopIn(stack[t], Spending)

TokensInv == KnownTokens /\ HeldAreCurrent /\ ShownAreCurrent /\ ReuseOnlyAfterKill

ClientInv == ClientShape /\ OneRefresh /\ TokensInv

-----------------------------------------------------------------------------
LEMMA EmptyStack == StackOk(<<>>) /\ ~Flying(<<>>) /\ \A ats : ~TopIn(<<>>, ats)
<1>1. <<>> \in Seq(Frames) /\ Len(<<>>) = 0
  BY EmptySeq
<1> QED
  BY <1>1 DEF StackOk, Nested, Single, Flying, TopIn

LEMMA NewStack ==
    ASSUME NEW f \in Frames, f.op \in Roots, f.at \notin Flight
    PROVE  StackOk(<<f>>) /\ ~Flying(<<f>>) /\ <<f>> # <<>> /\ Head(<<f>>) = f
<1>1. /\ <<f>> \in Seq(Frames) /\ Len(<<f>>) = 1 /\ <<f>>[1] = f
      /\ \A i \in 1..1 : i = 1
  OBVIOUS
<1>2. Nested(<<f>>)
  BY <1>1 DEF Nested
<1>3. Single(<<f>>) /\ ~Flying(<<f>>)
  BY <1>1 DEF Single, Flying
<1> QED
  BY <1>1, <1>2, <1>3 DEF StackOk

LEMMA FrameIn ==
    ASSUME NEW op \in {"get", "removeDevice", "postLogout", "login", "logout", "logoutLocally"},
           NEW at \in AllSteps, at \in StepsOf(op)
    PROVE  /\ Frame(op, at) \in Frames
           /\ Frame(op, at).op = op /\ Frame(op, at).at = at
<1>1. Frame(op, at).op = op /\ Frame(op, at).at = at
  BY DEF Frame
<1> QED
  BY <1>1 DEF Frame, Frames, Calls

\* A frame that moves.
LEMMA FrameMoves ==
    ASSUME NEW f \in Frames, NEW at \in AllSteps, at \in StepsOf(f.op),
           NEW retry \in BOOLEAN, NEW access \in ClientSessions \cup {Nothing},
           NEW rt \in ClientTokens \cup {Nothing}, NEW g,
           g = [f EXCEPT !.at = at, !.retry = retry, !.access = access, !.rt = rt]
    PROVE  g \in Frames /\ g.op = f.op /\ g.at = at /\ g.access = access /\ g.rt = rt
  BY DEF Frames

LEMMA MovedAt ==
    ASSUME NEW f \in Frames, NEW at \in AllSteps, at \in StepsOf(f.op), NEW g,
           g = [f EXCEPT !.at = at]
    PROVE  g \in Frames /\ g.op = f.op /\ g.at = at /\ g.rt = f.rt
  BY DEF Frames

LEMMA ClientInitInv == ClientInit => ClientInv
<1> SUFFICES ASSUME ClientInit PROVE ClientInv
  OBVIOUS
<1>1. \A t \in Callers : stack[t] = <<>>
  BY DEF ClientInit
<1>2. chain = [s \in ClientSessions |-> "free"] /\ usable = [s \in ClientSessions |-> {}]
  BY DEF ClientInit, Server!Init
<1>3. refreshToken = Nothing
  BY DEF ClientInit
<1>4. deviceKey \in BOOLEAN /\ signedIn \in BOOLEAN /\ isRefreshing \in BOOLEAN /\ cutShort \in BOOLEAN
  BY PushEnabledAssumption, Zenon DEF ClientInit
<1>5. stack \in [Callers -> Seq(Frames)]
  BY <1>1, EmptySeq DEF ClientInit
<1>6. ClientShape
  BY <1>2, <1>3, <1>4, <1>5 DEF ClientInit, ClientShape
<1>7. OneRefresh
  BY <1>1, EmptyStack DEF OneRefresh
<1>8. \A t \in Callers : \A ats : ~TopIn(stack[t], ats)
  BY <1>1, EmptyStack
<1>9. KnownTokens /\ HeldAreCurrent
  BY <1>2, <1>3, <1>8 DEF KnownTokens, HeldAreCurrent, Using
<1>10. ShownAreCurrent
  BY <1>3, <1>8 DEF ShownAreCurrent
<1>11. ReuseOnlyAfterKill
  BY <1>2 DEF ReuseOnlyAfterKill
<1> QED
  BY <1>6, <1>7, <1>9, <1>10, <1>11 DEF ClientInv, TokensInv

-----------------------------------------------------------------------------
(***************************************************************************)
(* What is kept by steps that begin nothing with a token.                  *)
(***************************************************************************)
\* The top of a stack is, if it deals with a token, what it was.
Calm(q, r) ==
    \A ats \in {Held, Shown} :
        TopIn(r, ats) => TopIn(q, ats) /\ Head(r).rt = Head(q).rt

Stays(q, r) == TopIn(q, Spending) => TopIn(r, Spending)

\* The server may end sessions, for reuse only after a kill.
OnlyEnds ==
    /\ home' = home
    /\ \A s \in ClientSessions :
          \/ chain'[s] = chain[s] /\ usable'[s] = usable[s]
          \/ chain[s] = "live" /\ usable'[s] = {} /\ chain'[s] = "logout"
          \/ chain[s] = "live" /\ usable'[s] = {} /\ chain'[s] = "reuse" /\ cutShort

KnownNext(u) == u \in ClientTokens /\ home'[u] \in ClientSessions /\ chain'[home'[u]] # "free"
CurrentNext(u) == chain'[home'[u]] = "live" => u \in usable'[home'[u]]

LEMMA EndsKeep ==
    ASSUME OnlyEnds, NEW u
    PROVE  (Known(u) => KnownNext(u)) /\ (Known(u) /\ Current(u) => CurrentNext(u))
  BY DEF OnlyEnds, Known, Current, KnownNext, CurrentNext

LEMMA TokensKept ==
    ASSUME TokensInv, OnlyEnds, cutShort' = cutShort,
           \A t \in Callers : Calm(stack[t], stack'[t]),
           \/ refreshToken' = Nothing
           \/ refreshToken' = refreshToken /\ \A t \in Callers : Stays(stack[t], stack'[t])
    PROVE  TokensInv'
<1>1. \A t \in Callers : TopIn(stack'[t], Held) =>
          TopIn(stack[t], Held) /\ Head(stack'[t]).rt = Head(stack[t]).rt
  BY DEF Calm
<1>2. \A t \in Callers : TopIn(stack'[t], Shown) =>
          TopIn(stack[t], Shown) /\ Head(stack'[t]).rt = Head(stack[t]).rt
  BY DEF Calm
<1>3. \A t \in Callers : Using(t) <=> TopIn(stack[t], Held) \/ TopIn(stack[t], Shown)
  BY DEF Using, TopIn
<1>4. \A t \in Callers :
          TopIn(stack'[t], Held \cup Shown) <=> TopIn(stack'[t], Held) \/ TopIn(stack'[t], Shown)
  BY DEF TopIn
<1>5. \A t \in Callers : TopIn(stack'[t], Held \cup Shown) =>
          Using(t) /\ Head(stack'[t]).rt = Head(stack[t]).rt
  BY <1>1, <1>2, <1>3, <1>4
<1>6. KnownTokens'
  <2>1. \A s \in ClientSessions : usable'[s] # {} => chain'[s] = "live"
    BY DEF TokensInv, KnownTokens, OnlyEnds
  <2>2. refreshToken' # Nothing => KnownNext(refreshToken')
    BY EndsKeep DEF TokensInv, KnownTokens
  <2>3. \A t \in Callers : TopIn(stack'[t], Held \cup Shown) => KnownNext(Head(stack'[t]).rt)
    BY <1>5, EndsKeep DEF TokensInv, KnownTokens, Top
  <2> QED
    BY <2>1, <2>2, <2>3 DEF KnownTokens, Using, Top, Known, KnownNext
<1>7. HeldAreCurrent'
  <2> SUFFICES ASSUME NEW t \in Callers, TopIn(stack'[t], Held)
               PROVE  /\ CurrentNext(Head(stack'[t]).rt)
                      /\ Head(stack'[t]).rt # refreshToken'
                      /\ \A c \in Callers : TopIn(stack'[c], Held \cup Shown)
                            /\ Head(stack'[c]).rt = Head(stack'[t]).rt => c = t
    BY DEF HeldAreCurrent, Using, Top, Current, CurrentNext
  <2>1. TopIn(stack[t], Held) /\ Head(stack'[t]).rt = Head(stack[t]).rt /\ Using(t)
    BY <1>1, <1>3
  <2>2. /\ Current(Head(stack[t]).rt) /\ Head(stack[t]).rt # refreshToken
        /\ Known(Head(stack[t]).rt)
        /\ \A c \in Callers : Using(c) /\ Head(stack[c]).rt = Head(stack[t]).rt => c = t
    BY <2>1 DEF TokensInv, KnownTokens, HeldAreCurrent, Top
  <2>3. CurrentNext(Head(stack[t]).rt)
    BY <2>2, EndsKeep
  <2>4. Head(stack[t]).rt # Nothing
    BY <2>2, NothingAssumption DEF Known
  <2> QED
    BY <1>5, <2>1, <2>2, <2>3, <2>4
<1>8. ShownAreCurrent'
  <2> SUFFICES ASSUME ~cutShort'
               PROVE  /\ \A t \in Callers : TopIn(stack'[t], Shown)
                                               => CurrentNext(Head(stack'[t]).rt)
                      /\ refreshToken' = Nothing \/ CurrentNext(refreshToken')
                         \/ \E t \in Callers : TopIn(stack'[t], Spending)
    BY DEF ShownAreCurrent, Top, Current, CurrentNext
  <2>1. /\ \A t \in Callers : TopIn(stack[t], Shown) => Current(Head(stack[t]).rt)
        /\ refreshToken = Nothing \/ Current(refreshToken)
           \/ \E t \in Callers : TopIn(stack[t], Spending)
    BY DEF TokensInv, ShownAreCurrent, Top
  <2>2. \A t \in Callers : TopIn(stack'[t], Shown) => CurrentNext(Head(stack'[t]).rt)
    <3> SUFFICES ASSUME NEW t \in Callers, TopIn(stack'[t], Shown)
                 PROVE  CurrentNext(Head(stack'[t]).rt)
      OBVIOUS
    <3>1. TopIn(stack[t], Shown) /\ Head(stack'[t]).rt = Head(stack[t]).rt /\ Using(t)
      BY <1>2, <1>3
    <3>2. Known(Head(stack[t]).rt) /\ Current(Head(stack[t]).rt)
      BY <2>1, <3>1 DEF TokensInv, KnownTokens, Top
    <3> QED
      BY <3>1, <3>2, EndsKeep
  <2>3. refreshToken' = Nothing \/ CurrentNext(refreshToken')
           \/ \E t \in Callers : TopIn(stack'[t], Spending)
    <3>1. CASE refreshToken' = Nothing
      BY <3>1
    <3>2. CASE refreshToken' # Nothing
      <4>1. refreshToken' = refreshToken /\ Known(refreshToken)
            /\ \A t \in Callers : Stays(stack[t], stack'[t])
        BY <3>2 DEF TokensInv, KnownTokens
      <4>2. Current(refreshToken) => CurrentNext(refreshToken)
        BY <4>1, EndsKeep
      <4> QED
        BY <2>1, <3>2, <4>1, <4>2 DEF Stays
    <3> QED
      BY <3>1, <3>2
  <2> QED
    BY <2>2, <2>3
<1>9. ReuseOnlyAfterKill'
  BY DEF TokensInv, ReuseOnlyAfterKill, OnlyEnds
<1> QED
  BY <1>6, <1>7, <1>8, <1>9 DEF TokensInv

\* The refresh that runs goes on.
LEMMA RefreshGoesOn ==
    ASSUME OneRefresh, isRefreshing' = isRefreshing,
           \A t \in Callers : StackOk(stack'[t]) /\ (Flying(stack'[t]) => Flying(stack[t]))
    PROVE  OneRefresh'
  BY DEF OneRefresh

LEMMA RefreshEnds ==
    ASSUME \A t \in Callers : StackOk(stack'[t]) /\ ~Flying(stack'[t])
    PROVE  OneRefresh'
  BY DEF OneRefresh

-----------------------------------------------------------------------------
TypedNext ==
    /\ authToken' \in ClientSessions \cup {Nothing}
    /\ refreshToken' \in ClientTokens \cup {Nothing}
    /\ deviceKey' \in BOOLEAN /\ signedIn' \in BOOLEAN

ServerNext ==
    /\ OnlyEnds
    /\ chain' \in [ClientSessions -> {"free", "live", "logout", "reuse"}]
    /\ usable' \in [ClientSessions -> SUBSET ClientTokens]

\* Storage keeps its refresh token, or loses it.
StorageNext ==
    \/ refreshToken' = Nothing
    \/ refreshToken' = refreshToken /\ \A t \in Callers : Stays(stack[t], stack'[t])

LEMMA ServerRests == ASSUME ClientShape, UNCHANGED server PROVE ServerNext
  BY DEF ClientShape, server, ServerNext, OnlyEnds

LEMMA InvNext ==
    ASSUME ClientInv, ServerNext, TypedNext, StorageNext, cutShort' = cutShort,
           isRefreshing' \in BOOLEAN, stack' = [c \in Callers |-> stack'[c]], OneRefresh',
           \A t \in Callers : Calm(stack[t], stack'[t])
    PROVE  ClientInv'
<1>1. TokensInv'
  BY TokensKept DEF ClientInv, ServerNext, StorageNext
<1>2. stack' \in [Callers -> Seq(Frames)]
  <2>1. \A c \in Callers : stack'[c] \in Seq(Frames)
    BY DEF OneRefresh, StackOk
  <2> QED
    BY <2>1
<1>3. home' = home /\ cutShort' \in BOOLEAN
  BY DEF ServerNext, OnlyEnds, ClientInv, ClientShape
<1>4. ClientShape'
  BY <1>2, <1>3 DEF ServerNext, TypedNext, ClientInv, ClientShape
<1> QED
  BY <1>1, <1>4 DEF ClientInv

LEMMA OneStack ==
    ASSUME ClientInv, NEW t \in Callers, NEW r, stack' = [stack EXCEPT ![t] = r],
           StackOk(r), Flying(r) => Flying(stack[t]), Calm(stack[t], r),
           ServerNext, TypedNext, cutShort' = cutShort, isRefreshing' = isRefreshing,
           refreshToken' = Nothing \/ (refreshToken' = refreshToken /\ Stays(stack[t], r))
    PROVE  ClientInv'
<1>1. /\ stack' = [c \in Callers |-> stack'[c]] /\ stack'[t] = r
      /\ \A c \in Callers \ {t} : stack'[c] = stack[c]
  BY DEF ClientInv, ClientShape
<1>2. \A c \in Callers : StackOk(stack'[c]) /\ (Flying(stack'[c]) => Flying(stack[c]))
  BY <1>1 DEF ClientInv, OneRefresh
<1>3. OneRefresh'
  BY <1>2, RefreshGoesOn DEF ClientInv
<1>4. \A c \in Callers : Calm(stack[c], stack'[c])
  BY <1>1 DEF Calm
<1>5. StorageNext
  BY <1>1 DEF StorageNext, Stays
<1>6. isRefreshing' \in BOOLEAN
  BY DEF ClientInv, ClientShape
<1> QED
  BY <1>1, <1>3, <1>4, <1>5, <1>6, InvNext

LEMMA AtTop ==
    ASSUME ClientInv, NEW t \in Callers, stack[t] # <<>>
    PROVE  /\ StackOk(stack[t]) /\ Top(t) \in Frames /\ Top(t) = Head(stack[t])
           /\ Top(t).at \in StepsOf(Top(t).op)
<1>1. StackOk(stack[t])
  BY DEF ClientInv, OneRefresh
<1>2. Head(stack[t]) \in Frames
  BY <1>1, HeadTailProperties DEF StackOk
<1> QED
  BY <1>1, <1>2 DEF Top, Frames

\* The top frame moves to a step that is not a refresh's and deals with no token.
LEMMA TopMoves ==
    ASSUME ClientInv, NEW t \in Callers, stack[t] # <<>>, NEW f \in Frames,
           f.op = Top(t).op, f.at \notin Flight \cup Held,
           Becomes(t, f), ServerNext, TypedNext, cutShort' = cutShort,
           isRefreshing' = isRefreshing, refreshToken' = refreshToken,
           Top(t).at \notin Spending
    PROVE  ClientInv'
<1> DEFINE r == <<f>> \o Tail(stack[t])
<1>1. StackOk(stack[t]) /\ Top(t) = Head(stack[t])
  BY AtTop
<1>2. /\ StackOk(r) /\ r # <<>> /\ Head(r) = f
      /\ Flying(r) => Flying(stack[t])
  BY <1>1, ReplaceTop
<1>3. stack' = [stack EXCEPT ![t] = r]
  BY DEF Becomes
<1> HIDE DEF r
<1>4. Calm(stack[t], r)
  BY <1>2 DEF Calm, TopIn, Held, Shown, Flight
<1>5. Stays(stack[t], r)
  BY <1>1 DEF Stays, TopIn
<1> QED
  BY <1>2, <1>3, <1>4, <1>5, OneStack

\* The top frame starts to wait for another one.
LEMMA TopAwaits ==
    ASSUME ClientInv, NEW t \in Callers, stack[t] # <<>>, NEW f \in Frames, NEW at \in AllSteps,
           at \in StepsOf(Top(t).op), f.at \notin Flight \cup Held,
           at \in Flight <=> Top(t).at \in Flight,
           Link(f, [Top(t) EXCEPT !.at = at]),
           Awaits(t, at, f), ServerNext, TypedNext, cutShort' = cutShort,
           isRefreshing' = isRefreshing,
           refreshToken' = Nothing \/ (refreshToken' = refreshToken /\ Top(t).at \notin Spending)
    PROVE  ClientInv'
<1> DEFINE g == [Top(t) EXCEPT !.at = at]
           r == <<f, g>> \o Tail(stack[t])
<1>1. StackOk(stack[t]) /\ Top(t) = Head(stack[t]) /\ Top(t) \in Frames
  BY AtTop
<1>2. g \in Frames /\ g.op = Top(t).op /\ g.at = at
  BY <1>1, MovedAt
<1>3. stack' = [stack EXCEPT ![t] = r]
  BY DEF Awaits
<1> HIDE DEF g
<1>4. Link(f, g)
  BY DEF g
<1>5. /\ StackOk(r) /\ r # <<>> /\ Head(r) = f
      /\ Flying(r) => Flying(stack[t])
  BY <1>1, <1>2, <1>4, PushTop
<1> HIDE DEF r
<1>6. Calm(stack[t], r)
  BY <1>5 DEF Calm, TopIn, Held, Shown, Flight
<1>7. Top(t).at \notin Spending => Stays(stack[t], r)
  BY <1>1 DEF Stays, TopIn
<1> QED
  BY <1>3, <1>5, <1>6, <1>7, OneStack

\* What was waited for returns.
LEMMA TopReturns ==
    ASSUME ClientInv, NEW t \in Callers, stack[t] # <<>>, Returns(t), ServerNext, TypedNext,
           cutShort' = cutShort, isRefreshing' = isRefreshing,
           refreshToken' = Nothing \/ refreshToken' = refreshToken,
           Top(t).at \notin Spending
    PROVE  ClientInv'
<1> DEFINE r == Tail(stack[t])
<1>1. StackOk(stack[t]) /\ Top(t) = Head(stack[t])
  BY AtTop
<1>2. /\ StackOk(r) /\ (Flying(r) => Flying(stack[t]))
      /\ r # <<>> => Head(r).at \in {"removed", "clear", "aborting"}
  BY <1>1, PopTop
<1>3. stack' = [stack EXCEPT ![t] = r]
  BY DEF Returns
<1> HIDE DEF r
<1>4. Calm(stack[t], r)
  BY <1>2 DEF Calm, TopIn, Held, Shown
<1>5. Stays(stack[t], r)
  BY <1>1 DEF Stays, TopIn
<1> QED
  BY <1>2, <1>3, <1>4, <1>5, OneStack

-----------------------------------------------------------------------------
(***************************************************************************)
(* The steps that begin and end things.                                    *)
(***************************************************************************)
LEMMA StorageRests ==
    ASSUME ClientInv, UNCHANGED storage, signedIn' \in BOOLEAN
    PROVE  TypedNext /\ refreshToken' = refreshToken
  BY DEF ClientInv, ClientShape, TypedNext, storage

LEMMA StartKeeps ==
    ASSUME ClientInv, NEW t \in Callers, NEW op \in Roots, NEW at \in {"send", "submit", "push"},
           at \in StepsOf(op), stack[t] = <<>>, stack' = [stack EXCEPT ![t] = <<Frame(op, at)>>],
           UNCHANGED <<server, storage, signedIn, isRefreshing, cutShort>>
    PROVE  ClientInv'
<1>1. Frame(op, at) \in Frames /\ Frame(op, at).op = op /\ Frame(op, at).at = at
  BY FrameIn DEF Roots, AllSteps
<1> DEFINE r == <<Frame(op, at)>>
<1>2. StackOk(r) /\ ~Flying(r) /\ r # <<>> /\ Head(r).at = at
  BY <1>1, NewStack DEF Flight
<1> HIDE DEF r
<1>3. Calm(stack[t], r)
  BY <1>2 DEF Calm, TopIn, Held, Shown
<1>4. Stays(stack[t], r)
  BY EmptyStack DEF Stays
<1>5. signedIn' \in BOOLEAN
  BY DEF ClientInv, ClientShape
<1>6. TypedNext /\ refreshToken' = refreshToken
  BY <1>5, StorageRests
<1>7. ServerNext
  BY ServerRests DEF ClientInv
<1> QED
  BY <1>2, <1>3, <1>4, <1>6, <1>7, OneStack DEF r

LEMMA StartsKeep ==
    ASSUME ClientInv, NEW t \in Callers, StartCall(t) \/ StartLogin(t) \/ StartLogout(t)
    PROVE  ClientInv'
<1>1. CASE StartCall(t)
  <2>1. "send" \in StepsOf("get") /\ "get" \in Roots
    BY DEF StepsOf, Roots
  <2> QED
    BY <1>1, <2>1, StartKeeps DEF StartCall
<1>2. CASE StartLogin(t)
  <2>1. "submit" \in StepsOf("login") /\ "login" \in Roots
    BY DEF StepsOf, Roots
  <2> QED
    BY <1>2, <2>1, StartKeeps DEF StartLogin
<1>3. CASE StartLogout(t)
  <2>1. "push" \in StepsOf("logout") /\ "logout" \in Roots
    BY DEF StepsOf, Roots
  <2> QED
    BY <1>3, <2>1, StartKeeps DEF StartLogout
<1> QED
  BY <1>1, <1>2, <1>3

LEMMA LoginEnds ==
    ASSUME ClientInv, NEW t \in Callers, LoginFails(t) \/ LoginDone(t)
    PROVE  ClientInv'
<1>1. /\ stack[t] # <<>> /\ Top(t).at \in {"submit", "persist3"} /\ Returns(t)
      /\ UNCHANGED server /\ UNCHANGED storage
  BY DEF LoginFails, LoginDone, At
<1>2. signedIn' \in BOOLEAN
  BY DEF LoginFails, LoginDone, ClientInv, ClientShape
<1>3. isRefreshing' = isRefreshing /\ cutShort' = cutShort
  BY DEF LoginFails, LoginDone
<1>4. ServerNext
  BY <1>1, ServerRests DEF ClientInv
<1>5. TypedNext /\ refreshToken' = refreshToken
  BY <1>1, <1>2, StorageRests
<1>6. Top(t).at \notin Spending
  BY <1>1 DEF Spending
<1> QED
  BY <1>1, <1>3, <1>4, <1>5, <1>6, TopReturns

LEMMA StoreAccessKeeps ==
    ASSUME ClientInv, NEW t \in Callers, StoreAccess(t)
    PROVE  ClientInv'
<1>1. stack[t] # <<>>
  BY DEF StoreAccess, At
<1>2. StackOk(stack[t]) /\ Top(t) = Head(stack[t]) /\ Top(t) \in Frames
      /\ Top(t).at \in StepsOf(Top(t).op)
  BY <1>1, AtTop
<1>3. PICK at \in {"persist2", "store2"} :
         Moves(t, at) /\ Top(t).at = IF at = "persist2" THEN "persist1" ELSE "store1"
  <2>1. CASE At(t, "persist1") /\ Moves(t, "persist2")
    BY <2>1 DEF At
  <2>2. CASE At(t, "store1") /\ Moves(t, "store2")
    BY <2>2 DEF At
  <2> QED
    BY <2>1, <2>2, Zenon DEF StoreAccess
<1> DEFINE f == [Top(t) EXCEPT !.at = at]
           r == <<f>> \o Tail(stack[t])
<1>4. at \in AllSteps /\ at \in StepsOf(Top(t).op)
  BY <1>2, <1>3 DEF AllSteps, StepsOf, Flight
<1>5. f \in Frames /\ f.op = Top(t).op /\ f.at = at /\ f.rt = Top(t).rt
  BY <1>2, <1>4, MovedAt
<1>6. stack' = [stack EXCEPT ![t] = r]
  BY <1>3 DEF Moves, Becomes
<1> HIDE DEF f
<1>7. f.at \in Flight <=> Top(t).at \in Flight
  BY <1>3, <1>5 DEF Flight
<1>8. StackOk(r) /\ r # <<>> /\ Head(r) = f /\ (Flying(r) => Flying(stack[t]))
  BY <1>1, <1>2, <1>5, <1>7, ReplaceTop
<1> HIDE DEF r
<1>9. Calm(stack[t], r)
  BY <1>1, <1>2, <1>3, <1>5, <1>8 DEF Calm, TopIn, Held, Shown
<1>10. Stays(stack[t], r)
  BY <1>2, <1>3, <1>5, <1>8 DEF Stays, TopIn, Spending
<1>11. ServerNext
  BY ServerRests DEF StoreAccess, ClientInv
<1>12. TypedNext /\ refreshToken' = refreshToken /\ cutShort' = cutShort
       /\ isRefreshing' = isRefreshing
  BY <1>2 DEF StoreAccess, TypedNext, ClientInv, ClientShape, Frames
<1> QED
  BY <1>6, <1>8, <1>9, <1>10, <1>11, <1>12, OneStack

-----------------------------------------------------------------------------
(***************************************************************************)
(* Calls.                                                                  *)
(***************************************************************************)
LEMMA SendKeeps ==
    ASSUME ClientInv, NEW t \in Callers, Send(t)
    PROVE  ClientInv'
<1>1. stack[t] # <<>> /\ Top(t).at = "send"
  BY DEF Send, At
<1>2. Top(t) \in Frames /\ Top(t).at \in StepsOf(Top(t).op)
  BY <1>1, AtTop
<1> DEFINE f == [Top(t) EXCEPT !.at = "sent",
                              !.access = IF authToken = Nothing THEN @ ELSE authToken]
<1>3. f \in Frames /\ f.op = Top(t).op /\ f.at = "sent"
  BY <1>1, <1>2 DEF Frames, AllSteps, StepsOf, ClientInv, ClientShape
<1>4. Becomes(t, f)
  BY DEF Send
<1> HIDE DEF f
<1>5. f.at \notin Flight \cup Held /\ Top(t).at \notin Spending
  BY <1>1, <1>3 DEF Flight, Held, Spending
<1>6. ServerNext
  BY ServerRests DEF Send, ClientInv
<1>7. signedIn' \in BOOLEAN
  BY DEF Send, ClientInv, ClientShape
<1>8. TypedNext /\ refreshToken' = refreshToken
  BY <1>7, StorageRests DEF Send
<1> QED
  BY <1>1, <1>3, <1>4, <1>5, <1>6, <1>8, TopMoves DEF Send

LEMMA LogoutEnds ==
    ASSUME ClientInv, NEW s \in ClientSessions, Server!End({s}, "logout"), home' = home
    PROVE  ServerNext
<1>1. chain[s] = "live"
  BY DEF Server!End
<1>2. chain' = [x \in ClientSessions |-> IF x \in {s} THEN "logout" ELSE chain[x]]
  BY DEF Server!End
<1>3. usable' = [x \in ClientSessions |-> IF x \in {s} THEN {} ELSE usable[x]]
  BY DEF Server!End
<1> QED
  BY <1>1, <1>2, <1>3 DEF ServerNext, OnlyEnds, ClientInv, ClientShape

LEMMA AnsweredKeeps ==
    ASSUME ClientInv, NEW t \in Callers, Answered(t)
    PROVE  ClientInv'
<1>1. stack[t] # <<>> /\ Top(t).at = "sent"
  BY DEF Answered, At
<1>2. Top(t) \in Frames
  BY <1>1, AtTop
<1>3. ServerNext
  <2>1. CASE Accepted(t) /\ Server!End({Top(t).access}, "logout")
    <3>1. Top(t).access \in ClientSessions
      BY <1>2, <2>1 DEF Accepted, Frames
    <3> QED
      BY <2>1, <3>1, LogoutEnds DEF Answered
  <2>2. CASE UNCHANGED <<chain, usable>>
    BY <2>2, ServerRests DEF Answered, ClientInv, server
  <2> QED
    BY <2>1, <2>2 DEF Answered
<1>4. signedIn' \in BOOLEAN
  BY DEF Answered, ClientInv, ClientShape
<1>5. TypedNext /\ refreshToken' = refreshToken
  BY <1>4, StorageRests DEF Answered
<1>6. Top(t).at \notin Spending
  BY <1>1 DEF Spending
<1> QED
  BY <1>1, <1>3, <1>5, <1>6, TopReturns DEF Answered

LEMMA UnauthorizedKeeps ==
    ASSUME ClientInv, NEW t \in Callers, Unauthorized(t)
    PROVE  ClientInv'
<1>1. stack[t] # <<>> /\ Top(t).at = "sent"
  BY DEF Unauthorized, At
<1>2. /\ StackOk(stack[t]) /\ Top(t) = Head(stack[t])
      /\ Top(t) \in Frames /\ Top(t).at \in StepsOf(Top(t).op)
  BY <1>1, AtTop
<1>3. ServerNext
  BY ServerRests DEF Unauthorized, ClientInv
<1>4. signedIn' \in BOOLEAN
  BY DEF Unauthorized, ClientInv, ClientShape
<1>5. TypedNext /\ refreshToken' = refreshToken
  BY <1>4, StorageRests DEF Unauthorized
<1>6. Top(t).at \notin Spending
  BY <1>1 DEF Spending
<1> DEFINE to(at) == [[Top(t) EXCEPT !.retry = TRUE] EXCEPT !.at = at]
<1>7. \A at \in {"queued", "readRefresh"} :
         to(at) \in Frames /\ to(at).op = Top(t).op /\ to(at).at = at
  BY <1>1, <1>2 DEF Frames, AllSteps, StepsOf, Flight
<1>8. \/ Returns(t) /\ UNCHANGED isRefreshing
      \/ Becomes(t, to("queued")) /\ UNCHANGED isRefreshing
      \/ ~isRefreshing /\ isRefreshing' = TRUE /\ Becomes(t, to("readRefresh"))
  BY Zenon DEF Unauthorized
<1> HIDE DEF to
<1>9. CASE Returns(t) /\ UNCHANGED isRefreshing
  BY <1>1, <1>3, <1>5, <1>6, <1>9, TopReturns DEF Unauthorized
<1>10. CASE Becomes(t, to("queued")) /\ UNCHANGED isRefreshing
  <2>1. to("queued").at \notin Flight \cup Held
    BY <1>7 DEF Flight, Held
  <2> QED
    BY <1>1, <1>3, <1>5, <1>6, <1>7, <1>10, <2>1, TopMoves DEF Unauthorized
<1>11. CASE ~isRefreshing /\ isRefreshing' = TRUE /\ Becomes(t, to("readRefresh"))
  <2> DEFINE r == <<to("readRefresh")>> \o Tail(stack[t])
  <2>1. \A c \in Callers : ~Flying(stack[c]) /\ StackOk(stack[c])
    BY <1>11, Zenon DEF ClientInv, OneRefresh
  <2>2. StackOk(r) /\ r # <<>> /\ Head(r).at = "readRefresh"
    BY <1>1, <1>2, <1>7, <2>1, ReplaceTop
  <2> HIDE DEF r
  <2>3. stack' = [c \in Callers |-> stack'[c]] /\ stack'[t] = r
        /\ \A c \in Callers \ {t} : stack'[c] = stack[c]
    BY <1>11 DEF Becomes, r, ClientInv, ClientShape
  <2>4. \A c \in Callers : StackOk(stack'[c]) /\ (Flying(stack'[c]) => c = t)
    BY <2>1, <2>2, <2>3
  <2>5. OneRefresh'
    BY <1>11, <2>4, Zenon DEF OneRefresh
  <2>6. \A c \in Callers : Calm(stack[c], stack'[c])
    BY <2>2, <2>3 DEF Calm, TopIn, Held, Shown
  <2>7. \A c \in Callers : Stays(stack[c], stack'[c])
    BY <1>1, <1>2, <2>3 DEF Stays, TopIn, Spending
  <2>8. StorageNext /\ isRefreshing' \in BOOLEAN
    BY <1>5, <1>11, <2>7 DEF StorageNext
  <2> QED
    BY <1>3, <1>5, <2>3, <2>5, <2>6, <2>8, InvNext DEF Unauthorized
<1> QED
  BY <1>8, <1>9, <1>10, <1>11

-----------------------------------------------------------------------------
(***************************************************************************)
(* Logging out, and starting again.                                        *)
(***************************************************************************)
LEMMA DisablePushKeeps ==
    ASSUME ClientInv, NEW t \in Callers, DisablePush(t)
    PROVE  ClientInv'
<1>1. stack[t] # <<>> /\ Top(t).at = "push"
  BY DEF DisablePush, At
<1>2. Top(t) \in Frames /\ Top(t).at \in StepsOf(Top(t).op)
  BY <1>1, AtTop
<1>3. {"removed", "post"} \subseteq AllSteps \cap StepsOf(Top(t).op)
  BY <1>1, <1>2 DEF StepsOf, AllSteps, Flight
<1>4. ServerNext
  BY ServerRests DEF DisablePush, ClientInv
<1>5. signedIn' \in BOOLEAN
  BY DEF DisablePush, ClientInv, ClientShape
<1>6. TypedNext /\ refreshToken' = refreshToken
  BY <1>5, StorageRests DEF DisablePush
<1>7. Top(t).at \notin Spending \cup Flight
  BY <1>1 DEF Spending, Flight
<1>8. CASE Awaits(t, "removed", Frame("removeDevice", "send"))
  <2> DEFINE f == Frame("removeDevice", "send")
  <2>1. f \in Frames /\ f.op = "removeDevice" /\ f.at = "send"
    BY FrameIn DEF AllSteps, StepsOf
  <2> HIDE DEF f
  <2>2. [Top(t) EXCEPT !.at = "removed"].at = "removed"
    BY <1>2 DEF Frames
  <2>3. Link(f, [Top(t) EXCEPT !.at = "removed"])
    BY <2>1, <2>2 DEF Link
  <2>4. f.at \notin Flight \cup Held /\ "removed" \notin Flight
    BY <2>1 DEF Flight, Held
  <2>5. Awaits(t, "removed", f)
    BY <1>8 DEF f
  <2> QED
    BY <1>1, <1>3, <1>4, <1>6, <1>7, <2>1, <2>3, <2>4, <2>5, TopAwaits DEF DisablePush
<1>9. CASE Moves(t, "post")
  <2> DEFINE f == [Top(t) EXCEPT !.at = "post"]
  <2>1. f \in Frames /\ f.op = Top(t).op /\ f.at = "post"
    BY <1>2, <1>3, MovedAt
  <2>2. Becomes(t, f)
    BY <1>9 DEF Moves
  <2> HIDE DEF f
  <2>3. f.at \notin Flight \cup Held
    BY <2>1 DEF Flight, Held
  <2> QED
    BY <1>1, <1>4, <1>6, <1>7, <2>1, <2>2, <2>3, TopMoves DEF DisablePush
<1> QED
  BY <1>8, <1>9, Zenon DEF DisablePush

LEMMA PushDisabledKeeps ==
    ASSUME ClientInv, NEW t \in Callers, PushDisabled(t)
    PROVE  ClientInv'
<1>1. stack[t] # <<>> /\ Top(t).at = "removed"
  BY DEF PushDisabled, At
<1>2. Top(t) \in Frames /\ Top(t).at \in StepsOf(Top(t).op)
  BY <1>1, AtTop
<1>3. "post" \in AllSteps \cap StepsOf(Top(t).op)
  BY <1>1, <1>2 DEF StepsOf, AllSteps, Flight
<1>4. ServerNext
  BY ServerRests DEF PushDisabled, ClientInv
<1>5. TypedNext /\ refreshToken' = refreshToken
  <2>1. deviceKey' \in BOOLEAN
    BY Zenon DEF PushDisabled
  <2> QED
    BY <2>1 DEF PushDisabled, TypedNext, ClientInv, ClientShape
<1>6. Top(t).at \notin Spending
  BY <1>1 DEF Spending
<1> DEFINE f == [Top(t) EXCEPT !.at = "post"]
<1>7. f \in Frames /\ f.op = Top(t).op /\ f.at = "post"
  BY <1>2, <1>3, MovedAt
<1>8. Becomes(t, f)
  BY DEF PushDisabled, Moves
<1> HIDE DEF f
<1>9. f.at \notin Flight \cup Held
  BY <1>7 DEF Flight, Held
<1> QED
  BY <1>1, <1>4, <1>5, <1>6, <1>7, <1>8, <1>9, TopMoves DEF PushDisabled

LEMMA RevokeKeeps ==
    ASSUME ClientInv, NEW t \in Callers, RevokeOnServer(t)
    PROVE  ClientInv'
<1>1. stack[t] # <<>> /\ Top(t).at = "post"
  BY DEF RevokeOnServer, At
<1>2. Top(t) \in Frames /\ Top(t).at \in StepsOf(Top(t).op)
  BY <1>1, AtTop
<1>3. "clear" \in AllSteps \cap StepsOf(Top(t).op)
  BY <1>1, <1>2 DEF StepsOf, AllSteps, Flight
<1>4. ServerNext
  BY ServerRests DEF RevokeOnServer, ClientInv
<1>5. signedIn' \in BOOLEAN
  BY DEF RevokeOnServer, ClientInv, ClientShape
<1>6. TypedNext /\ refreshToken' = refreshToken
  BY <1>5, StorageRests DEF RevokeOnServer
<1>7. Top(t).at \notin Spending \cup Flight
  BY <1>1 DEF Spending, Flight
<1>8. CASE Top(t).op = "logout" /\ Awaits(t, "clear", Frame("postLogout", "send"))
  <2> DEFINE f == Frame("postLogout", "send")
  <2>1. f \in Frames /\ f.op = "postLogout" /\ f.at = "send"
    BY FrameIn DEF AllSteps, StepsOf
  <2> HIDE DEF f
  <2>2. [Top(t) EXCEPT !.at = "clear"].at = "clear" /\ [Top(t) EXCEPT !.at = "clear"].op = "logout"
    BY <1>2, <1>8 DEF Frames
  <2>3. Link(f, [Top(t) EXCEPT !.at = "clear"])
    BY <2>1, <2>2 DEF Link
  <2>4. f.at \notin Flight \cup Held /\ "clear" \notin Flight
    BY <2>1 DEF Flight, Held
  <2>5. Awaits(t, "clear", f)
    BY <1>8 DEF f
  <2> QED
    BY <1>1, <1>3, <1>4, <1>6, <1>7, <2>1, <2>3, <2>4, <2>5, TopAwaits DEF RevokeOnServer
<1>9. CASE Moves(t, "clear")
  <2> DEFINE f == [Top(t) EXCEPT !.at = "clear"]
  <2>1. f \in Frames /\ f.op = Top(t).op /\ f.at = "clear"
    BY <1>2, <1>3, MovedAt
  <2>2. Becomes(t, f)
    BY <1>9 DEF Moves
  <2> HIDE DEF f
  <2>3. f.at \notin Flight \cup Held
    BY <2>1 DEF Flight, Held
  <2> QED
    BY <1>1, <1>4, <1>6, <1>7, <2>1, <2>2, <2>3, TopMoves DEF RevokeOnServer
<1> QED
  BY <1>8, <1>9, Zenon DEF RevokeOnServer

LEMMA ClearKeeps ==
    ASSUME ClientInv, NEW t \in Callers, ClearSession(t)
    PROVE  ClientInv'
<1>1. stack[t] # <<>> /\ Top(t).at = "clear" /\ Returns(t)
  BY DEF ClearSession, At
<1>2. ServerNext
  BY ServerRests DEF ClearSession, ClientInv
<1>3. TypedNext /\ refreshToken' = Nothing
  <2>1. signedIn' \in BOOLEAN
    BY Zenon DEF ClearSession
  <2> QED
    BY <2>1 DEF ClearSession, TypedNext, ClientInv, ClientShape
<1>4. Top(t).at \notin Spending
  BY <1>1 DEF Spending
<1> QED
  BY <1>1, <1>2, <1>3, <1>4, TopReturns DEF ClearSession

LEMMA LoadKeeps ==
    ASSUME ClientInv, LoadSession
    PROVE  ClientInv'
<1>1. ServerNext
  BY ServerRests DEF LoadSession, ClientInv
<1>2. TypedNext /\ refreshToken' = refreshToken
  <2>1. signedIn' \in BOOLEAN
    BY Zenon DEF LoadSession
  <2> QED
    BY <2>1, StorageRests DEF LoadSession
<1>3. stack' = stack
  BY DEF LoadSession
<1>4. stack' = [c \in Callers |-> stack'[c]]
  BY <1>3 DEF ClientInv, ClientShape
<1>5. OneRefresh'
  BY DEF LoadSession, ClientInv, OneRefresh
<1>6. \A c \in Callers : Calm(stack[c], stack'[c]) /\ Stays(stack[c], stack'[c])
  BY <1>3 DEF Calm, Stays
<1>7. StorageNext /\ isRefreshing' \in BOOLEAN
  BY <1>2, <1>6 DEF StorageNext, LoadSession, ClientInv, ClientShape
<1> QED
  BY <1>1, <1>2, <1>4, <1>5, <1>6, <1>7, InvNext DEF LoadSession

LEMMA KillKeeps ==
    ASSUME ClientInv, Kill
    PROVE  ClientInv'
<1>1. stack' = [t \in Callers |-> <<>>]
  BY DEF Kill
<1>2. isRefreshing' \in BOOLEAN /\ signedIn' \in BOOLEAN
  BY Zenon DEF Kill
<1>3. cutShort' = (cutShort \/ Spent)
  BY Zenon DEF Kill
<1>4. cutShort' \in BOOLEAN
  BY <1>3
<1>5. \A t \in Callers : stack'[t] = <<>>
  BY <1>1
<1>6. OneRefresh'
  BY <1>5, EmptyStack, RefreshEnds
<1>7. ClientShape'
  <2>1. stack' \in [Callers -> Seq(Frames)]
    BY <1>1, EmptySeq
  <2> QED
    BY <1>2, <1>4, <2>1 DEF Kill, server, storage, ClientInv, ClientShape
<1>8. \A t \in Callers : \A ats : ~TopIn(stack'[t], ats)
  BY <1>5, EmptyStack
<1>9. KnownTokens'
  BY <1>8 DEF Kill, server, storage, ClientInv, TokensInv, KnownTokens, Known, Using
<1>10. HeldAreCurrent'
  BY <1>8 DEF HeldAreCurrent
<1>11. ShownAreCurrent'
  <2> SUFFICES ASSUME ~cutShort' PROVE refreshToken' = Nothing \/ Current(refreshToken)'
    BY <1>8 DEF ShownAreCurrent
  <2>1. ~Spent
    BY <1>3
  <2>2. refreshToken = Nothing \/ Current(refreshToken)
    BY <2>1 DEF Spent, Current
  <2> QED
    BY <2>2 DEF Kill, server, storage, Current
<1>12. ReuseOnlyAfterKill'
  <2>1. \A s \in ClientSessions : chain'[s] = "reuse" => cutShort
    BY DEF Kill, server, ClientInv, TokensInv, ReuseOnlyAfterKill
  <2> QED
    BY <1>3, <2>1 DEF ReuseOnlyAfterKill
<1> QED
  BY <1>6, <1>7, <1>9, <1>10, <1>11, <1>12 DEF ClientInv, TokensInv

-----------------------------------------------------------------------------
(***************************************************************************)
(* The refresh.                                                            *)
(***************************************************************************)
\* Those who wait for a refresh go on or are rejected.
LEMMA QueueGoesOn ==
    ASSUME ClientInv, NEW t \in Callers, NEW ok, NEW at \in AllSteps, stack[t] # <<>>,
           Top(t).at \in Flight, at \in StepsOf(Top(t).op), ProcessQueue(t, ok, at)
    PROVE  /\ stack' = [c \in Callers |-> stack'[c]]
           /\ StackOk(stack'[t]) /\ stack'[t] # <<>> /\ Head(stack'[t]).at = at
           /\ Flying(stack[t])
           /\ at \notin Flight => ~Flying(stack'[t])
           /\ \A c \in Callers \ {t} :
                 /\ StackOk(stack'[c]) /\ (Flying(stack'[c]) => Flying(stack[c]))
                 /\ Calm(stack[c], stack'[c]) /\ Stays(stack[c], stack'[c])
<1> DEFINE f == [Top(t) EXCEPT !.at = at]
<1>1. /\ StackOk(stack[t]) /\ Top(t) \in Frames /\ Top(t) = Head(stack[t])
  BY AtTop
<1>2. f \in Frames /\ f.op = Top(t).op /\ f.at = at
  BY <1>1, MovedAt
<1>3. stack' = [c \in Callers |-> stack'[c]] /\ stack'[t] = <<f>> \o Tail(stack[t])
  BY DEF ProcessQueue
<1> HIDE DEF f
<1>4. /\ StackOk(stack'[t]) /\ stack'[t] # <<>> /\ Head(stack'[t]) = f
      /\ Flying(stack[t]) /\ (f.at \notin Flight => ~Flying(stack'[t]))
  BY <1>1, <1>2, <1>3, ReplaceTop
<1>5. ASSUME NEW c \in Callers \ {t}
      PROVE  /\ StackOk(stack'[c]) /\ (Flying(stack'[c]) => Flying(stack[c]))
             /\ Calm(stack[c], stack'[c]) /\ Stays(stack[c], stack'[c])
  <2>1. StackOk(stack[c])
    BY DEF ClientInv, OneRefresh
  <2>2. CASE stack'[c] = stack[c]
    BY <2>1, <2>2 DEF Calm, Stays
  <2>3. CASE At(c, "queued") /\ stack'[c] = Tail(stack[c])
    <3>1. stack[c] # <<>> /\ Head(stack[c]).at = "queued"
      BY <2>3 DEF At, Top
    <3>2. /\ StackOk(stack'[c]) /\ (Flying(stack'[c]) => Flying(stack[c]))
          /\ stack'[c] # <<>> => Head(stack'[c]).at \in {"removed", "clear", "aborting"}
      BY <2>1, <2>3, <3>1, PopTop
    <3>3. Calm(stack[c], stack'[c])
      BY <3>2 DEF Calm, TopIn, Held, Shown
    <3>4. Stays(stack[c], stack'[c])
      BY <3>1 DEF Stays, TopIn, Spending
    <3> QED
      BY <3>2, <3>3, <3>4
  <2>4. CASE At(c, "queued") /\ stack'[c] = <<[Top(c) EXCEPT !.at = "send"]>> \o Tail(stack[c])
    <3> DEFINE g == [Top(c) EXCEPT !.at = "send"]
    <3>1. stack[c] # <<>> /\ Head(stack[c]).at = "queued"
      BY <2>4 DEF At, Top
    <3>2. Top(c) \in Frames /\ Top(c) = Head(stack[c]) /\ Top(c).at \in StepsOf(Top(c).op)
      BY <3>1, AtTop
    <3>3. "send" \in AllSteps /\ "send" \in StepsOf(Top(c).op)
      BY <3>1, <3>2 DEF AllSteps, StepsOf
    <3>4. g \in Frames /\ g.op = Top(c).op /\ g.at = "send"
      BY <3>2, <3>3, MovedAt
    <3> HIDE DEF g
    <3>5. stack'[c] = <<g>> \o Tail(stack[c])
      BY <2>4 DEF g
    <3>6. g.at \notin Flight
      BY <3>4 DEF Flight
    <3>7. /\ StackOk(stack'[c]) /\ (Flying(stack'[c]) => Flying(stack[c]))
          /\ stack'[c] # <<>> /\ Head(stack'[c]).at = "send"
      BY <2>1, <3>1, <3>2, <3>4, <3>5, <3>6, ReplaceTop
    <3>8. Calm(stack[c], stack'[c])
      BY <3>7 DEF Calm, TopIn, Held, Shown
    <3>9. Stays(stack[c], stack'[c])
      BY <3>1 DEF Stays, TopIn, Spending
    <3> QED
      BY <3>7, <3>8, <3>9
  <2> QED
    BY <2>2, <2>3, <2>4 DEF ProcessQueue
<1> QED
  BY <1>2, <1>3, <1>4, <1>5

\* The refresh fails or is over; nobody's token changes.
LEMMA QueueKeeps ==
    ASSUME ClientInv, NEW t \in Callers, NEW ok, NEW at \in {"failed", "send"}, stack[t] # <<>>,
           Top(t).at \in {"readRefresh", "postRefresh", "store3"}, ProcessQueue(t, ok, at),
           ServerNext, TypedNext, cutShort' = cutShort, refreshToken' = refreshToken,
           \/ at = "failed" /\ isRefreshing' = isRefreshing
           \/ at = "send" /\ isRefreshing' = FALSE
    PROVE  ClientInv'
<1>1. Top(t) \in Frames /\ Top(t) = Head(stack[t]) /\ Top(t).at \in StepsOf(Top(t).op)
  BY AtTop
<1>2. at \in AllSteps /\ at \in StepsOf(Top(t).op) /\ Top(t).at \in Flight
  BY <1>1 DEF AllSteps, StepsOf, Flight
<1>3. /\ stack' = [c \in Callers |-> stack'[c]]
      /\ StackOk(stack'[t]) /\ stack'[t] # <<>> /\ Head(stack'[t]).at = at
      /\ Flying(stack[t])
      /\ at \notin Flight => ~Flying(stack'[t])
      /\ \A c \in Callers \ {t} :
            /\ StackOk(stack'[c]) /\ (Flying(stack'[c]) => Flying(stack[c]))
            /\ Calm(stack[c], stack'[c]) /\ Stays(stack[c], stack'[c])
  BY <1>2, QueueGoesOn
<1>4. Calm(stack[t], stack'[t])
  BY <1>3 DEF Calm, TopIn, Held, Shown
<1>5. Stays(stack[t], stack'[t])
  BY <1>1 DEF Stays, TopIn, Spending
<1>6. \A c \in Callers : Calm(stack[c], stack'[c]) /\ Stays(stack[c], stack'[c])
  BY <1>3, <1>4, <1>5
<1>7. OneRefresh'
  <2>1. CASE isRefreshing' = isRefreshing
    BY <1>3, <2>1, RefreshGoesOn DEF ClientInv
  <2>2. CASE at = "send"
    <3>1. \A c \in Callers \ {t} : ~Flying(stack[c])
      BY <1>3 DEF ClientInv, OneRefresh
    <3>2. at \notin Flight
      BY <2>2 DEF Flight
    <3> QED
      BY <1>3, <3>1, <3>2, RefreshEnds
  <2> QED
    BY <2>1, <2>2
<1>8. isRefreshing' \in BOOLEAN
  BY DEF ClientInv, ClientShape
<1>9. StorageNext
  BY <1>6 DEF StorageNext
<1> QED
  BY <1>3, <1>6, <1>7, <1>8, <1>9, InvNext

\* Somebody who presents a token is the only one who refreshes.
LEMMA OnlyRefresher ==
    ASSUME ClientInv, NEW t \in Callers, stack[t] # <<>>,
           Top(t).at \in {"readRefresh", "postRefresh"}, NEW c \in Callers
    PROVE  /\ ~TopIn(stack[c], Spending)
           /\ TopIn(stack[c], Shown) => c = t
<1>1. StackOk(stack[t]) /\ Top(t) = Head(stack[t])
  BY AtTop
<1>2. \A d \in Callers : TopIn(stack[d], Flight) => Flying(stack[d])
  <2> SUFFICES ASSUME NEW d \in Callers, TopIn(stack[d], Flight) PROVE Flying(stack[d])
    OBVIOUS
  <2>1. stack[d] # <<>> /\ Head(stack[d]).at \in Flight
    BY DEF TopIn
  <2>2. StackOk(stack[d])
    BY DEF ClientInv, OneRefresh
  <2>3. 1 \in 1..Len(stack[d]) /\ Head(stack[d]) = stack[d][1]
    BY <2>1, <2>2 DEF StackOk
  <2> QED
    BY <2>1, <2>3 DEF Flying
<1>3. TopIn(stack[t], Flight)
  BY <1>1 DEF TopIn, Flight
<1>4. TopIn(stack[c], Flight) => c = t
  BY <1>2, <1>3 DEF ClientInv, OneRefresh
<1>5. TopIn(stack[c], Spending) => c = t
  BY <1>4 DEF TopIn, Flight, Spending
<1>6. TopIn(stack[c], Shown) => c = t
  BY <1>4 DEF TopIn, Flight, Shown
<1>7. ~TopIn(stack[t], Spending)
  BY <1>1 DEF TopIn, Spending
<1> QED
  BY <1>5, <1>6, <1>7

LEMMA RefreshFailedKeeps ==
    ASSUME ClientInv, NEW t \in Callers, RefreshFailed(t)
    PROVE  ClientInv'
<1>1. stack[t] # <<>> /\ Top(t).at = "failed"
  BY DEF RefreshFailed, At
<1>2. Top(t) \in Frames /\ Top(t).at \in StepsOf(Top(t).op)
  BY <1>1, AtTop
<1>3. "aborting" \in AllSteps \cap StepsOf(Top(t).op)
  BY <1>1, <1>2 DEF StepsOf, AllSteps, Flight
<1>4. ServerNext
  BY ServerRests DEF RefreshFailed, ClientInv
<1>5. TypedNext /\ refreshToken' = Nothing
  BY DEF RefreshFailed, TypedNext, ClientInv, ClientShape
<1> DEFINE f == Frame("logoutLocally", "push")
<1>6. f \in Frames /\ f.op = "logoutLocally" /\ f.at = "push"
  BY FrameIn DEF AllSteps, StepsOf
<1>7. Awaits(t, "aborting", f)
  BY DEF RefreshFailed
<1> HIDE DEF f
<1>8. [Top(t) EXCEPT !.at = "aborting"].at = "aborting"
  BY <1>2 DEF Frames
<1>9. Link(f, [Top(t) EXCEPT !.at = "aborting"])
  BY <1>6, <1>8 DEF Link
<1>10. f.at \notin Flight \cup Held /\ "aborting" \in Flight /\ Top(t).at \in Flight
  BY <1>1, <1>6 DEF Flight, Held
<1>11. cutShort' = cutShort /\ isRefreshing' = isRefreshing
  BY DEF RefreshFailed
<1>12. "aborting" \in Flight <=> Top(t).at \in Flight
  BY <1>10
<1>13. refreshToken' = Nothing \/ (refreshToken' = refreshToken /\ Top(t).at \notin Spending)
  BY <1>5
<1>14. "aborting" \in AllSteps /\ "aborting" \in StepsOf(Top(t).op)
  BY <1>3
<1> QED
  BY <1>1, <1>4, <1>5, <1>6, <1>7, <1>9, <1>10, <1>11, <1>12, <1>13, <1>14, TopAwaits

LEMMA RefreshAbortedKeeps ==
    ASSUME ClientInv, NEW t \in Callers, RefreshAborted(t)
    PROVE  ClientInv'
<1>1. stack[t] # <<>> /\ Top(t).at = "aborting" /\ Returns(t)
  BY DEF RefreshAborted, At
<1>2. StackOk(stack[t]) /\ Top(t) = Head(stack[t])
  BY <1>1, AtTop
<1>3. ServerNext
  BY ServerRests DEF RefreshAborted, ClientInv
<1>4. signedIn' \in BOOLEAN
  BY DEF RefreshAborted, ClientInv, ClientShape
<1>5. TypedNext /\ refreshToken' = refreshToken
  BY <1>4, StorageRests DEF RefreshAborted
<1>6. stack' = [c \in Callers |-> stack'[c]] /\ stack'[t] = Tail(stack[t])
      /\ \A c \in Callers \ {t} : stack'[c] = stack[c]
  BY <1>1 DEF Returns, ClientInv, ClientShape
<1>7. Head(stack[t]).at \in Flight
  BY <1>1, <1>2 DEF Flight
<1>8. /\ StackOk(stack'[t]) /\ ~Flying(stack'[t])
      /\ stack'[t] # <<>> => Head(stack'[t]).at \in {"removed", "clear", "aborting"}
  BY <1>1, <1>2, <1>6, <1>7, PopTop
<1>9. Flying(stack[t])
  <2>1. 1 \in 1..Len(stack[t]) /\ Head(stack[t]) = stack[t][1]
    BY <1>1, <1>2 DEF StackOk
  <2> QED
    BY <1>7, <2>1 DEF Flying
<1>10. \A c \in Callers \ {t} : ~Flying(stack[c]) /\ StackOk(stack[c])
  BY <1>9 DEF ClientInv, OneRefresh
<1>11. OneRefresh'
  BY <1>6, <1>8, <1>10, RefreshEnds
<1>12. Calm(stack[t], stack'[t])
  BY <1>8 DEF Calm, TopIn, Held, Shown
<1>13. Stays(stack[t], stack'[t])
  BY <1>1, <1>2 DEF Stays, TopIn, Spending
<1>14. \A c \in Callers : Calm(stack[c], stack'[c]) /\ Stays(stack[c], stack'[c])
  BY <1>6, <1>12, <1>13 DEF Calm, Stays
<1>15. isRefreshing' \in BOOLEAN
  BY Zenon DEF RefreshAborted
<1>16. StorageNext
  BY <1>5, <1>14 DEF StorageNext
<1> QED
  BY <1>3, <1>5, <1>6, <1>11, <1>14, <1>15, <1>16, InvNext DEF RefreshAborted

-----------------------------------------------------------------------------
LEMMA ReadRefreshKeeps ==
    ASSUME ClientInv, NEW t \in Callers, ReadRefresh(t)
    PROVE  ClientInv'
<1>1. stack[t] # <<>> /\ Top(t).at = "readRefresh"
  BY DEF ReadRefresh, At
<1>2. /\ StackOk(stack[t]) /\ Top(t) = Head(stack[t])
      /\ Top(t) \in Frames /\ Top(t).at \in StepsOf(Top(t).op)
  BY <1>1, AtTop
<1>3. ServerNext
  BY ServerRests DEF ReadRefresh, ClientInv
<1>4. signedIn' \in BOOLEAN
  BY DEF ReadRefresh, ClientInv, ClientShape
<1>5. TypedNext /\ refreshToken' = refreshToken
  BY <1>4, StorageRests DEF ReadRefresh
<1>6. cutShort' = cutShort /\ isRefreshing' = isRefreshing
  BY DEF ReadRefresh
<1>7. CASE ProcessQueue(t, FALSE, "failed")
  BY <1>1, <1>3, <1>5, <1>6, <1>7, QueueKeeps
<1>8. CASE /\ refreshToken # Nothing
           /\ Becomes(t, [Top(t) EXCEPT !.at = "postRefresh", !.rt = refreshToken])
  <2> DEFINE f == [Top(t) EXCEPT !.at = "postRefresh", !.rt = refreshToken]
             r == <<f>> \o Tail(stack[t])
  <2>1. f \in Frames /\ f.op = Top(t).op /\ f.at = "postRefresh" /\ f.rt = refreshToken
    BY <1>1, <1>2 DEF Frames, AllSteps, StepsOf, Flight, ClientInv, ClientShape
  <2> HIDE DEF f
  <2>2. f.at \in Flight /\ Top(t).at \in Flight
    BY <1>1, <2>1 DEF Flight
  <2>3. StackOk(r) /\ r # <<>> /\ Head(r) = f /\ Flying(stack[t])
    BY <1>1, <1>2, <2>1, <2>2, ReplaceTop
  <2> HIDE DEF r
  <2>4. /\ stack' \in [Callers -> Seq(Frames)] /\ stack'[t] = r
        /\ \A c \in Callers \ {t} : stack'[c] = stack[c]
    BY <1>8, <2>3 DEF Becomes, f, r, StackOk, ClientInv, ClientShape
  <2>5. OneRefresh'
    <3>1. \A c \in Callers : StackOk(stack'[c]) /\ (Flying(stack'[c]) => Flying(stack[c]))
      BY <2>3, <2>4 DEF ClientInv, OneRefresh
    <3> QED
      BY <1>6, <3>1, RefreshGoesOn DEF ClientInv
  <2>6. ClientShape'
    BY <1>3, <1>5, <1>6, <2>4 DEF ServerNext, TypedNext, OnlyEnds, ClientInv, ClientShape
  <2>7. /\ chain' = chain /\ usable' = usable /\ home' = home
    BY DEF ReadRefresh, server
  <2>8. ~TopIn(stack'[t], Held) /\ Head(stack'[t]).rt = refreshToken
    BY <2>1, <2>3, <2>4 DEF TopIn, Held
  <2>9. KnownTokens'
    <3>1. \A c \in Callers : TopIn(stack'[c], Held \cup Shown) => KnownNext(Head(stack'[c]).rt)
      BY <1>8, <2>4, <2>7, <2>8 DEF ClientInv, TokensInv, KnownTokens, Using, Top, Known, KnownNext
    <3>2. refreshToken' # Nothing => KnownNext(refreshToken')
      BY <1>5, <2>7 DEF ClientInv, TokensInv, KnownTokens, Known, KnownNext
    <3>3. \A s \in ClientSessions : usable'[s] # {} => chain'[s] = "live"
      BY <2>7 DEF ClientInv, TokensInv, KnownTokens
    <3> QED
      BY <3>1, <3>2, <3>3 DEF KnownTokens, Using, Top, Known, KnownNext
  <2>10. HeldAreCurrent'
    <3> SUFFICES ASSUME NEW c \in Callers, TopIn(stack'[c], Held)
                 PROVE  /\ CurrentNext(Head(stack'[c]).rt)
                        /\ Head(stack'[c]).rt # refreshToken'
                        /\ \A d \in Callers : TopIn(stack'[d], Held \cup Shown)
                              /\ Head(stack'[d]).rt = Head(stack'[c]).rt => d = c
      BY DEF HeldAreCurrent, Using, Top, Current, CurrentNext
    <3>1. c # t /\ stack'[c] = stack[c] /\ TopIn(stack[c], Held)
      BY <2>4, <2>8
    <3>2. /\ Current(Head(stack[c]).rt) /\ Head(stack[c]).rt # refreshToken
          /\ \A d \in Callers : Using(d) /\ Head(stack[d]).rt = Head(stack[c]).rt => d = c
      BY <3>1 DEF ClientInv, TokensInv, HeldAreCurrent, Top
    <3>3. CurrentNext(Head(stack[c]).rt)
      BY <2>7, <3>2 DEF Current, CurrentNext
    <3> QED
      BY <1>5, <2>4, <2>8, <3>1, <3>2, <3>3 DEF Using
  <2>11. ShownAreCurrent'
    <3> SUFFICES ASSUME ~cutShort'
                 PROVE  /\ \A c \in Callers : TopIn(stack'[c], Shown)
                                                 => CurrentNext(Head(stack'[c]).rt)
                        /\ refreshToken' = Nothing \/ CurrentNext(refreshToken')
                           \/ \E c \in Callers : TopIn(stack'[c], Spending)
      BY DEF ShownAreCurrent, Top, Current, CurrentNext
    <3>1. Current(refreshToken)
      BY <1>1, <1>6, <1>8, OnlyRefresher DEF ClientInv, TokensInv, ShownAreCurrent
    <3>2. CurrentNext(refreshToken)
      BY <2>7, <3>1 DEF Current, CurrentNext
    <3>3. \A c \in Callers : TopIn(stack'[c], Shown) => c = t
      BY <1>1, <2>4, OnlyRefresher
    <3> QED
      BY <1>5, <2>8, <3>2, <3>3
  <2>12. ReuseOnlyAfterKill'
    BY <1>6, <2>7 DEF ClientInv, TokensInv, ReuseOnlyAfterKill
  <2> QED
    BY <2>5, <2>6, <2>9, <2>10, <2>11, <2>12 DEF ClientInv, TokensInv
<1> QED
  BY <1>7, <1>8, Zenon DEF ReadRefresh

LEMMA RefreshRefusedKeeps ==
    ASSUME ClientInv, NEW t \in Callers, RefreshRefused(t)
    PROVE  ClientInv'
<1>1. stack[t] # <<>> /\ Top(t).at = "postRefresh" /\ ProcessQueue(t, FALSE, "failed")
  BY DEF RefreshRefused, At
<1>2. Top(t) = Head(stack[t])
  BY <1>1, AtTop
<1>3. ServerNext
  <2> DEFINE u == Top(t).rt
  <2>1. TopIn(stack[t], Shown) /\ Using(t)
    BY <1>1, <1>2 DEF TopIn, Shown, Using
  <2>2. Known(u) /\ (~cutShort => Current(u))
    BY <2>1 DEF ClientInv, TokensInv, KnownTokens, ShownAreCurrent
  <2>3. home' = home
    BY DEF RefreshRefused
  <2>4. CASE UNCHANGED <<chain, usable>>
    BY <2>3, <2>4, ServerRests DEF ClientInv, server
  <2>5. CASE chain[home[u]] = "live" /\ u \notin usable[home[u]] /\ Server!End({home[u]}, "reuse")
    <3>1. home[u] \in ClientSessions /\ cutShort
      BY <2>2, <2>5 DEF Known, Current
    <3>2. chain' = [x \in ClientSessions |-> IF x \in {home[u]} THEN "reuse" ELSE chain[x]]
      BY <2>5 DEF Server!End
    <3>3. usable' = [x \in ClientSessions |-> IF x \in {home[u]} THEN {} ELSE usable[x]]
      BY <2>5 DEF Server!End
    <3> QED
      BY <2>3, <2>5, <3>1, <3>2, <3>3 DEF ServerNext, OnlyEnds, ClientInv, ClientShape
  <2> QED
    BY <2>4, <2>5, Zenon DEF RefreshRefused
<1>4. signedIn' \in BOOLEAN
  BY DEF RefreshRefused, ClientInv, ClientShape
<1>5. TypedNext /\ refreshToken' = refreshToken
  BY <1>4, StorageRests DEF RefreshRefused
<1>6. cutShort' = cutShort /\ isRefreshing' = isRefreshing
  BY DEF RefreshRefused
<1> QED
  BY <1>1, <1>3, <1>5, <1>6, QueueKeeps

LEMMA RefreshDoneKeeps ==
    ASSUME ClientInv, NEW t \in Callers, RefreshDone(t)
    PROVE  ClientInv'
<1>1. stack[t] # <<>> /\ Top(t).at = "store3" /\ ProcessQueue(t, TRUE, "send")
  BY DEF RefreshDone, At
<1>2. ServerNext
  BY ServerRests DEF RefreshDone, ClientInv
<1>3. signedIn' \in BOOLEAN
  BY Zenon DEF RefreshDone
<1>4. TypedNext /\ refreshToken' = refreshToken
  BY <1>3, StorageRests DEF RefreshDone
<1>5. cutShort' = cutShort
  BY DEF RefreshDone
<1>6. isRefreshing' = FALSE
  BY Zenon DEF RefreshDone
<1> QED
  BY <1>1, <1>2, <1>4, <1>5, <1>6, QueueKeeps

\* The new token takes the place of the old one.
LEMMA StoreRefreshKeeps ==
    ASSUME ClientInv, NEW t \in Callers, StoreRefresh(t)
    PROVE  ClientInv'
<1>1. stack[t] # <<>>
  BY DEF StoreRefresh, At
<1>2. /\ StackOk(stack[t]) /\ Top(t) = Head(stack[t])
      /\ Top(t) \in Frames /\ Top(t).at \in StepsOf(Top(t).op)
  BY <1>1, AtTop
<1>3. PICK at \in {"persist3", "store3"} :
         Moves(t, at) /\ Top(t).at = IF at = "persist3" THEN "persist2" ELSE "store2"
  <2>1. CASE At(t, "persist2") /\ Moves(t, "persist3")
    BY <2>1 DEF At
  <2>2. CASE At(t, "store2") /\ Moves(t, "store3")
    BY <2>2 DEF At
  <2> QED
    BY <2>1, <2>2, Zenon DEF StoreRefresh
<1> DEFINE f == [Top(t) EXCEPT !.at = at]
           r == <<f>> \o Tail(stack[t])
           u == Top(t).rt
<1>4. at \in AllSteps /\ at \in StepsOf(Top(t).op)
  BY <1>2, <1>3 DEF AllSteps, StepsOf, Flight
<1>5. f \in Frames /\ f.op = Top(t).op /\ f.at = at
  BY <1>2, <1>4, MovedAt
<1> HIDE DEF f
<1>6. f.at \in Flight <=> Top(t).at \in Flight
  BY <1>3, <1>5 DEF Flight
<1>7. StackOk(r) /\ r # <<>> /\ Head(r) = f /\ (Flying(r) => Flying(stack[t]))
  BY <1>1, <1>2, <1>5, <1>6, ReplaceTop
<1> HIDE DEF r
<1>8. /\ stack' \in [Callers -> Seq(Frames)] /\ stack'[t] = r
      /\ \A c \in Callers \ {t} : stack'[c] = stack[c]
  BY <1>3, <1>7 DEF Moves, Becomes, f, r, StackOk, ClientInv, ClientShape
<1>9. /\ chain' = chain /\ usable' = usable /\ home' = home /\ cutShort' = cutShort
      /\ isRefreshing' = isRefreshing /\ refreshToken' = u
  BY DEF StoreRefresh, server
<1>10. TopIn(stack[t], Held) /\ Using(t)
  BY <1>1, <1>2, <1>3 DEF TopIn, Held, Using
<1>11. /\ Known(u) /\ Current(u)
       /\ \A c \in Callers : Using(c) /\ Top(c).rt = u => c = t
  BY <1>10 DEF ClientInv, TokensInv, KnownTokens, HeldAreCurrent
<1>12. ~TopIn(stack'[t], Held \cup Shown)
  BY <1>5, <1>7, <1>8 DEF TopIn, Held, Shown
<1>13. OneRefresh'
  <2>1. \A c \in Callers : StackOk(stack'[c]) /\ (Flying(stack'[c]) => Flying(stack[c]))
    BY <1>7, <1>8 DEF ClientInv, OneRefresh
  <2> QED
    BY <1>9, <2>1, RefreshGoesOn DEF ClientInv
<1>14. ClientShape'
  <2>1. refreshToken' \in ClientTokens \cup {Nothing}
    BY <1>9, <1>11 DEF Known
  <2>2. authToken' = authToken /\ deviceKey' = deviceKey /\ signedIn' = signedIn
    BY DEF StoreRefresh
  <2> QED
    BY <1>8, <1>9, <2>1, <2>2 DEF ClientInv, ClientShape
<1>15. KnownTokens'
  <2>1. \A c \in Callers : TopIn(stack'[c], Held \cup Shown) => KnownNext(Head(stack'[c]).rt)
    BY <1>8, <1>9, <1>12 DEF ClientInv, TokensInv, KnownTokens, Using, Top, Known, KnownNext
  <2>2. KnownNext(refreshToken')
    BY <1>9, <1>11 DEF Known, KnownNext
  <2>3. \A s \in ClientSessions : usable'[s] # {} => chain'[s] = "live"
    BY <1>9 DEF ClientInv, TokensInv, KnownTokens
  <2> QED
    BY <2>1, <2>2, <2>3 DEF KnownTokens, Using, Top, Known, KnownNext
<1>16. HeldAreCurrent'
  <2> SUFFICES ASSUME NEW c \in Callers, TopIn(stack'[c], Held)
               PROVE  /\ CurrentNext(Head(stack'[c]).rt)
                      /\ Head(stack'[c]).rt # refreshToken'
                      /\ \A d \in Callers : TopIn(stack'[d], Held \cup Shown)
                            /\ Head(stack'[d]).rt = Head(stack'[c]).rt => d = c
    BY DEF HeldAreCurrent, Using, Top, Current, CurrentNext
  <2>1. c # t
    BY <1>12 DEF TopIn
  <2>2. stack'[c] = stack[c] /\ TopIn(stack[c], Held) /\ Using(c)
    BY <1>8, <2>1 DEF TopIn, Using
  <2>3. /\ Current(Head(stack[c]).rt)
        /\ \A d \in Callers : Using(d) /\ Head(stack[d]).rt = Head(stack[c]).rt => d = c
    BY <2>2 DEF ClientInv, TokensInv, HeldAreCurrent, Top
  <2>4. CurrentNext(Head(stack[c]).rt)
    BY <1>9, <2>3 DEF Current, CurrentNext
  <2>5. Head(stack[c]).rt # u
    BY <1>11, <2>1, <2>2 DEF Top
  <2> QED
    BY <1>8, <1>9, <1>12, <2>2, <2>3, <2>4, <2>5 DEF Using
<1>17. ShownAreCurrent'
  <2> SUFFICES ASSUME ~cutShort'
               PROVE  /\ \A c \in Callers : TopIn(stack'[c], Shown)
                                               => CurrentNext(Head(stack'[c]).rt)
                      /\ CurrentNext(refreshToken')
    BY DEF ShownAreCurrent, Top, Current, CurrentNext
  <2>1. CurrentNext(refreshToken')
    BY <1>9, <1>11 DEF Current, CurrentNext
  <2>2. ASSUME NEW c \in Callers, TopIn(stack'[c], Shown) PROVE CurrentNext(Head(stack'[c]).rt)
    <3>1. c # t
      BY <1>12, <2>2 DEF TopIn
    <3>2. stack'[c] = stack[c] /\ TopIn(stack[c], Shown)
      BY <1>8, <2>2, <3>1
    <3>3. Current(Head(stack[c]).rt)
      BY <1>9, <3>2 DEF ClientInv, TokensInv, ShownAreCurrent, Top
    <3> QED
      BY <1>9, <3>2, <3>3 DEF Current, CurrentNext
  <2> QED
    BY <2>1, <2>2
<1>18. ReuseOnlyAfterKill'
  BY <1>9 DEF ClientInv, TokensInv, ReuseOnlyAfterKill
<1> QED
  BY <1>13, <1>14, <1>15, <1>16, <1>17, <1>18 DEF ClientInv, TokensInv

-----------------------------------------------------------------------------
(***************************************************************************)
(* A new token: of a login, or of an exchange.                             *)
(***************************************************************************)
LEMMA FreshIsNew ==
    ASSUME ClientInv, NEW u \in ClientTokens, Fresh(u)
    PROVE  /\ u # refreshToken
           /\ \A c \in Callers : stack[c] # <<>> => Head(stack[c]).rt # u
<1> SUFFICES ASSUME NEW c \in Callers, stack[c] # <<>> PROVE Head(stack[c]).rt # u
  BY DEF Fresh
<1>1. StackOk(stack[c])
  BY DEF ClientInv, OneRefresh
<1>2. 1 \in 1..5 /\ 1 <= Len(stack[c]) /\ Head(stack[c]) = stack[c][1]
  BY <1>1 DEF StackOk
<1> QED
  BY <1>2 DEF Fresh

\* What a caller t who gets the new token u in place of "spent" does to the tokens
\* that others have.
LEMMA NewToken ==
    ASSUME ClientInv, NEW t \in Callers, NEW s \in ClientSessions, NEW u \in ClientTokens, Fresh(u),
           home' = [home EXCEPT ![u] = s], refreshToken' = refreshToken, cutShort' = cutShort,
           \A c \in Callers \ {t} : Calm(stack[c], stack'[c]),
           TopIn(stack'[t], Held) => Head(stack'[t]).rt = u,
           ~TopIn(stack'[t], Shown),
           KnownNext(u), CurrentNext(u),
           \A x \in ClientSessions : usable'[x] # {} => chain'[x] = "live",
           \A x \in ClientSessions : chain'[x] = "reuse" => chain[x] = "reuse",
           \A w : Known(w) /\ w # u => KnownNext(w),
           \A c \in Callers \ {t} : TopIn(stack[c], Held) /\ Current(Head(stack[c]).rt)
                                     => CurrentNext(Head(stack[c]).rt),
           ShownAreCurrent'
    PROVE  TokensInv'
<1>1. \A c \in Callers : stack[c] # <<>> => Head(stack[c]).rt # u
  BY FreshIsNew
<1>2. refreshToken # u
  BY FreshIsNew
<1>3. \A c \in Callers \ {t} : TopIn(stack'[c], Held) =>
          TopIn(stack[c], Held) /\ Head(stack'[c]).rt = Head(stack[c]).rt
  BY DEF Calm
<1>4. \A c \in Callers \ {t} : TopIn(stack'[c], Held \cup Shown) =>
          Using(c) /\ Head(stack'[c]).rt = Head(stack[c]).rt
  <2>1. \A c \in Callers \ {t} : TopIn(stack'[c], Shown) =>
            TopIn(stack[c], Shown) /\ Head(stack'[c]).rt = Head(stack[c]).rt
    BY DEF Calm
  <2> QED
    BY <1>3, <2>1 DEF Using, TopIn
<1>5. TopIn(stack'[t], Held \cup Shown) => Head(stack'[t]).rt = u
  BY DEF TopIn
<1>6. \A c \in Callers : Using(c) => Known(Head(stack[c]).rt) /\ Head(stack[c]).rt # u
  BY <1>1 DEF ClientInv, TokensInv, KnownTokens, Top, Using, TopIn
<1>7. KnownTokens'
  <2>1. \A c \in Callers : TopIn(stack'[c], Held \cup Shown) => KnownNext(Head(stack'[c]).rt)
    BY <1>4, <1>5, <1>6
  <2>2. refreshToken' # Nothing => KnownNext(refreshToken')
    BY <1>2 DEF ClientInv, TokensInv, KnownTokens
  <2> QED
    BY <2>1, <2>2 DEF KnownTokens, Using, Top, Known, KnownNext
<1>8. HeldAreCurrent'
  <2> SUFFICES ASSUME NEW c \in Callers, TopIn(stack'[c], Held)
               PROVE  /\ CurrentNext(Head(stack'[c]).rt)
                      /\ Head(stack'[c]).rt # refreshToken'
                      /\ \A d \in Callers : TopIn(stack'[d], Held \cup Shown)
                            /\ Head(stack'[d]).rt = Head(stack'[c]).rt => d = c
    BY DEF HeldAreCurrent, Using, Top, Current, CurrentNext
  <2>1. CASE c = t
    BY <1>2, <1>4, <1>6, <2>1
  <2>2. CASE c # t
    <3>1. TopIn(stack[c], Held) /\ Head(stack'[c]).rt = Head(stack[c]).rt /\ Using(c)
      BY <1>3, <2>2 DEF Using, TopIn
    <3>2. /\ Current(Head(stack[c]).rt) /\ Head(stack[c]).rt # refreshToken
          /\ \A d \in Callers : Using(d) /\ Head(stack[d]).rt = Head(stack[c]).rt => d = c
      BY <3>1 DEF ClientInv, TokensInv, HeldAreCurrent, Top
    <3>3. CurrentNext(Head(stack[c]).rt)
      BY <2>2, <3>1, <3>2
    <3>4. Head(stack[c]).rt # u
      BY <1>6, <3>1
    <3> QED
      BY <1>4, <1>5, <2>2, <3>1, <3>2, <3>3, <3>4
  <2> QED
    BY <2>1, <2>2
<1>9. ReuseOnlyAfterKill'
  BY DEF ClientInv, TokensInv, ReuseOnlyAfterKill
<1> QED
  BY <1>7, <1>8, <1>9 DEF TokensInv

LEMMA LoginSucceedsKeeps ==
    ASSUME ClientInv, NEW t \in Callers, LoginSucceeds(t)
    PROVE  ClientInv'
<1>1. stack[t] # <<>> /\ Top(t).at = "submit"
  BY DEF LoginSucceeds, At
<1>2. /\ StackOk(stack[t]) /\ Top(t) = Head(stack[t])
      /\ Top(t) \in Frames /\ Top(t).at \in StepsOf(Top(t).op)
  BY <1>1, AtTop
<1>3. PICK s \in ClientSessions, u \in ClientTokens :
         /\ Fresh(u) /\ Server!Open(s, u)
         /\ home' = [home EXCEPT ![u] = s]
         /\ Becomes(t, [Top(t) EXCEPT !.at = "persist1", !.access = s, !.rt = u])
  BY DEF LoginSucceeds
<1> DEFINE f == [Top(t) EXCEPT !.at = "persist1", !.access = s, !.rt = u]
           r == <<f>> \o Tail(stack[t])
<1>4. f \in Frames /\ f.op = Top(t).op /\ f.at = "persist1" /\ f.rt = u
  BY <1>1, <1>2 DEF Frames, AllSteps, StepsOf, Flight
<1>5. Becomes(t, f)
  BY <1>3
<1> HIDE DEF f
<1>6. f.at \notin Flight /\ Top(t).at \notin Flight
  BY <1>1, <1>4 DEF Flight
<1>7. StackOk(r) /\ r # <<>> /\ Head(r) = f /\ (Flying(r) => Flying(stack[t]))
  BY <1>1, <1>2, <1>4, <1>6, ReplaceTop
<1> HIDE DEF r
<1>8. /\ stack' \in [Callers -> Seq(Frames)] /\ stack'[t] = r
      /\ \A c \in Callers \ {t} : stack'[c] = stack[c]
  BY <1>5, <1>7 DEF Becomes, r, StackOk, ClientInv, ClientShape
<1>9. /\ cutShort' = cutShort /\ isRefreshing' = isRefreshing /\ refreshToken' = refreshToken
      /\ authToken' = authToken /\ deviceKey' = deviceKey /\ signedIn' = signedIn
  BY DEF LoginSucceeds, storage
<1>10. /\ chain[s] = "free" /\ chain' = [chain EXCEPT ![s] = "live"]
       /\ usable' = [usable EXCEPT ![s] = {u}]
  BY <1>3 DEF Server!Open
<1>11. home' = [home EXCEPT ![u] = s]
  BY <1>3
<1>12. ClientShape'
  BY <1>8, <1>9, <1>10, <1>11 DEF ClientInv, ClientShape
<1>13. OneRefresh'
  <2>1. \A c \in Callers : StackOk(stack'[c]) /\ (Flying(stack'[c]) => Flying(stack[c]))
    BY <1>7, <1>8 DEF ClientInv, OneRefresh
  <2> QED
    BY <1>9, <2>1, RefreshGoesOn DEF ClientInv
<1>14. KnownNext(u) /\ CurrentNext(u)
  BY <1>10, <1>11 DEF KnownNext, CurrentNext, ClientInv, ClientShape
<1>15. \A w : Known(w) /\ w # u => KnownNext(w) /\ (Current(w) => CurrentNext(w))
  BY <1>10, <1>11 DEF Known, KnownNext, Current, CurrentNext, ClientInv, ClientShape
<1>16. \A x \in ClientSessions : usable'[x] # {} => chain'[x] = "live"
  BY <1>10 DEF ClientInv, ClientShape, TokensInv, KnownTokens
<1>17. \A x \in ClientSessions : chain'[x] = "reuse" => chain[x] = "reuse"
  BY <1>10 DEF ClientInv, ClientShape
<1>18. Fresh(u)
  BY <1>3
<1>19. \A c \in Callers : stack[c] # <<>> => Head(stack[c]).rt # u
  BY <1>18, FreshIsNew
<1>20. \A c \in Callers : Using(c) => Known(Head(stack[c]).rt) /\ Head(stack[c]).rt # u
  BY <1>19 DEF ClientInv, TokensInv, KnownTokens, Top, Using, TopIn
<1>21. \A c \in Callers : TopIn(stack[c], Held) \/ TopIn(stack[c], Shown) => Using(c)
  BY DEF Using, TopIn
<1>22. \A c \in Callers \ {t} : TopIn(stack[c], Held) /\ Current(Head(stack[c]).rt)
                                  => CurrentNext(Head(stack[c]).rt)
  BY <1>15, <1>20, <1>21
<1>23. ~TopIn(stack'[t], Shown) /\ (TopIn(stack'[t], Held) => Head(stack'[t]).rt = u)
  BY <1>4, <1>7, <1>8 DEF TopIn, Shown
<1>24. ShownAreCurrent'
  <2> SUFFICES ASSUME ~cutShort'
               PROVE  /\ \A c \in Callers : TopIn(stack'[c], Shown)
                                               => CurrentNext(Head(stack'[c]).rt)
                      /\ refreshToken' = Nothing \/ CurrentNext(refreshToken')
                         \/ \E c \in Callers : TopIn(stack'[c], Spending)
    BY DEF ShownAreCurrent, Top, Current, CurrentNext
  <2>1. /\ \A c \in Callers : TopIn(stack[c], Shown) => Current(Head(stack[c]).rt)
        /\ refreshToken = Nothing \/ Current(refreshToken)
           \/ \E c \in Callers : TopIn(stack[c], Spending)
    BY <1>9 DEF ClientInv, TokensInv, ShownAreCurrent, Top
  <2>2. \A c \in Callers : TopIn(stack'[c], Shown) => CurrentNext(Head(stack'[c]).rt)
    BY <1>8, <1>15, <1>20, <1>21, <1>23, <2>1
  <2>3. CASE refreshToken = Nothing
    BY <1>9, <2>2, <2>3
  <2>4. CASE refreshToken # Nothing /\ Current(refreshToken)
    <3>1. Known(refreshToken) /\ refreshToken # u
      BY <1>18, <2>4, FreshIsNew DEF ClientInv, TokensInv, KnownTokens
    <3> QED
      BY <1>9, <1>15, <2>2, <2>4, <3>1
  <2>5. ASSUME NEW c \in Callers, TopIn(stack[c], Spending)
        PROVE  TopIn(stack'[c], Spending)
    <3>1. c # t
      BY <1>1, <1>2, <2>5 DEF TopIn, Spending
    <3> QED
      BY <1>8, <2>5, <3>1
  <2> QED
    BY <2>1, <2>2, <2>3, <2>4, <2>5
<1>25. \A c \in Callers \ {t} : Calm(stack[c], stack'[c])
  BY <1>8 DEF Calm
<1>26. TokensInv'
  BY <1>9, <1>11, <1>14, <1>15, <1>16, <1>17, <1>18, <1>22, <1>23, <1>24, <1>25, NewToken
<1> QED
  BY <1>12, <1>13, <1>26 DEF ClientInv

LEMMA RefreshExchangedKeeps ==
    ASSUME ClientInv, NEW t \in Callers, RefreshExchanged(t)
    PROVE  ClientInv'
<1>1. stack[t] # <<>> /\ Top(t).at = "postRefresh"
  BY DEF RefreshExchanged, At
<1>2. /\ StackOk(stack[t]) /\ Top(t) = Head(stack[t])
      /\ Top(t) \in Frames /\ Top(t).at \in StepsOf(Top(t).op)
  BY <1>1, AtTop
<1>3. PICK s \in ClientSessions, u \in ClientTokens :
         /\ Fresh(u) /\ Server!Exchange(s, Top(t).rt, u)
         /\ home' = [home EXCEPT ![u] = s]
         /\ \/ Becomes(t, [Top(t) EXCEPT !.at = "store1", !.access = s, !.rt = u])
            \/ ProcessQueue(t, FALSE, "failed")
  BY DEF RefreshExchanged
<1> DEFINE f == [Top(t) EXCEPT !.at = "store1", !.access = s, !.rt = u]
           r == <<f>> \o Tail(stack[t])
           old == Top(t).rt
<1>4. f \in Frames /\ f.op = Top(t).op /\ f.at = "store1" /\ f.rt = u
  BY <1>1, <1>2 DEF Frames, AllSteps, StepsOf, Flight
<1>5. Becomes(t, f) \/ ProcessQueue(t, FALSE, "failed")
  BY <1>3
<1> HIDE DEF f
<1>6. /\ cutShort' = cutShort /\ isRefreshing' = isRefreshing /\ refreshToken' = refreshToken
      /\ authToken' = authToken /\ deviceKey' = deviceKey /\ signedIn' = signedIn
  BY DEF RefreshExchanged, storage
<1>7. /\ stack' = [c \in Callers |-> stack'[c]]
      /\ StackOk(stack'[t]) /\ stack'[t] # <<>> /\ Head(stack'[t]).at \in {"store1", "failed"}
      /\ Head(stack'[t]).at = "store1" => Head(stack'[t]).rt = u
      /\ Flying(stack[t])
      /\ \A c \in Callers \ {t} :
            /\ StackOk(stack'[c]) /\ (Flying(stack'[c]) => Flying(stack[c]))
            /\ Calm(stack[c], stack'[c])
  <2>1. CASE Becomes(t, f)
    <3>1. f.at \in Flight /\ Top(t).at \in Flight
      BY <1>1, <1>4 DEF Flight
    <3>2. StackOk(r) /\ r # <<>> /\ Head(r) = f /\ Flying(stack[t])
      BY <1>1, <1>2, <1>4, <3>1, ReplaceTop
    <3> HIDE DEF r
    <3>3. /\ stack' = [c \in Callers |-> stack'[c]] /\ stack'[t] = r
          /\ \A c \in Callers \ {t} : stack'[c] = stack[c]
      BY <2>1 DEF Becomes, r, ClientInv, ClientShape
    <3>4. \A c \in Callers \ {t} : StackOk(stack[c]) /\ Calm(stack[c], stack[c])
      BY DEF Calm, ClientInv, OneRefresh
    <3> QED
      BY <1>4, <3>2, <3>3, <3>4
  <2>2. CASE ProcessQueue(t, FALSE, "failed")
    <3>1. "failed" \in AllSteps /\ "failed" \in StepsOf(Top(t).op) /\ Top(t).at \in Flight
      BY <1>1, <1>2 DEF AllSteps, StepsOf, Flight
    <3> QED
      BY <1>1, <2>2, <3>1, QueueGoesOn
  <2> QED
    BY <1>5, <2>1, <2>2
<1>8. /\ usable[s] = {old} /\ usable' = [usable EXCEPT ![s] = {u}] /\ chain' = chain
  BY <1>3 DEF Server!Exchange
<1>9. home' = [home EXCEPT ![u] = s] /\ Fresh(u)
  BY <1>3
<1>10. chain[s] = "live"
  BY <1>8 DEF ClientInv, TokensInv, KnownTokens
<1>11. OneRefresh'
  <2>1. \A c \in Callers : StackOk(stack'[c]) /\ (Flying(stack'[c]) => Flying(stack[c]))
    BY <1>7
  <2> QED
    BY <1>6, <2>1, RefreshGoesOn DEF ClientInv
<1>12. ClientShape'
  <2>1. stack' \in [Callers -> Seq(Frames)]
    <3>1. \A c \in Callers : stack'[c] \in Seq(Frames)
      BY <1>7 DEF StackOk
    <3> QED
      BY <1>7, <3>1
  <2> QED
    BY <1>6, <1>8, <1>9, <2>1 DEF ClientInv, ClientShape
<1>13. KnownNext(u) /\ CurrentNext(u)
  BY <1>8, <1>9, <1>10 DEF KnownNext, CurrentNext, ClientInv, ClientShape
<1>14. \A w : Known(w) /\ w # u => KnownNext(w)
  BY <1>8, <1>9 DEF Known, KnownNext, ClientInv, ClientShape
<1>15. \A w : Known(w) /\ w # u /\ w # old /\ Current(w) => CurrentNext(w)
  BY <1>8, <1>9 DEF Known, Current, CurrentNext, ClientInv, ClientShape
<1>16. \A x \in ClientSessions : usable'[x] # {} => chain'[x] = "live"
  BY <1>8, <1>10 DEF ClientInv, ClientShape, TokensInv, KnownTokens
<1>17. \A x \in ClientSessions : chain'[x] = "reuse" => chain[x] = "reuse"
  BY <1>8
<1>18. \A c \in Callers : stack[c] # <<>> => Head(stack[c]).rt # u
  BY <1>9, FreshIsNew
<1>19. Using(t) /\ Head(stack[t]).rt = old
  BY <1>1, <1>2 DEF Using, TopIn, Shown
<1>20. \A c \in Callers \ {t} : TopIn(stack[c], Held) =>
          Known(Head(stack[c]).rt) /\ Head(stack[c]).rt # u /\ Head(stack[c]).rt # old
  <2> SUFFICES ASSUME NEW c \in Callers \ {t}, TopIn(stack[c], Held)
               PROVE  Known(Head(stack[c]).rt) /\ Head(stack[c]).rt # u
                      /\ Head(stack[c]).rt # old
    OBVIOUS
  <2>1. Using(c) /\ stack[c] # <<>>
    BY DEF Using, TopIn
  <2>2. Known(Head(stack[c]).rt)
    BY <2>1 DEF ClientInv, TokensInv, KnownTokens, Top
  <2>3. Head(stack[c]).rt # old
    BY <1>19 DEF ClientInv, TokensInv, HeldAreCurrent, Top
  <2> QED
    BY <1>18, <2>1, <2>2, <2>3
<1>21. \A c \in Callers \ {t} : TopIn(stack[c], Held) /\ Current(Head(stack[c]).rt)
                                  => CurrentNext(Head(stack[c]).rt)
  BY <1>15, <1>20
<1>22. ~TopIn(stack'[t], Shown) /\ (TopIn(stack'[t], Held) => Head(stack'[t]).rt = u)
  BY <1>7 DEF TopIn, Shown, Held
<1>23. \A c \in Callers \ {t} : Calm(stack[c], stack'[c])
  BY <1>7
<1>24. ShownAreCurrent'
  <2>1. \A c \in Callers : ~TopIn(stack'[c], Shown)
    <3> SUFFICES ASSUME NEW c \in Callers, c # t PROVE ~TopIn(stack'[c], Shown)
      BY <1>22
    <3>1. TopIn(stack[c], Shown) => c = t
      BY <1>1, OnlyRefresher
    <3> QED
      BY <1>23, <3>1 DEF Calm
  <2>2. TopIn(stack'[t], Spending)
    BY <1>7 DEF TopIn, Spending
  <2> QED
    BY <2>1, <2>2 DEF ShownAreCurrent
<1>25. TokensInv'
  BY <1>6, <1>9, <1>13, <1>14, <1>16, <1>17, <1>21, <1>22, <1>23, <1>24, NewToken
<1> QED
  BY <1>11, <1>12, <1>25 DEF ClientInv

-----------------------------------------------------------------------------
LEMMA ClientNextInv == ClientInv /\ [ClientNext]_clientVars => ClientInv'
<1> SUFFICES ASSUME ClientInv, [ClientNext]_clientVars PROVE ClientInv'
  OBVIOUS
<1>1. CASE UNCHANGED clientVars
  BY <1>1 DEF clientVars, ClientInv, ClientShape, OneRefresh, TokensInv, KnownTokens,
     HeldAreCurrent, ShownAreCurrent, ReuseOnlyAfterKill, Known, Current, Using, Top
<1>2. ASSUME NEW t \in Callers, StartCall(t) \/ StartLogin(t) \/ StartLogout(t) PROVE ClientInv'
  BY <1>2, StartsKeep
<1>3. ASSUME NEW t \in Callers, Proceeds(t) PROVE ClientInv'
  BY <1>3, LoginSucceedsKeeps, LoginEnds, StoreAccessKeeps, StoreRefreshKeeps, SendKeeps,
     AnsweredKeeps, UnauthorizedKeeps, ReadRefreshKeeps, RefreshExchangedKeeps,
     RefreshRefusedKeeps, RefreshDoneKeeps, RefreshFailedKeeps, RefreshAbortedKeeps,
     DisablePushKeeps, PushDisabledKeeps, RevokeKeeps, ClearKeeps
     DEF Proceeds
<1>4. CASE Kill
  BY <1>4, KillKeeps
<1>5. CASE LoadSession
  BY <1>5, LoadKeeps
<1> QED
  BY <1>1, <1>2, <1>3, <1>4, <1>5 DEF ClientNext

LEMMA ClientInvTypes == ClientInv => ClientTypeOK
<1> SUFFICES ASSUME ClientInv PROVE ClientTypeOK
  OBVIOUS
<1>1. {deviceKey, signedIn, isRefreshing, cutShort} \subseteq BOOLEAN
  BY Zenon DEF ClientInv, ClientShape
<1>2. \A t \in Callers : Len(stack[t]) <= 5
  <2> SUFFICES ASSUME NEW t \in Callers PROVE Len(stack[t]) <= 5
    OBVIOUS
  <2>1. StackOk(stack[t])
    BY DEF ClientInv, OneRefresh
  <2>2. Len(stack[t]) <= 4 /\ Len(stack[t]) \in Nat
    BY <2>1, StackIsShort DEF StackOk
  <2> QED
    BY <2>2
<1> QED
  BY <1>1, <1>2 DEF ClientInv, ClientShape, ClientTypeOK

\* The variables of the app's session have their types; in particular refreshes and the
\* logouts of failed ones nest at most four deep.
THEOREM ClientTypesHold == ClientSpec => []ClientTypeOK
  BY ClientInitInv, ClientNextInv, ClientInvTypes, PTL DEF ClientSpec

\* For any number of callers, sessions and tokens, the server ends a session for the
\* reuse of a token only if the app was killed in between (api.ts and authStore.ts,
\* ReuseOnlyAfterKill).
THEOREM ReuseNeedsAKill == ClientSpec => []ReuseOnlyAfterKill
<1>1. ClientInv => ReuseOnlyAfterKill
  BY DEF ClientInv, TokensInv
<1> QED
  BY ClientInitInv, ClientNextInv, <1>1, PTL DEF ClientSpec
=============================================================================

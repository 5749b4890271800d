---------------------------- MODULE SessionChain ----------------------------
(***************************************************************************)
(* What a server session promises, with no transactions in sight.          *)
(*                                                                         *)
(* A login opens a session with one refresh token.  Only that token can be *)
(* exchanged, for one successor.  A session that has ended keeps the reason *)
(* it ended for and has no usable token any more.                          *)
(*                                                                         *)
(* AuthSessions implements this module (see Chain there).                  *)
(***************************************************************************)
CONSTANTS Sessions, Tokens, Reasons

VARIABLES state,        \* state[s]: "free", "live" or the reason s ended for
          usable        \* usable[s]: the tokens that can be exchanged

cvars == <<state, usable>>

Init == /\ state = [s \in Sessions |-> "free"]
        /\ usable = [s \in Sessions |-> {}]

Open(s, t) == /\ state[s] = "free"
              /\ state' = [state EXCEPT ![s] = "live"]
              /\ usable' = [usable EXCEPT ![s] = {t}]

Exchange(s, t, u) == /\ usable[s] = {t}
                     /\ usable' = [usable EXCEPT ![s] = {u}]
                     /\ UNCHANGED state

\* One revocation may end several sessions of a user at once.
End(S, r) == /\ \A s \in S : state[s] = "live"
             /\ state' = [s \in Sessions |-> IF s \in S THEN r ELSE state[s]]
             /\ usable' = [s \in Sessions |-> IF s \in S THEN {} ELSE usable[s]]

Next == \/ \E s \in Sessions, t \in Tokens : Open(s, t)
        \/ \E s \in Sessions, t, u \in Tokens : Exchange(s, t, u)
        \/ \E S \in SUBSET Sessions, r \in Reasons : End(S, r)

Spec == Init /\ [][Next]_cvars
=============================================================================

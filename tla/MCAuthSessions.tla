--------------------------- MODULE MCAuthSessions ---------------------------
(***************************************************************************)
(* Instances of AuthSessions: the sessions, the tokens and the requests    *)
(* are interchangeable.                                                    *)
(***************************************************************************)
EXTENDS AuthSessions, TLC

Symmetry == Permutations(Sessions) \cup Permutations(Tokens)
              \cup Permutations(Requests)
=============================================================================

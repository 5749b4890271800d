------------------------------ MODULE MCOutbox ------------------------------
(***************************************************************************)
(* An instance of Outbox: two processes, two events, the second of which   *)
(* concerns both users.                                                    *)
(***************************************************************************)
EXTENDS Outbox, TLC

CONSTANTS u1, u2

MCRecipients == (1 :> {u1} @@ 2 :> {u1, u2})
=============================================================================

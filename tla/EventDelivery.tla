---------------------------- MODULE EventDelivery ----------------------------
(***************************************************************************)
(* What the notification pipeline promises, with no dispatcher in sight.   *)
(*                                                                         *)
(* A domain transaction records an event together with the users it        *)
(* concerns.  Each event is delivered into the inboxes of all those users  *)
(* at once, each of them is then told in real time, and only an event      *)
(* everybody was told about is settled.  Nothing is ever undone: an event  *)
(* is recorded once and an inbox never receives it a second time.          *)
(*                                                                         *)
(* Outbox implements this module (see Delivery there).                     *)
(***************************************************************************)
CONSTANTS Events,       \* domain events that may be recorded
          Users,        \* users that may be concerned by one
          Recipients    \* the users each event concerns

VARIABLES recorded,     \* events whose transaction has committed
          inbox,        \* <<event, user>> pairs delivered so far
          heard,        \* <<event, user>> pairs announced in real time
          settled       \* events that need no more work

dvars == <<recorded, inbox, heard, settled>>

Copies(e) == {e} \X Recipients[e]

Init == /\ recorded = {}
        /\ inbox = {}
        /\ heard = {}
        /\ settled = {}

Record(e) == /\ e \notin recorded
             /\ recorded' = recorded \cup {e}
             /\ UNCHANGED <<inbox, heard, settled>>

Deliver(e) == /\ e \in recorded
              /\ inbox' = inbox \cup Copies(e)
              /\ UNCHANGED <<recorded, heard, settled>>

Announce(e, u) == /\ <<e, u>> \in inbox
                  /\ heard' = heard \cup {<<e, u>>}
                  /\ UNCHANGED <<recorded, inbox, settled>>

Settle(e) == /\ e \in recorded
             /\ Copies(e) \subseteq heard
             /\ settled' = settled \cup {e}
             /\ UNCHANGED <<recorded, inbox, heard>>

Next == \E e \in Events :
          \/ Record(e)
          \/ Deliver(e)
          \/ \E u \in Users : Announce(e, u)
          \/ Settle(e)

Spec == Init /\ [][Next]_dvars
=============================================================================

------------------------------ MODULE MCDelivery ------------------------------
(***************************************************************************)
(* What is to happen in the end: push deliveries, the calls of the app and *)
(* its WebSocket, and requests to the publisher.  These share no state, so *)
(* one of them, "focus", moves in a behaviour and the others stand still.  *)
(* Push deliveries are taken twice: one row and two dispatchers, and two   *)
(* rows, one dispatcher.                                                   *)
(***************************************************************************)
EXTENDS PushDelivery, SessionClient, RealtimeSocket, Publisher

CONSTANTS phone, w1, w2, q1, q2

MCDevice == [k \in Deliveries |-> phone]

VARIABLE focus

MCInit ==
    /\ focus \in {"push overlap", "push queue", "client", "socket", "publisher"}
    /\ PushInit /\ ClientInit /\ SocketInit /\ PublisherInit
    /\ asked[q1] = "publish" /\ asked[q2] = "restart"

MCNext ==
    \/ focus = "push overlap" /\ PushNext /\ delivery'[2] = "absent"
       /\ UNCHANGED <<focus, clientVars, socketVars, publisherVars>>
    \/ focus = "push queue" /\ PushNext /\ pushPc'[w2] = "idle"
       /\ UNCHANGED <<focus, clientVars, socketVars, publisherVars>>
    \/ focus = "client" /\ ClientNext
       /\ UNCHANGED <<focus, pushVars, socketVars, publisherVars>>
    \/ focus = "socket" /\ SocketNext
       /\ UNCHANGED <<focus, pushVars, clientVars, publisherVars>>
    \/ focus = "publisher" /\ PublisherNext
       /\ UNCHANGED <<focus, pushVars, clientVars, socketVars>>

\* The fairness each module states, for the part that moves.
MCFairness ==
    /\ WF_pushVars(focus = "push overlap" /\ PushStep(w1))
    /\ WF_pushVars(focus = "push overlap" /\ PushStep(w2))
    /\ WF_pushVars(focus = "push queue" /\ PushStep(w1))
    /\ \A k \in Deliveries :
          WF_pushVars(focus \in {"push overlap", "push queue"} /\ PushTimePasses(k))
    /\ \A t \in Callers : WF_clientVars(focus = "client" /\ Proceeds(t))
    /\ \A s \in Sockets : WF_socketVars(focus = "socket" /\ Heartbeat(s))
    /\ WF_publisherVars(focus = "publisher" /\ WorkerNext)
    /\ \A r \in Requests :
          WF_publisherVars(focus = "publisher" /\ (TakeDuplicate(r) \/ Take(r)))
    /\ WF_publisherVars(focus = "publisher" /\ KeepersStartApi)
    /\ WF_publisherVars(focus = "publisher" /\ SupervisorStartsWeb)
    /\ WF_publisherVars(focus = "publisher" /\ SupervisorBuildsWeb)

MCSpec ==
    MCInit /\ [][MCNext]_<<focus, pushVars, clientVars, socketVars, publisherVars>>
                 /\ MCFairness
=============================================================================

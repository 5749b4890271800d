------------------------------- MODULE Outbox -------------------------------
(***************************************************************************)
(* The transactional outbox and its dispatcher (src/src/events/            *)
(* domainEvents.ts).  Every server process runs one dispatcher; they share *)
(* the DomainEventOutbox and Notification tables of PostgreSQL, claim      *)
(* events under a two-minute lease, project them into inbox rows, publish  *)
(* those in real time and mark the event published.  Any database or Redis *)
(* call may fail, a failed call may still have taken effect, and a process *)
(* may die between any two calls.                                          *)
(*                                                                         *)
(* Time is abstract: due[e] says nextAttemptAt <= NOW().  A lease or a     *)
(* backoff ends whenever TimePasses(e) says so, so a worker may be         *)
(* arbitrarily slow compared with its lease.                               *)
(***************************************************************************)
EXTENDS Naturals, FiniteSets

CONSTANTS Events,       \* events, numbered in the order of occurredAt
          Users,        \* possible recipients
          Recipients,   \* recipients in an event's payload, one draft per user
          Workers,      \* server processes
          BatchLimit,   \* LIMIT of the claim query
          MaxFaults     \* bound: crashes and failed calls in a behaviour

ASSUME EventsAssumption == Events \subseteq Nat
ASSUME RecipientsAssumption == Recipients \in [Events -> SUBSET Users]
ASSUME LimitAssumption == BatchLimit \in Nat \ {0}
ASSUME FaultsAssumption == MaxFaults \in Nat

VARIABLES
    outbox,     \* outbox[e]: "absent", "pending" or "published"
    due,        \* due[e]: nextAttemptAt has been reached
    notif,      \* <<e, u>> rows of Notification
    expired,    \* history: <<e, u>> rows deleted when their retention ended
    heard,      \* history: <<e, u>> published in real time at least once
    pc,         \* where each worker is in processOutboxOnce
    followUp,   \* followUpRequested of each worker
    locked,     \* rows a worker's claim transaction has locked
    batch,      \* claimed events the worker has still to handle
    todo,       \* users the current event has still to be published to
    faults      \* faults so far

tables == <<outbox, due, notif, expired, heard>>
vars == <<outbox, due, notif, expired, heard,
          pc, followUp, locked, batch, todo, faults>>

Copies(e) == {e} \X Recipients[e]

TypeOK ==
    /\ outbox \in [Events -> {"absent", "pending", "published"}]
    /\ due \in [Events -> BOOLEAN]
    /\ notif \subseteq Events \X Users
    /\ expired \subseteq Events \X Users
    /\ heard \subseteq Events \X Users
    /\ pc \in [Workers -> {"down", "idle", "claim", "claimed", "project",
                           "publish", "retry", "tail", "check", "ending"}]
    /\ followUp \in [Workers -> BOOLEAN]
    /\ locked \in [Workers -> SUBSET Events]
    /\ batch \in [Workers -> SUBSET Events]
    /\ todo \in [Workers -> SUBSET Users]
    /\ faults \in 0..MaxFaults

Init ==
    /\ outbox = [e \in Events |-> "absent"]
    /\ due = [e \in Events |-> FALSE]
    /\ notif = {}
    /\ expired = {}
    /\ heard = {}
    /\ pc = [w \in Workers |-> "down"]
    /\ followUp = [w \in Workers |-> FALSE]
    /\ locked = [w \in Workers |-> {}]
    /\ batch = [w \in Workers |-> {}]
    /\ todo = [w \in Workers |-> {}]
    /\ faults = 0

Go(w, from, to) == pc[w] = from /\ pc' = [pc EXCEPT ![w] = to]

Fault == faults < MaxFaults /\ faults' = faults + 1

\* No claim transaction of another worker holds the row's lock.
Unlocked(w, e) == \A v \in Workers \ {w} : e \notin locked[v]

\* The event the worker's for loop is at: batches keep the order of occurredAt.
Current(w, e) == /\ e \in batch[w]
                 /\ \A f \in batch[w] : e <= f

-----------------------------------------------------------------------------
(***************************************************************************)
(* The rest of the system: transactions that record events, and time.      *)
(***************************************************************************)
EnqueueDomainEvent(e) ==
    /\ outbox[e] = "absent"
    /\ outbox' = [outbox EXCEPT ![e] = "pending"]
    /\ due' = [due EXCEPT ![e] = TRUE]
    /\ UNCHANGED <<notif, expired, heard, pc, followUp, locked, batch, todo, faults>>

TimePasses(e) ==
    /\ outbox[e] = "pending" /\ ~due[e]
    /\ due' = [due EXCEPT ![e] = TRUE]
    /\ UNCHANGED <<outbox, notif, expired, heard,
                   pc, followUp, locked, batch, todo, faults>>

-----------------------------------------------------------------------------
(***************************************************************************)
(* processOutboxOnce: one run at a time in each process.  A call made      *)
(* while a run is active only leaves a note for it, also in the window     *)
(* ("ending") between the last look at the note and the promise callback   *)
(* that clears activeRun, where the note is lost.                          *)
(***************************************************************************)
StartOutboxDispatcher(w) ==
    /\ Go(w, "down", "claim")
    /\ UNCHANGED <<tables, followUp, locked, batch, todo, faults>>

ProcessOutboxOnce(w) ==
    /\ \/ /\ Go(w, "idle", "claim")
          /\ followUp' = [followUp EXCEPT ![w] = FALSE]
       \/ /\ pc[w] \notin {"down", "idle"}
          /\ followUp' = [followUp EXCEPT ![w] = TRUE]
          /\ UNCHANGED pc
    /\ UNCHANGED <<tables, locked, batch, todo, faults>>

CheckFollowUp(w) ==
    /\ IF followUp[w] THEN Go(w, "check", "claim") ELSE Go(w, "check", "ending")
    /\ followUp' = [followUp EXCEPT ![w] = FALSE]
    /\ UNCHANGED <<tables, locked, batch, todo, faults>>

\* Mutant: no finally block.
ActiveRunKept(w) == pc[w] = "ending" /\ UNCHANGED vars

ClearActiveRun(w) ==
    /\ Go(w, "ending", "idle")
    /\ UNCHANGED <<tables, followUp, locked, batch, todo, faults>>

-----------------------------------------------------------------------------
(***************************************************************************)
(* claimOutboxEvents: SELECT ... ORDER BY occurredAt FOR UPDATE SKIP       *)
(* LOCKED LIMIT, then the lease in the same transaction.                   *)
(***************************************************************************)
\* Mutant: the claim waits for nobody, as without FOR UPDATE SKIP LOCKED.
ClaimableIgnoringLocks(w) == {e \in Events : outbox[e] = "pending" /\ due[e]}

\* Mutant: published events are claimed again.
ClaimableIgnoringPublishedAt(w) ==
    {e \in Events : outbox[e] # "absent" /\ (due[e] \/ outbox[e] = "published")
                    /\ Unlocked(w, e)}

\* publishedAt IS NULL AND nextAttemptAt <= NOW(), SKIP LOCKED
Claimable(w) == {e \in Events : outbox[e] = "pending" /\ due[e] /\ Unlocked(w, e)}

\* The first BatchLimit elements of S in the order of occurredAt.
Earliest(S) == {e \in S : Cardinality({f \in S : f < e}) < BatchLimit}

SelectForUpdate(w) ==
    /\ LET rows == Earliest(Claimable(w)) IN
         IF rows = {} THEN Go(w, "claim", "tail") ELSE Go(w, "claim", "claimed")
    /\ locked' = [locked EXCEPT ![w] = Earliest(Claimable(w))]
    /\ UNCHANGED <<tables, followUp, batch, todo, faults>>

LeaseAndCommit(w) ==
    /\ Go(w, "claimed", "project")
    /\ due' = [e \in Events |-> due[e] /\ e \notin locked[w]]
    /\ batch' = [batch EXCEPT ![w] = locked[w]]
    /\ locked' = [locked EXCEPT ![w] = {}]
    /\ UNCHANGED <<outbox, notif, expired, heard, followUp, todo, faults>>

\* The claim transaction throws: rolled back, or committed and not known to be.
ClaimFails(w) ==
    /\ Fault
    /\ pc[w] \in {"claim", "claimed"} /\ pc' = [pc EXCEPT ![w] = "check"]
    /\ \/ UNCHANGED due
       \/ due' = [e \in Events |-> due[e] /\ e \notin locked[w]]
    /\ locked' = [locked EXCEPT ![w] = {}]
    /\ UNCHANGED <<outbox, notif, expired, heard, followUp, batch, todo>>

-----------------------------------------------------------------------------
(***************************************************************************)
(* The for loop of processOutboxBatch: projectEvent, then publishedAt.     *)
(***************************************************************************)

\* The loop leaves event e and goes on with the next one, or ends.
LoopOn(w, e) ==
    /\ batch' = [batch EXCEPT ![w] = @ \ {e}]
    /\ pc' = [pc EXCEPT ![w] = IF batch[w] \subseteq {e} THEN "tail" ELSE "project"]
    /\ todo' = [todo EXCEPT ![w] = {}]

\* Mutant: one transaction per draft.
ProjectOneDraft(w, e) ==
    /\ Current(w, e)
    /\ pc[w] = "project"
    /\ \E c \in Copies(e) \ notif : notif' = notif \cup {c}
    /\ UNCHANGED <<outbox, due, expired, heard, pc, followUp, locked, batch, todo, faults>>

\* The projection's transaction commits: an upsert per draft, whose update is
\* empty, so a row another worker or an earlier attempt wrote is left alone.
ProjectEvent(w, e) ==
    /\ Current(w, e)
    /\ Go(w, "project", "publish")
    /\ notif' = notif \cup Copies(e)
    /\ todo' = [todo EXCEPT ![w] = Recipients[e]]
    /\ UNCHANGED <<outbox, due, expired, heard, followUp, locked, batch, faults>>

ProjectionFails(w, e) ==
    /\ Fault
    /\ Current(w, e)
    /\ Go(w, "project", "retry")
    /\ notif' \in {notif, notif \cup Copies(e)}
    /\ UNCHANGED <<outbox, due, expired, heard, followUp, locked, batch, todo>>

\* One publishRealtimeNotification after the commit.
PublishRealtime(w, e, u) ==
    /\ Current(w, e)
    /\ pc[w] = "publish" /\ u \in todo[w]
    /\ heard' = heard \cup {<<e, u>>}
    /\ todo' = [todo EXCEPT ![w] = @ \ {u}]
    /\ UNCHANGED <<outbox, due, notif, expired, pc, followUp, locked, batch, faults>>

PublishFails(w, e) ==
    /\ Fault
    /\ Current(w, e)
    /\ todo[w] # {}
    /\ Go(w, "publish", "retry")
    /\ UNCHANGED <<tables, followUp, locked, batch, todo>>

\* Mutant: publishedAt is set without waiting for the publications.
MarkPublishedEarly(w, e) ==
    /\ Current(w, e) /\ Unlocked(w, e)
    /\ pc[w] = "publish"
    /\ outbox' = [outbox EXCEPT ![e] = "published"]
    /\ LoopOn(w, e)
    /\ UNCHANGED <<due, notif, expired, heard, followUp, locked, faults>>

\* The update waits for the row lock of a claim in progress.
MarkPublished(w, e) ==
    /\ Current(w, e) /\ Unlocked(w, e)
    /\ pc[w] = "publish" /\ todo[w] = {}
    /\ outbox' = [outbox EXCEPT ![e] = "published"]
    /\ LoopOn(w, e)
    /\ UNCHANGED <<due, notif, expired, heard, followUp, locked, faults>>

MarkFails(w, e) ==
    /\ Fault
    /\ Current(w, e)
    /\ todo[w] = {}
    /\ Go(w, "publish", "retry")
    /\ \/ UNCHANGED outbox
       \/ Unlocked(w, e) /\ outbox' = [outbox EXCEPT ![e] = "published"]
    /\ UNCHANGED <<due, notif, expired, heard, followUp, locked, batch, todo>>

\* The inner catch: nextAttemptAt = retryAt(attempts), publishedAt untouched.
ScheduleRetry(w, e) ==
    /\ Current(w, e) /\ Unlocked(w, e)
    /\ pc[w] = "retry"
    /\ due' = [due EXCEPT ![e] = FALSE]
    /\ LoopOn(w, e)
    /\ UNCHANGED <<outbox, notif, expired, heard, followUp, locked, faults>>

\* The inner catch fails too: the outer catch gives up the rest of the batch,
\* whose leases have to run out.
ScheduleRetryFails(w, e) ==
    /\ Fault
    /\ Current(w, e)
    /\ Go(w, "retry", "check")
    /\ \/ UNCHANGED due
       \/ Unlocked(w, e) /\ due' = [due EXCEPT ![e] = FALSE]
    /\ batch' = [batch EXCEPT ![w] = {}]
    /\ todo' = [todo EXCEPT ![w] = {}]
    /\ UNCHANGED <<outbox, notif, expired, heard, followUp, locked>>

-----------------------------------------------------------------------------
(***************************************************************************)
(* The end of a batch, and crashes.                                        *)
(***************************************************************************)

\* Rows whose 90 days may be over: their event has long been published and no
\* worker is still busy with it.
Expirable == {p \in notif : /\ outbox[p[1]] = "published"
                            /\ \A w \in Workers : p[1] \notin batch[w] \cup locked[w]}

\* After the pushes and receipts, deleteMany of the expired notifications.
FinishBatch(w) ==
    /\ Go(w, "tail", "check")
    /\ \E X \in SUBSET Expirable : /\ notif' = notif \ X
                                   /\ expired' = expired \cup X
    /\ UNCHANGED <<outbox, due, heard, followUp, locked, batch, todo, faults>>

\* A push, receipt or cleanup call throws: the outer catch ends the batch.
FinishBatchFails(w) ==
    /\ Fault
    /\ Go(w, "tail", "check")
    /\ UNCHANGED <<tables, followUp, locked, batch, todo>>

\* The process dies; open transactions roll back, leases stay.
Crash(w) ==
    /\ Fault
    /\ pc[w] # "down" /\ pc' = [pc EXCEPT ![w] = "down"]
    /\ followUp' = [followUp EXCEPT ![w] = FALSE]
    /\ locked' = [locked EXCEPT ![w] = {}]
    /\ batch' = [batch EXCEPT ![w] = {}]
    /\ todo' = [todo EXCEPT ![w] = {}]
    /\ UNCHANGED tables

-----------------------------------------------------------------------------
EventStep(w, e) ==
    \/ ProjectEvent(w, e)
    \/ \E u \in Users : PublishRealtime(w, e, u)
    \/ MarkPublished(w, e)
    \/ ScheduleRetry(w, e)

\* A step in which nothing goes wrong.
WorkerStep(w) ==
    \/ StartOutboxDispatcher(w)
    \/ ProcessOutboxOnce(w)
    \/ SelectForUpdate(w)
    \/ LeaseAndCommit(w)
    \/ \E e \in Events : EventStep(w, e)
    \/ FinishBatch(w)
    \/ CheckFollowUp(w)
    \/ ClearActiveRun(w)

EventFault(w, e) ==
    \/ ProjectionFails(w, e)
    \/ PublishFails(w, e)
    \/ MarkFails(w, e)
    \/ ScheduleRetryFails(w, e)

WorkerFault(w) ==
    \/ ClaimFails(w)
    \/ \E e \in Events : EventFault(w, e)
    \/ FinishBatchFails(w)
    \/ Crash(w)

Environment == \E e \in Events : EnqueueDomainEvent(e) \/ TimePasses(e)

Next == Environment \/ \E w \in Workers : WorkerStep(w) \/ WorkerFault(w)

Spec == Init /\ [][Next]_vars

\* What the promise chain of a run does next, the timer when there is no run.
Progress(w) ==
    \/ StartOutboxDispatcher(w)
    \/ pc[w] = "idle" /\ ProcessOutboxOnce(w)
    \/ SelectForUpdate(w)
    \/ LeaseAndCommit(w)
    \/ \E e \in Events : EventStep(w, e)
    \/ FinishBatch(w)
    \/ CheckFollowUp(w)
    \/ ClearActiveRun(w)

\* setInterval keeps calling processOutboxOnce, a process that died is started
\* again by its supervisor, calls return, and the clock runs.  That faults end
\* is the bound MaxFaults.
FairSpec ==
    /\ Spec
    /\ \A w \in Workers : WF_vars(Progress(w))
    /\ \A e \in Events : WF_vars(TimePasses(e))

-----------------------------------------------------------------------------
(***************************************************************************)
(* Properties                                                              *)
(***************************************************************************)

\* An event whose publishedAt is set was projected for and published to every
\* recipient first, whatever failed, died or was taken over on the way: nobody
\* looks at a published event again, so a recipient skipped here is lost
\* (processOutboxBatch sets publishedAt only after projectEvent returns).
PublishedReachedEveryone ==
    \A e \in Events : outbox[e] = "published" =>
        Copies(e) \subseteq heard \cap (notif \cup expired)

\* A worker is given an event only when it is unpublished and no lease on it is
\* running: two workers hold the same event only after the first outlived its
\* two minutes (FOR UPDATE SKIP LOCKED and the lease of claimOutboxEvents).
OnlyLapsedEventsAreClaimed ==
    [][\A w \in Workers, e \in Events :
         e \in batch'[w] \ batch[w] => outbox[e] = "pending" /\ due[e]]_vars

\* An inbox row that was deleted at the end of its retention never comes back:
\* redelivery stops once the event is published.
ExpiredStaysGone == [][\A p \in expired : p \notin notif']_vars

\* Every recorded event is published in the end: leases of dead workers run out
\* and failed attempts are retried.
EveryEventIsPublished ==
    \A e \in Events : outbox[e] = "pending" ~> outbox[e] = "published"

\* The dispatcher implements the abstract pipeline.
Delivery == INSTANCE EventDelivery
              WITH recorded <- {e \in Events : outbox[e] # "absent"},
                   inbox <- notif \cup expired,
                   heard <- heard,
                   settled <- {e \in Events : outbox[e] = "published"}

DeliverySpec == Delivery!Spec
=============================================================================

----------------------------- MODULE PushDelivery -----------------------------
(***************************************************************************)
(* Push notifications (src/src/events/domainEvents.ts, 95-110 and 136-286; *)
(* devices in src/src/services/notificationService.ts).                    *)
(*                                                                         *)
(* The dispatchers share the PushDelivery rows without claiming them: each *)
(* reads the rows that may be sent, posts them to Expo in one request and  *)
(* then writes each answer to its row.  Later it asks for the receipts of  *)
(* what was sent.  Between the read and the writes another dispatcher may  *)
(* do the same with the same rows, and devices come and go.                *)
(***************************************************************************)
EXTENDS Naturals, FiniteSets

CONSTANTS Deliveries,       \* rows (notification, device), in order of createdAt
          PushDevices,
          DeviceOf,         \* the device of a delivery
          PushWorkers,      \* server processes
          PushTake,         \* rows of one request: 100 in the code
          MaxAttempts,      \* attempts after which a row is left alone: 8
          MaxPushFaults     \* bound: crashes and failed calls in a behaviour

ASSUME DeliveriesAssumption == Deliveries \subseteq Nat
ASSUME PushWorkersAssumption == IsFiniteSet(PushWorkers)
ASSUME DeviceOfAssumption == DeviceOf \in [Deliveries -> PushDevices]
ASSUME PushLimitsAssumption == /\ PushTake \in Nat \ {0}
                               /\ MaxAttempts \in Nat \ {0}
                               /\ MaxPushFaults \in Nat

VARIABLES
    enabled,    \* enabled[d]: the device is enabled and has no disabledAt
    delivery,   \* status of each row
    attempts,   \* attempts of each row
    mayRetry,   \* mayRetry[k]: nextAttemptAt has been reached
    ripe,       \* ripe[k]: sentAt is at least 15 minutes ago
    checked,    \* checked[k]: receiptCheckedAt is set
    pushPc,     \* where each dispatcher is
    carried,    \* rows the dispatcher has read and not dealt with yet
    spoiled,    \* a write of the dispatcher's batch has failed
    posts,      \* history: requests naming the row that Expo received
    pushFaults

rows == <<enabled, delivery, attempts, mayRetry, ripe, checked>>
pushVars == <<enabled, delivery, attempts, mayRetry, ripe, checked,
              pushPc, carried, spoiled, posts, pushFaults>>

PushInit ==
    /\ enabled = [d \in PushDevices |-> FALSE]
    /\ delivery = [k \in Deliveries |-> "absent"]
    /\ attempts = [k \in Deliveries |-> 0]
    /\ mayRetry = [k \in Deliveries |-> TRUE]
    /\ ripe = [k \in Deliveries |-> FALSE]
    /\ checked = [k \in Deliveries |-> FALSE]
    /\ pushPc = [w \in PushWorkers |-> "idle"]
    /\ carried = [w \in PushWorkers |-> {}]
    /\ spoiled = [w \in PushWorkers |-> FALSE]
    /\ posts = [k \in Deliveries |-> 0]
    /\ pushFaults = 0

PushTypeOK ==
    /\ enabled \in [PushDevices -> BOOLEAN]
    /\ delivery \in [Deliveries -> {"absent", "PENDING", "SENT", "FAILED",
                                    "DELIVERED", "DEVICE_INVALID"}]
    /\ attempts \in [Deliveries -> Nat]
    /\ {mayRetry, ripe, checked} \subseteq [Deliveries -> BOOLEAN]
    /\ pushPc \in [PushWorkers -> {"idle", "selected", "answered", "refused",
                                   "sent", "receipts"}]
    /\ spoiled \in [PushWorkers -> BOOLEAN]
    /\ carried \in [PushWorkers -> SUBSET Deliveries]
    /\ posts \in [Deliveries -> Nat]
    /\ pushFaults \in 0..MaxPushFaults

PushGo(w, from, to) == pushPc[w] = from /\ pushPc' = [pushPc EXCEPT ![w] = to]

PushFault == pushFaults < MaxPushFaults /\ pushFaults' = pushFaults + 1

-----------------------------------------------------------------------------
(***************************************************************************)
(* The rest of the system: devices, new rows, time.                        *)
(***************************************************************************)
\* registerDevice: the upsert enables a known token again.
RegisterDevice(d) ==
    /\ enabled' = [enabled EXCEPT ![d] = TRUE]
    /\ UNCHANGED <<delivery, attempts, mayRetry, ripe, checked,
                   pushPc, carried, spoiled, posts, pushFaults>>

RemoveDevice(d) ==
    /\ enabled' = [enabled EXCEPT ![d] = FALSE]
    /\ UNCHANGED <<delivery, attempts, mayRetry, ripe, checked,
                   pushPc, carried, spoiled, posts, pushFaults>>

\* The projection of an event adds a row for each enabled device (skipDuplicates).
CreateDelivery(k) ==
    /\ enabled[DeviceOf[k]] /\ delivery[k] = "absent"
    /\ delivery' = [delivery EXCEPT ![k] = "PENDING"]
    /\ UNCHANGED <<enabled, attempts, mayRetry, ripe, checked,
                   pushPc, carried, spoiled, posts, pushFaults>>

PushTimePasses(k) ==
    /\ \/ /\ ~mayRetry[k] /\ mayRetry' = [mayRetry EXCEPT ![k] = TRUE]
          /\ UNCHANGED ripe
       \/ /\ delivery[k] = "SENT" /\ ~ripe[k]
          /\ ripe' = [ripe EXCEPT ![k] = TRUE]
          /\ UNCHANGED mayRetry
    /\ UNCHANGED <<enabled, delivery, attempts, checked,
                   pushPc, carried, spoiled, posts, pushFaults>>

-----------------------------------------------------------------------------
(***************************************************************************)
(* processPushDeliveries                                                   *)
(***************************************************************************)
\* Mutant: the attempts are counted but not limited.
SendableForEver(k) == delivery[k] \in {"PENDING", "FAILED"} /\ mayRetry[k] /\ enabled[DeviceOf[k]]

Sendable(k) == /\ delivery[k] \in {"PENDING", "FAILED"}
               /\ mayRetry[k]
               /\ attempts[k] < MaxAttempts
               /\ enabled[DeviceOf[k]]

\* Mutant: the rows are counted before those that cannot be sent are left out.
SelectOldestUnsent(w) ==
    LET unsent == {k \in Deliveries : delivery[k] \in {"PENDING", "FAILED"}}
        first == {k \in unsent : Cardinality({j \in unsent : j <= k}) <= PushTake /\ Sendable(k)}
    IN /\ PushGo(w, "idle", IF first = {} THEN "sent" ELSE "selected")
       /\ carried' = [carried EXCEPT ![w] = first]
       /\ UNCHANGED <<rows, spoiled, posts, pushFaults>>

\* The first PushTake sendable rows.
SelectDeliveries(w) ==
    LET all == {k \in Deliveries : Sendable(k)}
        first == {k \in all : Cardinality({j \in all : j <= k}) <= PushTake}
    IN /\ PushGo(w, "idle", IF all = {} THEN "sent" ELSE "selected")
       /\ carried' = [carried EXCEPT ![w] = first]
       /\ UNCHANGED <<rows, spoiled, posts, pushFaults>>

Received(S) == posts' = [k \in Deliveries |-> posts[k] + (IF k \in S THEN 1 ELSE 0)]

PostBatch(w) ==
    /\ PushGo(w, "selected", "answered")
    /\ Received(carried[w])
    /\ UNCHANGED <<rows, carried, spoiled, pushFaults>>

\* No answer or an answer that is not ok; Expo may have taken the batch.
PostFails(w) ==
    /\ PushFault /\ PushGo(w, "selected", "refused")
    /\ \/ Received(carried[w])
       \/ UNCHANGED posts
    /\ UNCHANGED <<rows, carried, spoiled>>

\* One write of the answers.  Every attempt is counted where the row stands now,
\* whatever another dispatcher has made of it since it was read.
Record(w, k, s) ==
    /\ k \in carried[w]
    /\ \/ pushPc[w] = "answered"
       \/ pushPc[w] = "refused" /\ s = "FAILED"
    /\ delivery' = [delivery EXCEPT ![k] = s]
    /\ attempts' = [attempts EXCEPT ![k] = @ + 1]
    /\ mayRetry' = [mayRetry EXCEPT ![k] = @ /\ s = "SENT"]
    /\ ripe' = [ripe EXCEPT ![k] = @ /\ s # "SENT"]
    /\ enabled' = [enabled EXCEPT ![DeviceOf[k]] = @ /\ s # "DEVICE_INVALID"]
    /\ carried' = [carried EXCEPT ![w] = @ \ {k}]
    /\ UNCHANGED <<checked, pushPc, spoiled, posts, pushFaults>>

\* A write fails: Promise.all rejects, and the other writes go on all the same.
RecordFails(w, k) ==
    /\ PushFault
    /\ pushPc[w] \in {"answered", "refused"} /\ k \in carried[w]
    /\ carried' = [carried EXCEPT ![w] = @ \ {k}]
    /\ spoiled' = [spoiled EXCEPT ![w] = TRUE]
    /\ UNCHANGED <<rows, pushPc, posts>>

FinishSending(w) ==
    /\ carried[w] = {}
    /\ pushPc[w] \in {"answered", "refused"}
    /\ pushPc' = [pushPc EXCEPT ![w] = IF spoiled[w] THEN "idle" ELSE "sent"]
    /\ spoiled' = [spoiled EXCEPT ![w] = FALSE]
    /\ UNCHANGED <<rows, carried, posts, pushFaults>>

-----------------------------------------------------------------------------
(***************************************************************************)
(* checkPushReceipts                                                       *)
(***************************************************************************)
AwaitsReceipt(k) == delivery[k] = "SENT" /\ ~checked[k] /\ ripe[k]

SelectReceipts(w) ==
    LET found == {k \in Deliveries : AwaitsReceipt(k)}
    IN /\ PushGo(w, "sent", IF found = {} THEN "idle" ELSE "receipts")
       /\ carried' = [carried EXCEPT ![w] = found]
       /\ UNCHANGED <<rows, spoiled, posts, pushFaults>>

\* The rows are written one after the other, by id alone.
RecordReceipt(w, k, s) ==
    /\ pushPc[w] = "receipts" /\ k \in carried[w]
    /\ delivery' = [delivery EXCEPT ![k] = s]
    /\ checked' = [checked EXCEPT ![k] = TRUE]
    /\ enabled' = [enabled EXCEPT ![DeviceOf[k]] = @ /\ s # "DEVICE_INVALID"]
    /\ carried' = [carried EXCEPT ![w] = @ \ {k}]
    /\ UNCHANGED <<attempts, mayRetry, ripe, pushPc, spoiled, posts, pushFaults>>

\* Expo does not know the receipt yet.
ReceiptMissing(w, k) ==
    /\ pushPc[w] = "receipts" /\ k \in carried[w]
    /\ carried' = [carried EXCEPT ![w] = @ \ {k}]
    /\ UNCHANGED <<rows, pushPc, spoiled, posts, pushFaults>>

FinishReceipts(w) ==
    /\ carried[w] = {} /\ PushGo(w, "receipts", "idle")
    /\ UNCHANGED <<rows, carried, spoiled, posts, pushFaults>>

\* The process dies, a query or the request for receipts fails, or an answer
\* cannot be read: what the run has not written yet it never writes.
AbandonRun(w) ==
    /\ PushFault /\ pushPc[w] # "idle"
    /\ pushPc' = [pushPc EXCEPT ![w] = "idle"]
    /\ carried' = [carried EXCEPT ![w] = {}]
    /\ spoiled' = [spoiled EXCEPT ![w] = FALSE]
    /\ UNCHANGED <<rows, posts>>

-----------------------------------------------------------------------------
PushStep(w) ==
    \/ SelectDeliveries(w)
    \/ PostBatch(w)
    \/ \E k \in Deliveries, s \in {"SENT", "FAILED", "DEVICE_INVALID"} : Record(w, k, s)
    \/ FinishSending(w)
    \/ SelectReceipts(w)
    \/ \E k \in Deliveries, s \in {"DELIVERED", "FAILED", "DEVICE_INVALID"} :
          RecordReceipt(w, k, s)
    \/ \E k \in Deliveries : ReceiptMissing(w, k)
    \/ FinishReceipts(w)

PushNext ==
    \/ \E d \in PushDevices : RegisterDevice(d) \/ RemoveDevice(d)
    \/ \E k \in Deliveries : CreateDelivery(k) \/ PushTimePasses(k)
    \/ \E w \in PushWorkers :
          \/ PushStep(w)
          \/ PostFails(w)
          \/ \E k \in Deliveries : RecordFails(w, k)
          \/ AbandonRun(w)

\* A process runs its dispatcher every few seconds, and time passes.
PushFairness ==
    /\ \A w \in PushWorkers : WF_pushVars(PushStep(w))
    /\ \A k \in Deliveries : WF_pushVars(PushTimePasses(k))

PushSpec == PushInit /\ [][PushNext]_pushVars /\ PushFairness

-----------------------------------------------------------------------------
\* However the dispatchers overlap, a row is posted at most once per counted
\* attempt, once more by each other dispatcher that had read it, and once more
\* for every failure that lost a count.
PushesAreBounded ==
    \A k \in Deliveries :
        posts[k] <= MaxAttempts - 1 + Cardinality(PushWorkers) + pushFaults

\* A pending row does not stay one: it is sent, its attempts are used up, or its
\* device has been disabled.  Neither older rows nor unanswered requests starve it.
PendingIsSettled ==
    \A k \in Deliveries :
        delivery[k] = "PENDING" ~>
            \/ delivery[k] \in {"SENT", "DELIVERED", "DEVICE_INVALID"}
            \/ attempts[k] >= MaxAttempts
            \/ ~enabled[DeviceOf[k]]
=============================================================================

--------------------------- MODULE DeliveryProofs ---------------------------
(***************************************************************************)
(* Proofs about what brings notifications to the app: Outbox (an event     *)
(* marked published has reached everyone), PushDelivery (the bound on how  *)
(* often a row is posted) and RealtimeSocket (the app is connected or on   *)
(* its way to be).                                                         *)
(***************************************************************************)
EXTENDS Outbox, PushDelivery, RealtimeSocket, FiniteSetTheorems, TLAPS

-----------------------------------------------------------------------------
(***************************************************************************)
(* Push delivery. A dispatcher that has read a row holds it until it       *)
(* writes the row's answer. Rows are read below MaxAttempts, so a row's    *)
(* attempts and its holders together stay below MaxAttempts plus the       *)
(* dispatchers; and every post is counted, about to be counted, or lost by *)
(* a fault.                                                                *)
(***************************************************************************)
Holders(k) == {w \in PushWorkers : /\ pushPc[w] \in {"selected", "answered", "refused"}
                                   /\ k \in carried[w]}

Uncounted(k) == {w \in PushWorkers : /\ pushPc[w] \in {"answered", "refused"}
                                     /\ k \in carried[w]}

AttemptsAreBounded ==
    \A k \in Deliveries :
        attempts[k] + Cardinality(Holders(k)) <= MaxAttempts - 1 + Cardinality(PushWorkers)

PostsAreCounted ==
    \A k \in Deliveries : posts[k] <= attempts[k] + Cardinality(Uncounted(k)) + pushFaults

PushInv == PushTypeOK /\ AttemptsAreBounded /\ PostsAreCounted

-----------------------------------------------------------------------------
LEMMA Counting ==
    ASSUME NEW S \in SUBSET PushWorkers, NEW T \in SUBSET PushWorkers
    PROVE  /\ Cardinality(S) \in Nat /\ Cardinality(T) \in Nat
           /\ Cardinality(PushWorkers) \in Nat
           /\ Cardinality(S) <= Cardinality(PushWorkers)
           /\ S \subseteq T => Cardinality(S) <= Cardinality(T)
           /\ \A w \in S : T = S \ {w} => Cardinality(T) = Cardinality(S) - 1
<1>1. IsFiniteSet(PushWorkers) /\ IsFiniteSet(S) /\ IsFiniteSet(T)
  BY PushWorkersAssumption, FS_Subset DEF PushWorkersAssumption
<1>2. /\ Cardinality(S) \in Nat /\ Cardinality(T) \in Nat
      /\ Cardinality(PushWorkers) \in Nat
  BY <1>1, FS_CardinalityType
<1>3. Cardinality(S) <= Cardinality(PushWorkers)
  BY <1>1, FS_Subset
<1>4. S \subseteq T => Cardinality(S) <= Cardinality(T)
  BY <1>1, FS_Subset
<1>5. ASSUME NEW w \in S, T = S \ {w} PROVE Cardinality(T) = Cardinality(S) - 1
  BY <1>1, <1>5, FS_RemoveElement
<1> QED
  BY <1>2, <1>3, <1>4, <1>5

LEMMA PushSets ==
    ASSUME NEW k \in Deliveries
    PROVE  /\ Holders(k) \in SUBSET PushWorkers /\ Uncounted(k) \in SUBSET PushWorkers
           /\ Holders(k)' \in SUBSET PushWorkers /\ Uncounted(k)' \in SUBSET PushWorkers
           /\ Uncounted(k) \subseteq Holders(k)
  BY DEF Holders, Uncounted

LEMMA PushInitInv == PushInit => PushInv
<1> SUFFICES ASSUME PushInit PROVE PushInv
  OBVIOUS
<1>1. PushTypeOK
  <2>1. /\ enabled \in [PushDevices -> BOOLEAN]
        /\ {mayRetry, ripe, checked} \subseteq [Deliveries -> BOOLEAN]
        /\ spoiled \in [PushWorkers -> BOOLEAN]
    BY DEF PushInit
  <2>2. pushFaults \in 0..MaxPushFaults
    BY PushLimitsAssumption DEF PushInit, PushLimitsAssumption
  <2> QED
    BY <2>1, <2>2 DEF PushTypeOK, PushInit
<1>2. ASSUME NEW k \in Deliveries PROVE Holders(k) = {} /\ Uncounted(k) = {}
  BY DEF PushInit, Holders, Uncounted
<1>3. ASSUME NEW k \in Deliveries
      PROVE  Cardinality(Holders(k)) \in Nat /\ Cardinality(Uncounted(k)) \in Nat
  BY PushSets, Counting
<1>4. ASSUME NEW k \in Deliveries
      PROVE  Cardinality(Holders(k)) <= Cardinality(PushWorkers)
             /\ Cardinality(PushWorkers) \in Nat
  BY PushSets, Counting
<1>5. AttemptsAreBounded /\ PostsAreCounted
  BY <1>3, <1>4, PushLimitsAssumption
     DEF AttemptsAreBounded, PostsAreCounted, PushInit, PushLimitsAssumption
<1> QED
  BY <1>1, <1>5 DEF PushInv

-----------------------------------------------------------------------------
(***************************************************************************)
(* The types.                                                              *)
(***************************************************************************)
LEMMA DeviceOfType == \A k \in Deliveries : DeviceOf[k] \in PushDevices
  BY DeviceOfAssumption DEF DeviceOfAssumption

LEMMA PushNextTypes == PushTypeOK /\ [PushNext]_pushVars => PushTypeOK'
<1> SUFFICES ASSUME PushTypeOK, [PushNext]_pushVars PROVE PushTypeOK'
  OBVIOUS
<1> USE PushLimitsAssumption
        DEF PushTypeOK, PushGo, PushFault, rows, PushLimitsAssumption
<1>1. ASSUME NEW d \in PushDevices, RegisterDevice(d) \/ RemoveDevice(d) PROVE PushTypeOK'
  BY <1>1 DEF RegisterDevice, RemoveDevice
<1>2. ASSUME NEW k \in Deliveries, CreateDelivery(k) PROVE PushTypeOK'
  BY <1>2 DEF CreateDelivery
<1>3. ASSUME NEW k \in Deliveries, PushTimePasses(k) PROVE PushTypeOK'
  <2>1. mayRetry' \in [Deliveries -> BOOLEAN] /\ ripe' \in [Deliveries -> BOOLEAN]
    BY <1>3 DEF PushTimePasses
  <2> QED
    BY <2>1, <1>3 DEF PushTimePasses
<1>4. ASSUME NEW w \in PushWorkers, SelectDeliveries(w) PROVE PushTypeOK'
  BY <1>4 DEF SelectDeliveries
<1>5. ASSUME NEW w \in PushWorkers, PostBatch(w) \/ PostFails(w) PROVE PushTypeOK'
  <2>1. posts' \in [Deliveries -> Nat]
    BY <1>5 DEF PostBatch, PostFails, Received
  <2> QED
    BY <2>1, <1>5 DEF PostBatch, PostFails
<1>6. ASSUME NEW w \in PushWorkers, NEW k \in Deliveries,
             NEW s \in {"SENT", "FAILED", "DEVICE_INVALID"}, Record(w, k, s)
      PROVE  PushTypeOK'
  <2>1. /\ enabled' \in [PushDevices -> BOOLEAN]
        /\ {mayRetry', ripe', checked'} \subseteq [Deliveries -> BOOLEAN]
    BY <1>6, DeviceOfType DEF Record
  <2> QED
    BY <2>1, <1>6 DEF Record
<1>7. ASSUME NEW w \in PushWorkers, NEW k \in Deliveries, RecordFails(w, k) PROVE PushTypeOK'
  BY <1>7 DEF RecordFails
<1>8. ASSUME NEW w \in PushWorkers, FinishSending(w) \/ FinishReceipts(w) PROVE PushTypeOK'
  BY <1>8 DEF FinishSending, FinishReceipts
<1>9. ASSUME NEW w \in PushWorkers, SelectReceipts(w) PROVE PushTypeOK'
  BY <1>9 DEF SelectReceipts
<1>10. ASSUME NEW w \in PushWorkers, NEW k \in Deliveries,
              NEW s \in {"DELIVERED", "FAILED", "DEVICE_INVALID"}, RecordReceipt(w, k, s)
       PROVE  PushTypeOK'
  <2>1. /\ enabled' \in [PushDevices -> BOOLEAN]
        /\ {mayRetry', ripe', checked'} \subseteq [Deliveries -> BOOLEAN]
    BY <1>10, DeviceOfType DEF RecordReceipt
  <2> QED
    BY <2>1, <1>10 DEF RecordReceipt
<1>11. ASSUME NEW w \in PushWorkers, NEW k \in Deliveries, ReceiptMissing(w, k)
       PROVE  PushTypeOK'
  BY <1>11 DEF ReceiptMissing
<1>12. ASSUME NEW w \in PushWorkers, AbandonRun(w) PROVE PushTypeOK'
  BY <1>12 DEF AbandonRun
<1>13. CASE UNCHANGED pushVars
  BY <1>13 DEF pushVars
<1> QED
  BY <1>1, <1>2, <1>3, <1>4, <1>5, <1>6, <1>7, <1>8, <1>9, <1>10, <1>11, <1>12, <1>13
     DEF PushNext, PushStep

-----------------------------------------------------------------------------
(***************************************************************************)
(* The bound.                                                              *)
(***************************************************************************)
\* A step that neither posts nor counts, and leaves every row with its holders.
LEMMA QuietPushStep ==
    ASSUME PushInv, PushTypeOK', UNCHANGED <<attempts, posts, pushFaults>>,
           \A k \in Deliveries : Holders(k)' = Holders(k) /\ Uncounted(k)' = Uncounted(k)
    PROVE  PushInv'
  BY DEF PushInv, AttemptsAreBounded, PostsAreCounted

LEMMA QuietPushSteps ==
    ASSUME PushInv, PushTypeOK',
           \/ \E d \in PushDevices : RegisterDevice(d) \/ RemoveDevice(d)
           \/ \E k \in Deliveries : CreateDelivery(k) \/ PushTimePasses(k)
           \/ \E w \in PushWorkers :
                 \/ FinishSending(w) \/ SelectReceipts(w) \/ FinishReceipts(w)
                 \/ \E k \in Deliveries, s \in {"DELIVERED", "FAILED", "DEVICE_INVALID"} :
                       RecordReceipt(w, k, s)
                 \/ \E k \in Deliveries : ReceiptMissing(w, k)
           \/ UNCHANGED pushVars
    PROVE  PushInv'
<1> USE DEF PushInv, PushTypeOK, PushGo, rows, Holders, Uncounted
<1>1. ASSUME NEW d \in PushDevices, RegisterDevice(d) \/ RemoveDevice(d) PROVE PushInv'
  BY <1>1, QuietPushStep DEF RegisterDevice, RemoveDevice
<1>2. ASSUME NEW k \in Deliveries, CreateDelivery(k) \/ PushTimePasses(k) PROVE PushInv'
  BY <1>2, QuietPushStep DEF CreateDelivery, PushTimePasses
<1>3. ASSUME NEW w \in PushWorkers,
             FinishSending(w) \/ SelectReceipts(w) \/ FinishReceipts(w)
      PROVE  PushInv'
  BY <1>3, QuietPushStep DEF FinishSending, SelectReceipts, FinishReceipts
<1>4. ASSUME NEW w \in PushWorkers, NEW k \in Deliveries, NEW s, RecordReceipt(w, k, s)
      PROVE  PushInv'
  BY <1>4, QuietPushStep DEF RecordReceipt
<1>5. ASSUME NEW w \in PushWorkers, NEW k \in Deliveries, ReceiptMissing(w, k)
      PROVE  PushInv'
  BY <1>5, QuietPushStep DEF ReceiptMissing
<1>6. CASE UNCHANGED pushVars
  BY <1>6, QuietPushStep DEF pushVars
<1> QED
  BY <1>1, <1>2, <1>3, <1>4, <1>5, <1>6

\* A row is read below MaxAttempts: whoever holds it then is a dispatcher.
LEMMA SelectInv ==
    ASSUME PushInv, PushTypeOK', NEW w \in PushWorkers, SelectDeliveries(w)
    PROVE  PushInv'
<1>1. UNCHANGED <<attempts, posts, pushFaults>>
  BY DEF SelectDeliveries, rows
<1>2. ASSUME NEW k \in Deliveries
      PROVE  /\ Uncounted(k)' = Uncounted(k)
             /\ Holders(k)' \subseteq Holders(k) \/ attempts[k] < MaxAttempts
  BY DEF SelectDeliveries, PushGo, Uncounted, Holders, Sendable, PushInv, PushTypeOK
<1>3. ASSUME NEW k \in Deliveries
      PROVE  attempts'[k] + Cardinality(Holders(k)')
                 <= MaxAttempts - 1 + Cardinality(PushWorkers)
  <2>1. attempts[k] \in Nat
    BY DEF PushInv, PushTypeOK
  <2>2. /\ Cardinality(Holders(k)') \in Nat /\ Cardinality(Holders(k)) \in Nat
        /\ Cardinality(PushWorkers) \in Nat
        /\ Cardinality(Holders(k)') <= Cardinality(PushWorkers)
        /\ Holders(k)' \subseteq Holders(k) =>
              Cardinality(Holders(k)') <= Cardinality(Holders(k))
    BY PushSets, Counting
  <2>3. attempts[k] + Cardinality(Holders(k)) <= MaxAttempts - 1 + Cardinality(PushWorkers)
    BY DEF PushInv, AttemptsAreBounded
  <2> QED
    BY <1>1, <1>2, <2>1, <2>2, <2>3, PushLimitsAssumption DEF PushLimitsAssumption
<1> QED
  BY <1>1, <1>2, <1>3 DEF PushInv, AttemptsAreBounded, PostsAreCounted

\* What Expo may have received is about to be counted, or a fault.
LEMMA PostInv ==
    ASSUME PushInv, PushTypeOK', NEW w \in PushWorkers, PostBatch(w) \/ PostFails(w)
    PROVE  PushInv'
<1>1. UNCHANGED <<attempts, carried>> /\ pushFaults' \in {pushFaults, pushFaults + 1}
  BY DEF PostBatch, PostFails, PushFault, rows
<1>2. ASSUME NEW k \in Deliveries
      PROVE  /\ Holders(k)' = Holders(k)
             /\ IF k \in carried[w]
                THEN w \in Uncounted(k)' /\ Uncounted(k) = Uncounted(k)' \ {w}
                ELSE Uncounted(k)' = Uncounted(k)
  BY DEF PostBatch, PostFails, PushGo, Uncounted, Holders, PushInv, PushTypeOK
<1>3. ASSUME NEW k \in Deliveries
      PROVE  posts'[k] <= posts[k] + (IF k \in carried[w] THEN 1 ELSE 0)
  BY DEF PostBatch, PostFails, Received, PushInv, PushTypeOK
<1>4. ASSUME NEW k \in Deliveries
      PROVE  posts'[k] <= attempts'[k] + Cardinality(Uncounted(k)') + pushFaults'
  <2>1. /\ attempts[k] \in Nat /\ posts[k] \in Nat /\ posts'[k] \in Nat
        /\ pushFaults \in Nat
    BY PushLimitsAssumption DEF PushInv, PushTypeOK, PushLimitsAssumption
  <2>2. /\ Cardinality(Uncounted(k)') \in Nat /\ Cardinality(Uncounted(k)) \in Nat
        /\ k \in carried[w] => Cardinality(Uncounted(k)) = Cardinality(Uncounted(k)') - 1
    BY <1>2, PushSets, Counting
  <2>3. posts[k] <= attempts[k] + Cardinality(Uncounted(k)) + pushFaults
    BY DEF PushInv, PostsAreCounted
  <2>4. CASE k \in carried[w]
    BY <2>4, <1>1, <1>3, <2>1, <2>2, <2>3
  <2>5. CASE k \notin carried[w]
    BY <2>5, <1>1, <1>2, <1>3, <2>1, <2>2, <2>3
  <2> QED
    BY <2>4, <2>5
<1> QED
  BY <1>1, <1>2, <1>4 DEF PushInv, AttemptsAreBounded, PostsAreCounted

\* Writing an answer counts the attempt and gives the row up.
LEMMA RecordInv ==
    ASSUME PushInv, PushTypeOK', NEW w \in PushWorkers, NEW j \in Deliveries,
           NEW s \in {"SENT", "FAILED", "DEVICE_INVALID"}, Record(w, j, s)
    PROVE  PushInv'
<1>1. /\ attempts' = [attempts EXCEPT ![j] = @ + 1]
      /\ UNCHANGED <<posts, pushFaults>>
  BY DEF Record
<1>2. ASSUME NEW k \in Deliveries
      PROVE  IF k = j
             THEN /\ w \in Holders(k) /\ Holders(k)' = Holders(k) \ {w}
                  /\ w \in Uncounted(k) /\ Uncounted(k)' = Uncounted(k) \ {w}
             ELSE Holders(k)' = Holders(k) /\ Uncounted(k)' = Uncounted(k)
  BY DEF Record, Uncounted, Holders, PushInv, PushTypeOK
<1>3. ASSUME NEW k \in Deliveries
      PROVE  /\ attempts'[k] + Cardinality(Holders(k)')
                    <= MaxAttempts - 1 + Cardinality(PushWorkers)
             /\ posts'[k] <= attempts'[k] + Cardinality(Uncounted(k)') + pushFaults'
  <2>1. /\ attempts[k] \in Nat /\ posts[k] \in Nat /\ pushFaults \in Nat
        /\ attempts'[k] = IF k = j THEN attempts[k] + 1 ELSE attempts[k]
    BY <1>1, PushLimitsAssumption DEF PushInv, PushTypeOK, PushLimitsAssumption
  <2>2. /\ Cardinality(Holders(k)) \in Nat /\ Cardinality(Uncounted(k)) \in Nat
        /\ Cardinality(PushWorkers) \in Nat
        /\ k = j => /\ Cardinality(Holders(k)') = Cardinality(Holders(k)) - 1
                    /\ Cardinality(Uncounted(k)') = Cardinality(Uncounted(k)) - 1
    BY <1>2, PushSets, Counting
  <2>3. /\ attempts[k] + Cardinality(Holders(k)) <= MaxAttempts - 1 + Cardinality(PushWorkers)
        /\ posts[k] <= attempts[k] + Cardinality(Uncounted(k)) + pushFaults
    BY DEF PushInv, AttemptsAreBounded, PostsAreCounted
  <2>4. CASE k = j
    BY <2>4, <1>1, <2>1, <2>2, <2>3, PushLimitsAssumption DEF PushLimitsAssumption
  <2>5. CASE k # j
    BY <2>5, <1>1, <1>2, <2>1, <2>2, <2>3
  <2> QED
    BY <2>4, <2>5
<1> QED
  BY <1>3 DEF PushInv, AttemptsAreBounded, PostsAreCounted

\* A fault takes rows from one dispatcher uncounted, and counts itself.
LEMMA FaultInv ==
    ASSUME PushInv, PushTypeOK', NEW w \in PushWorkers,
           AbandonRun(w) \/ \E j \in Deliveries : RecordFails(w, j)
    PROVE  PushInv'
<1>1. UNCHANGED <<attempts, posts>> /\ pushFaults' = pushFaults + 1
  BY DEF AbandonRun, RecordFails, PushFault, rows
<1>2. ASSUME NEW k \in Deliveries
      PROVE  /\ Holders(k)' \subseteq Holders(k)
             /\ Uncounted(k)' = Uncounted(k) \/ Uncounted(k)' = Uncounted(k) \ {w}
  BY DEF AbandonRun, RecordFails, Uncounted, Holders, PushInv, PushTypeOK
<1>3. ASSUME NEW k \in Deliveries
      PROVE  /\ attempts'[k] + Cardinality(Holders(k)')
                    <= MaxAttempts - 1 + Cardinality(PushWorkers)
             /\ posts'[k] <= attempts'[k] + Cardinality(Uncounted(k)') + pushFaults'
  <2>1. attempts[k] \in Nat /\ posts[k] \in Nat /\ pushFaults \in Nat
    BY PushLimitsAssumption DEF PushInv, PushTypeOK, PushLimitsAssumption
  <2>2. /\ Cardinality(Holders(k)) \in Nat /\ Cardinality(Holders(k)') \in Nat
        /\ Cardinality(PushWorkers) \in Nat
        /\ Cardinality(Holders(k)') <= Cardinality(Holders(k))
    BY <1>2, PushSets, Counting
  <2>3. /\ Cardinality(Uncounted(k)) \in Nat /\ Cardinality(Uncounted(k)') \in Nat
        /\ Cardinality(Uncounted(k)) <= Cardinality(Uncounted(k)') + 1
    <3>1. CASE Uncounted(k)' = Uncounted(k)
      BY <3>1, PushSets, Counting
    <3>2. CASE w \in Uncounted(k) /\ Uncounted(k)' = Uncounted(k) \ {w}
      BY <3>2, PushSets, Counting
    <3> QED
      BY <1>2, <3>1, <3>2
  <2>4. /\ attempts[k] + Cardinality(Holders(k)) <= MaxAttempts - 1 + Cardinality(PushWorkers)
        /\ posts[k] <= attempts[k] + Cardinality(Uncounted(k)) + pushFaults
    BY DEF PushInv, AttemptsAreBounded, PostsAreCounted
  <2> QED
    BY <1>1, <2>1, <2>2, <2>3, <2>4, PushLimitsAssumption DEF PushLimitsAssumption
<1> QED
  BY <1>3 DEF PushInv, AttemptsAreBounded, PostsAreCounted

LEMMA PushNextInv == PushInv /\ [PushNext]_pushVars => PushInv'
<1> SUFFICES ASSUME PushInv, [PushNext]_pushVars PROVE PushInv'
  OBVIOUS
<1>1. PushTypeOK'
  BY PushNextTypes DEF PushInv
<1> QED
  BY <1>1, QuietPushSteps, SelectInv, PostInv, RecordInv, FaultInv DEF PushNext, PushStep

LEMMA PushInductive == PushSpec => []PushInv
  BY PushInitInv, PushNextInv, PTL DEF PushSpec

-----------------------------------------------------------------------------
\* The types of the rows, the devices and the dispatchers.
THEOREM PushTypes == PushSpec => []PushTypeOK
<1>1. PushInv => PushTypeOK
  BY DEF PushInv
<1> QED
  BY <1>1, PushInductive, PTL

\* However many dispatchers share the rows without claiming them, a row is posted at
\* most MaxAttempts - 1 times, once more by each dispatcher and once more per fault.
THEOREM PostsHaveABound == PushSpec => []PushesAreBounded
<1>1. ASSUME PushInv, NEW k \in Deliveries
      PROVE  posts[k] <= MaxAttempts - 1 + Cardinality(PushWorkers) + pushFaults
  <2>1. attempts[k] \in Nat /\ posts[k] \in Nat /\ pushFaults \in Nat
    BY <1>1, PushLimitsAssumption DEF PushInv, PushTypeOK, PushLimitsAssumption
  <2>2. /\ Cardinality(Uncounted(k)) \in Nat /\ Cardinality(Holders(k)) \in Nat
        /\ Cardinality(PushWorkers) \in Nat
        /\ Cardinality(Uncounted(k)) <= Cardinality(Holders(k))
    BY PushSets, Counting
  <2>3. /\ attempts[k] + Cardinality(Holders(k)) <= MaxAttempts - 1 + Cardinality(PushWorkers)
        /\ posts[k] <= attempts[k] + Cardinality(Uncounted(k)) + pushFaults
    BY <1>1 DEF PushInv, AttemptsAreBounded, PostsAreCounted
  <2> QED
    BY <2>1, <2>2, <2>3, PushLimitsAssumption DEF PushLimitsAssumption
<1>2. PushInv => PushesAreBounded
  BY <1>1 DEF PushesAreBounded
<1> QED
  BY <1>2, PushInductive, PTL

-----------------------------------------------------------------------------
(***************************************************************************)
(* The socket of the app. An app that is present is connected or on its    *)
(* way to be, for any number of connections, hubs and connects that cross. *)
(***************************************************************************)
SocketInv == SocketTypeOK /\ (present => wanted) /\ AlwaysOnTheWay

-----------------------------------------------------------------------------
LEMMA SocketInitInv == SocketInit => SocketInv
<1> SUFFICES ASSUME SocketInit PROVE SocketInv
  OBVIOUS
<1>1. SocketTypeOK
  <2>1. {wanted, timer, present} \subseteq BOOLEAN
    BY Zenon DEF SocketInit
  <2>2. connects \in 0..MaxConnects
    BY MaxConnectsAssumption DEF SocketInit
  <2>3. {isAlive, cut} \subseteq [Sockets -> BOOLEAN]
    BY DEF SocketInit
  <2>4. onRedis \in [Hubs -> BOOLEAN]
    BY DEF SocketInit
  <2> QED
    BY <2>1, <2>2, <2>3, <2>4 DEF SocketTypeOK, SocketInit
<1> QED
  BY <1>1 DEF SocketInit, SocketInv, AlwaysOnTheWay

\* A step of the wire: nothing of the app changes, and no end that it has is lost.
LEMMA WireKeepsTheWay ==
    ASSUME SocketInv, SocketTypeOK', UNCHANGED app,
           \A s \in Sockets : client[s] # "none" => client'[s] # "none"
    PROVE  SocketInv'
  BY DEF SocketInv, SocketTypeOK, AlwaysOnTheWay, app

\* The steps of the wire, each with the ends it leaves.
LEMMA WireTypes ==
    ASSUME SocketInv, NEW s \in Sockets,
           \/ Opened(s) \/ Failed(s) \/ Ended(s) \/ Upgrade(s) \/ PeerClosed(s)
           \/ Heartbeat(s) \/ Pong(s) \/ CutOff(s)
    PROVE  /\ SocketTypeOK' /\ UNCHANGED app
           /\ \A c \in Sockets : client[c] # "none" => client'[c] # "none"
<1> USE DEF SocketInv, SocketTypeOK, Live, app, tickets
<1>1. CASE Opened(s)
  BY <1>1 DEF Opened
<1>2. CASE Failed(s)
  BY <1>2 DEF Failed
<1>3. CASE Ended(s)
  BY <1>3 DEF Ended
<1>4. CASE Upgrade(s)
  BY <1>4 DEF Upgrade
<1>5. CASE PeerClosed(s)
  BY <1>5 DEF PeerClosed
<1>6. CASE Heartbeat(s)
  <2>1. isAlive' \in [Sockets -> BOOLEAN] /\ cut' \in [Sockets -> BOOLEAN]
    BY <1>6 DEF Heartbeat
  <2>2. /\ client' \in [Sockets -> {"none", "connecting", "open", "closing"}]
        /\ peer' \in [Sockets -> {"none", "checking", "open"}]
        /\ \A c \in Sockets : client[c] # "none" => client'[c] # "none"
    BY <1>6 DEF Heartbeat
  <2> QED
    BY <2>1, <2>2, <1>6 DEF Heartbeat
<1>7. CASE Pong(s)
  BY <1>7 DEF Pong
<1>8. CASE CutOff(s)
  BY <1>8 DEF CutOff
<1> QED
  BY <1>1, <1>2, <1>3, <1>4, <1>5, <1>6, <1>7, <1>8

LEMMA SocketNextInv == SocketInv /\ [SocketNext]_socketVars => SocketInv'
<1> SUFFICES ASSUME SocketInv, [SocketNext]_socketVars PROVE SocketInv'
  OBVIOUS
<1> USE NoSocketAssumption, MaxConnectsAssumption
        DEF SocketInv, SocketTypeOK, AlwaysOnTheWay, Live, ScheduleReconnect, wire, tickets
<1>1. CASE Connect
  BY <1>1 DEF Connect, Connecting
<1>2. CASE ReconnectTimer
  <2>1. wanted' = TRUE /\ timer' = FALSE /\ present' = present /\ socket' = socket
    BY <1>2 DEF ReconnectTimer, Connecting
  <2>2. CASE Live(socket)
    BY <2>1, <2>2, <1>2 DEF ReconnectTimer, Connecting
  <2>3. CASE ~Live(socket)
    <3>1. connects' \in 1..MaxConnects
      BY <2>3, <1>2 DEF ReconnectTimer, Connecting
    <3>2. {wanted', timer', present'} \subseteq BOOLEAN
      BY <2>1, Zenon
    <3>3. SocketTypeOK'
      BY <2>1, <3>1, <3>2, <1>2 DEF ReconnectTimer
    <3>4. (present' => wanted') /\ AlwaysOnTheWay'
      BY <2>1, <3>1
    <3> QED
      BY <3>3, <3>4
  <2> QED
    BY <2>2, <2>3
<1>3. CASE TicketRefused
  BY <1>3 DEF TicketRefused
<1>4. CASE Disconnect
  BY <1>4 DEF Disconnect
<1>5. ASSUME NEW h \in Hubs, NEW s \in Sockets, TicketIssued(h, s) PROVE SocketInv'
  BY <1>5 DEF TicketIssued
<1>6. ASSUME NEW h \in Hubs, NEW s \in Sockets, Consume(h, s) PROVE SocketInv'
  BY <1>6 DEF Consume, app
<1>7. ASSUME NEW s \in Sockets, OnClose(s) PROVE SocketInv'
  BY <1>7 DEF OnClose
<1>8. ASSUME NEW h \in Hubs, RedisFlips(h) PROVE SocketInv'
  BY <1>8 DEF RedisFlips, app
<1>9. CASE UNCHANGED socketVars
  BY <1>9 DEF socketVars
<1> QED
  BY <1>1, <1>2, <1>3, <1>4, <1>5, <1>6, <1>7, <1>8, <1>9, WireTypes, WireKeepsTheWay
     DEF SocketNext

LEMMA SocketInductive == SocketSpec => []SocketInv
  BY SocketInitInv, SocketNextInv, PTL DEF SocketSpec

-----------------------------------------------------------------------------
\* The types of the store, the connections and the tickets.
THEOREM SocketTypes == SocketSpec => []SocketTypeOK
<1>1. SocketInv => SocketTypeOK
  BY DEF SocketInv
<1> QED
  BY <1>1, SocketInductive, PTL

\* While a user is there and the app is active, there is a connection with a close
\* still to come, a ticket awaited or a timer, whatever socket a callback belongs to.
THEOREM OnTheWay == SocketSpec => []AlwaysOnTheWay
<1>1. SocketInv => AlwaysOnTheWay
  BY DEF SocketInv
<1> QED
  BY <1>1, SocketInductive, PTL

-----------------------------------------------------------------------------
(***************************************************************************)
(* The outbox dispatcher, for any number of events, users, workers and     *)
(* faults.                                                                 *)
(***************************************************************************)
USE EventsAssumption, RecipientsAssumption, LimitAssumption, FaultsAssumption

-----------------------------------------------------------------------------
(***************************************************************************)
(* The inductive invariant.                                                *)
(***************************************************************************)

\* What a worker holds has been recorded.
HeldIsRecorded ==
    \A w \in Workers : \A e \in locked[w] \cup batch[w] : outbox[e] # "absent"

\* Only inbox rows are announced, and a row is lost to retention alone.
HeardHasCopy == heard \subseteq notif \cup expired

\* A worker that is publishing an event has all its copies written, and the
\* recipients it has still to tell are the only ones that may not have heard.
Publishing(w, e) ==
    /\ todo[w] \subseteq Recipients[e]
    /\ Copies(e) \subseteq notif \cup expired
    /\ \A u \in Recipients[e] \ todo[w] : <<e, u>> \in heard

PublishingIsSafe ==
    \A w \in Workers, e \in Events :
        pc[w] = "publish" /\ Current(w, e) => Publishing(w, e)

IInv == /\ TypeOK
        /\ HeldIsRecorded
        /\ HeardHasCopy
        /\ PublishingIsSafe
        /\ PublishedReachedEveryone

-----------------------------------------------------------------------------
\* Every step keeps the types.
LEMMA TypeStep == TypeOK /\ [Next]_vars => TypeOK'
<1> SUFFICES ASSUME TypeOK, [Next]_vars PROVE TypeOK'
  OBVIOUS
<1> USE DEF TypeOK, Go, Fault, Copies
<1>1. CASE UNCHANGED vars
  BY <1>1 DEF vars
<1>2. ASSUME NEW e \in Events, EnqueueDomainEvent(e) \/ TimePasses(e)
      PROVE TypeOK'
  BY <1>2 DEF EnqueueDomainEvent, TimePasses
<1>3. ASSUME NEW w \in Workers, WorkerStep(w) PROVE TypeOK'
  <2>1. CASE StartOutboxDispatcher(w)
    BY <2>1 DEF StartOutboxDispatcher, tables
  <2>2. CASE ProcessOutboxOnce(w)
    BY <2>2 DEF ProcessOutboxOnce, tables
  <2>3. CASE SelectForUpdate(w)
    BY <2>3 DEF SelectForUpdate, tables, Earliest, Claimable
  <2>4. CASE LeaseAndCommit(w)
    BY <2>4 DEF LeaseAndCommit
  <2>5. ASSUME NEW e \in Events, EventStep(w, e) PROVE TypeOK'
    <3>1. CASE ProjectEvent(w, e)
      BY <3>1 DEF ProjectEvent
    <3>2. ASSUME NEW u \in Users, PublishRealtime(w, e, u) PROVE TypeOK'
      BY <3>2 DEF PublishRealtime
    <3>3. CASE MarkPublished(w, e)
      BY <3>3 DEF MarkPublished, LoopOn
    <3>4. CASE ScheduleRetry(w, e)
      BY <3>4 DEF ScheduleRetry, LoopOn
    <3> QED BY <2>5, <3>1, <3>2, <3>3, <3>4 DEF EventStep
  <2>6. CASE FinishBatch(w)
    BY <2>6 DEF FinishBatch, Expirable
  <2>7. CASE CheckFollowUp(w)
    BY <2>7 DEF CheckFollowUp, tables
  <2>8. CASE ClearActiveRun(w)
    BY <2>8 DEF ClearActiveRun, tables
  <2> QED BY <1>3, <2>1, <2>2, <2>3, <2>4, <2>5, <2>6, <2>7, <2>8 DEF WorkerStep
<1>4. ASSUME NEW w \in Workers, WorkerFault(w) PROVE TypeOK'
  <2>1. CASE ClaimFails(w)
    <3>1. due' \in [Events -> BOOLEAN]
      BY <2>1 DEF ClaimFails
    <3>2. /\ pc' = [pc EXCEPT ![w] = "check"]
          /\ locked' = [locked EXCEPT ![w] = {}]
          /\ faults' \in 0..MaxFaults
          /\ UNCHANGED <<outbox, notif, expired, heard, followUp, batch, todo>>
      BY <2>1 DEF ClaimFails
    <3> QED BY <3>1, <3>2
  <2>2. ASSUME NEW e \in Events, EventFault(w, e) PROVE TypeOK'
    <3>1. CASE ProjectionFails(w, e)
      BY <3>1 DEF ProjectionFails
    <3>2. CASE PublishFails(w, e)
      BY <3>2 DEF PublishFails, tables
    <3>3. CASE MarkFails(w, e)
      BY <3>3 DEF MarkFails
    <3>4. CASE ScheduleRetryFails(w, e)
      <4>1. due' \in [Events -> BOOLEAN]
        BY <3>4 DEF ScheduleRetryFails
      <4>2. /\ pc' = [pc EXCEPT ![w] = "check"]
            /\ batch' = [batch EXCEPT ![w] = {}]
            /\ todo' = [todo EXCEPT ![w] = {}]
            /\ faults' \in 0..MaxFaults
            /\ UNCHANGED <<outbox, notif, expired, heard, followUp, locked>>
        BY <3>4 DEF ScheduleRetryFails
      <4> QED BY <4>1, <4>2
    <3> QED BY <2>2, <3>1, <3>2, <3>3, <3>4 DEF EventFault
  <2>3. CASE FinishBatchFails(w)
    BY <2>3 DEF FinishBatchFails, tables
  <2>4. CASE Crash(w)
    BY <2>4 DEF Crash, tables
  <2> QED BY <1>4, <2>1, <2>2, <2>3, <2>4 DEF WorkerFault
<1> QED BY <1>1, <1>2, <1>3, <1>4 DEF Next, Environment

\* Every variable keeps its type, whatever fails or crashes.
THEOREM OutboxTypes == Spec => []TypeOK
<1>1. Init => TypeOK
  BY DEF Init, TypeOK
<1> QED BY <1>1, TypeStep, PTL DEF Spec

-----------------------------------------------------------------------------
\* A step keeps the invariant when it announces nothing, publishes no event and
\* leaves the workers that are publishing where they are.
LEMMA QuietStep ==
    ASSUME IInv, TypeOK',
           \A e \in Events : outbox[e] # "absent" => outbox'[e] # "absent",
           \A e \in Events : outbox'[e] = "published" => outbox[e] = "published",
           notif \cup expired \subseteq notif' \cup expired',
           heard' = heard,
           \A w \in Workers : \A e \in locked'[w] \cup batch'[w] : outbox'[e] # "absent",
           \A w \in Workers : pc'[w] = "publish" =>
               pc[w] = "publish" /\ batch'[w] = batch[w] /\ todo'[w] = todo[w]
    PROVE  IInv'
<1>1. HeldIsRecorded'
  BY DEF HeldIsRecorded
<1>2. HeardHasCopy'
  BY DEF IInv, HeardHasCopy
<1>3. PublishingIsSafe'
  BY DEF IInv, PublishingIsSafe, Publishing, Current, Copies
<1>4. PublishedReachedEveryone'
  BY DEF IInv, PublishedReachedEveryone, Copies
<1> QED BY <1>1, <1>2, <1>3, <1>4 DEF IInv

\* Every step keeps the invariant.
LEMMA InvStep == IInv /\ [Next]_vars => IInv'
<1> SUFFICES ASSUME IInv, [Next]_vars PROVE IInv'
  OBVIOUS
<1>t. TypeOK /\ TypeOK'
  BY TypeStep DEF IInv
<1>1. CASE UNCHANGED vars
  <2> USE <1>1 DEF vars
  <2>1. HeldIsRecorded' /\ HeardHasCopy' /\ PublishedReachedEveryone'
    BY DEF IInv, HeldIsRecorded, HeardHasCopy, PublishedReachedEveryone, Copies
  <2>2. PublishingIsSafe'
    BY DEF IInv, PublishingIsSafe, Publishing, Current, Copies
  <2> QED BY <1>t, <2>1, <2>2 DEF IInv
<1>2. ASSUME NEW e \in Events, EnqueueDomainEvent(e) \/ TimePasses(e)
      PROVE IInv'
  BY <1>2, <1>t, QuietStep
     DEF EnqueueDomainEvent, TimePasses, IInv, TypeOK, HeldIsRecorded
<1>3. ASSUME NEW w \in Workers, WorkerStep(w) PROVE IInv'
  <2>1. CASE StartOutboxDispatcher(w)
    BY <2>1, <1>t, QuietStep DEF StartOutboxDispatcher, Go, tables, IInv, TypeOK, HeldIsRecorded
  <2>2. CASE ProcessOutboxOnce(w)
    BY <2>2, <1>t, QuietStep DEF ProcessOutboxOnce, Go, tables, IInv, TypeOK, HeldIsRecorded
  <2>3. CASE SelectForUpdate(w)
    <3>1. \A e \in locked'[w] : outbox[e] # "absent"
      BY <2>3, <1>t DEF SelectForUpdate, Earliest, Claimable, TypeOK
    <3> QED BY <2>3, <3>1, <1>t, QuietStep
            DEF SelectForUpdate, Go, tables, IInv, TypeOK, HeldIsRecorded
  <2>4. CASE LeaseAndCommit(w)
    BY <2>4, <1>t, QuietStep DEF LeaseAndCommit, Go, IInv, TypeOK, HeldIsRecorded
  <2>5. ASSUME NEW e \in Events, EventStep(w, e) PROVE IInv'
    <3>1. CASE ProjectEvent(w, e)
      <4>1. /\ HeldIsRecorded' /\ HeardHasCopy' /\ PublishedReachedEveryone'
        BY <3>1 DEF ProjectEvent, IInv, HeldIsRecorded, HeardHasCopy,
                    PublishedReachedEveryone, Copies
      <4>2. ASSUME NEW v \in Workers, NEW f \in Events,
                   pc'[v] = "publish", Current(v, f)'
            PROVE  Publishing(v, f)'
        <5>1. CASE v = w
          <6>1. f = e
            <7>1. batch' = batch /\ Current(w, e)
              BY <3>1 DEF ProjectEvent
            <7>2. f \in batch[w] /\ e \in batch[w] /\ e <= f /\ f <= e
              BY <4>2, <5>1, <7>1 DEF Current
            <7> QED BY <7>2, EventsAssumption
          <6> QED BY <3>1, <5>1, <6>1, <1>t, RecipientsAssumption
                  DEF ProjectEvent, Publishing, Copies, TypeOK
        <5>2. CASE v # w
          BY <3>1, <4>2, <5>2, <1>t
             DEF ProjectEvent, Go, IInv, TypeOK, PublishingIsSafe, Publishing, Current, Copies
        <5> QED BY <5>1, <5>2
      <4> QED BY <1>t, <4>1, <4>2 DEF IInv, PublishingIsSafe
    <3>2. ASSUME NEW u \in Users, PublishRealtime(w, e, u) PROVE IInv'
      <4>1. Publishing(w, e)
        BY <3>2 DEF PublishRealtime, IInv, PublishingIsSafe
      <4>2. HeldIsRecorded' /\ PublishedReachedEveryone'
        BY <3>2 DEF PublishRealtime, IInv, HeldIsRecorded, PublishedReachedEveryone, Copies
      <4>3. HeardHasCopy'
        BY <3>2, <4>1 DEF PublishRealtime, IInv, HeardHasCopy, Publishing, Copies
      <4>4. ASSUME NEW v \in Workers, NEW f \in Events,
                   pc'[v] = "publish", Current(v, f)'
            PROVE  Publishing(v, f)'
        <5>1. Publishing(v, f)
          BY <3>2, <4>4 DEF PublishRealtime, IInv, PublishingIsSafe, Current
        <5>2. CASE v = w
          <6>1. f = e
            <7>1. batch' = batch /\ Current(w, e)
              BY <3>2 DEF PublishRealtime
            <7>2. f \in batch[w] /\ e \in batch[w] /\ e <= f /\ f <= e
              BY <4>4, <5>2, <7>1 DEF Current
            <7> QED BY <7>2, EventsAssumption
          <6> QED BY <3>2, <5>1, <5>2, <6>1, <1>t DEF PublishRealtime, Publishing, Copies, TypeOK
        <5>3. CASE v # w
          BY <3>2, <5>1, <5>3, <1>t DEF PublishRealtime, Publishing, Copies, TypeOK
        <5> QED BY <5>2, <5>3
      <4> QED BY <1>t, <4>2, <4>3, <4>4 DEF IInv, PublishingIsSafe
    <3>3. CASE MarkPublished(w, e)
      <4>1. Copies(e) \subseteq heard \cap (notif \cup expired)
        BY <3>3, <1>t DEF MarkPublished, IInv, PublishingIsSafe, Publishing, Copies
      <4>2. HeldIsRecorded' /\ HeardHasCopy'
        BY <3>3, <1>t DEF MarkPublished, LoopOn, IInv, TypeOK, HeldIsRecorded, HeardHasCopy
      <4>3. PublishedReachedEveryone'
        BY <3>3, <4>1, <1>t DEF MarkPublished, IInv, TypeOK, PublishedReachedEveryone, Copies
      <4>4. PublishingIsSafe'
        BY <3>3, <1>t DEF MarkPublished, LoopOn, IInv, TypeOK, PublishingIsSafe,
                          Publishing, Current, Copies
      <4> QED BY <1>t, <4>2, <4>3, <4>4 DEF IInv
    <3>4. CASE ScheduleRetry(w, e)
      BY <3>4, <1>t, QuietStep DEF ScheduleRetry, LoopOn, IInv, TypeOK, HeldIsRecorded
    <3> QED BY <2>5, <3>1, <3>2, <3>3, <3>4 DEF EventStep
  <2>6. CASE FinishBatch(w)
    BY <2>6, <1>t, QuietStep DEF FinishBatch, Go, IInv, TypeOK, HeldIsRecorded
  <2>7. CASE CheckFollowUp(w)
    BY <2>7, <1>t, QuietStep DEF CheckFollowUp, Go, tables, IInv, TypeOK, HeldIsRecorded
  <2>8. CASE ClearActiveRun(w)
    BY <2>8, <1>t, QuietStep DEF ClearActiveRun, Go, tables, IInv, TypeOK, HeldIsRecorded
  <2> QED BY <1>3, <2>1, <2>2, <2>3, <2>4, <2>5, <2>6, <2>7, <2>8 DEF WorkerStep
<1>4. ASSUME NEW w \in Workers, WorkerFault(w) PROVE IInv'
  <2>1. CASE ClaimFails(w)
    BY <2>1, <1>t, QuietStep DEF ClaimFails, IInv, TypeOK, HeldIsRecorded
  <2>2. ASSUME NEW e \in Events, EventFault(w, e) PROVE IInv'
    <3>1. CASE ProjectionFails(w, e)
      BY <3>1, <1>t, QuietStep DEF ProjectionFails, Go, IInv, TypeOK, HeldIsRecorded
    <3>2. CASE PublishFails(w, e)
      BY <3>2, <1>t, QuietStep DEF PublishFails, Go, tables, IInv, TypeOK, HeldIsRecorded
    <3>3. CASE MarkFails(w, e)
      <4>1. Copies(e) \subseteq heard \cap (notif \cup expired)
        BY <3>3, <1>t DEF MarkFails, Go, IInv, PublishingIsSafe, Publishing, Copies
      <4>2. HeldIsRecorded' /\ HeardHasCopy'
        BY <3>3, <1>t DEF MarkFails, IInv, TypeOK, HeldIsRecorded, HeardHasCopy
      <4>3. PublishedReachedEveryone'
        BY <3>3, <4>1, <1>t DEF MarkFails, IInv, TypeOK, PublishedReachedEveryone, Copies
      <4>4. PublishingIsSafe'
        BY <3>3, <1>t DEF MarkFails, Go, IInv, TypeOK, PublishingIsSafe,
                          Publishing, Current, Copies
      <4> QED BY <1>t, <4>2, <4>3, <4>4 DEF IInv
    <3>4. CASE ScheduleRetryFails(w, e)
      BY <3>4, <1>t, QuietStep DEF ScheduleRetryFails, Go, IInv, TypeOK, HeldIsRecorded
    <3> QED BY <2>2, <3>1, <3>2, <3>3, <3>4 DEF EventFault
  <2>3. CASE FinishBatchFails(w)
    BY <2>3, <1>t, QuietStep DEF FinishBatchFails, Go, tables, IInv, TypeOK, HeldIsRecorded
  <2>4. CASE Crash(w)
    BY <2>4, <1>t, QuietStep DEF Crash, tables, IInv, TypeOK, HeldIsRecorded
  <2> QED BY <1>4, <2>1, <2>2, <2>3, <2>4 DEF WorkerFault
<1> QED BY <1>1, <1>2, <1>3, <1>4 DEF Next, Environment

\* The invariant holds in every reachable state.
THEOREM Invariant == Spec => []IInv
<1>1. Init => IInv
  BY DEF Init, IInv, TypeOK, HeldIsRecorded, HeardHasCopy, PublishingIsSafe,
         PublishedReachedEveryone
<1> QED BY <1>1, InvStep, PTL DEF Spec

\* Whatever fails, dies or is taken over, an event is marked published only
\* after every recipient has its inbox row and was told in real time.
THEOREM PublishedReached == Spec => []PublishedReachedEveryone
<1>1. IInv => PublishedReachedEveryone
  BY DEF IInv
<1> QED BY <1>1, Invariant, PTL

-----------------------------------------------------------------------------
(***************************************************************************)
(* Claims.                                                                 *)
(***************************************************************************)

\* Rows locked by a claim transaction are locked by that one only, and stay
\* unpublished and due until it commits.
LockInv ==
    /\ \A w \in Workers : pc[w] # "claimed" => locked[w] = {}
    /\ \A w \in Workers : \A e \in locked[w] : outbox[e] = "pending" /\ due[e] = TRUE
    /\ \A v, w \in Workers : v # w => locked[v] \cap locked[w] = {}

\* Every step keeps the locks.
LEMMA LockStep == TypeOK /\ LockInv /\ [Next]_vars => LockInv'
<1> SUFFICES ASSUME TypeOK, LockInv, [Next]_vars PROVE LockInv'
  OBVIOUS
<1> USE DEF TypeOK, LockInv, Go
<1>1. CASE UNCHANGED vars
  BY <1>1 DEF vars
<1>2. ASSUME NEW e \in Events, EnqueueDomainEvent(e) \/ TimePasses(e)
      PROVE LockInv'
  BY <1>2 DEF EnqueueDomainEvent, TimePasses
<1>3. ASSUME NEW w \in Workers, WorkerStep(w) PROVE LockInv'
  <2>1. CASE StartOutboxDispatcher(w)
    BY <2>1 DEF StartOutboxDispatcher, tables
  <2>2. CASE ProcessOutboxOnce(w)
    BY <2>2 DEF ProcessOutboxOnce, tables
  <2>3. CASE SelectForUpdate(w)
    <3> DEFINE S == Earliest(Claimable(w))
    <3>1. /\ locked' = [locked EXCEPT ![w] = S]
          /\ pc[w] = "claim"
          /\ pc' = [pc EXCEPT ![w] = IF S = {} THEN "tail" ELSE "claimed"]
          /\ outbox' = outbox /\ due' = due
      BY <2>3 DEF SelectForUpdate, tables
    <3>2. \A e \in S : /\ e \in Events /\ outbox[e] = "pending" /\ due[e] = TRUE
                       /\ \A v \in Workers \ {w} : e \notin locked[v]
      BY DEF Earliest, Claimable, Unlocked
    <3> HIDE DEF S
    <3> QED BY <3>1, <3>2
  <2>4. CASE LeaseAndCommit(w)
    <3>1. /\ locked' = [locked EXCEPT ![w] = {}]
          /\ outbox' = outbox
          /\ pc' = [pc EXCEPT ![w] = "project"]
      BY <2>4 DEF LeaseAndCommit
    <3>2. \A e \in Events : e \notin locked[w] => due'[e] = due[e]
      BY <2>4 DEF LeaseAndCommit
    <3> QED BY <3>1, <3>2
  <2>5. ASSUME NEW e \in Events, EventStep(w, e) PROVE LockInv'
    <3>1. CASE ProjectEvent(w, e)
      BY <3>1 DEF ProjectEvent
    <3>2. ASSUME NEW u \in Users, PublishRealtime(w, e, u) PROVE LockInv'
      BY <3>2 DEF PublishRealtime
    <3>3. CASE MarkPublished(w, e)
      BY <3>3 DEF MarkPublished, LoopOn, Unlocked
    <3>4. CASE ScheduleRetry(w, e)
      BY <3>4 DEF ScheduleRetry, LoopOn, Unlocked
    <3> QED BY <2>5, <3>1, <3>2, <3>3, <3>4 DEF EventStep
  <2>6. CASE FinishBatch(w)
    BY <2>6 DEF FinishBatch
  <2>7. CASE CheckFollowUp(w)
    BY <2>7 DEF CheckFollowUp, tables
  <2>8. CASE ClearActiveRun(w)
    BY <2>8 DEF ClearActiveRun, tables
  <2> QED BY <1>3, <2>1, <2>2, <2>3, <2>4, <2>5, <2>6, <2>7, <2>8 DEF WorkerStep
<1>4. ASSUME NEW w \in Workers, WorkerFault(w) PROVE LockInv'
  <2>1. CASE ClaimFails(w)
    <3>1. /\ locked' = [locked EXCEPT ![w] = {}]
          /\ outbox' = outbox
          /\ pc' = [pc EXCEPT ![w] = "check"]
      BY <2>1 DEF ClaimFails
    <3>2. \A e \in Events : e \notin locked[w] => due'[e] = due[e]
      BY <2>1 DEF ClaimFails
    <3> QED BY <3>1, <3>2
  <2>2. ASSUME NEW e \in Events, EventFault(w, e) PROVE LockInv'
    <3>1. CASE ProjectionFails(w, e)
      BY <3>1 DEF ProjectionFails
    <3>2. CASE PublishFails(w, e)
      BY <3>2 DEF PublishFails, tables
    <3>3. CASE MarkFails(w, e)
      BY <3>3 DEF MarkFails, Unlocked
    <3>4. CASE ScheduleRetryFails(w, e)
      <4>1. /\ locked' = locked /\ outbox' = outbox
            /\ pc[w] = "retry" /\ pc' = [pc EXCEPT ![w] = "check"]
        BY <3>4 DEF ScheduleRetryFails
      <4>2. \A f \in Events : due'[f] = due[f] \/ (f = e /\ Unlocked(w, e))
        BY <3>4 DEF ScheduleRetryFails
      <4> QED BY <4>1, <4>2 DEF Unlocked
    <3> QED BY <2>2, <3>1, <3>2, <3>3, <3>4 DEF EventFault
  <2>3. CASE FinishBatchFails(w)
    BY <2>3 DEF FinishBatchFails, tables
  <2>4. CASE Crash(w)
    BY <2>4 DEF Crash, tables
  <2> QED BY <1>4, <2>1, <2>2, <2>3, <2>4 DEF WorkerFault
<1> QED BY <1>1, <1>2, <1>3, <1>4 DEF Next, Environment

\* A batch only grows when a claim commits.
LEMMA BatchGrows ==
    ASSUME TypeOK, [Next]_vars, NEW w \in Workers, NEW e \in Events,
           e \in batch'[w] \ batch[w]
    PROVE  e \in locked[w]
<1> USE DEF TypeOK
<1>1. CASE UNCHANGED vars
  BY <1>1 DEF vars
<1>2. CASE Environment
  BY <1>2 DEF Environment, EnqueueDomainEvent, TimePasses
<1>3. ASSUME NEW v \in Workers, WorkerStep(v) PROVE e \in locked[w]
  BY <1>3 DEF WorkerStep, StartOutboxDispatcher, ProcessOutboxOnce, SelectForUpdate,
              LeaseAndCommit, EventStep, ProjectEvent, PublishRealtime, MarkPublished,
              ScheduleRetry, LoopOn, FinishBatch, CheckFollowUp, ClearActiveRun
<1>4. ASSUME NEW v \in Workers, WorkerFault(v) PROVE e \in locked[w]
  BY <1>4 DEF WorkerFault, ClaimFails, EventFault, ProjectionFails, PublishFails,
              MarkFails, ScheduleRetryFails, FinishBatchFails, Crash
<1> QED BY <1>1, <1>2, <1>3, <1>4 DEF Next

\* The locks hold in every reachable state.
LEMMA Locks == Spec => []LockInv
<1>1. Init => LockInv
  BY DEF Init, LockInv
<1> QED BY <1>1, LockStep, OutboxTypes, PTL DEF Spec

\* No worker is handed an event that is published or under a running lease.
THEOREM OnlyLapsed == Spec => OnlyLapsedEventsAreClaimed
<1>1. TypeOK /\ LockInv /\ [Next]_vars =>
        [\A w \in Workers, e \in Events :
            e \in batch'[w] \ batch[w] => outbox[e] = "pending" /\ due[e]]_vars
  BY BatchGrows DEF LockInv
<1> QED BY <1>1, OutboxTypes, Locks, PTL DEF Spec, OnlyLapsedEventsAreClaimed

-----------------------------------------------------------------------------
(***************************************************************************)
(* Retention.                                                              *)
(***************************************************************************)

\* A deleted row belongs to a published event that no worker holds.
RetentionInv ==
    \A p \in expired :
        /\ p \notin notif
        /\ outbox[p[1]] = "published"
        /\ \A w \in Workers : p[1] \notin batch[w] \cup locked[w]

\* A step keeps the retention invariant when it writes and deletes no rows,
\* unpublishes nothing and hands workers unpublished events only.
LEMMA QuietRetention ==
    ASSUME RetentionInv, expired \subseteq Events \X Users,
           \A e \in Events : outbox[e] = "published" => outbox'[e] = "published",
           notif' = notif, expired' = expired,
           \A w \in Workers : \A e \in batch'[w] \cup locked'[w] :
               e \in batch[w] \cup locked[w] \/ outbox[e] # "published"
    PROVE  RetentionInv'
BY DEF RetentionInv

\* Every step keeps the retention invariant.
LEMMA RetentionStep == TypeOK /\ RetentionInv /\ [Next]_vars => RetentionInv'
<1> SUFFICES ASSUME TypeOK, RetentionInv, [Next]_vars PROVE RetentionInv'
  OBVIOUS
<1>t. expired \subseteq Events \X Users
  BY DEF TypeOK
<1> USE DEF TypeOK
<1>1. CASE UNCHANGED vars
  BY <1>1, <1>t, QuietRetention DEF vars
<1>2. ASSUME NEW e \in Events, EnqueueDomainEvent(e) \/ TimePasses(e)
      PROVE RetentionInv'
  BY <1>2, <1>t, QuietRetention DEF EnqueueDomainEvent, TimePasses
<1>3. ASSUME NEW w \in Workers, WorkerStep(w) PROVE RetentionInv'
  <2>1. CASE StartOutboxDispatcher(w)
    BY <2>1, <1>t, QuietRetention DEF StartOutboxDispatcher, tables
  <2>2. CASE ProcessOutboxOnce(w)
    BY <2>2, <1>t, QuietRetention DEF ProcessOutboxOnce, tables
  <2>3. CASE SelectForUpdate(w)
    BY <2>3, <1>t, QuietRetention DEF SelectForUpdate, Earliest, Claimable, tables
  <2>4. CASE LeaseAndCommit(w)
    BY <2>4, <1>t, QuietRetention DEF LeaseAndCommit
  <2>5. ASSUME NEW e \in Events, EventStep(w, e) PROVE RetentionInv'
    <3>1. CASE ProjectEvent(w, e)
      BY <3>1 DEF ProjectEvent, Current, RetentionInv, Copies
    <3>2. ASSUME NEW u \in Users, PublishRealtime(w, e, u) PROVE RetentionInv'
      BY <3>2, <1>t, QuietRetention DEF PublishRealtime
    <3>3. CASE MarkPublished(w, e)
      BY <3>3, <1>t, QuietRetention DEF MarkPublished, LoopOn
    <3>4. CASE ScheduleRetry(w, e)
      BY <3>4, <1>t, QuietRetention DEF ScheduleRetry, LoopOn
    <3> QED BY <2>5, <3>1, <3>2, <3>3, <3>4 DEF EventStep
  <2>6. CASE FinishBatch(w)
    BY <2>6 DEF FinishBatch, Expirable, RetentionInv
  <2>7. CASE CheckFollowUp(w)
    BY <2>7, <1>t, QuietRetention DEF CheckFollowUp, tables
  <2>8. CASE ClearActiveRun(w)
    BY <2>8, <1>t, QuietRetention DEF ClearActiveRun, tables
  <2> QED BY <1>3, <2>1, <2>2, <2>3, <2>4, <2>5, <2>6, <2>7, <2>8 DEF WorkerStep
<1>4. ASSUME NEW w \in Workers, WorkerFault(w) PROVE RetentionInv'
  <2>1. CASE ClaimFails(w)
    BY <2>1, <1>t, QuietRetention DEF ClaimFails
  <2>2. ASSUME NEW e \in Events, EventFault(w, e) PROVE RetentionInv'
    <3>1. CASE ProjectionFails(w, e)
      BY <3>1 DEF ProjectionFails, Current, RetentionInv, Copies
    <3>2. CASE PublishFails(w, e)
      BY <3>2, <1>t, QuietRetention DEF PublishFails, tables
    <3>3. CASE MarkFails(w, e)
      BY <3>3, <1>t, QuietRetention DEF MarkFails
    <3>4. CASE ScheduleRetryFails(w, e)
      BY <3>4, <1>t, QuietRetention DEF ScheduleRetryFails
    <3> QED BY <2>2, <3>1, <3>2, <3>3, <3>4 DEF EventFault
  <2>3. CASE FinishBatchFails(w)
    BY <2>3, <1>t, QuietRetention DEF FinishBatchFails, tables
  <2>4. CASE Crash(w)
    BY <2>4, <1>t, QuietRetention DEF Crash, tables
  <2> QED BY <1>4, <2>1, <2>2, <2>3, <2>4 DEF WorkerFault
<1> QED BY <1>1, <1>2, <1>3, <1>4 DEF Next, Environment

\* An inbox row deleted at the end of its retention never comes back.
THEOREM ExpiredGone == Spec => ExpiredStaysGone
<1>1. Init => RetentionInv
  BY DEF Init, RetentionInv
<1>2. TypeOK /\ RetentionInv /\ [Next]_vars => [\A p \in expired : p \notin notif']_vars
  <2>1. TypeOK /\ [Next]_vars => expired \subseteq expired'
    BY DEF TypeOK, Next, vars, tables, Environment, EnqueueDomainEvent, TimePasses,
           WorkerStep, StartOutboxDispatcher, ProcessOutboxOnce, SelectForUpdate,
           LeaseAndCommit, EventStep, ProjectEvent, PublishRealtime, MarkPublished,
           ScheduleRetry, FinishBatch, CheckFollowUp, ClearActiveRun, WorkerFault,
           ClaimFails, EventFault, ProjectionFails, PublishFails, MarkFails,
           ScheduleRetryFails, FinishBatchFails, Crash
  <2> QED BY <2>1, RetentionStep DEF RetentionInv
<1> QED BY <1>1, <1>2, RetentionStep, OutboxTypes, PTL DEF Spec, ExpiredStaysGone

-----------------------------------------------------------------------------
(***************************************************************************)
(* Refinement.                                                             *)
(***************************************************************************)

\* Every step of the dispatcher is a step of the abstract pipeline, or leaves
\* what it promises unchanged.
LEMMA DeliveryStep == IInv /\ [Next]_vars => [Delivery!Next]_(Delivery!dvars)
<1> SUFFICES ASSUME IInv, [Next]_vars PROVE [Delivery!Next]_(Delivery!dvars)
  OBVIOUS
<1> USE DEF Delivery!dvars
<1>t. TypeOK
  BY DEF IInv
<1>1. CASE UNCHANGED vars
  BY <1>1 DEF vars
<1>2. ASSUME NEW e \in Events, EnqueueDomainEvent(e)
      PROVE  Delivery!Next
  <2>1. Delivery!Record(e)
    BY <1>2, <1>t DEF EnqueueDomainEvent, TypeOK, Delivery!Record
  <2> QED BY <2>1 DEF Delivery!Next
<1>3. ASSUME NEW e \in Events, TimePasses(e)
      PROVE  UNCHANGED Delivery!dvars
  BY <1>3 DEF TimePasses
<1>4. ASSUME NEW w \in Workers, WorkerStep(w)
      PROVE  [Delivery!Next]_(Delivery!dvars)
  <2>1. ASSUME NEW e \in Events, ProjectEvent(w, e)
        PROVE  Delivery!Next
    <3>1. Delivery!Deliver(e)
      BY <2>1 DEF ProjectEvent, Current, IInv, HeldIsRecorded, Delivery!Deliver,
                  Copies, Delivery!Copies
    <3> QED BY <3>1 DEF Delivery!Next
  <2>2. ASSUME NEW e \in Events, NEW u \in Users, PublishRealtime(w, e, u)
        PROVE  Delivery!Next
    <3>1. Delivery!Announce(e, u)
      BY <2>2 DEF PublishRealtime, IInv, PublishingIsSafe, Publishing, Copies, Delivery!Announce
    <3> QED BY <3>1 DEF Delivery!Next
  <2>3. ASSUME NEW e \in Events, MarkPublished(w, e)
        PROVE  Delivery!Next
    <3>1. Delivery!Settle(e)
      BY <2>3, <1>t DEF MarkPublished, Current, IInv, HeldIsRecorded, PublishingIsSafe,
                        Publishing, Copies, TypeOK, Delivery!Settle, Delivery!Copies
    <3> QED BY <3>1 DEF Delivery!Next
  <2>4. CASE FinishBatch(w)
    BY <2>4 DEF FinishBatch, Expirable
  <2> QED BY <1>4, <2>1, <2>2, <2>3, <2>4
          DEF WorkerStep, EventStep, StartOutboxDispatcher, ProcessOutboxOnce,
              SelectForUpdate, LeaseAndCommit, ScheduleRetry, CheckFollowUp,
              ClearActiveRun, tables
<1>5. ASSUME NEW w \in Workers, WorkerFault(w)
      PROVE  [Delivery!Next]_(Delivery!dvars)
  <2>1. ASSUME NEW e \in Events, ProjectionFails(w, e)
        PROVE  [Delivery!Next]_(Delivery!dvars)
    <3>1. CASE notif' = notif
      BY <2>1, <3>1 DEF ProjectionFails
    <3>2. CASE notif' = notif \cup Copies(e)
      <4>1. Delivery!Deliver(e)
        BY <2>1, <3>2 DEF ProjectionFails, Current, IInv, HeldIsRecorded, Delivery!Deliver,
                          Copies, Delivery!Copies
      <4> QED BY <4>1 DEF Delivery!Next
    <3> QED BY <2>1, <3>1, <3>2 DEF ProjectionFails
  <2>2. ASSUME NEW e \in Events, MarkFails(w, e)
        PROVE  [Delivery!Next]_(Delivery!dvars)
    <3>1. CASE outbox' = outbox
      BY <2>2, <3>1 DEF MarkFails
    <3>2. CASE outbox' = [outbox EXCEPT ![e] = "published"]
      <4>1. Delivery!Settle(e)
        BY <2>2, <3>2, <1>t DEF MarkFails, Go, Current, IInv, HeldIsRecorded, PublishingIsSafe,
                          Publishing, Copies, TypeOK, Delivery!Settle, Delivery!Copies
      <4> QED BY <4>1 DEF Delivery!Next
    <3> QED BY <2>2, <3>1, <3>2 DEF MarkFails
  <2> QED BY <1>5, <2>1, <2>2
          DEF WorkerFault, EventFault, ClaimFails, PublishFails, ScheduleRetryFails,
              FinishBatchFails, Crash, tables
<1> QED BY <1>1, <1>2, <1>3, <1>4, <1>5 DEF Next, Environment

\* The dispatcher, with all its failures, implements the abstract pipeline.
THEOREM OutboxIsDelivery == Spec => DeliverySpec
<1>1. Init => Delivery!Init
  BY DEF Init, Delivery!Init
<1> QED BY <1>1, DeliveryStep, Invariant, PTL DEF Spec, DeliverySpec, Delivery!Spec
=============================================================================

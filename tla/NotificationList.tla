--------------------------- MODULE NotificationList ---------------------------
(***************************************************************************)
(* The inbox as the app shows it: NotificationService.list                 *)
(* (src/src/services/notificationService.ts) read page by page, and        *)
(* real-time messages mixed in (load, onmessage and reset of               *)
(* src/mobile/src/store/notificationStore.ts).                             *)
(*                                                                         *)
(* Notifications are numbered in the order (createdAt, id).  Messages may  *)
(* be late, repeated or lost.  Read marks and the unread count are left    *)
(* out.                                                                    *)
(***************************************************************************)
EXTENDS Naturals, Sequences, SequencesExt

CONSTANTS MaxNotes,     \* bound: notifications created
          PageSize,     \* limit: 20 in the code
          MaxLoads      \* bound: list requests at a time

ASSUME ListAssumption == /\ MaxNotes \in Nat
                         /\ PageSize \in Nat \ {0}
                         /\ MaxLoads \in Nat

VARIABLES
    newest,     \* notifications 1..newest exist
    list,       \* notifications of the store
    cursor,     \* nextCursor: the notification to go on below, 0 for none
    loading,
    loads,      \* list requests: what was asked and, once answered, the page
    since,      \* history: newest when the first page of the list was read
    crossed     \* history: a list request was on its way during a reset

listVars == <<newest, list, cursor, loading, loads, since, crossed>>

Asked(append) == [append |-> append, below |-> IF append THEN cursor ELSE 0,
                  page |-> <<>>, next |-> 0, at |-> 0, answered |-> FALSE]

ListInit == /\ newest = 0 /\ list = <<>> /\ cursor = 0
            /\ loading = FALSE /\ loads = <<>>
            /\ since = 0 /\ crossed = FALSE

ListTypeOK == /\ newest \in 0..MaxNotes
              /\ list \in Seq(1..MaxNotes)
              /\ {cursor, since} \subseteq 0..MaxNotes
              /\ {loading, crossed} \subseteq BOOLEAN
              /\ Len(loads) <= MaxLoads

NotificationCreated ==
    /\ newest < MaxNotes /\ newest' = newest + 1
    /\ UNCHANGED <<list, cursor, loading, loads, since, crossed>>

\* load: nothing while one is running; appending only where there is a cursor.
Load(append) ==
    /\ ~loading /\ Len(loads) < MaxLoads
    /\ append => cursor # 0
    /\ loading' = TRUE
    /\ loads' = Append(loads, Asked(append))
    /\ UNCHANGED <<newest, list, cursor, since, crossed>>

\* The server reads one more row than it returns to know whether there are more.
Page(below) ==
    LET older == IF below = 0 THEN newest ELSE below - 1
        size == IF older < PageSize THEN older ELSE PageSize
    IN [rows |-> [i \in 1..size |-> older + 1 - i],
        next |-> IF older > PageSize THEN older + 1 - size ELSE 0]

AnswerList(i) ==
    /\ i \in DOMAIN loads /\ ~loads[i].answered
    /\ LET p == Page(loads[i].below)
       IN loads' = [loads EXCEPT ![i].page = p.rows, ![i].next = p.next,
                                 ![i].at = newest, ![i].answered = TRUE]
    /\ UNCHANGED <<newest, list, cursor, loading, since, crossed>>

\* A Map by id: each notification once, in its first place.
ById(rows) ==
    LET kept[k \in 0..Len(rows)] ==
            IF k = 0 THEN <<>>
            ELSE IF Contains(kept[k - 1], rows[k]) THEN kept[k - 1]
            ELSE Append(kept[k - 1], rows[k])
    IN kept[Len(rows)]

Merge(old, page) == ById(old \o page)

ApplyPage(i) ==
    /\ i \in DOMAIN loads /\ loads[i].answered
    /\ LET r == loads[i]
       IN /\ list' = IF r.append THEN Merge(list, r.page) ELSE r.page
          /\ cursor' = r.next
          /\ since' = IF r.append THEN since ELSE r.at
    /\ loads' = RemoveAt(loads, i)
    /\ loading' = FALSE
    /\ UNCHANGED <<newest, crossed>>

LoadFails(i) ==
    /\ i \in DOMAIN loads
    /\ loads' = RemoveAt(loads, i)
    /\ loading' = FALSE
    /\ UNCHANGED <<newest, list, cursor, since, crossed>>

\* Mutant: a message is shown without looking for it in the list.
OnMessageAgain(n) ==
    /\ n <= newest /\ list' = <<n>> \o list
    /\ UNCHANGED <<newest, cursor, loading, loads, since, crossed>>

OnMessage(n) ==
    /\ n <= newest
    /\ list' = IF Contains(list, n) THEN list ELSE <<n>> \o list
    /\ UNCHANGED <<newest, cursor, loading, loads, since, crossed>>

\* reset does not know of the requests on their way.
Reset ==
    /\ list' = <<>> /\ cursor' = 0 /\ loading' = FALSE /\ since' = 0
    /\ crossed' = (crossed \/ loads # <<>>)
    /\ UNCHANGED <<newest, loads>>

ListNext ==
    \/ NotificationCreated
    \/ \E append \in BOOLEAN : Load(append)
    \/ \E i \in 1..MaxLoads : AnswerList(i) \/ ApplyPage(i) \/ LoadFails(i)
    \/ \E n \in 1..MaxNotes : OnMessage(n)
    \/ Reset

ListSpec == ListInit /\ [][ListNext]_listVars

-----------------------------------------------------------------------------
\* Whatever arrives between the pages, each notification is shown once, and when
\* there is nothing more to load everything that existed when the first page was
\* read is there, unless a request crossed a sign-out.
InboxShownOnce ==
    /\ IsInjective(list)
    /\ ~crossed /\ cursor = 0 => \A n \in 1..since : Contains(list, n)
=============================================================================

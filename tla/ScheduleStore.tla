----------------------------- MODULE ScheduleStore ----------------------------
(***************************************************************************)
(* The client's lists of schedules (mobile/src/store/scheduleStore.ts):    *)
(* all schedules of the church ("all") and the user's own ("mine").        *)
(*                                                                         *)
(* Every load has a key; an answer whose key is not the last one asked for *)
(* is dropped.  A list is known by the load it came from, 0 when empty:    *)
(* what changes of it a mutation makes in place is left out, what emptying *)
(* or restoring a list does to the loads is not.                           *)
(***************************************************************************)
EXTENDS Naturals, FiniteSets

CONSTANTS Changes,          \* mutations going on at a time
          MaxScheduleLoads  \* bound: loads of each list

ASSUME StoreAssumption == MaxScheduleLoads \in Nat

Lists == {"all", "mine"}
Other(l) == CHOOSE m \in Lists : m # l

VARIABLES
    store,      \* the fields of the zustand store, and the loads in flight
    change      \* each mutation: step, and the lists as they were when it began

storeVars == <<store, change>>

Loads == [list: Lists, key: 1..MaxScheduleLoads, refresh: BOOLEAN]
NoChange == [step |-> "none", before |-> [l \in Lists |-> 0]]

StoreInit ==
    /\ store = [key |-> [l \in Lists |-> 0], shown |-> [l \in Lists |-> 0],
                busy |-> [l \in Lists |-> FALSE], loading |-> FALSE,
                refreshing |-> FALSE, requests |-> 0, loads |-> {}]
    /\ change = [c \in Changes |-> NoChange]

StoreTypeOK ==
    /\ store \in [key: [Lists -> 0..MaxScheduleLoads], shown: [Lists -> 0..MaxScheduleLoads],
                  busy: [Lists -> BOOLEAN], loading: BOOLEAN, refreshing: BOOLEAN,
                  requests: 0..(2 * MaxScheduleLoads), loads: SUBSET Loads]
    /\ change \in [Changes -> [step: {"none", "deleting", "answering", "saving", "saved"},
                               before: [Lists -> 0..MaxScheduleLoads]]]

-----------------------------------------------------------------------------
\* The store after a load of list l begins: one that refreshes leaves the list on
\* the screen and is counted.
Began(s, l, asked) ==
    LET refresh == asked \/ s.shown[l] # 0
    IN [s EXCEPT !.key[l] = @ + 1,
                 !.busy[l] = ~refresh,
                 !.loading = ~refresh \/ s.busy[Other(l)],
                 !.requests = IF refresh THEN @ + 1 ELSE @,
                 !.refreshing = refresh \/ @,
                 !.loads = @ \cup {[list |-> l, key |-> s.key[l] + 1, refresh |-> refresh]}]

\* Mutant: an answer that came too late is dropped before it is counted.
EndsIfCurrent(s, r, shown) ==
    LET left == IF r.refresh /\ s.requests > 0 THEN s.requests - 1 ELSE s.requests
    IN IF r.key # s.key[r.list] THEN [s EXCEPT !.loads = @ \ {r}]
       ELSE [s EXCEPT !.loads = @ \ {r}, !.requests = left, !.refreshing = left > 0,
                      !.busy[r.list] = FALSE, !.loading = s.busy[Other(r.list)],
                      !.shown[r.list] = shown]

\* The store after a load ends; shown is what the list is to be.
Ends(s, r, shown) ==
    LET left == IF r.refresh /\ s.requests > 0 THEN s.requests - 1 ELSE s.requests
        counted == [s EXCEPT !.loads = @ \ {r}, !.requests = left, !.refreshing = left > 0]
    IN IF r.key # s.key[r.list] THEN counted
       ELSE [counted EXCEPT !.busy[r.list] = FALSE,
                            !.loading = s.busy[Other(r.list)],
                            !.shown[r.list] = shown]

MayLoad(n) == \A l \in Lists : store.key[l] + n <= MaxScheduleLoads

LoadSchedules(l, asked) ==
    /\ MayLoad(1)
    /\ store' = Began(store, l, asked)
    /\ UNCHANGED change

\* The answer may be an empty list; a failure leaves the list as it is.
LoadEnds(r) ==
    /\ \E shown \in {0, r.key, store.shown[r.list]} : store' = Ends(store, r, shown)
    /\ UNCHANGED change

\* Deleting and answering remember both lists before they call the server.
StartDelete(c) ==
    /\ change[c].step = "none"
    /\ change' = [change EXCEPT ![c] = [step |-> "deleting", before |-> store.shown]]
    /\ UNCHANGED store

StartAnswer(c) ==
    /\ change[c].step = "none"
    /\ change' = [change EXCEPT ![c] = [step |-> "answering", before |-> store.shown]]
    /\ UNCHANGED store

StartSave(c) ==
    /\ change[c].step = "none"
    /\ change' = [change EXCEPT ![c] = [step |-> "saving", before |-> store.shown]]
    /\ UNCHANGED store

\* Whether it succeeds or fails, a delete writes the remembered lists, a success
\* without the deleted schedule, which may have been the only one.
DeleteEnds(c) ==
    /\ change[c].step = "deleting"
    /\ \E gone \in SUBSET Lists :
          store' = [store EXCEPT !.shown =
                       [l \in Lists |-> IF l \in gone THEN 0 ELSE change[c].before[l]]]
    /\ change' = [change EXCEPT ![c] = NoChange]

\* A failed answer puts the remembered lists back.
AnswerFails(c) ==
    /\ change[c].step = "answering"
    /\ store' = [store EXCEPT !.shown = change[c].before]
    /\ change' = [change EXCEPT ![c] = NoChange]

ChangeSucceeds(c) ==
    /\ change[c].step \in {"answering", "saving"}
    /\ change' = [change EXCEPT ![c].step = "saved"]
    /\ UNCHANGED store

SaveFails(c) ==
    /\ change[c].step = "saving"
    /\ change' = [change EXCEPT ![c] = NoChange]
    /\ UNCHANGED store

\* After a success, and the refresh of what depends on schedules, both lists reload.
Reload(c) ==
    /\ change[c].step = "saved"
    /\ MayLoad(1)
    /\ store' = Began(Began(store, "all", TRUE), "mine", TRUE)
    /\ change' = [change EXCEPT ![c] = NoChange]

StoreNext ==
    \/ \E l \in Lists, asked \in BOOLEAN : LoadSchedules(l, asked)
    \/ \E r \in store.loads : LoadEnds(r)
    \/ \E c \in Changes :
          \/ StartDelete(c) \/ DeleteEnds(c)
          \/ StartAnswer(c) \/ AnswerFails(c)
          \/ StartSave(c) \/ SaveFails(c)
          \/ ChangeSucceeds(c) \/ Reload(c)

StoreSpec == StoreInit /\ [][StoreNext]_storeVars

-----------------------------------------------------------------------------
\* The spinners tell the truth whatever overtakes what: the count of refreshing
\* requests is that of the refreshes in flight, and a list shows as loading exactly
\* while its last load is in flight and had nothing to show meanwhile.
SpinnersMatchLoads ==
    /\ store.requests = Cardinality({r \in store.loads : r.refresh})
    /\ store.refreshing <=> store.requests > 0
    /\ store.loading <=> \E l \in Lists : store.busy[l]
    /\ \A l \in Lists :
          store.busy[l] <=> \E r \in store.loads :
                                r.list = l /\ r.key = store.key[l] /\ ~r.refresh
=============================================================================

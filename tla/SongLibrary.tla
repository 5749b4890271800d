----------------------------- MODULE SongLibrary ------------------------------
(***************************************************************************)
(* The client's list of songs (mobile/src/store/musicStore.ts and the      *)
(* screen that shows it, mobile/app/(tabs)/songs/index.tsx): its first     *)
(* page, under a search or none.                                           *)
(*                                                                         *)
(* Songs this client created or edited are kept aside (localMutations) and *)
(* merged into every answer.  A new load aborts the one in flight, and an  *)
(* answer is dropped unless its key is the one last asked for.  The forms  *)
(* allow one change at a time.  The page of one song is left out.          *)
(***************************************************************************)
EXTENDS Naturals, FiniteSets

CONSTANTS LibrarySongs,
          MaxVersion,     \* bound: versions of a song
          MaxChanges,     \* bound: changes made here
          Found           \* the songs a search finds

ASSUME LibraryAssumption == MaxVersion \in Nat \ {0} /\ MaxChanges \in Nat

VARIABLES
    stored,     \* server: version of each song, 0 before it exists, then Deleted
    library,    \* the store: listed, local (songs with a version), query, key, changes
    listLoad,   \* the load in flight: {} or {[query, key, answer]}
    saving,     \* the change in flight: {} or {[song, to, done]}, to the next version
    handled,    \* screen: the change count it has last reloaded for
    foreign     \* songs someone else has changed

libraryVars == <<stored, library, listLoad, saving, handled, foreign>>

Deleted == MaxVersion + 1
Versions == [LibrarySongs -> 0..Deleted]
Visible(version) == IF version = Deleted THEN 0 ELSE version
NoSongs == [s \in LibrarySongs |-> 0]
NoKey == <<>>
Matches(s, query) == query = "" \/ s \in Found

LibraryInit ==
    /\ stored \in [LibrarySongs -> 0..1]
    /\ library = [listed |-> NoSongs, local |-> NoSongs, query |-> "", key |-> NoKey,
                  changes |-> 0, stale |-> TRUE]
    /\ listLoad = {} /\ saving = {} /\ handled = 0 /\ foreign = {}

LibraryTypeOK ==
    /\ stored \in Versions
    /\ library.listed \in Versions /\ library.local \in Versions
    /\ Cardinality(listLoad) <= 1 /\ Cardinality(saving) <= 1
    /\ handled <= library.changes
    /\ foreign \subseteq LibrarySongs

-----------------------------------------------------------------------------
\* What the screen asks for: the load in flight is aborted.
Asks(query) ==
    /\ library' = [library EXCEPT !.query = query, !.key = <<query, library.changes>>,
                                  !.stale = TRUE]
    /\ listLoad' = {[query |-> query, key |-> <<query, library.changes>>, answer |-> <<>>]}

\* The user searches, or comes back to the screen.
LoadSongs(query) ==
    /\ Asks(query)
    /\ UNCHANGED <<stored, saving, handled, foreign>>

\* The screen sees that the store has counted a change, and loads again.
ReloadAfterChange ==
    /\ handled # library.changes
    /\ handled' = library.changes
    /\ Asks(library.query)
    /\ UNCHANGED <<stored, saving, foreign>>

ServerLists(r) ==
    /\ r.answer = <<>>
    /\ listLoad' = {[r EXCEPT !.answer =
                        <<[s \in LibrarySongs |->
                               IF Matches(s, r.query) THEN Visible(stored[s]) ELSE 0]>>]}
    /\ UNCHANGED <<stored, library, saving, handled, foreign>>

Merged(answer, query) ==
    [s \in LibrarySongs |-> IF library.local[s] # 0 /\ Matches(s, query)
                            THEN library.local[s] ELSE answer[s]]

ListArrives(r) ==
    /\ r.answer # <<>>
    /\ library' = IF library.key # r.key THEN library
                  ELSE [library EXCEPT !.listed = Merged(r.answer[1], r.query),
                                       !.stale = FALSE]
    /\ listLoad' = {}
    /\ UNCHANGED <<stored, saving, handled, foreign>>

ListFails(r) ==
    /\ listLoad' = {}
    /\ UNCHANGED <<stored, library, saving, handled, foreign>>

-----------------------------------------------------------------------------
\* Creating and editing make the next version of a song; deleting is for good.
Follows(s, to) ==
    \/ to = stored[s] + 1 /\ to <= MaxVersion
    \/ stored[s] \in 1..MaxVersion /\ to = Deleted

StartChange(s, to) ==
    /\ saving = {} /\ library.changes < MaxChanges
    /\ Follows(s, to)
    /\ saving' = {[song |-> s, to |-> to, done |-> FALSE]}
    /\ UNCHANGED <<stored, library, listLoad, handled, foreign>>

ServerChanges(m) ==
    /\ ~m.done
    /\ stored' = [stored EXCEPT ![m.song] = m.to]
    /\ saving' = {[m EXCEPT !.done = TRUE]}
    /\ UNCHANGED <<library, listLoad, handled, foreign>>

\* The server refuses, or its answer is lost: then what it did is not known here.
ChangeFails(m) ==
    /\ saving' = {}
    /\ foreign' = IF m.done THEN foreign \cup {m.song} ELSE foreign
    /\ UNCHANGED <<stored, library, listLoad, handled>>

SongSaved(m) ==
    /\ m.done /\ m.to # Deleted
    /\ library' = [library EXCEPT
          !.listed[m.song] = IF Matches(m.song, library.query) THEN m.to ELSE 0,
          !.local[m.song] = m.to,
          !.key = NoKey,
          !.changes = @ + 1]
    /\ saving' = {}
    /\ UNCHANGED <<stored, listLoad, handled, foreign>>

\* Mutant: what was kept aside of a song outlives its deletion.
SongDeletedFromList(m) ==
    /\ m.done /\ m.to = Deleted
    /\ library' = [library EXCEPT !.listed[m.song] = 0, !.changes = @ + 1]
    /\ saving' = {}
    /\ UNCHANGED <<stored, listLoad, handled, foreign>>

\* A deletion leaves the load in flight its key.
SongDeleted(m) ==
    /\ m.done /\ m.to = Deleted
    /\ library' = [library EXCEPT !.listed[m.song] = 0, !.local[m.song] = 0, !.changes = @ + 1]
    /\ saving' = {}
    /\ UNCHANGED <<stored, listLoad, handled, foreign>>

OtherClientChanges(s, to) ==
    /\ \A m \in saving : m.song # s
    /\ Follows(s, to)
    /\ stored' = [stored EXCEPT ![s] = to]
    /\ foreign' = foreign \cup {s}
    /\ UNCHANGED <<library, listLoad, saving, handled>>

LibraryNext ==
    \/ \E query \in {"", "found"} : LoadSongs(query)
    \/ ReloadAfterChange
    \/ \E r \in listLoad : ServerLists(r) \/ ListArrives(r) \/ ListFails(r)
    \/ \E s \in LibrarySongs, to \in 1..Deleted :
          StartChange(s, to) \/ OtherClientChanges(s, to)
    \/ \E m \in saving : ServerChanges(m) \/ ChangeFails(m) \/ SongSaved(m) \/ SongDeleted(m)

LibrarySpec == LibraryInit /\ [][LibraryNext]_libraryVars

-----------------------------------------------------------------------------
\* Once the last load has been shown and nothing is in flight, the list is what the
\* server has of the songs nobody else changed: a song deleted here does not come
\* back, one edited here does not go back to what it was.
SettledListIsCurrent ==
    (listLoad = {} /\ saving = {} /\ handled = library.changes /\ ~library.stale) =>
        \A s \in LibrarySongs \ foreign :
            library.listed[s] = IF Matches(s, library.query) THEN Visible(stored[s]) ELSE 0
=============================================================================

---------------------------- MODULE MCClientSafety ----------------------------
(***************************************************************************)
(* What the app keeps and shows: its session, the inbox, the lists of      *)
(* schedules and of songs, its forms, the page of a song and the chord     *)
(* editor; and the publisher, which puts the app's web release in place.   *)
(* These share no modelled state, so one of them, "focus", moves in a      *)
(* behaviour and the others stand still.                                   *)
(***************************************************************************)
EXTENDS SessionClient, NotificationList, ScheduleStore, SongLibrary, FormExit,
        SongPage, ChordEditor, Publisher, TLC

CONSTANTS blank, song1, r1, r2, b1, letterA, letterB

\* What is typed for a line of the chord editor, and sheets: two to work on, and one with
\* nothing to edit.
MCTexts == {<<>>, <<letterA>>, <<letterA, letterB>>, <<letterA, Break, letterB>>,
            <<letterA, letterA, letterA>>}
MCSheet == <<Plain(<<letterA, letterA>>, <<Mark(0, "C"), Mark(1, "C")>>)>>
MCOtherSheet == <<[Empty EXCEPT !.protected = TRUE], Plain(<<letterB, letterA>>, <<Mark(1, "C")>>)>>
MCTab == <<[Empty EXCEPT !.protected = TRUE]>>
MCSheets == {MCSheet, MCOtherSheet, MCTab}

Symmetry == Permutations(Callers) \cup Permutations(ClientSessions)

VARIABLE focus

MCVars == <<focus, clientVars, listVars, storeVars, libraryVars, formVars, pageVars,
            editorVars, publisherVars>>

\* What the forms, the editor and the server hold at first matters where they have the
\* focus.
MCInit ==
    /\ focus \in {"session", "inbox", "schedules", "songs", "form", "page", "chords",
                 "publisher"}
    /\ ClientInit /\ ListInit /\ StoreInit /\ LibraryInit /\ FormInit
    /\ PageInit /\ EditorInit /\ PublisherInit
    /\ focus = "songs" \/ stored = NoSongs
    /\ focus = "form" \/ form.value = blank
    /\ IF focus = "chords" THEN value # MCTab ELSE value = MCTab
    /\ live.api = b1 /\ asked[r1] = "publish"
    /\ focus = "publisher" \/ asked[r2] = "publish"

MCNext ==
    \/ focus = "session" /\ ClientNext
       /\ UNCHANGED <<focus, listVars, storeVars, libraryVars, formVars, pageVars,
                      editorVars, publisherVars>>
    \/ focus = "inbox" /\ ListNext
       /\ UNCHANGED <<focus, clientVars, storeVars, libraryVars, formVars, pageVars,
                      editorVars, publisherVars>>
    \/ focus = "schedules" /\ StoreNext
       /\ UNCHANGED <<focus, clientVars, listVars, libraryVars, formVars, pageVars,
                      editorVars, publisherVars>>
    \/ focus = "songs" /\ LibraryNext
       /\ UNCHANGED <<focus, clientVars, listVars, storeVars, formVars, pageVars,
                      editorVars, publisherVars>>
    \/ focus = "form" /\ FormNext
       /\ UNCHANGED <<focus, clientVars, listVars, storeVars, libraryVars, pageVars,
                      editorVars, publisherVars>>
    \/ focus = "page" /\ PageNext
       /\ UNCHANGED <<focus, clientVars, listVars, storeVars, libraryVars, formVars,
                      editorVars, publisherVars>>
    \/ focus = "chords" /\ EditorNext
       /\ UNCHANGED <<focus, clientVars, listVars, storeVars, libraryVars, formVars,
                      pageVars, publisherVars>>
    \/ focus = "publisher" /\ PublisherNext
       /\ UNCHANGED <<focus, clientVars, listVars, storeVars, libraryVars, formVars,
                      pageVars, editorVars>>

MCSpec == MCInit /\ [][MCNext]_MCVars

\* The variables have their types; in particular refreshes and the logouts of failed
\* ones do not nest without end.
ClientTypes == /\ ClientTypeOK /\ ListTypeOK /\ StoreTypeOK /\ LibraryTypeOK /\ FormTypeOK
               /\ PageTypeOK /\ EditorTypeOK
=============================================================================

------------------------------- MODULE SongPage -------------------------------
(***************************************************************************)
(* The page of one song (mobile/app/(tabs)/songs/[id].tsx): what it loads  *)
(* and shows (currentSong and its neighbours in musicStore.ts), the tone   *)
(* it is transposed to (chordStore.ts), and saving that tone as the song's *)
(* default.                                                                *)
(*                                                                         *)
(* The page stays mounted from one song to the next and shares the store   *)
(* with everything else, so loads and saves of a song may end while        *)
(* another is open.  A song is its default tone; its text is transposed    *)
(* with it and is left out.  Forms and deletion are left out too.          *)
(***************************************************************************)
EXTENDS Integers, FiniteSets

CONSTANTS PageSongs,
          Tones,        \* the size of the scale (12 in the code)
          MaxOpened,    \* bound: pages opened
          NoSong

ASSUME PageAssumption ==
    Tones \in Nat \ {0} /\ MaxOpened \in Nat /\ NoSong \notin PageSongs

VARIABLES
    catalog,    \* server: the tone of each song
    route,      \* the song whose page is open, or NoSong
    detail,     \* musicStore: shown (song and tone), requested, loading, failed
    songLoads,  \* loads in flight: [song, opened, tone], tone -1 before the server answers
    keySave,    \* the save of a tone in flight: {} or {[song, tone, done]}
    chord,      \* chordStore: active, original, offset, offsets of every song
    opened

pageVars == <<catalog, route, detail, songLoads, keySave, chord, opened>>

Transposed(tone, offset) == (tone + offset + Tones) % Tones
Offsets == (1 - Tones)..(Tones - 1)
NoDetail == [song |-> NoSong, tone |-> 0]

PageInit ==
    /\ catalog = [s \in PageSongs |-> 0]
    /\ route = NoSong
    /\ detail = [shown |-> NoDetail, requested |-> NoSong, loading |-> FALSE, failed |-> FALSE]
    /\ songLoads = {} /\ keySave = {} /\ opened = 0
    /\ chord = [active |-> NoSong, original |-> 0, offset |-> 0,
                offsets |-> [s \in PageSongs |-> 0]]

\* getSongDetailViewState
PageState ==
    CASE detail.shown.song = route -> "ready"
      [] detail.shown.song # route /\ (detail.loading \/ detail.requested # route) -> "loading"
      [] OTHER -> "error"

\* initializeSong, called by an effect of the page when the song shown or its tone changes.
Initialized(song, tone) ==
    [chord EXCEPT !.active = song, !.original = tone, !.offset = chord.offsets[song]]

\* The page takes over the tone of the song it comes to show.
ShownOn(page, song, tone) == IF page = song THEN Initialized(song, tone) ELSE chord

-----------------------------------------------------------------------------
\* The list the store has may be older than the server.
\* A row of it is pressed: primeSong, and the load when the page has the focus.
OpenSong(song, listed) ==
    /\ opened < MaxOpened /\ opened' = opened + 1
    /\ route' = song
    /\ detail' = [shown |-> [song |-> song, tone |-> listed], requested |-> song,
                  loading |-> TRUE, failed |-> FALSE]
    /\ chord' = Initialized(song, listed)
    /\ songLoads' = songLoads \cup {[song |-> song, opened |-> opened, tone |-> -1]}
    /\ UNCHANGED <<catalog, keySave>>

\* A link is followed, the page has the focus again, or the load is tried again: what the
\* store has of the song, in currentSong or in its list, is shown at once.
FollowLink(song, listed) ==
    /\ opened < MaxOpened /\ opened' = opened + 1
    /\ route' = song
    /\ \E cached \in IF detail.shown.song = song THEN {detail.shown}
                     ELSE {NoDetail, [song |-> song, tone |-> listed]} :
          /\ detail' = [shown |-> cached, requested |-> song, loading |-> TRUE,
                        failed |-> FALSE]
          /\ chord' = ShownOn(cached.song, song, cached.tone)
    /\ songLoads' = songLoads \cup {[song |-> song, opened |-> opened, tone |-> -1]}
    /\ UNCHANGED <<catalog, keySave>>

LeavePage ==
    /\ route # NoSong /\ route' = NoSong
    /\ UNCHANGED <<catalog, detail, songLoads, keySave, chord, opened>>

ServerGetsSong(l) ==
    /\ l.tone = -1
    /\ songLoads' = (songLoads \ {l}) \cup {[l EXCEPT !.tone = catalog[l.song]]}
    /\ UNCHANGED <<catalog, route, detail, keySave, chord, opened>>

\* Mutant: an answer is taken for the song of the page, whichever was asked for.
SongArrivesLate(l) ==
    /\ l.tone # -1
    /\ songLoads' = songLoads \ {l}
    /\ detail' = [detail EXCEPT !.shown = [song |-> l.song, tone |-> l.tone],
                               !.loading = FALSE]
    /\ chord' = ShownOn(route, l.song, l.tone)
    /\ UNCHANGED <<catalog, route, keySave, opened>>

SongArrives(l) ==
    /\ l.tone # -1
    /\ songLoads' = songLoads \ {l}
    /\ IF detail.requested = l.song
       THEN /\ detail' = [detail EXCEPT !.shown = [song |-> l.song, tone |-> l.tone],
                                       !.loading = FALSE]
            /\ chord' = ShownOn(route, l.song, l.tone)
       ELSE UNCHANGED <<detail, chord>>
    /\ UNCHANGED <<catalog, route, keySave, opened>>

SongLoadFails(l) ==
    /\ songLoads' = songLoads \ {l}
    /\ detail' = IF detail.requested = l.song
                 THEN [detail EXCEPT !.loading = FALSE, !.failed = TRUE] ELSE detail
    /\ UNCHANGED <<catalog, route, keySave, chord, opened>>

-----------------------------------------------------------------------------
SetOffset(offset) ==
    chord' = [chord EXCEPT !.offset = offset, !.offsets[chord.active] = offset]

Transpose(delta) ==
    /\ PageState = "ready" /\ keySave = {} /\ chord.active # NoSong
    /\ chord.offset + delta \in Offsets
    /\ SetOffset(chord.offset + delta)
    /\ UNCHANGED <<catalog, route, detail, songLoads, keySave, opened>>

ResetTranspose ==
    /\ PageState = "ready" /\ keySave = {} /\ chord.active # NoSong
    /\ SetOffset(0)
    /\ UNCHANGED <<catalog, route, detail, songLoads, keySave, opened>>

SaveDefaultKey ==
    /\ PageState = "ready" /\ keySave = {} /\ ~detail.loading
    /\ chord.active = route /\ chord.offset # 0
    /\ keySave' = {[song |-> route, done |-> FALSE,
                    tone |-> Transposed(chord.original, chord.offset)]}
    /\ UNCHANGED <<catalog, route, detail, songLoads, chord, opened>>

ServerSavesKey(k) ==
    /\ ~k.done
    /\ catalog' = [catalog EXCEPT ![k.song] = k.tone]
    /\ keySave' = {[k EXCEPT !.done = TRUE]}
    /\ UNCHANGED <<route, detail, songLoads, chord, opened>>

\* The offset of a song that was saved is forgotten; the new tone is shown if it is, or by
\* the page comes to be, the active one.
AcceptDefaultKey(song, tone) ==
    [IF song \in {route, chord.active}
     THEN [chord EXCEPT !.active = song, !.original = tone, !.offset = 0]
     ELSE chord EXCEPT !.offsets[song] = 0]

\* The store shows the song that was saved, whichever is open.
KeySaved(k) ==
    /\ k.done /\ keySave' = {}
    /\ detail' = [shown |-> [song |-> k.song, tone |-> k.tone], requested |-> k.song,
                  loading |-> FALSE, failed |-> FALSE]
    /\ chord' = AcceptDefaultKey(k.song, k.tone)
    /\ UNCHANGED <<catalog, route, songLoads, opened>>

KeySaveFails(k) ==
    /\ keySave' = {}
    /\ UNCHANGED <<catalog, route, detail, songLoads, chord, opened>>

PageNext ==
    \/ \E s \in PageSongs, tone \in 0..(Tones - 1) : OpenSong(s, tone) \/ FollowLink(s, tone)
    \/ LeavePage \/ ResetTranspose \/ SaveDefaultKey
    \/ \E l \in songLoads : ServerGetsSong(l) \/ SongArrives(l) \/ SongLoadFails(l)
    \/ \E delta \in {-1, 1} : Transpose(delta)
    \/ \E k \in keySave : ServerSavesKey(k) \/ KeySaved(k) \/ KeySaveFails(k)

PageSpec == PageInit /\ [][PageNext]_pageVars

PageTypeOK ==
    /\ catalog \in [PageSongs -> 0..(Tones - 1)]
    /\ route \in PageSongs \cup {NoSong}
    /\ detail.requested \in PageSongs \cup {NoSong}
    /\ Cardinality(keySave) <= 1 /\ opened <= MaxOpened
    /\ chord.offset \in Offsets
    /\ chord.active # NoSong => chord.offset = chord.offsets[chord.active]

-----------------------------------------------------------------------------
\* A page waits for its own song, says that it is loading only while the song is being
\* loaded, and that it could not load it only when that failed.
PageIsTrue ==
    route # NoSong =>
        /\ detail.requested = route
        /\ PageState = "loading" => \E l \in songLoads : l.song = route
        /\ PageState = "error" => detail.failed

\* Whatever songs are opened, left and saved while answers for others are on their way, a
\* page that is opened is true and stays so, but for one case: updateSong makes the song it
\* saved the current and requested one.  When another is open by then, the answer to its
\* load is dropped, and its page says "Carregando música..." until it is opened again.
StrandedByLateSavesOnly ==
    [][/\ opened' # opened => PageIsTrue'
       /\ PageIsTrue /\ ~PageIsTrue' => \E k \in keySave : KeySaved(k) /\ k.song # route]_pageVars
=============================================================================

----------------------------- MODULE SongTransfer -----------------------------
(***************************************************************************)
(* The catalogue of songs and its import from a file                       *)
(* (src/src/services/songTransferService.ts and songService.ts).           *)
(*                                                                         *)
(* A leader reviews what a file would do, confirms, and the server         *)
(* recomputes the review, compares it by its hash and applies the items in *)
(* one READ COMMITTED transaction, while others edit the same songs.       *)
(* A song is known by artist and title; the artist's row, which an import  *)
(* makes or reactivates along with the song, is left out, and so are songs *)
(* repeated in a file, which are never applied.                            *)
(***************************************************************************)
EXTENDS Naturals, FiniteSets

CONSTANTS Songs,        \* artist and title
          Contents,     \* key, chords and link of a song
          Imports       \* imports going on at a time

VARIABLES
    song,       \* the committed rows: state, content, and the link to the ministry
    import,     \* each import: step, file, the confirmed review, items left,
                \* the one read and not written yet, and the writes
    editing     \* songs an update has read as active and has still to write

transferVars == <<song, import, editing>>

NoFile == [s \in {} |-> s]
Files == UNION {[f -> Contents] : f \in (SUBSET Songs) \ {{}}}
NoImport == [step |-> "none", file |-> NoFile, review |-> NoFile, left |-> {},
             at |-> {}, wrote |-> {}]

TransferInit ==
    /\ \E c \in Contents :
          song \in [Songs -> {[state |-> "none", content |-> c, linked |-> FALSE]}]
    /\ import = [i \in Imports |-> NoImport]
    /\ editing = {}

TransferTypeOK ==
    /\ song \in [Songs -> [state: {"none", "active", "deleted"}, content: Contents,
                           linked: BOOLEAN]]
    /\ \A i \in Imports :
          /\ import[i].step \in {"none", "reviewed", "applying"}
          /\ import[i].left \subseteq DOMAIN import[i].file
          /\ DOMAIN import[i].review = DOMAIN import[i].file
    /\ editing \subseteq Songs

-----------------------------------------------------------------------------
Differs(s, file) == song[s].content # file[s]

Status(s, file) ==
    CASE song[s].state = "none"    -> "CREATE"
      [] song[s].state # "none" /\ Differs(s, file) -> "CONFLICT"
      [] song[s].state = "deleted" /\ ~Differs(s, file) -> "RESTORE"
      [] song[s].state = "active" /\ ~Differs(s, file) ->
            IF song[s].linked THEN "ALREADY_LINKED" ELSE "LINK"

Preview(file) == [s \in DOMAIN file |-> Status(s, file)]

Applicable(review) == {s \in DOMAIN review : review[s] \in {"CREATE", "RESTORE", "LINK"}}

\* Rows an open import has written: the song's when it was made or restored, and the
\* link's.
SongFree(s) == \A i \in Imports : \A w \in import[i].wrote :
                   w.song = s => w.how = "LINK"
LinkFree(s) == \A i \in Imports : \A w \in import[i].wrote : w.song # s

ReviewFile(i, file) ==
    /\ import[i].step = "none"
    /\ import' = [import EXCEPT ![i] = [NoImport EXCEPT !.step = "reviewed", !.file = file,
                                                        !.review = Preview(file)]]
    /\ UNCHANGED <<song, editing>>

\* Mutant: the confirmed hash is not compared.
AnyReview(i) == TRUE

\* The review is computed again, and refused when its hash is not the confirmed one.
SameReview(i) == Preview(import[i].file) = import[i].review

CommitImport(i) ==
    /\ import[i].step = "reviewed"
    /\ import' = [import EXCEPT ![i] =
          IF SameReview(i)
          THEN [@ EXCEPT !.step = "applying", !.left = Applicable(Preview(import[i].file))]
          ELSE NoImport]
    /\ UNCHANGED <<song, editing>>

\* One item is read, and a song that differs undoes the whole import; the write that
\* follows does not look again, but a creation that finds the title taken fails.
Refused(s, file) == song[s].state # "none" /\ Differs(s, file)

ReadItem(i, s) ==
    /\ import[i].step = "applying" /\ import[i].at = {}
    /\ s \in import[i].left
    /\ import' = [import EXCEPT ![i] =
          IF Refused(s, import[i].file) THEN NoImport
          ELSE [@ EXCEPT !.left = import[i].left \ {s},
                         !.at = IF Status(s, import[i].file) = "ALREADY_LINKED" THEN {}
                                ELSE {[song |-> s, how |-> Status(s, import[i].file),
                                       read |-> song[s].content]}]]
    /\ UNCHANGED <<song, editing>>

WriteItem(i) ==
    \E w \in import[i].at :
        /\ SongFree(w.song) /\ LinkFree(w.song)
        /\ import' = [import EXCEPT ![i] =
              IF w.how = "CREATE" /\ song[w.song].state # "none" THEN NoImport
              ELSE [@ EXCEPT !.at = {}, !.wrote = import[i].wrote \cup {w}]]
        /\ UNCHANGED <<song, editing>>

\* A lock waited for in a circle, the time limit, or a lost connection.
ImportFails(i) ==
    /\ import[i].step = "applying"
    /\ import' = [import EXCEPT ![i] = NoImport]
    /\ UNCHANGED <<song, editing>>

Written(i, s) ==
    IF \E w \in import[i].wrote : w.song = s
    THEN [state |-> IF \E w \in import[i].wrote : w.song = s /\ w.how = "LINK"
                    THEN song[s].state ELSE "active",
          content |-> IF \E w \in import[i].wrote : w.song = s /\ w.how = "CREATE"
                      THEN import[i].file[s] ELSE song[s].content,
          linked |-> TRUE]
    ELSE song[s]

FinishImport(i) ==
    /\ import[i].step = "applying" /\ import[i].left = {} /\ import[i].at = {}
    /\ song' = [s \in Songs |-> Written(i, s)]
    /\ import' = [import EXCEPT ![i] = NoImport]
    /\ UNCHANGED editing

-----------------------------------------------------------------------------
\* Songs edited one at a time: the title of a deleted song stays taken.
CreateSong(s, c) ==
    /\ song[s].state = "none" /\ SongFree(s)
    /\ song' = [song EXCEPT ![s].state = "active", ![s].content = c]
    /\ UNCHANGED <<import, editing>>

StartSongUpdate(s) ==
    /\ song[s].state = "active"
    /\ s \notin editing
    /\ editing' = editing \cup {s}
    /\ UNCHANGED <<song, import>>

\* The write does not ask again whether the song is still active.
UpdateSong(s, c) ==
    /\ s \in editing /\ SongFree(s)
    /\ song' = [song EXCEPT ![s].content = c]
    /\ editing' = editing \ {s}
    /\ UNCHANGED import

DeleteSong(s) ==
    /\ song[s].state = "active" /\ SongFree(s)
    /\ song' = [song EXCEPT ![s].state = "deleted"]
    /\ UNCHANGED <<import, editing>>

\* An administrator's change of the link, or its ministry's removal.
SetSongLink(s, on) ==
    /\ song[s].state # "none" /\ LinkFree(s) /\ song[s].linked # on
    /\ song' = [song EXCEPT ![s].linked = on]
    /\ UNCHANGED <<import, editing>>

TransferNext ==
    \/ \E i \in Imports :
          \/ \E file \in Files : ReviewFile(i, file)
          \/ CommitImport(i) \/ ImportFails(i) \/ FinishImport(i)
          \/ \E s \in Songs : ReadItem(i, s)
          \/ WriteItem(i)
    \/ \E s \in Songs :
          \/ \E c \in Contents : CreateSong(s, c) \/ UpdateSong(s, c)
          \/ StartSongUpdate(s) \/ DeleteSong(s)
          \/ \E on \in BOOLEAN : SetSongLink(s, on)

TransferSpec == TransferInit /\ [][TransferNext]_transferVars

-----------------------------------------------------------------------------
\* What an import changes is what its user confirmed: each song it made, restored or
\* linked was listed so in the review, not as a conflict or as present already, and
\* if it existed it had the content of the file when it was looked at.
OnlyReviewedIsApplied ==
    [][\A i \in Imports :
          FinishImport(i) =>
              \A w \in import[i].wrote :
                  /\ w.song \in Applicable(import[i].review)
                  /\ w.how = "CREATE" \/ w.read = import[i].file[w.song]]_transferVars
=============================================================================

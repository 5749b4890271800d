----------------------------- MODULE ScheduleSongs -----------------------------
(***************************************************************************)
(* The songs of schedules, written from three sides: saving a schedule     *)
(* (ScheduleRepository.update, AdminRepository.updateSchedule), saving the *)
(* worship order of a day, which covers its morning and evening schedules  *)
(* (src/src/repositories/WorshipOrderRepository.ts), and administrators    *)
(* who write single rows (AdminRepository.mutateScheduleChildResource).    *)
(*                                                                         *)
(* A schedule save runs at READ COMMITTED and updates the schedule row     *)
(* first.  A worship order runs SERIALIZABLE: it sees the database of its  *)
(* first statement and fails when it writes a row that changed since.      *)
(* Either may fail at any step.  The order of the songs, their moments and *)
(* the worship order row, which the same transaction writes, are left out. *)
(***************************************************************************)
EXTENDS Naturals, FiniteSets

CONSTANTS Services,     \* schedules of one day, numbered: morning before evening
          Tunes,        \* songs
          SongSaves     \* saves at a time

ASSUME SongAssumption == Services \subseteq Nat

VARIABLES
    songs,      \* songs[s]: committed ScheduleSong rows
    save        \* the transaction of each request

songVars == <<songs, save>>

Rows == Services \X Tunes
RowsOf(s, xs) == {s} \X xs

\* want: the songs asked for, per schedule; snap: the rows seen; todo: schedules to
\* write; roots, rows: what it holds locked; gone: rows it deleted; staleRoots,
\* staleRows: of these, what others committed since; meanwhile: schedules whose songs
\* an administrator wrote since.
NoSave == [pc |-> "none", may |-> TRUE, want |-> <<>>, snap |-> {}, todo |-> {},
           roots |-> {}, rows |-> {}, gone |-> {},
           staleRoots |-> {}, staleRows |-> {}, meanwhile |-> {}]

SongInit == /\ songs = [s \in Services |-> {}]
            /\ save = [r \in SongSaves |-> NoSave]

SongTypeOK ==
    /\ songs \in [Services -> SUBSET Tunes]
    /\ \A r \in SongSaves : LET j == save[r] IN
          /\ j.pc \in {"none", "failed", "delete", "create", "songs", "root"}
          /\ j.roots \cup j.staleRoots \cup j.todo \cup j.meanwhile \subseteq Services
          /\ j.rows \cup j.staleRows \cup j.snap \cup j.gone \subseteq Rows

\* Mutant: the schedule row is not written first, or not at all.
RootIgnored(r, s) == TRUE

RootFree(r, s) == \A q \in SongSaves \ {r} : s \notin save[q].roots

RowsFree(r, rows) == \A q \in SongSaves \ {r} : save[q].rows \cap rows = {}

Present == {row \in Rows : row[2] \in songs[row[1]]}

\* Mutant: the worship order runs at READ COMMITTED, where nothing it has seen conflicts.
TellOfAdmins(j, roots, rows, admins) ==
    [j EXCEPT !.meanwhile = @ \cup (admins \cap DOMAIN j.want)]

\* Another transaction commits: what j has seen of these rows is old.
Tell(j, roots, rows, admins) ==
    [j EXCEPT !.staleRoots = @ \cup (roots \cap j.todo), !.staleRows = @ \cup (rows \cap j.snap),
              !.meanwhile = @ \cup (admins \cap DOMAIN j.want)]

Commit(r) ==
    LET j == save[r]
        ss == DOMAIN j.want
    IN /\ songs' = [s \in Services |->
             IF s \in ss THEN {x \in songs[s] : <<s, x>> \notin j.gone} \cup j.want[s]
                         ELSE songs[s]]
       /\ save' = [q \in SongSaves |-> IF q = r THEN NoSave ELSE Tell(save[q], ss, j.rows, {})]

Goes(r, j) == save' = [save EXCEPT ![r] = j] /\ UNCHANGED songs
Fails(r) == Goes(r, [NoSave EXCEPT !.pc = "failed"])
Ended(r) == save[r].pc \in {"none", "failed"}

-----------------------------------------------------------------------------
\* Saving a schedule: the schedule row is updated, which locks it, and then the
\* songs are read.  Who may not change them must ask for the songs there are.
StartScheduleSave(r, s, xs, may) ==
    /\ Ended(r) /\ RootFree(r, s)
    /\ may \/ xs = songs[s]
    /\ Goes(r, [NoSave EXCEPT !.pc = "delete", !.may = may, !.want = [x \in {s} |-> xs], !.roots = {s}])

DeleteSongs(r) ==
    LET s == CHOOSE x \in save[r].roots : TRUE
        gone == RowsOf(s, songs[s])
    IN /\ save[r].pc = "delete" /\ RowsFree(r, gone)
       /\ Goes(r, [save[r] EXCEPT !.pc = "create", !.rows = gone, !.gone = gone])

CreateSongs(r) ==
    LET s == CHOOSE x \in save[r].roots : TRUE
    IN /\ save[r].pc = "create" /\ RowsFree(r, RowsOf(s, save[r].want[s]))
       /\ Commit(r)

-----------------------------------------------------------------------------
\* Saving a worship order: the songs are those of the snapshot throughout.
StartOrderSave(r, want, may) ==
    /\ Ended(r)
    /\ may \/ \A s \in DOMAIN want : want[s] = songs[s]
    /\ Goes(r, [NoSave EXCEPT !.pc = "songs", !.may = may, !.want = want,
                              !.snap = {row \in Present : row[1] \in DOMAIN want},
                              !.todo = DOMAIN want])

Current(j) == CHOOSE s \in j.todo : \A t \in j.todo : s <= t

\* A write to a row another transaction has changed since the snapshot fails, and so
\* does the creation of a row that is there by now.
Conflicts(j, rows) == j.staleRows \cap rows # {}

RootConflicts(j, s) == s \in j.staleRoots

SaveOrderSongs(r) ==
    LET j == save[r]
        s == Current(j)
        seen == j.snap \cap RowsOf(s, Tunes)
        wanted == RowsOf(s, j.want[s])
    IN /\ j.pc = "songs" /\ RowsFree(r, seen \cup wanted)
       /\ IF Conflicts(j, seen) \/ (wanted \ seen) \cap Present # {}
          THEN Fails(r)
          ELSE Goes(r, [j EXCEPT !.pc = "root", !.rows = @ \cup seen \cup wanted,
                                 !.gone = @ \cup (seen \ wanted)])

UpdateScheduleRow(r) ==
    LET j == save[r]
        s == Current(j)
    IN /\ j.pc = "root" /\ RootFree(r, s)
       /\ IF RootConflicts(j, s) THEN Fails(r)
          ELSE IF j.todo = {s} THEN Commit(r)
          ELSE Goes(r, [j EXCEPT !.pc = "songs", !.todo = @ \ {s}, !.roots = @ \cup {s}])

-----------------------------------------------------------------------------
\* A deadlock, a timeout or a failing statement.
RollBack(r) == ~Ended(r) /\ Fails(r)

\* An administrator creates or deletes one row; the schedule row is not touched.
AdminWritesSong(s, x) ==
    /\ \A q \in SongSaves : <<s, x>> \notin save[q].rows
    /\ songs' = [songs EXCEPT ![s] = IF x \in @ THEN @ \ {x} ELSE @ \cup {x}]
    /\ save' = [q \in SongSaves |-> Tell(save[q], {}, {<<s, x>>}, {s})]

SongNext ==
    \/ \E r \in SongSaves, may \in BOOLEAN :
          \/ \E s \in Services, xs \in SUBSET Tunes : StartScheduleSave(r, s, xs, may)
          \/ \E ss \in (SUBSET Services) \ {{}} :
                \E want \in [ss -> SUBSET Tunes] : StartOrderSave(r, want, may)
    \/ \E r \in SongSaves :
          \/ DeleteSongs(r) \/ CreateSongs(r)
          \/ SaveOrderSongs(r) \/ UpdateScheduleRow(r) \/ RollBack(r)
    \/ \E s \in Services, x \in Tunes : AdminWritesSong(s, x)

SongSpec == SongInit /\ [][SongNext]_songVars

-----------------------------------------------------------------------------
Commits(r) == save[r].pc \in {"create", "root"} /\ save'[r].pc = "none"

\* However schedule saves and worship orders overlap, a save that commits leaves the
\* songs it asked for and no others, unless an administrator wrote single rows of the
\* schedule while it ran.
SongsAreOneSave ==
    [][\A r \in SongSaves : Commits(r) =>
          \A s \in DOMAIN save[r].want \ save[r].meanwhile : songs'[s] = save[r].want[s]]_songVars

\* A save by somebody who may not change songs leaves them as they are when it
\* commits, whatever was saved since that was checked; only a row an administrator
\* wrote meanwhile may be lost.
UnpermittedSavesKeepSongs ==
    [][\A r \in SongSaves : Commits(r) /\ ~save[r].may =>
          \A s \in Services \ save[r].meanwhile : songs'[s] = songs[s]]_songVars
=============================================================================

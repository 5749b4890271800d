----------------------------- MODULE ChordEditor ------------------------------
(***************************************************************************)
(* The visual chord editor of a song's form                                *)
(* (mobile/src/components/songs/VisualChordEditor.web.tsx over             *)
(* mobile/src/utils/visualChordEditor.ts).                                 *)
(*                                                                         *)
(* A sheet is a sequence of lines; a line has its lyrics and the chords    *)
(* marked on it, each at the number of letters to its left.  Chords at one *)
(* place keep their order.  Directives and tablature are protected lines.  *)
(* Reading a line back gives what was written, and letters are whole       *)
(* graphemes.  A dialog covers the rest of the screen while it is open, so *)
(* opening it, typing and confirming are one step.  While the form saves   *)
(* every control is disabled, and nothing here changes.                    *)
(***************************************************************************)
EXTENDS Naturals, SequencesExt

CONSTANTS Letters, Break,   \* what can be typed; Break is a line break
          ChordNames,
          Texts,            \* what the user may type for one line
          Sheets,           \* sheets that come from outside, or are typed as text
          MaxSize,          \* a sheet has at most this size (100 000 in the code)
          HistoryLimit,     \* edits that can be undone (80 in the code)
          MaxEdits,         \* bound: edits
          MaxOutside        \* bound: sheets from outside

VARIABLES
    value,      \* the sheet, kept by the form
    history,    \* past and future: the last of each is the next to come back
    pick,       \* the chord selected or being moved: {} or {[line, mark, moving]}
    edits, outside

editorVars == <<value, history, pick, edits, outside>>

Mark(position, chord) == [position |-> position, chord |-> chord]
Plain(lyrics, marks) == [lyrics |-> lyrics, marks |-> marks, protected |-> FALSE]
Empty == Plain(<<>>, <<>>)

LineSize(line) == Len(line.lyrics) + Len(line.marks)
Size(sheet) == FoldSeq(LAMBDA line, sum : sum + LineSize(line) + 1, 0, sheet) - 1

EditableLines(sheet) == {i \in DOMAIN sheet : ~sheet[i].protected}
Positions(line) == 0..Len(line.lyrics)

Lines ==
    {line \in [lyrics: Seq(Letters \cup {Break}),
               marks: Seq([position: Nat, chord: ChordNames]), protected: BOOLEAN] :
        \A j, k \in DOMAIN line.marks :
            /\ line.marks[k].position \in Positions(line)
            /\ j < k => line.marks[j].position <= line.marks[k].position}

AllSheets == Seq(Lines) \ {<<>>}

\* A text has one line break at most.  Every sheet has a line.
ASSUME EditorAssumption ==
    /\ \A text \in Texts : /\ text \in Seq(Letters \cup {Break})
                           /\ Cardinality({k \in DOMAIN text : text[k] = Break}) <= 1
    /\ Sheets \subseteq AllSheets
    /\ {HistoryLimit, MaxEdits, MaxOutside} \subseteq Nat

EditorInit ==
    /\ value \in Sheets
    /\ history = [past |-> <<>>, future |-> <<>>]
    /\ pick = {} /\ edits = 0 /\ outside = 0

\* A chord that is picked is one of the sheet.
EditorTypeOK ==
    /\ value \in AllSheets
    /\ Len(history.past) + Len(history.future) <= HistoryLimit
    /\ \A p \in pick : /\ p.line \in EditableLines(value)
                       /\ p.mark \in DOMAIN value[p.line].marks
    /\ edits <= MaxEdits /\ outside <= MaxOutside

-----------------------------------------------------------------------------
\* Operations on sheets.  A mark put on a line comes after those at its place.
InsertChord(sheet, i, position, chord) ==
    LET marks == sheet[i].marks
        before == Cardinality({k \in DOMAIN marks : marks[k].position <= position})
    IN  IF Mark(position, chord) \in Range(marks) THEN sheet
        ELSE [sheet EXCEPT ![i].marks = InsertAt(@, before + 1, Mark(position, chord))]

RemoveChord(sheet, i, k) == [sheet EXCEPT ![i].marks = RemoveAt(@, k)]

ChangeChord(sheet, i, k, chord) == [sheet EXCEPT ![i].marks[k].chord = chord]

MoveChord(sheet, p, i, position) ==
    LET mark == sheet[p.line].marks[p.mark]
    IN  IF p.line = i /\ mark.position = position THEN sheet
        ELSE InsertChord(RemoveChord(sheet, p.line, p.mark), i, position, mark.chord)

RemoveEditorLine(sheet, i) ==
    IF Len(sheet) = 1 THEN <<Empty>> ELSE RemoveAt(sheet, i)

\* The letters two texts begin with in common, and the letters they end with beyond them.
Prefix(s, t) == LongestCommonPrefix({s, t})
Shared(s, t) == Len(Prefix(s, t))
SharedEnd(s, t) ==
    LET from == Shared(s, t) + 1
    IN  Shared(Reverse(SubSeq(s, from, Len(s))), Reverse(SubSeq(t, from, Len(t))))

\* The marks at some places, in their order.
MarksAt(marks, places) ==
    LET kept[k \in 0..Len(marks)] ==
            IF k = 0 THEN <<>>
            ELSE IF marks[k].position \in places THEN Append(kept[k - 1], marks[k])
            ELSE kept[k - 1]
    IN  kept[Len(marks)]

\* The marks of a line when "next" is written over its letters start+1..end.
MarksAround(line, start, end, next) ==
    LET kept == MarksAt(line.marks, Positions(line) \ (start..(end - 1)))
    IN  [k \in DOMAIN kept |->
           IF kept[k].position < end THEN kept[k]
           ELSE [kept[k] EXCEPT !.position = @ + Len(next) - Len(line.lyrics)]]

\* Mutant: chords on the first letter of what is replaced are kept.
MovedMarksPastStart(line, next) ==
    MarksAround(line, Shared(line.lyrics, next) + 1,
                Len(line.lyrics) - SharedEnd(line.lyrics, next), next)

\* What lies between the common ends has been replaced: chords on it are removed, those
\* behind it move along.
MovedMarks(line, next) ==
    MarksAround(line, Shared(line.lyrics, next),
                Len(line.lyrics) - SharedEnd(line.lyrics, next), next)

\* A line break in the text makes two lines; a chord right before it stays on the first.
Broken(lyrics, marks) ==
    IF Break \notin Range(lyrics) THEN <<Plain(lyrics, marks)>>
    ELSE LET place == SelectInSeq(lyrics, LAMBDA letter : letter = Break)
             second == MarksAt(marks, place..Len(lyrics))
         IN  <<Plain(SubSeq(lyrics, 1, place - 1), MarksAt(marks, 0..(place - 1))),
               Plain(SubSeq(lyrics, place + 1, Len(lyrics)),
                     [k \in DOMAIN second |-> [second[k] EXCEPT !.position = @ - place]])>>

ReplaceLineLyrics(sheet, i, next) ==
    SubSeq(sheet, 1, i - 1) \o Broken(next, MovedMarks(sheet[i], next))
        \o SubSeq(sheet, i + 1, Len(sheet))

-----------------------------------------------------------------------------
\* Mutant: what was undone stays to be redone after a new edit.
PushKeepingFuture(next) ==
    [past |-> SubSeq(Append(history.past, value),
                     IF Len(history.past) < HistoryLimit THEN 1 ELSE 2,
                     Len(history.past) + 1),
     future |-> history.future]

Push(next) ==
    [past |-> SubSeq(Append(history.past, value),
                     IF Len(history.past) < HistoryLimit THEN 1 ELSE 2,
                     Len(history.past) + 1),
     future |-> <<>>]

\* A sheet that is too long is refused with a message; one that is the same changes nothing.
Commit(next) ==
    /\ Size(next) <= MaxSize /\ next # value
    /\ edits < MaxEdits /\ edits' = edits + 1
    /\ history' = Push(next)
    /\ value' = next /\ pick' = {}
    /\ UNCHANGED outside

UndoEdit ==
    /\ history.past # <<>>
    /\ value' = Last(history.past)
    /\ history' = [past |-> Front(history.past), future |-> Append(history.future, value)]
    /\ pick' = {}
    /\ UNCHANGED <<edits, outside>>

RedoEdit ==
    /\ history.future # <<>>
    /\ value' = Last(history.future)
    /\ history' = [past |-> Append(history.past, value), future |-> Front(history.future)]
    /\ pick' = {}
    /\ UNCHANGED <<edits, outside>>

\* The form restores a draft, checks or converts the chords, undoes that, or imports.
ValueFromForm(sheet) ==
    /\ outside < MaxOutside /\ outside' = outside + 1
    /\ sheet # value
    /\ value' = sheet
    /\ history' = [past |-> <<>>, future |-> <<>>] /\ pick' = {}
    /\ UNCHANGED edits

\* The user clicks a chord, then perhaps "move", or puts it back.
SelectMark(i, k) ==
    /\ i \in EditableLines(value) /\ k \in DOMAIN value[i].marks
    /\ pick' = {[line |-> i, mark |-> k, moving |-> FALSE]}
    /\ UNCHANGED <<value, history, edits, outside>>

StartMoving ==
    /\ \E p \in pick : ~p.moving /\ pick' = {[p EXCEPT !.moving = TRUE]}
    /\ UNCHANGED <<value, history, edits, outside>>

Unpick ==
    /\ pick # {} /\ pick' = {}
    /\ UNCHANGED <<value, history, edits, outside>>

\* A letter is clicked: the chord being moved goes there, else the one of the palette.
\* Dragging a chord is picking it to move and clicking.
ChoosePosition(i, position, chord) ==
    /\ i \in EditableLines(value) /\ position \in Positions(value[i])
    /\ Commit(IF \E p \in pick : p.moving
              THEN MoveChord(value, CHOOSE p \in pick : TRUE, i, position)
              ELSE InsertChord(value, i, position, chord))

EditChord(chord) ==
    \E p \in pick : ~p.moving /\ Commit(ChangeChord(value, p.line, p.mark, chord))
DropChord ==
    \E p \in pick : ~p.moving /\ Commit(RemoveChord(value, p.line, p.mark))

EditLyrics(i, text) == i \in EditableLines(value) /\ Commit(ReplaceLineLyrics(value, i, text))
RemoveLine(i) == i \in EditableLines(value) /\ Commit(RemoveEditorLine(value, i))
AddLine == Commit(Append(value, Empty))

\* In the text mode, at the first writing, and by the conversion of chords over lyrics.
TypeSheet(sheet) == Commit(sheet)

EditorNext ==
    \/ UndoEdit \/ RedoEdit \/ StartMoving \/ Unpick \/ DropChord \/ AddLine
    \/ \E sheet \in Sheets : ValueFromForm(sheet) \/ TypeSheet(sheet)
    \/ \E chord \in ChordNames : EditChord(chord)
    \/ \E i \in DOMAIN value :
          \/ RemoveLine(i)
          \/ \E k \in DOMAIN value[i].marks : SelectMark(i, k)
          \/ \E text \in Texts : EditLyrics(i, text)
          \/ \E position \in Positions(value[i]), chord \in ChordNames :
                ChoosePosition(i, position, chord)

EditorSpec == EditorInit /\ [][EditorNext]_editorVars

-----------------------------------------------------------------------------
\* The past, the sheet and the future are one strip of versions, whatever mix of edits,
\* undoing, redoing and sheets from the form there was.
Strip == INSTANCE VersionStrip
           WITH strip <- history.past \o <<value>> \o Reverse(history.future),
                at <- Len(history.past) + 1

StripSpec == Strip!Spec

\* A way to see "next" as "lyrics" with the letters first+1..last replaced.
IsReplacement(lyrics, next, first, last) ==
    /\ first <= last /\ first + Len(lyrics) - last <= Len(next)
    /\ SubSeq(lyrics, 1, first) = SubSeq(next, 1, first)
    /\ SubSeq(lyrics, last + 1, Len(lyrics))
         = SubSeq(next, Len(next) - (Len(lyrics) - last) + 1, Len(next))

\* Whatever is typed for a line, it can be seen as replacing letters, as few as possible,
\* such that just the chords on these are lost and every other chord is where its letter is,
\* in the same order, and one behind the last letter is behind the last letter.
ChordsFollowTheirLetters ==
    \A i \in EditableLines(value), next \in Texts :
        LET line == value[i]
            n == Len(line.lyrics)
            ways == {w \in (0..n) \X (0..n) : IsReplacement(line.lyrics, next, w[1], w[2])}
        IN  \E w \in ways :
              /\ \A v \in ways : w[2] - w[1] <= v[2] - v[1]
              /\ MovedMarks(line, next) =
                   LET kept == MarksAt(line.marks, Positions(line) \ (w[1]..(w[2] - 1)))
                   IN  [k \in DOMAIN kept |->
                          IF kept[k].position < w[1] THEN kept[k]
                          ELSE Mark(Len(next) - (n - kept[k].position), kept[k].chord)]
=============================================================================

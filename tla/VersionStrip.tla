----------------------------- MODULE VersionStrip -----------------------------
(***************************************************************************)
(* What undo and redo promise.  The texts a field has held lie on a strip, *)
(* and the field shows one of them.  An edit puts its text behind the one  *)
(* shown in place of what was undone; a strip that is too long loses its   *)
(* oldest text.  A text that comes from outside the field starts a strip   *)
(* of its own.                                                             *)
(*                                                                         *)
(* ChordEditor implements this module (see Strip there).                   *)
(***************************************************************************)
EXTENDS Naturals, Sequences

CONSTANT HistoryLimit

VARIABLES strip,    \* the texts, oldest first
          at,       \* the one shown
          outside   \* how often a text has come from outside

stripVars == <<strip, at, outside>>

Init == Len(strip) = 1 /\ at = 1 /\ outside = 0

\* The strip with a text behind the one shown.
With(text) ==
    LET all == Append(SubSeq(strip, 1, at), text)
    IN  IF Len(all) > HistoryLimit + 1 THEN Tail(all) ELSE all

Edit == /\ strip'[Len(strip')] # strip[at]
        /\ strip' = With(strip'[Len(strip')])
        /\ at' = Len(strip') /\ UNCHANGED outside

Undo == at > 1 /\ at' = at - 1 /\ UNCHANGED <<strip, outside>>
Redo == at < Len(strip) /\ at' = at + 1 /\ UNCHANGED <<strip, outside>>

FromOutside == /\ Len(strip') = 1 /\ strip'[1] # strip[at]
               /\ at' = 1 /\ outside' = outside + 1

Next == Edit \/ Undo \/ Redo \/ FromOutside

Spec == Init /\ [][Next]_stripVars
=============================================================================

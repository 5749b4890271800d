------------------------------- MODULE FormExit -------------------------------
(***************************************************************************)
(* Leaving a form with changes (mobile/src/hooks/useFormExit.tsx,          *)
(* navigation/formExitGuard.ts and services/formDraftStorage.ts, as the    *)
(* schedule, worship order and song forms use them).                       *)
(*                                                                         *)
(* Every way out, a link, a tab, the back button of the device or of the   *)
(* browser, asks the guard first.  A form is the value on the screen; the  *)
(* value it is compared with (baseline) and the one it is put back to when *)
(* it loses the focus (initial) are kept beside it.                        *)
(***************************************************************************)
EXTENDS Naturals, FiniteSets

CONSTANTS FormValues,   \* what a form may hold
          NoValue

ASSUME FormAssumption == NoValue \notin FormValues

VARIABLES
    form,       \* focused, value, baseline, initial, allowed, pending
    draft,      \* stored on the device; found: the one offered; reading
    task,       \* what is being awaited: none, save, keep or discard, and its value
    late        \* history: a save left changes made during it on the screen

formVars == <<form, draft, task, late>>

NoTask == [doing |-> "none", value |-> NoValue]

FormInit ==
    /\ \E v \in FormValues :
          form = [focused |-> FALSE, value |-> v, baseline |-> NoValue, initial |-> NoValue,
                  allowed |-> FALSE, pending |-> FALSE]
    /\ draft = [stored |-> NoValue, found |-> NoValue, reading |-> FALSE]
    /\ task = NoTask /\ late = FALSE

FormTypeOK ==
    LET V == FormValues \cup {NoValue}
    IN /\ form \in [focused: BOOLEAN, value: FormValues, baseline: V, initial: V,
                    allowed: BOOLEAN, pending: BOOLEAN]
       /\ draft \in [stored: V, found: V, reading: BOOLEAN]
       /\ task \in [doing: {"none", "save", "keep", "discard"}, value: V]
       /\ late \in BOOLEAN

-----------------------------------------------------------------------------
Dirty == form.focused /\ form.baseline # NoValue /\ form.value # form.baseline

\* The dialog covers the form.
Dialog == form.pending \/ draft.found # NoValue

Focus ==
    /\ ~form.focused
    /\ form' = [form EXCEPT !.focused = TRUE, !.allowed = FALSE, !.pending = FALSE]
    /\ draft' = [draft EXCEPT !.found = NoValue, !.reading = TRUE]
    /\ UNCHANGED <<task, late>>

\* The form has its data: this is what changes are measured against.
Ready ==
    /\ form.focused /\ form.baseline = NoValue
    /\ form' = [form EXCEPT !.baseline = form.value, !.initial = form.value]
    /\ UNCHANGED <<draft, task, late>>

DraftRead ==
    /\ form.focused /\ draft.reading
    /\ \E failed \in BOOLEAN :
          draft' = [draft EXCEPT !.reading = FALSE,
                                 !.found = IF failed THEN NoValue ELSE draft.stored]
    /\ UNCHANGED <<form, task, late>>

\* Mutant: leave to go, once given by a save, is not taken back by further changes.
HoldingWithLeave(w) == [form EXCEPT !.value = w]

\* The form on the screen, when w is the value it holds from now on.
Holding(w) == [form EXCEPT !.value = w,
                           !.allowed = IF w = form.value THEN @ ELSE FALSE]

Edit(v) ==
    /\ form.focused /\ form.baseline # NoValue /\ ~Dialog
    /\ v # form.value
    /\ form' = Holding(v)
    /\ late' = FALSE
    /\ UNCHANGED <<draft, task>>

\* Out of the form: it is put back as it was, for the next visit.
Left(f) == [f EXCEPT !.focused = FALSE, !.pending = FALSE, !.allowed = FALSE,
                     !.value = IF f.initial = NoValue THEN f.value ELSE f.initial,
                     !.baseline = NoValue, !.initial = NoValue]
DraftLeft(d) == [d EXCEPT !.found = NoValue, !.reading = FALSE]

RequestFormNavigation ==
    /\ form.focused /\ ~Dialog
    /\ IF Dirty /\ ~form.allowed
       THEN /\ form' = [form EXCEPT !.pending = TRUE]
            /\ UNCHANGED <<draft, late>>
       ELSE /\ form' = Left(form)
            /\ draft' = DraftLeft(draft)
            /\ late' = FALSE
    /\ UNCHANGED task

\* "Continue editing", or dismissing the dialog, which also forgets the draft found.
StayHere ==
    /\ form.focused /\ Dialog /\ task.doing = "none"
    /\ form' = [form EXCEPT !.pending = FALSE]
    /\ \E dismissed \in BOOLEAN :
          draft' = IF dismissed THEN [draft EXCEPT !.found = NoValue] ELSE draft
    /\ form.pending \/ draft'.found = NoValue
    /\ UNCHANGED <<task, late>>

\* Saving, by the form's own button or by the dialog's; a form that does not pass its
\* checks is not saved.
StartFormSave ==
    /\ form.focused /\ form.baseline # NoValue /\ task.doing = "none"
    /\ draft.found = NoValue \/ form.pending
    /\ task' = [doing |-> "save", value |-> form.value]
    /\ UNCHANGED <<form, draft, late>>

FormSaveFails ==
    /\ task.doing = "save"
    /\ task' = NoTask
    /\ UNCHANGED <<form, draft, late>>

\* The draft is removed if it can be; the form is then compared with what was saved,
\* and may be left without a question.  The worship order stays on the screen.
Complete(stays) ==
    LET saved == [form EXCEPT !.allowed = TRUE, !.baseline = task.value,
                              !.initial = task.value]
    IN /\ task.doing = "save"
       /\ stays => ~form.pending
       /\ form.focused
       /\ form' = IF stays THEN saved ELSE Left(saved)
       /\ \E kept \in BOOLEAN :
             LET d == [draft EXCEPT !.stored = IF kept THEN @ ELSE NoValue]
             IN draft' = IF stays THEN d ELSE DraftLeft(d)
       /\ late' = (stays /\ form.value # task.value)
       /\ task' = NoTask

\* The save ends after the form was left: only the draft is touched.
CompleteAway ==
    /\ task.doing = "save" /\ ~form.focused
    /\ \E kept \in BOOLEAN : draft' = [draft EXCEPT !.stored = IF kept THEN @ ELSE NoValue]
    /\ task' = NoTask
    /\ UNCHANGED <<form, late>>

\* "Keep a draft and leave" and "leave without saving" wait for the device.
ChooseToLeave(keep) ==
    /\ form.pending /\ task.doing = "none"
    /\ task' = [doing |-> IF keep THEN "keep" ELSE "discard", value |-> form.value]
    /\ UNCHANGED <<form, draft, late>>

Leave ==
    /\ task.doing \in {"keep", "discard"}
    /\ draft' = DraftLeft([draft EXCEPT !.stored = IF task.doing = "keep" THEN task.value
                                                   ELSE NoValue])
    /\ form' = Left(form)
    /\ task' = NoTask /\ late' = FALSE

LeaveFails ==
    /\ task.doing \in {"keep", "discard"}
    /\ task' = NoTask
    /\ UNCHANGED <<form, draft, late>>

RecoverDraft ==
    /\ form.focused /\ form.baseline # NoValue
    /\ draft.found # NoValue /\ ~form.pending /\ task.doing = "none"
    /\ form' = Holding(draft.found)
    /\ draft' = [draft EXCEPT !.found = NoValue]
    /\ UNCHANGED <<task, late>>

DiscardDraft ==
    /\ draft.found # NoValue /\ ~form.pending /\ task.doing = "none"
    /\ draft' = [draft EXCEPT !.found = NoValue, !.stored = NoValue]
    /\ UNCHANGED <<form, task, late>>

FormNext ==
    \/ Focus \/ Ready \/ DraftRead \/ RequestFormNavigation \/ StayHere
    \/ \E v \in FormValues : Edit(v)
    \/ StartFormSave \/ FormSaveFails \/ CompleteAway
    \/ \E stays \in BOOLEAN : Complete(stays)
    \/ \E keep \in BOOLEAN : ChooseToLeave(keep)
    \/ Leave \/ LeaveFails \/ RecoverDraft \/ DiscardDraft

FormSpec == FormInit /\ [][FormNext]_formVars

-----------------------------------------------------------------------------
\* Changes leave the screen only by the user's choice: a form that is left held its
\* baseline, or it was saved, kept as a draft, or discarded when asked.  Excepted is the
\* one way it goes wrong: changes made during a save are dropped by it without a
\* question, at once when it leaves the form, by the next way out when it stays (late).
EditsAreLostByChoice ==
    [][(form.focused /\ ~form'.focused) =>
          \/ form.baseline = NoValue \/ form.value = form.baseline
          \/ task.doing \in {"save", "discard"} /\ task' = NoTask
          \/ draft'.stored = form.value
          \/ late]_formVars
=============================================================================

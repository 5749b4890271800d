---------------------------- MODULE PasswordReset ----------------------------
(***************************************************************************)
(* Password reset of one user (requestPasswordReset and resetPassword of   *)
(* src/src/services/authService.ts with src/src/repositories/              *)
(* authRepository.ts).                                                     *)
(*                                                                         *)
(* The user row holds one challenge.  Asking for a PIN replaces it, and    *)
(* when the mail cannot be delivered withdraws it again, much later.  A    *)
(* reset compares the PIN with a row it has read, hashes the new password  *)
(* and only then writes.  The writes are single conditional updates.       *)
(***************************************************************************)
EXTENDS Naturals, FiniteSets

CONSTANTS Challenges,       \* challenge ids
          ResetRequests,    \* requests being served at a time
          MaxTries,         \* passwordResetMaxAttempts
          NoChallenge

ASSUME ResetAssumption == /\ NoChallenge \notin Challenges
                          /\ MaxTries \in Nat \ {0}

VARIABLES
    challenge,  \* resetPasswordChallengeId (with the PIN's HMAC)
    tries,      \* resetPasswordAttempts
    lapsed,     \* resetPasswordExpires has passed
    issued,     \* history: challenges issued
    wrong,      \* history: wrong[c]: wrong PINs for c that have been answered
    changed,    \* history: changed[c]: passwords set with c
    resetPc,    \* where each request is
    seen        \* the challenge each request works with

resetVars == <<challenge, tries, lapsed, issued, wrong, changed, resetPc, seen>>

ResetInit ==
    /\ challenge = NoChallenge /\ tries = 0 /\ lapsed = FALSE
    /\ issued = {}
    /\ wrong = [c \in Challenges |-> 0]
    /\ changed = [c \in Challenges |-> 0]
    /\ resetPc = [r \in ResetRequests |-> "idle"]
    /\ seen = [r \in ResetRequests |-> NoChallenge]

ResetTypeOK ==
    /\ challenge \in Challenges \cup {NoChallenge}
    /\ tries \in 0..MaxTries
    /\ lapsed \in BOOLEAN
    /\ issued \subseteq Challenges
    /\ wrong \in [Challenges -> Nat] /\ changed \in [Challenges -> Nat]
    /\ resetPc \in [ResetRequests -> {"idle", "delivering", "undelivered", "hashing", "wrong"}]
    /\ seen \in [ResetRequests -> Challenges \cup {NoChallenge}]

ResetGo(r, from, to) == resetPc[r] = from /\ resetPc' = [resetPc EXCEPT ![r] = to]

\* Mutant: the attempts are not part of the condition.
StillTheChallenge(c) == c # NoChallenge /\ challenge = c

\* The condition every write repeats.  "now" was taken when the row was read, so
\* a challenge that lapses in between still counts as running.
StillOpen(c) == c # NoChallenge /\ challenge = c /\ tries < MaxTries

-----------------------------------------------------------------------------
SaveChallenge(r, c) ==
    /\ ResetGo(r, "idle", "delivering")
    /\ c \notin issued
    /\ issued' = issued \cup {c}
    /\ challenge' = c /\ tries' = 0 /\ lapsed' = FALSE
    /\ seen' = [seen EXCEPT ![r] = c]
    /\ UNCHANGED <<wrong, changed>>

Delivered(r) ==
    /\ ResetGo(r, "delivering", "idle")
    /\ UNCHANGED <<challenge, tries, lapsed, issued, wrong, changed, seen>>

DeliveryFails(r) ==
    /\ ResetGo(r, "delivering", "undelivered")
    /\ UNCHANGED <<challenge, tries, lapsed, issued, wrong, changed, seen>>

\* Mutant: whatever challenge there is is withdrawn.
WithdrawAny(r) ==
    /\ ResetGo(r, "undelivered", "idle")
    /\ challenge' = NoChallenge
    /\ UNCHANGED <<tries, lapsed, issued, wrong, changed, seen>>

\* Only its own challenge is withdrawn; the update may fail too.
Withdraw(r) ==
    /\ ResetGo(r, "undelivered", "idle")
    /\ \/ challenge' = IF challenge = seen[r] THEN NoChallenge ELSE challenge
       \/ UNCHANGED challenge
    /\ UNCHANGED <<tries, lapsed, issued, wrong, changed, seen>>

Lapse == /\ challenge # NoChallenge /\ ~lapsed
         /\ lapsed' = TRUE
         /\ UNCHANGED <<challenge, tries, issued, wrong, changed, resetPc, seen>>

\* The row is read and the PIN compared: right or wrong.
ComparePin(r, result) ==
    /\ StillOpen(challenge) /\ ~lapsed
    /\ ResetGo(r, "idle", result)
    /\ seen' = [seen EXCEPT ![r] = challenge]
    /\ UNCHANGED <<challenge, tries, lapsed, issued, wrong, changed>>

\* Mutant: the attempt is counted on whatever the row holds by now.
RecordEveryAttempt(r) ==
    /\ ResetGo(r, "wrong", "idle")
    /\ tries' = tries + 1
    /\ wrong' = [wrong EXCEPT ![seen[r]] = @ + 1]
    /\ UNCHANGED <<challenge, lapsed, issued, changed, seen>>

RecordInvalidAttempt(r) ==
    /\ ResetGo(r, "wrong", "idle")
    /\ tries' = IF StillOpen(seen[r]) THEN tries + 1 ELSE tries
    /\ wrong' = [wrong EXCEPT ![seen[r]] = @ + 1]
    /\ UNCHANGED <<challenge, lapsed, issued, changed, seen>>

\* Mutant: the password is set by the id of the user alone.
ConsumeByUser(r) ==
    /\ ResetGo(r, "hashing", "idle")
    /\ changed' = [changed EXCEPT ![seen[r]] = @ + 1]
    /\ challenge' = NoChallenge
    /\ UNCHANGED <<tries, lapsed, issued, wrong, seen>>

ConsumeChallenge(r) ==
    /\ ResetGo(r, "hashing", "idle")
    /\ IF StillOpen(seen[r])
       THEN /\ changed' = [changed EXCEPT ![seen[r]] = @ + 1]
            /\ challenge' = NoChallenge
       ELSE UNCHANGED <<changed, challenge>>
    /\ UNCHANGED <<tries, lapsed, issued, wrong, seen>>

ResetNext ==
    \/ \E r \in ResetRequests :
          \/ \E c \in Challenges : SaveChallenge(r, c)
          \/ Delivered(r) \/ DeliveryFails(r) \/ Withdraw(r)
          \/ \E result \in {"hashing", "wrong"} : ComparePin(r, result)
          \/ RecordInvalidAttempt(r) \/ ConsumeChallenge(r)
    \/ Lapse

ResetSpec == ResetInit /\ [][ResetNext]_resetVars

-----------------------------------------------------------------------------
\* However many guesses are compared at once, a challenge sets one password, and
\* none once MaxTries wrong guesses have been answered.
ChallengeWorksOnce == \A c \in Challenges : changed[c] <= 1

GuessesAreCounted ==
    [][\A c \in Challenges : changed'[c] # changed[c] => wrong[c] < MaxTries]_resetVars

\* A challenge is withdrawn by the failure of its own delivery only: the failure of
\* an older mail, or an older guess, does not take the newer challenge away.
NewerChallengeSurvives ==
    [][\A c \in Challenges :
         challenge = c /\ challenge' # c =>
            \/ challenge' \in Challenges
            \/ changed'[c] > changed[c]
            \/ \E r \in ResetRequests : resetPc[r] = "undelivered" /\ seen[r] = c]_resetVars
=============================================================================

-------------------------- MODULE ServerDataProofs --------------------------
(***************************************************************************)
(* Proofs about requests that overlap on rows of the database:             *)
(* SupportAccess, Invitations, PasswordReset, Administration, Membership,  *)
(* ScheduleSongs and SongTransfer, each for any number of overlapping      *)
(* requests; and, from the types of the seven, those of MCServerData,      *)
(* which composes them.                                                    *)
(***************************************************************************)
EXTENDS MCServerData, WellFoundedInduction, TLAPS

(***************************************************************************)
(* Support grants.                                                         *)
(***************************************************************************)
\* Who has been let in by a grant is who the grant is bound to, and was let in
\* while it was not revoked.
ServedAreBound ==
    \A g \in Grants : \A x \in served[g] : x[1] = grant[g].bound /\ ~x[2]

\* A request either uses no grant or has both a grant and a session.
UsesAreWhole ==
    \A r \in SupportUses : use[r] # NotInUse => /\ use[r].grant \in Grants
                                               /\ use[r].session \in SupportSessions

BoundInv == SupportTypeOK /\ ServedAreBound /\ UsesAreWhole

-----------------------------------------------------------------------------
LEMMA SupportInitInv == SupportInit => BoundInv
  BY SupportAssumption DEF SupportInit, BoundInv, SupportTypeOK, ServedAreBound, UsesAreWhole, NotInUse

LEMMA SupportNextInv == BoundInv /\ [SupportNext]_supportVars => BoundInv'
<1> SUFFICES ASSUME BoundInv, [SupportNext]_supportVars PROVE BoundInv'
  OBVIOUS
<1> USE SupportAssumption DEF BoundInv, SupportTypeOK, ServedAreBound, UsesAreWhole, NotInUse
<1>1. ASSUME NEW g \in Grants, CreateSupportGrant(g) PROVE BoundInv'
  BY <1>1 DEF CreateSupportGrant
<1>2. ASSUME NEW g \in Grants, RevokeSupportGrant(g) PROVE BoundInv'
  BY <1>2 DEF RevokeSupportGrant
<1>3. ASSUME NEW g \in Grants, GrantLapses(g) PROVE BoundInv'
  BY <1>3 DEF GrantLapses
<1>4. ASSUME NEW r \in SupportUses, NEW g \in Grants, NEW s \in SupportSessions,
             FindGrant(r, g, s)
      PROVE  BoundInv'
  BY <1>4 DEF FindGrant
<1>5. ASSUME NEW r \in SupportUses, BindSession(r) PROVE BoundInv'
  <2> DEFINE g == use[r].grant
             s == use[r].session
  <2>1. /\ use[r] # NotInUse /\ g \in Grants /\ s \in SupportSessions
        /\ use' = [use EXCEPT ![r] = NotInUse]
    BY <1>5 DEF BindSession
  <2>2. CASE Usable(g, s)
    <3>1. /\ grant' = [grant EXCEPT ![g].bound = s]
          /\ served' = [served EXCEPT ![g] = @ \cup {<<s, grant[g].revoked>>}]
      BY <1>5, <2>2 DEF BindSession
    <3>2. ~grant[g].revoked /\ grant[g].bound \in {Unbound, s}
      BY <2>2 DEF Usable
    <3>3. SupportTypeOK'
      BY <2>1, <3>1
    <3>4. UsesAreWhole'
      BY <2>1
    <3>5. ASSUME NEW h \in Grants, NEW x \in served'[h]
          PROVE  x[1] = grant'[h].bound /\ ~x[2]
      <4>1. CASE h # g
        BY <4>1, <3>1, <3>5
      <4>2. CASE h = g
        <5>1. grant'[h].bound = s
          BY <4>2, <2>1, <3>1
        <5>2. CASE x \in served[g]
          <6>1. x[1] = grant[g].bound /\ ~x[2] /\ x[1] \in SupportSessions
            BY <5>2, <2>1
          <6> QED
            BY <6>1, <5>1, <3>2
        <5>3. CASE x = <<s, grant[g].revoked>>
          BY <5>3, <5>1, <3>2
        <5> QED
          BY <4>2, <5>2, <5>3, <3>1, <3>5, <2>1
      <4> QED
        BY <4>1, <4>2
    <3> QED
      BY <3>3, <3>4, <3>5
  <2>3. CASE ~Usable(g, s)
    BY <1>5, <2>1, <2>3 DEF BindSession
  <2> QED
    BY <2>2, <2>3
<1>6. CASE UNCHANGED supportVars
  BY <1>6 DEF supportVars
<1> QED
  BY <1>1, <1>2, <1>3, <1>4, <1>5, <1>6 DEF SupportNext

LEMMA SupportInductive == SupportSpec => []BoundInv
<1> QED
  BY SupportInitInv, SupportNextInv, PTL DEF SupportSpec

-----------------------------------------------------------------------------
\* The types of grants and of the requests that use them.
THEOREM SupportTypes == SupportSpec => []SupportTypeOK
<1>1. BoundInv => SupportTypeOK
  BY DEF BoundInv
<1> QED
  BY <1>1, SupportInductive, PTL

\* However uses and revocations interleave, a grant serves one session, and never
\* after it was revoked: what was served is what the grant is bound to.
THEOREM ServesOneSession == SupportSpec => []GrantServesOneSession
<1>1. BoundInv => GrantServesOneSession
  BY DEF BoundInv, ServedAreBound, GrantServesOneSession
<1> QED
  BY <1>1, SupportInductive, PTL

-----------------------------------------------------------------------------
(***************************************************************************)
(* Invitations.                                                            *)
(***************************************************************************)
\* An invitation that was made and deactivated is never active again: rows are made
\* once.
Over(i) == invite[i].made /\ ~invite[i].active

StoppedAreOver == \A i \in stopped : Over(i)

\* What a regeneration found active stays inactive until it is done.
BarredAreOver ==
    \A j \in Joins : /\ join[j].step = "replace" => \A i \in join[j].barred : Over(i)
                     /\ join[j].step \in {"none", "create"} => join[j].barred = {}

\* A request that lets somebody in has an invitation that was not stopped before it.
JoinsAreOpen ==
    \A j \in Joins : join[j].step \in {"register", "apply"} =>
        join[j].email \in Emails /\ join[j].invite \notin join[j].barred

OpenInv ==
    /\ InviteTypeOK
    /\ \A i \in Invites : invite[i].active => invite[i].made
    /\ StoppedAreOver /\ BarredAreOver /\ JoinsAreOpen
    /\ RegeneratedCodesAdmitNobody

-----------------------------------------------------------------------------
LEMMA InviteInitInv == InviteInit => OpenInv
<1> SUFFICES ASSUME InviteInit PROVE OpenInv
  OBVIOUS
<1> USE DEF InviteInit, NoJoin
<1>1. InviteTypeOK
  BY DEF InviteTypeOK
<1>2. StoppedAreOver /\ BarredAreOver /\ JoinsAreOpen
  BY DEF StoppedAreOver, BarredAreOver, JoinsAreOpen
<1> QED
  BY <1>1, <1>2 DEF OpenInv, RegeneratedCodesAdmitNobody

LEMMA InviteNextInv == OpenInv /\ [InviteNext]_inviteVars => OpenInv'
<1> SUFFICES ASSUME OpenInv, [InviteNext]_inviteVars PROVE OpenInv'
  OBVIOUS
<1> USE DEF OpenInv, InviteTypeOK, StoppedAreOver, BarredAreOver, JoinsAreOpen, Over,
            NoJoin, RegeneratedCodesAdmitNobody
<1>1. ASSUME NEW e \in Emails, Register(e) PROVE OpenInv'
  BY <1>1 DEF Register
<1>2. ASSUME NEW on \in BOOLEAN, SwitchChurch(on) PROVE OpenInv'
  BY <1>2 DEF SwitchChurch
<1>3. ASSUME NEW j \in Joins, GetMemberInvite(j) PROVE OpenInv'
  <2>1. InviteTypeOK'
    BY <1>3 DEF GetMemberInvite
  <2>2. BarredAreOver'
    BY <1>3 DEF GetMemberInvite
  <2> QED
    BY <2>1, <2>2, <1>3 DEF GetMemberInvite
<1>4. ASSUME NEW j \in Joins, RegenerateMemberInvite(j) PROVE OpenInv'
  <2>1. InviteTypeOK'
    BY <1>4 DEF RegenerateMemberInvite, DeactivateMemberInvites
  <2>2. \A i \in Invites : /\ ~invite'[i].active
                           /\ invite'[i].made <=> invite[i].made
    BY <1>4 DEF RegenerateMemberInvite, DeactivateMemberInvites
  <2>3. BarredAreOver'
    BY <2>1, <2>2, <1>4 DEF RegenerateMemberInvite
  <2> QED
    BY <2>1, <2>2, <2>3, <1>4 DEF RegenerateMemberInvite
<1>5. ASSUME NEW j \in Joins, NEW i \in Invites, CreateMemberInvite(j, i) PROVE OpenInv'
  BY <1>5 DEF CreateMemberInvite
<1>6. ASSUME NEW j \in Joins, JoinFails(j) PROVE OpenInv'
  BY <1>6 DEF JoinFails
<1>7. ASSUME NEW j \in Joins, NEW i \in Invites, NEW e \in Emails, StartRegistration(j, i, e)
      PROVE  OpenInv'
  BY <1>7 DEF StartRegistration, Active
<1>8. ASSUME NEW j \in Joins, NEW i \in Invites, NEW e \in Emails, StartApplying(j, i, e)
      PROVE  OpenInv'
  BY <1>8 DEF StartApplying, Active
<1>9. ASSUME NEW j \in Joins, Joined(j) PROVE OpenInv'
  BY <1>9 DEF Joined
<1>10. CASE UNCHANGED inviteVars
  BY <1>10 DEF inviteVars
<1> QED
  BY <1>1, <1>2, <1>3, <1>4, <1>5, <1>6, <1>7, <1>8, <1>9, <1>10 DEF InviteNext

LEMMA InviteInductive == InviteSpec => []OpenInv
  BY InviteInitInv, InviteNextInv, PTL DEF InviteSpec

-----------------------------------------------------------------------------
\* The types of invitations and of the requests that make and use them.
THEOREM InviteTypes == InviteSpec => []InviteTypeOK
<1>1. OpenInv => InviteTypeOK
  BY DEF OpenInv
<1> QED
  BY <1>1, InviteInductive, PTL

\* Once a regeneration is done, what it found active, however much that was, lets in
\* no request that comes later: rows are made once and never activated again.
THEOREM RegenerationIsFinal == InviteSpec => []RegeneratedCodesAdmitNobody
<1>1. OpenInv => RegeneratedCodesAdmitNobody
  BY DEF OpenInv
<1> QED
  BY <1>1, InviteInductive, PTL

-----------------------------------------------------------------------------
(***************************************************************************)
(* Password resets. A challenge sets one password, none after MaxTries     *)
(* wrong guesses, and is withdrawn by the failure of its own delivery      *)
(* only.                                                                   *)
(***************************************************************************)
\* Nothing has happened to a challenge before it is issued, and a request works
\* with an issued one.
IssuedFirst ==
    /\ \A c \in Challenges \ issued : wrong[c] = 0 /\ changed[c] = 0
    /\ \A r \in ResetRequests : resetPc[r] # "idle" => seen[r] \in issued

\* The attempts on the row are the wrong guesses answered, until there are MaxTries,
\* and the challenge on the row has set no password yet.
RowIsCurrent ==
    challenge # NoChallenge =>
        /\ challenge \in issued
        /\ changed[challenge] = 0
        /\ tries < MaxTries => wrong[challenge] = tries

ResetInv == ResetTypeOK /\ IssuedFirst /\ RowIsCurrent /\ ChallengeWorksOnce

-----------------------------------------------------------------------------
LEMMA ResetInitInv == ResetInit => ResetInv
<1> SUFFICES ASSUME ResetInit PROVE ResetInv
  OBVIOUS
<1> USE ResetAssumption DEF ResetInit, ResetAssumption
<1>1. ResetTypeOK
  <2>1. tries \in 0..MaxTries /\ issued \subseteq Challenges
    OBVIOUS
  <2>3. lapsed \in BOOLEAN
    OBVIOUS
  <2>2. wrong \in [Challenges -> Nat] /\ changed \in [Challenges -> Nat]
    OBVIOUS
  <2> QED
    BY <2>1, <2>2, <2>3 DEF ResetTypeOK
<1>2. IssuedFirst /\ RowIsCurrent /\ ChallengeWorksOnce
  BY DEF IssuedFirst, RowIsCurrent, ChallengeWorksOnce
<1> QED
  BY <1>1, <1>2 DEF ResetInv

LEMMA ResetNextInv == ResetInv /\ [ResetNext]_resetVars => ResetInv'
<1> SUFFICES ASSUME ResetInv, [ResetNext]_resetVars PROVE ResetInv'
  OBVIOUS
<1> USE ResetAssumption DEF ResetAssumption, ResetInv, ResetTypeOK, IssuedFirst, RowIsCurrent,
                            ChallengeWorksOnce, ResetGo, StillOpen
<1>1. ASSUME NEW r \in ResetRequests, NEW c \in Challenges, SaveChallenge(r, c)
      PROVE  ResetInv'
  <2>1. ResetTypeOK'
    <3>1. tries' \in 0..MaxTries
      BY <1>1 DEF SaveChallenge
    <3>2. lapsed' \in BOOLEAN
      BY <1>1, Zenon DEF SaveChallenge
    <3> QED
      BY <3>1, <3>2, <1>1 DEF SaveChallenge
  <2>2. IssuedFirst'
    BY <1>1 DEF SaveChallenge
  <2>3. RowIsCurrent' /\ ChallengeWorksOnce'
    BY <1>1 DEF SaveChallenge
  <2> QED
    BY <2>1, <2>2, <2>3
<1>2. ASSUME NEW r \in ResetRequests, Delivered(r) \/ DeliveryFails(r) PROVE ResetInv'
  BY <1>2 DEF Delivered, DeliveryFails
<1>3. ASSUME NEW r \in ResetRequests, Withdraw(r) PROVE ResetInv'
  BY <1>3 DEF Withdraw
<1>4. ASSUME NEW r \in ResetRequests, NEW result \in {"hashing", "wrong"},
             ComparePin(r, result)
      PROVE  ResetInv'
  BY <1>4 DEF ComparePin
<1>5. ASSUME NEW r \in ResetRequests, RecordInvalidAttempt(r) PROVE ResetInv'
  <2>1. ResetTypeOK'
    BY <1>5 DEF RecordInvalidAttempt
  <2>2. IssuedFirst'
    BY <1>5 DEF RecordInvalidAttempt
  <2>3. RowIsCurrent'
    BY <1>5 DEF RecordInvalidAttempt
  <2> QED
    BY <2>1, <2>2, <2>3, <1>5 DEF RecordInvalidAttempt
<1>6. ASSUME NEW r \in ResetRequests, ConsumeChallenge(r) PROVE ResetInv'
  <2>1. CASE StillOpen(seen[r])
    BY <2>1, <1>6 DEF ConsumeChallenge
  <2>2. CASE ~StillOpen(seen[r])
    BY <2>2, <1>6 DEF ConsumeChallenge
  <2> QED
    BY <2>1, <2>2
<1>7. CASE Lapse
  BY <1>7 DEF Lapse
<1>8. CASE UNCHANGED resetVars
  BY <1>8 DEF resetVars
<1> QED
  BY <1>1, <1>2, <1>3, <1>4, <1>5, <1>6, <1>7, <1>8 DEF ResetNext

LEMMA ResetInductive == ResetSpec => []ResetInv
  BY ResetInitInv, ResetNextInv, PTL DEF ResetSpec

-----------------------------------------------------------------------------
\* The types of the user row, the history and the requests.
THEOREM ResetTypes == ResetSpec => []ResetTypeOK
<1>1. ResetInv => ResetTypeOK
  BY DEF ResetInv
<1> QED
  BY <1>1, ResetInductive, PTL

\* A challenge sets one password, however many right guesses are hashed at once.
THEOREM OnePasswordPerChallenge == ResetSpec => []ChallengeWorksOnce
<1>1. ResetInv => ChallengeWorksOnce
  BY DEF ResetInv
<1> QED
  BY <1>1, ResetInductive, PTL

\* A password is set only while fewer than MaxTries wrong guesses have been answered
\* for its challenge: the row still counts all of them when the update looks.
LEMMA ChangedBeforeTheLimit ==
    ASSUME ResetInv, [ResetNext]_resetVars, NEW c \in Challenges, changed'[c] # changed[c]
    PROVE  wrong[c] < MaxTries
<1> USE ResetAssumption DEF ResetAssumption, ResetInv, ResetTypeOK, ResetGo
<1>1. PICK r \in ResetRequests : ConsumeChallenge(r) /\ StillOpen(seen[r])
  BY DEF ResetNext, SaveChallenge, Delivered, DeliveryFails, Withdraw, ComparePin,
         RecordInvalidAttempt, ConsumeChallenge, Lapse, resetVars
<1>2. seen[r] = c
  BY <1>1 DEF ConsumeChallenge, StillOpen
<1> QED
  BY <1>1, <1>2 DEF StillOpen, RowIsCurrent

THEOREM GuessesCount == ResetSpec => GuessesAreCounted
<1>1. ResetInv /\ [ResetNext]_resetVars =>
          [\A c \in Challenges : changed'[c] # changed[c] => wrong[c] < MaxTries]_resetVars
  BY ChangedBeforeTheLimit
<1> QED
  BY <1>1, ResetInductive, PTL DEF ResetSpec, GuessesAreCounted

\* A challenge leaves the row for a newer one, for the password it sets, or because
\* its own mail could not be delivered.
LEMMA OwnWithdrawal ==
    ASSUME ResetInv, [ResetNext]_resetVars, NEW c \in Challenges,
           challenge = c, challenge' # c
    PROVE  \/ challenge' \in Challenges
           \/ changed'[c] > changed[c]
           \/ \E r \in ResetRequests : resetPc[r] = "undelivered" /\ seen[r] = c
<1> USE ResetAssumption DEF ResetAssumption, ResetInv, ResetTypeOK, ResetGo
<1>1. ASSUME NEW r \in ResetRequests, NEW d \in Challenges, SaveChallenge(r, d)
      PROVE  challenge' \in Challenges
  BY <1>1 DEF SaveChallenge
<1>2. ASSUME NEW r \in ResetRequests, Withdraw(r)
      PROVE  resetPc[r] = "undelivered" /\ seen[r] = c
  BY <1>2 DEF Withdraw
<1>3. ASSUME NEW r \in ResetRequests, ConsumeChallenge(r)
      PROVE  changed'[c] > changed[c]
  BY <1>3 DEF ConsumeChallenge, StillOpen
<1>4. \E r \in ResetRequests : \/ \E d \in Challenges : SaveChallenge(r, d)
                               \/ Withdraw(r)
                               \/ ConsumeChallenge(r)
  BY DEF ResetNext, Delivered, DeliveryFails, ComparePin, RecordInvalidAttempt, Lapse,
         resetVars
<1> QED
  BY <1>1, <1>2, <1>3, <1>4

THEOREM NewerSurvives == ResetSpec => NewerChallengeSurvives
<1>1. ResetInv /\ [ResetNext]_resetVars =>
          [\A c \in Challenges :
             challenge = c /\ challenge' # c =>
                \/ challenge' \in Challenges
                \/ changed'[c] > changed[c]
                \/ \E r \in ResetRequests : resetPc[r] = "undelivered" /\ seen[r] = c]_resetVars
  BY OwnWithdrawal
<1> QED
  BY <1>1, ResetInductive, PTL DEF ResetSpec, NewerChallengeSurvives

-----------------------------------------------------------------------------
(***************************************************************************)
(* Administration. A request that has changed a user or a church carries   *)
(* to its end the sessions that were live at its write; these stay their   *)
(* users', and revoking takes all of them but those of users who have left *)
(* the church meanwhile.                                                   *)
(***************************************************************************)
Persons == [role: Roles, church: Churches \cup {NoChurch}, active: BOOLEAN]

\* What a request may be doing; alive are the sessions that were live at its write.
AdminJobs ==
    {Idle, [pc |-> "failed"]}
    \cup [pc: {"read"}, user: People, change: UserChanges]
    \cup [pc: {"count", "write"}, user: People, change: UserChanges, saw: Persons, want: Persons]
    \cup [pc: {"revoke"}, users: SUBSET People, church: Churches \cup {NoChurch},
          signsOut: BOOLEAN, alive: SUBSET Logins]

AdminShape ==
    /\ person \in [People -> Persons]
    /\ open \subseteq Churches
    /\ login \in [Logins -> [user: People \cup {Nobody}, live: BOOLEAN]]
    /\ job \in [AdminRequests -> AdminJobs]

\* A session stays its user's: what was live at a write belongs to whom it concerns.
AliveAreTheirs ==
    \A r \in AdminRequests : job[r].pc = "revoke" =>
        \A s \in job[r].alive : login[s].user \in job[r].users

AdminInv == AdminShape /\ AliveAreTheirs

\* No session that was live at the write of r outlives the end of r.
SignedOut(r) ==
    job[r].pc = "revoke" /\ job'[r] = Idle /\ job[r].signsOut =>
       \A s \in job[r].alive :
          login'[s].live => /\ job[r].church # NoChurch
                            /\ person[login[s].user].church # job[r].church

LEMMA AdminJobPcs ==
    ASSUME NEW j \in AdminJobs
    PROVE  /\ j.pc \in {"idle", "read", "count", "write", "revoke", "failed"}
           /\ j.pc = "read" => j \in [pc: {"read"}, user: People, change: UserChanges]
           /\ j.pc \in {"count", "write"} =>
                j \in [pc: {"count", "write"}, user: People, change: UserChanges,
                       saw: Persons, want: Persons]
           /\ j.pc = "revoke" =>
                j \in [pc: {"revoke"}, users: SUBSET People, church: Churches \cup {NoChurch},
                       signsOut: BOOLEAN, alive: SUBSET Logins]
  BY DEF AdminJobs, Idle

LEMMA WantedType ==
    ASSUME NEW p \in Persons, NEW change \in UserChanges
    PROVE  Wanted(p, change) \in Persons
<1>1. change \in [role: Roles \cup {Same}, church: Churches \cup {NoChurch, Same},
                  password: BOOLEAN]
  BY AdminAssumption
<1> QED
  BY <1>1 DEF Persons, Wanted

LEMMA AdminInitInv == AdminInit => AdminInv
<1> SUFFICES ASSUME AdminInit PROVE AdminInv
  OBVIOUS
<1>1. person \in [People -> Persons]
  BY DEF AdminInit, Persons
<1>2. login \in [Logins -> [user: People \cup {Nobody}, live: BOOLEAN]]
  BY DEF AdminInit
<1>3. job \in [AdminRequests -> AdminJobs]
  BY DEF AdminInit, AdminJobs
<1>4. \A r \in AdminRequests : job[r].pc = "idle"
  BY DEF AdminInit, Idle
<1> QED
  BY <1>1, <1>2, <1>3, <1>4 DEF AdminInit, AdminInv, AdminShape, AliveAreTheirs

\* One request moves on, not to the end of a revocation; sessions stay.
LEMMA AdminJobMoves ==
    ASSUME AdminInv, person' \in [People -> Persons], open' \subseteq Churches, login' = login,
           NEW r \in AdminRequests, NEW j \in AdminJobs, Becomes(r, j),
           j.pc = "revoke" => \A s \in j.alive : login[s].user \in j.users,
           job[r].pc = "revoke" => j # Idle
    PROVE  AdminInv' /\ \A q \in AdminRequests : SignedOut(q)
<1>1. /\ job' = [job EXCEPT ![r] = j]
      /\ \A q \in AdminRequests : job'[q] = IF q = r THEN j ELSE job[q]
  BY DEF Becomes, AdminInv, AdminShape
<1>2. AdminInv'
  BY <1>1 DEF AdminInv, AdminShape, AliveAreTheirs
<1>3. ASSUME NEW q \in AdminRequests PROVE SignedOut(q)
  BY <1>1 DEF SignedOut, Idle
<1> QED
  BY <1>2, <1>3

LEMMA AliveType ==
    ASSUME AdminInv, NEW us \in SUBSET People, NEW c \in Churches \cup {NoChurch},
           NEW signsOut \in BOOLEAN
    PROVE  /\ Wrote(us, c, signsOut) \in AdminJobs
           /\ Wrote(us, c, signsOut).pc = "revoke"
           /\ Wrote(us, c, signsOut) # Idle
           /\ \A s \in Wrote(us, c, signsOut).alive :
                 login[s].user \in Wrote(us, c, signsOut).users
<1>1. SessionsOf(us) \in SUBSET Logins
  BY DEF SessionsOf
<1>2. Wrote(us, c, signsOut)
        \in [pc: {"revoke"}, users: SUBSET People, church: Churches \cup {NoChurch},
             signsOut: BOOLEAN, alive: SUBSET Logins]
  BY <1>1 DEF Wrote
<1> QED
  BY <1>2 DEF Wrote, SessionsOf, AdminJobs, Idle

LEMMA RevokedLogins ==
    ASSUME AdminShape, NEW us, RevokeSessionsOf(us)
    PROVE  /\ \A s \in Logins : login'[s].user = login[s].user
           /\ login' \in [Logins -> [user: People \cup {Nobody}, live: BOOLEAN]]
           /\ \A s \in Logins : login'[s].live => login[s].user \notin us
<1> DEFINE live(s) == login[s].live /\ login[s].user \notin us
<1>1. \A s \in Logins : live(s) \in BOOLEAN /\ (live(s) => login[s].user \notin us)
  BY Zenon
<1>2. login' = [s \in Logins |-> [login[s] EXCEPT !.live = live(s)]]
  BY DEF RevokeSessionsOf
<1> HIDE DEF live
<1>3. \A s \in Logins : login'[s] = [login[s] EXCEPT !.live = live(s)]
  BY <1>2
<1>4. \A s \in Logins : login'[s].live = live(s) /\ login'[s].user = login[s].user
  BY <1>3 DEF AdminShape
<1>5. login' \in [Logins -> [user: People \cup {Nobody}, live: BOOLEAN]]
  BY <1>1, <1>2 DEF AdminShape
<1> QED
  BY <1>1, <1>4, <1>5

LEMMA AdminStep ==
    ASSUME AdminInv, [AdminNext]_adminVars
    PROVE  AdminInv' /\ \A q \in AdminRequests : SignedOut(q)
<1> DEFINE Done == AdminInv' /\ \A q \in AdminRequests : SignedOut(q)
<1> SUFFICES Done
  OBVIOUS
<1>0. /\ person \in [People -> Persons] /\ open \subseteq Churches
      /\ login \in [Logins -> [user: People \cup {Nobody}, live: BOOLEAN]]
      /\ job \in [AdminRequests -> AdminJobs]
  BY DEF AdminInv, AdminShape
<1>1. ASSUME NEW s \in Logins, NEW u \in People, SignIn(s, u) PROVE Done
  <2>1. \A q \in AdminRequests : job[q].pc = "revoke" => s \notin job[q].alive
    BY <1>1, AdminJobPcs, AdminAssumption DEF SignIn, AdminInv, AdminShape, AliveAreTheirs
  <2>2. AdminInv'
    BY <2>1, <1>1, AdminJobPcs DEF SignIn, AdminInv, AdminShape, AliveAreTheirs
  <2>3. \A q \in AdminRequests : SignedOut(q)
    BY <1>1 DEF SignIn, SignedOut, Idle
  <2> QED
    BY <2>2, <2>3
<1>2. ASSUME NEW r \in AdminRequests, NEW s \in Logins, NEW u \in People,
             NEW change \in UserChanges, StartUpdate(r, s, u, change)
      PROVE  Done
  <2>1. [pc |-> "read", user |-> u, change |-> change] \in AdminJobs
    BY DEF AdminJobs
  <2> QED
    BY <2>1, <1>0, <1>2, AdminJobMoves DEF StartUpdate, Idle
<1>3. ASSUME NEW r \in AdminRequests, NEW s \in Logins, NEW u \in People,
             DeactivateUser(r, s, u)
      PROVE  Done
  <2>1. person' \in [People -> Persons]
    BY <1>0, <1>3 DEF DeactivateUser, Persons
  <2> QED
    BY <2>1, <1>0, <1>3, AdminJobMoves, AliveType DEF DeactivateUser, Idle
<1>4. ASSUME NEW r \in AdminRequests, NEW s \in Logins, NEW c \in Churches,
             DeactivateTenant(r, s, c)
      PROVE  Done
  <2>1. InChurch(c) \in SUBSET People
    BY DEF InChurch
  <2> QED
    BY <2>1, <1>0, <1>4, AdminJobMoves, AliveType DEF DeactivateTenant, Idle
<1>5. ASSUME NEW r \in AdminRequests, ReadUser(r) PROVE Done
  <2> DEFINE p == person[job[r].user]
             q == Wanted(p, job[r].change)
             next == [pc |-> IF GlobalTransition(q, p) /\ q.role = "MEMBER"
                             THEN "count" ELSE "write",
                      user |-> job[r].user, change |-> job[r].change, saw |-> p, want |-> q]
  <2>1. job[r] \in [pc: {"read"}, user: People, change: UserChanges]
    BY <1>5, <1>0, AdminJobPcs DEF ReadUser
  <2>2. p \in Persons /\ q \in Persons
    BY <2>1, <1>0, WantedType
  <2>3. next \in AdminJobs /\ next.pc # "revoke"
    BY <2>1, <2>2 DEF AdminJobs
  <2>4. Idle \in AdminJobs /\ Idle.pc # "revoke"
    BY DEF AdminJobs, Idle
  <2>5. Becomes(r, Idle) \/ Becomes(r, next)
    BY <1>5 DEF ReadUser
  <2> QED
    BY <2>3, <2>4, <2>5, <1>0, <1>5, AdminJobMoves DEF ReadUser
<1>6. ASSUME NEW r \in AdminRequests, CountGlobalAdmins(r) PROVE Done
  <2> DEFINE next == [job[r] EXCEPT !.pc = "write"]
  <2>1. job[r] \in [pc: {"count", "write"}, user: People, change: UserChanges,
                    saw: Persons, want: Persons]
    BY <1>6, <1>0, AdminJobPcs DEF CountGlobalAdmins
  <2>2. next \in AdminJobs /\ next.pc # "revoke"
    BY <2>1 DEF AdminJobs
  <2>3. Idle \in AdminJobs /\ Idle.pc # "revoke"
    BY DEF AdminJobs, Idle
  <2>4. Becomes(r, Idle) \/ Becomes(r, next)
    BY <1>6 DEF CountGlobalAdmins
  <2> QED
    BY <2>2, <2>3, <2>4, <1>0, <1>6, AdminJobMoves DEF CountGlobalAdmins
<1>7. ASSUME NEW r \in AdminRequests, UpdateUser(r) PROVE Done
  <2> DEFINE j == job[r]
             out == \/ j.change.password \/ GlobalTransition(j.saw, j.want)
                    \/ j.saw.church # j.want.church
  <2>1. j \in [pc: {"count", "write"}, user: People, change: UserChanges,
               saw: Persons, want: Persons]
    BY <1>7, <1>0, AdminJobPcs DEF UpdateUser
  <2>2. person' \in [People -> Persons]
    BY <2>1, <1>0, <1>7, WantedType DEF UpdateUser
  <2>3. out \in BOOLEAN
    <3>1. j.change.password \in BOOLEAN
      BY <2>1, AdminAssumption
    <3> QED
      BY <3>1, Zenon DEF GlobalTransition
  <2>4. Becomes(r, Wrote({j.user}, NoChurch, out))
    BY <1>7 DEF UpdateUser
  <2>5. {j.user} \in SUBSET People
    BY <2>1
  <2> HIDE DEF out, j
  <2> QED
    BY <2>2, <2>3, <2>4, <2>5, <1>0, <1>7, AdminJobMoves, AliveType DEF UpdateUser
<1>8. ASSUME NEW r \in AdminRequests, RevokeSessions(r) PROVE Done
  <2>1. job[r] \in [pc: {"revoke"}, users: SUBSET People, church: Churches \cup {NoChurch},
                    signsOut: BOOLEAN, alive: SUBSET Logins]
    BY <1>8, <1>0, AdminJobPcs DEF RevokeSessions
  <2> DEFINE us == IF job[r].church = NoChurch THEN job[r].users ELSE InChurch(job[r].church)
  <2>2. /\ \A s \in Logins : login'[s].user = login[s].user
        /\ login' \in [Logins -> [user: People \cup {Nobody}, live: BOOLEAN]]
        /\ job[r].signsOut => \A s \in Logins : login'[s].live => login[s].user \notin us
    <3>1. CASE ~job[r].signsOut
      BY <3>1, <1>0, <1>8 DEF RevokeSessions
    <3>2. CASE job[r].signsOut
      <4>1. RevokeSessionsOf(us)
        BY <3>2, <1>8 DEF RevokeSessions
      <4>2. AdminShape
        BY DEF AdminInv
      <4> HIDE DEF us
      <4> QED
        BY <4>1, <4>2, RevokedLogins
    <3> QED
      BY <3>1, <3>2
  <2>3. /\ job' = [job EXCEPT ![r] = Idle] /\ UNCHANGED <<person, open>>
        /\ \A q \in AdminRequests : job'[q] = IF q = r THEN Idle ELSE job[q]
    BY <1>0, <1>8 DEF RevokeSessions, Becomes
  <2>4. AdminInv'
    <3>1. AdminShape'
      BY <1>0, <2>2, <2>3 DEF AdminShape, AdminJobs
    <3>2. AliveAreTheirs'
      BY <1>0, <2>2, <2>3, AdminJobPcs DEF AdminInv, AliveAreTheirs, Idle
    <3> QED
      BY <3>1, <3>2 DEF AdminInv
  <2>5. ASSUME NEW q \in AdminRequests PROVE SignedOut(q)
    <3>1. CASE q = r
      <4>1. SUFFICES ASSUME job[r].signsOut, NEW s \in job[r].alive, login'[s].live
                     PROVE  /\ job[r].church # NoChurch
                            /\ person[login[s].user].church # job[r].church
        BY <3>1 DEF SignedOut
      <4>2. s \in Logins /\ login[s].user \in job[r].users /\ login[s].user \in People
        BY <2>1, <1>8 DEF RevokeSessions, AdminInv, AliveAreTheirs
      <4>3. login[s].user \notin us
        BY <4>1, <4>2, <2>2
      <4> QED
        BY <4>2, <4>3 DEF InChurch
    <3>2. CASE q # r
      BY <3>2, <2>3 DEF SignedOut, Idle
    <3> QED
      BY <3>1, <3>2
  <2> QED
    BY <2>4, <2>5
<1>9. ASSUME NEW r \in AdminRequests, RequestFails(r) PROVE Done
  <2>1. [pc |-> "failed"] \in AdminJobs /\ [pc |-> "failed"] # Idle
    BY DEF AdminJobs, Idle
  <2> QED
    BY <2>1, <1>0, <1>9, AdminJobMoves DEF RequestFails
<1>10. ASSUME person' \in [People -> Persons], open' \subseteq Churches,
              UNCHANGED <<login, job>>
       PROVE  Done
  BY <1>0, <1>10 DEF AdminInv, AdminShape, AliveAreTheirs, SignedOut, Idle
<1>11. ASSUME NEW s \in Logins, NEW u \in People, NEW c \in Churches, Activate(s, u, c)
       PROVE  Done
  BY <1>0, <1>10, <1>11 DEF Activate, Persons
<1>12. ASSUME NEW u \in People, PromoteGlobalAdmin(u) PROVE Done
  <2>1. person' \in [People -> Persons]
    BY <1>0, <1>12 DEF PromoteGlobalAdmin, Persons, Roles
  <2> QED
    BY <2>1, <1>0, <1>10, <1>12 DEF PromoteGlobalAdmin
<1>13. CASE UNCHANGED adminVars
  BY <1>0, <1>10, <1>13 DEF adminVars
<1> HIDE DEF Done
<1> QED
  BY <1>1, <1>2, <1>3, <1>4, <1>5, <1>6, <1>7, <1>8, <1>9, <1>11, <1>12, <1>13 DEF AdminNext

LEMMA AdminInductive == AdminSpec => []AdminInv
  BY AdminInitInv, AdminStep, PTL DEF AdminSpec

\* The rows of users, churches and sessions, and the requests, have their types.
THEOREM AdminTypes == AdminSpec => []AdminTypeOK
<1>1. AdminInv => AdminTypeOK
  BY AdminJobPcs DEF AdminInv, AdminShape, AdminTypeOK, Persons
<1> QED
  BY <1>1, AdminInductive, PTL

\* Whatever requests overlap, when a change of a user's role, church, password or
\* activity, or the closing of a church, has ended, no session lives on that was live
\* at its write, but for users who left the church meanwhile (adminService,
\* ChangedUsersAreSignedOut).
THEOREM ChangesSignOut == AdminSpec => ChangedUsersAreSignedOut
<1>1. AdminInv /\ [AdminNext]_adminVars => [\A r \in AdminRequests : SignedOut(r)]_adminVars
  BY AdminStep
<1> QED
  BY <1>1, AdminInductive, PTL DEF AdminSpec, ChangedUsersAreSignedOut, SignedOut

-----------------------------------------------------------------------------
(***************************************************************************)
(* Memberships. The lock of the user row lets one save of a person at a    *)
(* time past it; what it has deleted is all there was besides what it will *)
(* write, so what it leaves is its own. This is why the save takes the     *)
(* lock before it deletes.                                                 *)
(***************************************************************************)
Leads == Links(Ministries)

\* What a request may be doing.
SaveJobs ==
    [pc: {"wait", "delete"}, user: Members, leads: Leads, role: MemberRoles]
    \cup [pc: {"commit"}, user: Members, leads: Leads, role: MemberRoles,
          deleted: SUBSET Ministries]
LookJobs ==
    [pc: {"toggle", "assign"}, user: Members, ministry: Ministries, row: Link, had: BOOLEAN]
MemberJobs == {Free} \cup SaveJobs \cup LookJobs

MemberShape ==
    /\ role \in [Members -> MemberRoles]
    /\ link \in [Members -> [Ministries -> Link \cup {NotMember}]]
    /\ exists \subseteq Ministries
    /\ manage \in [Managers -> MemberJobs]
    /\ touched \in [Members -> BOOLEAN]
    /\ last \in [Members -> {Unsaved} \cup [role: MemberRoles, leads: Leads]]

\* A plain member leads nothing.
Plain(j) == j.role = "MEMBER" => \A m \in DOMAIN j.leads : ~j.leads[m]

SavesArePlain ==
    /\ \A r \in Managers : manage[r].pc \in {"wait", "delete", "commit"} => Plain(manage[r])
    /\ \A u \in Members : last[u] # Unsaved => last[u].role = role[u] /\ Plain(last[u])

\* The lock of the user row: one save of a person at a time is past it.
OneSaver == \A u \in Members : \A r, q \in Managers : Saving(r, u) /\ Saving(q, u) => r = q

\* What a save has deleted is all there was besides what it will write.
DeletedAllOthers ==
    \A r \in Managers :
        manage[r].pc = "commit" /\ ~touched[manage[r].user] =>
           \A m \in Ministries \ DOMAIN manage[r].leads :
              m \in manage[r].deleted \/ link[manage[r].user][m] = NotMember

LinksAreTheLastSaves ==
    \A u \in Members :
        last[u] # Unsaved /\ ~touched[u] /\ UserRowFree(u) =>
           \A m \in Ministries :
              link[u][m] = IF m \in DOMAIN last[u].leads
                           THEN [leader |-> last[u].leads[m], status |-> "ACTIVE"]
                           ELSE NotMember

MemberInv ==
    MemberShape /\ SavesArePlain /\ OneSaver /\ DeletedAllOthers /\ LinksAreTheLastSaves

-----------------------------------------------------------------------------
LEMMA LeadsElim ==
    ASSUME NEW g \in Leads
    PROVE  DOMAIN g \in SUBSET Ministries /\ g \in [DOMAIN g -> BOOLEAN]
<1>1. PICK f \in SUBSET Ministries : g \in [f -> BOOLEAN]
  BY DEF Leads, Links
<1> QED
  BY <1>1

LEMMA MemberJobPcs ==
    ASSUME NEW j \in MemberJobs
    PROVE  /\ j.pc \in {"free", "wait", "delete", "commit", "toggle", "assign"}
           /\ j.pc \in {"wait", "delete"} =>
                j \in [pc: {"wait", "delete"}, user: Members, leads: Leads, role: MemberRoles]
           /\ j.pc = "commit" =>
                j \in [pc: {"commit"}, user: Members, leads: Leads, role: MemberRoles,
                       deleted: SUBSET Ministries]
           /\ j.pc \in {"toggle", "assign"} => j \in LookJobs
           /\ j.pc = "free" => j = Free
  BY DEF MemberJobs, SaveJobs, LookJobs, Free

LEMMA MemberInitInv == MemberInit => MemberInv
<1> SUFFICES ASSUME MemberInit PROVE MemberInv
  OBVIOUS
<1>1. \A r \in Managers : manage[r].pc = "free"
  BY DEF MemberInit, Free
<1>2. \A u \in Members : last[u] = Unsaved
  BY DEF MemberInit
<1>3. MemberShape
  BY DEF MemberInit, MemberShape, MemberJobs, MemberRoles
<1> QED
  BY <1>1, <1>2, <1>3
     DEF MemberInv, SavesArePlain, OneSaver, DeletedAllOthers, LinksAreTheLastSaves, Saving

\* A step of requests that are not past the lock, which writes memberships only of people
\* whom it marks.
LEMMA OthersStep ==
    ASSUME MemberInv, UNCHANGED <<role, last>>, exists' \subseteq Ministries,
           link' \in [Members -> [Ministries -> Link \cup {NotMember}]],
           touched' \in [Members -> BOOLEAN],
           \A u \in Members : touched'[u] \/ (link'[u] = link[u] /\ ~touched[u]),
           manage' \in [Managers -> MemberJobs],
           \A r \in Managers :
              \/ manage'[r] = manage[r]
              \/ /\ manage[r].pc \notin {"delete", "commit"}
                 /\ manage'[r].pc \in {"free", "wait", "toggle", "assign"}
                 /\ manage'[r].pc = "wait" => Plain(manage'[r])
    PROVE  MemberInv'
<1>1. MemberShape'
  BY DEF MemberInv, MemberShape
<1>2. SavesArePlain'
  BY DEF MemberInv, SavesArePlain, Plain
<1>3. \A r \in Managers, u \in Members : Saving(r, u)' <=> Saving(r, u)
  BY DEF Saving
<1>4. OneSaver'
  BY <1>3 DEF MemberInv, OneSaver
<1>5. \A u \in Members : UserRowFree(u)' <=> UserRowFree(u)
  BY <1>3 DEF UserRowFree
<1>6. DeletedAllOthers'
  <2> SUFFICES ASSUME NEW r \in Managers, manage'[r].pc = "commit", ~touched'[manage'[r].user],
                      NEW m \in Ministries \ DOMAIN manage'[r].leads
               PROVE  m \in manage'[r].deleted \/ link'[manage'[r].user][m] = NotMember
    BY DEF DeletedAllOthers
  <2>1. manage'[r] = manage[r] /\ manage[r].user \in Members
    BY MemberJobPcs DEF MemberInv, MemberShape
  <2> QED
    BY <2>1 DEF MemberInv, DeletedAllOthers
<1>7. LinksAreTheLastSaves'
  BY <1>5 DEF MemberInv, LinksAreTheLastSaves
<1> QED
  BY <1>1, <1>2, <1>4, <1>6, <1>7 DEF MemberInv

\* Only a membership of u is written, by somebody who saves no permissions.
LEMMA LinkWritten ==
    ASSUME MemberInv, NEW u \in Members, NEW m \in Ministries, NEW row \in Link \cup {NotMember},
           SetLink(u, m, row), manage' \in [Managers -> MemberJobs],
           \A r \in Managers : \/ manage'[r] = manage[r]
                               \/ manage[r].pc \notin {"delete", "commit"} /\ manage'[r] = Free
    PROVE  MemberInv'
<1>1. /\ link' \in [Members -> [Ministries -> Link \cup {NotMember}]]
      /\ touched' \in [Members -> BOOLEAN]
      /\ \A v \in Members : touched'[v] \/ (link'[v] = link[v] /\ ~touched[v])
  BY DEF SetLink, MemberInv, MemberShape
<1>2. UNCHANGED <<role, last>> /\ exists' \subseteq Ministries
  BY DEF SetLink, MemberInv, MemberShape
<1>3. Free.pc = "free"
  BY DEF Free
<1> QED
  BY <1>1, <1>2, <1>3, OthersStep

-----------------------------------------------------------------------------
\* A request goes on or ends, and nothing else changes.
LEMMA RequestMoves ==
    ASSUME MemberInv, UNCHANGED <<role, link, exists, last, touched>>,
           NEW r \in Managers, manage[r].pc \notin {"delete", "commit"},
           NEW j \in MemberJobs, manage' = [manage EXCEPT ![r] = j],
           j.pc \in {"free", "wait", "toggle", "assign"}, j.pc = "wait" => Plain(j)
    PROVE  MemberInv'
<1>1. /\ manage' \in [Managers -> MemberJobs]
      /\ \A q \in Managers : manage'[q] = IF q = r THEN j ELSE manage[q]
  BY DEF MemberInv, MemberShape
<1>2. /\ exists' \subseteq Ministries
      /\ link' \in [Members -> [Ministries -> Link \cup {NotMember}]]
      /\ touched' \in [Members -> BOOLEAN]
      /\ \A u \in Members : touched'[u] \/ (link'[u] = link[u] /\ ~touched[u])
  BY DEF MemberInv, MemberShape
<1> QED
  BY <1>1, <1>2, OthersStep

LEMMA StartPermissionsInv ==
    ASSUME MemberInv, NEW r \in Managers, NEW u \in Members, NEW leads \in Leads,
           NEW input \in MemberRoles, StartPermissions(r, u, input, leads)
    PROVE  MemberInv'
<1> DEFINE j == [pc |-> "wait", user |-> u, leads |-> leads,
                 role |-> IF \E m \in DOMAIN leads : leads[m] THEN "MINISTRY_LEADER" ELSE input]
<1>1. j.role \in MemberRoles /\ Plain(j)
  BY DEF MemberRoles, Plain
<1>2. j \in SaveJobs
  BY <1>1 DEF SaveJobs
<1>3. /\ manage' = [manage EXCEPT ![r] = j] /\ UNCHANGED <<role, link, exists, last, touched>>
      /\ manage[r].pc = "free" /\ j.pc = "wait"
  BY DEF StartPermissions, Free
<1> HIDE DEF j
<1> QED
  BY <1>1, <1>2, <1>3, RequestMoves DEF MemberJobs

LEMMA LookInv ==
    ASSUME MemberInv, NEW r \in Managers, NEW op \in {"toggle", "assign"}, NEW u \in Members,
           NEW m \in Ministries, NEW row \in Link, Look(r, op, u, m, row)
    PROVE  MemberInv'
<1> DEFINE had == link[u][m] # NotMember
           j == [pc |-> op, user |-> u, ministry |-> m, row |-> row, had |-> had]
<1>1. had \in BOOLEAN
  OBVIOUS
<1>2. /\ manage' = [manage EXCEPT ![r] = j] /\ UNCHANGED <<role, link, exists, last, touched>>
      /\ manage[r].pc = "free"
  BY DEF Look, Free
<1> HIDE DEF had
<1>3. j \in MemberJobs /\ j.pc \in {"toggle", "assign"}
  BY <1>1 DEF MemberJobs, LookJobs
<1> HIDE DEF j
<1> QED
  BY <1>2, <1>3, RequestMoves

LEMMA ToggleOrAssignInv ==
    ASSUME MemberInv, NEW r \in Managers, ToggleOrAssign(r)
    PROVE  MemberInv'
<1>1. manage[r] \in LookJobs /\ Free \in MemberJobs /\ Free.pc = "free"
  BY MemberJobPcs DEF ToggleOrAssign, MemberInv, MemberShape, MemberJobs, Free
<1>2. /\ manage' \in [Managers -> MemberJobs] /\ manage' = [manage EXCEPT ![r] = Free]
      /\ manage[r].pc \notin {"delete", "commit"}
      /\ \A q \in Managers : manage'[q] = manage[q]
                             \/ (manage[q].pc \notin {"delete", "commit"} /\ manage'[q] = Free)
  BY <1>1 DEF ToggleOrAssign, MemberInv, MemberShape
<1>3. /\ manage[r].user \in Members /\ manage[r].ministry \in Ministries
      /\ manage[r].row \in Link
  BY <1>1 DEF LookJobs
<1>4. \/ \E row \in Link \cup {NotMember} : SetLink(manage[r].user, manage[r].ministry, row)
      \/ UNCHANGED <<role, link, exists, last, touched>>
  BY <1>3 DEF ToggleOrAssign
<1> QED
  BY <1>1, <1>2, <1>3, <1>4, LinkWritten, RequestMoves

LEMMA DeleteMinistryInv ==
    ASSUME MemberInv, NEW m \in Ministries, DeleteMinistry(m)
    PROVE  MemberInv'
<1>1. /\ link' \in [Members -> [Ministries -> Link \cup {NotMember}]]
      /\ touched' \in [Members -> BOOLEAN] /\ exists' \subseteq Ministries
      /\ \A u \in Members : touched'[u]
      /\ UNCHANGED <<role, last, manage>> /\ manage \in [Managers -> MemberJobs]
  BY DEF DeleteMinistry, MemberInv, MemberShape
<1> QED
  BY <1>1, OthersStep

\* The save gets the lock: nobody else saves this person.
LEMMA LockUserInv ==
    ASSUME MemberInv, NEW r \in Managers, LockUser(r)
    PROVE  MemberInv'
<1> DEFINE u == manage[r].user
<1>1. /\ manage[r] \in [pc: {"wait", "delete"}, user: Members, leads: Leads, role: MemberRoles]
      /\ manage[r].pc = "wait" /\ UserRowFree(u)
      /\ UNCHANGED <<role, link, exists, last, touched>>
  BY MemberJobPcs DEF LockUser, MemberInv, MemberShape
<1>2. CASE manage' = [manage EXCEPT ![r] = [manage[r] EXCEPT !.pc = "delete"]]
  <2>1. /\ manage' \in [Managers -> MemberJobs]
        /\ \A q \in Managers : q # r => manage'[q] = manage[q]
        /\ manage'[r].user = u /\ manage'[r].leads = manage[r].leads
        /\ manage'[r].role = manage[r].role /\ manage'[r].pc = "delete"
    BY <1>1, <1>2 DEF MemberInv, MemberShape, MemberJobs, SaveJobs
  <2>2. MemberShape'
    BY <1>1, <2>1 DEF MemberInv, MemberShape
  <2>3. SavesArePlain'
    BY <1>1, <2>1 DEF MemberInv, SavesArePlain, Plain
  <2>4. \A q \in Managers : \A v \in Members :
           Saving(q, v)' <=> Saving(q, v) \/ (q = r /\ v = u)
    BY <1>1, <2>1 DEF Saving
  <2>5. OneSaver'
    BY <1>1, <2>4 DEF MemberInv, OneSaver, UserRowFree
  <2>6. DeletedAllOthers'
    BY <1>1, <2>1 DEF MemberInv, DeletedAllOthers
  <2>7. LinksAreTheLastSaves'
    <3>1. \A v \in Members : UserRowFree(v)' => UserRowFree(v)
      BY <2>4 DEF UserRowFree
    <3> QED
      BY <1>1, <3>1 DEF MemberInv, LinksAreTheLastSaves
  <2> QED
    BY <2>2, <2>3, <2>5, <2>6, <2>7 DEF MemberInv
<1>3. CASE manage' = [manage EXCEPT ![r] = Free]
  <2>1. Free \in MemberJobs /\ Free.pc = "free"
    BY DEF MemberJobs, Free
  <2> QED
    BY <1>1, <1>3, <2>1, RequestMoves
<1> QED
  BY <1>2, <1>3 DEF LockUser

\* What the save deletes is all there is besides what it will write.
LEMMA DeleteOthersInv ==
    ASSUME MemberInv, NEW r \in Managers, DeleteOthers(r)
    PROVE  MemberInv'
<1> DEFINE u == manage[r].user
           gone == {m \in Ministries \ DOMAIN manage[r].leads : link[u][m] # NotMember}
           j == [pc |-> "commit", user |-> u, leads |-> manage[r].leads, role |-> manage[r].role,
                 deleted |-> gone]
<1>1. /\ manage[r] \in [pc: {"wait", "delete"}, user: Members, leads: Leads, role: MemberRoles]
      /\ manage[r].pc = "delete" /\ UNCHANGED <<role, link, exists, last>>
      /\ manage' = [manage EXCEPT ![r] = j] /\ touched' = [touched EXCEPT ![u] = FALSE]
  BY MemberJobPcs DEF DeleteOthers, MemberInv, MemberShape
<1>2. j \in MemberJobs
  BY <1>1 DEF MemberJobs, SaveJobs
<1>3. \A q \in Managers : manage'[q] = IF q = r THEN j ELSE manage[q]
  BY <1>1 DEF MemberInv, MemberShape
<1>4. MemberShape'
  BY <1>1, <1>2 DEF MemberInv, MemberShape
<1>5. SavesArePlain'
  BY <1>1, <1>3 DEF MemberInv, SavesArePlain, Plain
<1>6. \A q \in Managers, v \in Members : Saving(q, v)' <=> Saving(q, v)
  BY <1>1, <1>3 DEF Saving
<1>7. OneSaver' /\ Saving(r, u) /\ u \in Members
  BY <1>1, <1>6 DEF MemberInv, OneSaver, Saving
<1>8. DeletedAllOthers'
  <2> SUFFICES ASSUME NEW q \in Managers, manage'[q].pc = "commit", ~touched'[manage'[q].user],
                      NEW m \in Ministries \ DOMAIN manage'[q].leads
               PROVE  m \in manage'[q].deleted \/ link'[manage'[q].user][m] = NotMember
    BY DEF DeletedAllOthers
  <2>1. CASE q = r
    BY <2>1, <1>1, <1>3
  <2>2. CASE q # r
    <3>1. /\ manage'[q] = manage[q] /\ manage[q].pc = "commit" /\ manage[q].user \in Members
      BY <2>2, <1>3, MemberJobPcs DEF MemberInv, MemberShape
    <3>2. manage[q].user # u
      BY <2>2, <3>1, <1>7 DEF MemberInv, OneSaver, Saving
    <3> QED
      BY <3>1, <3>2, <1>1 DEF MemberInv, MemberShape, DeletedAllOthers
  <2> QED
    BY <2>1, <2>2
<1>9. LinksAreTheLastSaves'
  <2>1. \A v \in Members : UserRowFree(v)' <=> UserRowFree(v)
    BY <1>6 DEF UserRowFree
  <2>2. ~UserRowFree(u)
    BY <1>7 DEF UserRowFree
  <2> QED
    BY <1>1, <2>1, <2>2 DEF MemberInv, MemberShape, LinksAreTheLastSaves
<1> QED
  BY <1>4, <1>5, <1>7, <1>8, <1>9 DEF MemberInv

LEMMA UpsertAndCommitInv ==
    ASSUME MemberInv, NEW r \in Managers, UpsertAndCommit(r)
    PROVE  MemberInv'
<1> DEFINE j == manage[r]
           u == manage[r].user
<1>1. /\ j \in [pc: {"commit"}, user: Members, leads: Leads, role: MemberRoles,
                deleted: SUBSET Ministries]
      /\ manage' = [manage EXCEPT ![r] = Free] /\ UNCHANGED exists
  BY MemberJobPcs DEF UpsertAndCommit, MemberInv, MemberShape
<1>2. /\ \A q \in Managers : manage'[q] = IF q = r THEN Free ELSE manage[q]
      /\ Free.pc = "free" /\ Free \in MemberJobs /\ manage' \in [Managers -> MemberJobs]
  BY <1>1 DEF MemberInv, MemberShape, MemberJobs, Free
<1>3. \A q \in Managers, v \in Members : Saving(q, v)' <=> Saving(q, v) /\ q # r
  BY <1>2 DEF Saving
<1>4. OneSaver' /\ Saving(r, u)
  BY <1>1, <1>3 DEF MemberInv, OneSaver, Saving
<1>5. \A q \in Managers : q # r => ~Saving(q, u)
  BY <1>1, <1>4 DEF MemberInv, OneSaver
<1>6. \A v \in Members : v # u => (UserRowFree(v)' => UserRowFree(v))
  BY <1>3, <1>4 DEF UserRowFree, Saving
<1>7. DOMAIN j.leads \subseteq Ministries /\ j.leads \in [DOMAIN j.leads -> BOOLEAN]
  BY <1>1, LeadsElim
<1>8. CASE DOMAIN j.leads \subseteq exists
  <2> DEFINE row(m) == IF m \in DOMAIN j.leads THEN [leader |-> j.leads[m], status |-> "ACTIVE"]
                       ELSE IF m \in j.deleted THEN NotMember ELSE link[u][m]
  <2>1. /\ role' = [role EXCEPT ![u] = j.role]
        /\ link' = [link EXCEPT ![u] = [m \in Ministries |-> row(m)]]
        /\ last' = [last EXCEPT ![u] = [role |-> j.role, leads |-> j.leads]]
        /\ touched' = touched
    BY <1>8 DEF UpsertAndCommit
  <2>2. \A m \in Ministries : row(m) \in Link \cup {NotMember}
    BY <1>1, <1>7 DEF MemberInv, MemberShape, Link
  <2>3. \A m \in Ministries \ DOMAIN j.leads : ~touched[u] => row(m) = NotMember
    BY <1>1 DEF MemberInv, DeletedAllOthers
  <2>4. \A m \in DOMAIN j.leads : row(m) = [leader |-> j.leads[m], status |-> "ACTIVE"]
    OBVIOUS
  <2> HIDE DEF row
  <2>5. /\ \A v \in Members : link'[v] = IF v = u THEN [m \in Ministries |-> row(m)] ELSE link[v]
        /\ \A v \in Members : role'[v] = IF v = u THEN j.role ELSE role[v]
        /\ \A v \in Members : last'[v] = IF v = u THEN [role |-> j.role, leads |-> j.leads]
                                          ELSE last[v]
        /\ u \in Members
    BY <2>1, <1>1 DEF MemberInv, MemberShape
  <2>6. MemberShape'
    BY <1>1, <1>2, <2>1, <2>2 DEF MemberInv, MemberShape
  <2>7. SavesArePlain'
    <3>1. Plain(j)
      BY <1>1 DEF MemberInv, SavesArePlain
    <3>2. Plain([role |-> j.role, leads |-> j.leads])
      BY <3>1 DEF Plain
    <3> QED
      BY <3>2, <1>2, <2>5 DEF MemberInv, SavesArePlain, Plain
  <2>8. DeletedAllOthers'
    <3> SUFFICES ASSUME NEW q \in Managers, manage'[q].pc = "commit", ~touched'[manage'[q].user],
                        NEW m \in Ministries \ DOMAIN manage'[q].leads
                 PROVE  m \in manage'[q].deleted \/ link'[manage'[q].user][m] = NotMember
      BY DEF DeletedAllOthers
    <3>1. q # r /\ manage'[q] = manage[q] /\ manage[q].user \in Members
      BY <1>2, MemberJobPcs DEF MemberInv, MemberShape
    <3>2. manage[q].user # u
      BY <3>1, <1>5 DEF Saving
    <3> QED
      BY <3>1, <3>2, <2>1, <2>5 DEF MemberInv, DeletedAllOthers
  <2>9. LinksAreTheLastSaves'
    <3> SUFFICES ASSUME NEW v \in Members, last'[v] # Unsaved, ~touched'[v], UserRowFree(v)',
                        NEW m \in Ministries
                 PROVE  link'[v][m] = IF m \in DOMAIN last'[v].leads
                                      THEN [leader |-> last'[v].leads[m], status |-> "ACTIVE"]
                                      ELSE NotMember
      BY DEF LinksAreTheLastSaves
    <3>1. CASE v = u
      BY <3>1, <2>1, <2>3, <2>4, <2>5
    <3>2. CASE v # u
      BY <3>2, <1>6, <2>1, <2>5 DEF MemberInv, LinksAreTheLastSaves
    <3> QED
      BY <3>1, <3>2
  <2> QED
    BY <1>4, <2>6, <2>7, <2>8, <2>9 DEF MemberInv
<1>9. CASE ~(DOMAIN j.leads \subseteq exists)
  <2>1. /\ UNCHANGED <<role, link, last>> /\ touched' = [touched EXCEPT ![u] = TRUE]
        /\ u \in Members
    BY <1>1, <1>9 DEF UpsertAndCommit
  <2>2. MemberShape'
    BY <1>1, <1>2, <2>1 DEF MemberInv, MemberShape
  <2>3. SavesArePlain'
    BY <1>2, <2>1 DEF MemberInv, SavesArePlain, Plain
  <2>4. DeletedAllOthers'
    <3> SUFFICES ASSUME NEW q \in Managers, manage'[q].pc = "commit", ~touched'[manage'[q].user],
                        NEW m \in Ministries \ DOMAIN manage'[q].leads
                 PROVE  m \in manage'[q].deleted \/ link'[manage'[q].user][m] = NotMember
      BY DEF DeletedAllOthers
    <3>1. q # r /\ manage'[q] = manage[q] /\ manage[q].user \in Members
      BY <1>2, MemberJobPcs DEF MemberInv, MemberShape
    <3> QED
      BY <3>1, <2>1 DEF MemberInv, MemberShape, DeletedAllOthers
  <2>5. LinksAreTheLastSaves'
    BY <1>6, <2>1 DEF MemberInv, MemberShape, LinksAreTheLastSaves
  <2> QED
    BY <1>4, <2>2, <2>3, <2>4, <2>5 DEF MemberInv
<1> QED
  BY <1>8, <1>9

LEMMA MemberNextInv == MemberInv /\ [MemberNext]_memberVars => MemberInv'
<1> SUFFICES ASSUME MemberInv, [MemberNext]_memberVars PROVE MemberInv'
  OBVIOUS
<1>0. manage \in [Managers -> MemberJobs] /\ \A u \in Members, m \in Ministries :
         link[u][m] \in Link \cup {NotMember}
  BY DEF MemberInv, MemberShape
<1>1. ASSUME NEW r \in Managers, NEW u \in Members, NEW leads \in Links(Ministries),
             NEW input \in MemberRoles, StartPermissions(r, u, input, leads)
      PROVE  MemberInv'
  BY <1>1, StartPermissionsInv DEF Leads
<1>2. ASSUME NEW r \in Managers,
             LockUser(r) \/ DeleteOthers(r) \/ UpsertAndCommit(r) \/ ToggleOrAssign(r)
      PROVE  MemberInv'
  BY <1>2, LockUserInv, DeleteOthersInv, UpsertAndCommitInv, ToggleOrAssignInv
<1>3. ASSUME NEW r \in Managers, NEW u \in Members, NEW m \in Ministries,
             \/ Look(r, "toggle", u, m, [leader |-> FALSE, status |-> "ACTIVE"])
             \/ \E row \in Link : Look(r, "assign", u, m, row)
      PROVE  MemberInv'
  <2>1. [leader |-> FALSE, status |-> "ACTIVE"] \in Link
    BY DEF Link
  <2> QED
    BY <2>1, <1>3, LookInv
<1>4. ASSUME NEW u \in Members, NEW m \in Ministries, NEW leader \in BOOLEAN,
             AddMember(u, m, leader)
      PROVE  MemberInv'
  <2>1. [leader |-> leader, status |-> "ACTIVE"] \in Link
    BY DEF Link
  <2> QED
    BY <2>1, <1>0, <1>4, LinkWritten DEF AddMember
<1>5. ASSUME NEW u \in Members, NEW m \in Ministries, NEW leader \in BOOLEAN,
             AddMinistry(u, m, leader)
      PROVE  MemberInv'
  <2> DEFINE status == IF link[u][m] = NotMember THEN "ACTIVE" ELSE link[u][m].status
  <2>1. [leader |-> leader, status |-> status] \in Link
    BY <1>0 DEF Link
  <2> QED
    BY <2>1, <1>0, <1>5, LinkWritten DEF AddMinistry
<1>6. ASSUME NEW u \in Members, NEW m \in Ministries, AddUserToMinistry(u, m)
      PROVE  MemberInv'
  <2>1. [leader |-> FALSE, status |-> "ACTIVE"] \in Link
    BY DEF Link
  <2> QED
    BY <2>1, <1>0, <1>6, LinkWritten DEF AddUserToMinistry
<1>7. ASSUME NEW u \in Members, NEW m \in Ministries, RemoveMember(u, m)
      PROVE  MemberInv'
  BY <1>0, <1>7, LinkWritten DEF RemoveMember
<1>8. ASSUME NEW u \in Members, NEW m \in Ministries, NEW row \in Link,
             UpdateMemberAssignment(u, m, row)
      PROVE  MemberInv'
  BY <1>0, <1>8, LinkWritten DEF UpdateMemberAssignment
<1>9. ASSUME NEW m \in Ministries, DeleteMinistry(m) PROVE MemberInv'
  BY <1>9, DeleteMinistryInv
<1>10. CASE UNCHANGED memberVars
  <2>1. UNCHANGED <<role, link, exists, manage, last, touched>>
    BY <1>10 DEF memberVars
  <2> QED
    BY <2>1 DEF MemberInv, MemberShape, SavesArePlain, Plain, OneSaver, Saving,
                DeletedAllOthers, LinksAreTheLastSaves, UserRowFree
<1> QED
  BY <1>1, <1>2, <1>3, <1>4, <1>5, <1>6, <1>7, <1>8, <1>9, <1>10 DEF MemberNext

LEMMA MemberInductive == MemberSpec => []MemberInv
  BY MemberInitInv, MemberNextInv, PTL DEF MemberSpec

\* The rows of members and ministries, and the requests, have their types.
THEOREM MemberTypes == MemberSpec => []MemberTypeOK
<1>1. MemberInv => MemberTypeOK
  BY MemberJobPcs DEF MemberInv, MemberShape, MemberTypeOK
<1> QED
  BY <1>1, MemberInductive, PTL

\* For any number of managers, members and ministries, the role and the links of a
\* member whom nothing else has touched are those of one save, never a mixture of two
\* (MemberRepository's permission save, PermissionsAreOneSave).
THEOREM PermissionsOneSave == MemberSpec => []PermissionsAreOneSave
<1>1. MemberInv => PermissionsAreOneSave
  <2> SUFFICES ASSUME MemberInv, NEW u \in Members, last[u] # Unsaved
               PROVE  /\ role[u] = last[u].role
                      /\ ~touched[u] /\ UserRowFree(u) =>
                            /\ \A m \in Ministries :
                                  link[u][m] = IF m \in DOMAIN last[u].leads
                                               THEN [leader |-> last[u].leads[m],
                                                     status |-> "ACTIVE"]
                                               ELSE NotMember
                            /\ role[u] = "MEMBER" =>
                                  \A m \in Ministries : link[u][m] = NotMember
                                                         \/ ~link[u][m].leader
    BY DEF PermissionsAreOneSave
  <2>1. role[u] = last[u].role /\ Plain(last[u])
    BY DEF MemberInv, SavesArePlain
  <2>2. ASSUME ~touched[u], UserRowFree(u), NEW m \in Ministries
        PROVE  link[u][m] = IF m \in DOMAIN last[u].leads
                            THEN [leader |-> last[u].leads[m], status |-> "ACTIVE"]
                            ELSE NotMember
    BY <2>2 DEF MemberInv, LinksAreTheLastSaves
  <2>3. ASSUME ~touched[u], UserRowFree(u), NEW m \in Ministries, role[u] = "MEMBER"
        PROVE  link[u][m] = NotMember \/ ~link[u][m].leader
    <3>1. CASE m \in DOMAIN last[u].leads
      <4>1. ~last[u].leads[m] /\ link[u][m] = [leader |-> last[u].leads[m], status |-> "ACTIVE"]
        BY <2>1, <2>2, <2>3, <3>1 DEF Plain
      <4>2. link[u][m].leader = last[u].leads[m]
        BY <4>1
      <4> QED
        BY <4>1, <4>2
    <3>2. CASE m \notin DOMAIN last[u].leads
      BY <2>2, <2>3, <3>2
    <3> QED
      BY <3>1, <3>2
  <2> QED
    BY <2>1, <2>2, <2>3
<1> QED
  BY <1>1, MemberInductive, PTL

-----------------------------------------------------------------------------
(***************************************************************************)
(* Songs of schedules. Saves that hold the lock of a schedule row exclude  *)
(* each other, and administrators pass it: a save therefore knows the      *)
(* songs of the schedules it deals with as it read them, unless an         *)
(* administrator has written meanwhile. A worship order goes through its   *)
(* schedules in the order of their numbers, and has lost what it saw and   *)
(* does not want of those it is through with.                              *)
(***************************************************************************)
Wants == UNION {[ss -> SUBSET Tunes] : ss \in SUBSET Services}

SongJobs ==
    [pc: {"none", "failed", "delete", "create", "songs", "root"}, may: BOOLEAN,
     want: Wants, snap: SUBSET Rows, todo: SUBSET Services, roots: SUBSET Services,
     rows: SUBSET Rows, gone: SUBSET Rows, staleRoots: SUBSET Services,
     staleRows: SUBSET Rows, meanwhile: SUBSET Services]

SongShape ==
    /\ songs \in [Services -> SUBSET Tunes]
    /\ save \in [SongSaves -> SongJobs]

\* What a save still has to write and what it holds locked is all it is to write.
Divides(j) ==
    /\ j.pc \in {"none", "failed"} => j.roots = {}
    /\ j.pc \in {"delete", "create"} =>
          j.todo = {} /\ \E s \in Services : j.roots = {s} /\ DOMAIN j.want = {s}
    /\ j.pc \in {"songs", "root"} =>
          /\ j.todo # {} /\ j.roots \cap j.todo = {}
          /\ DOMAIN j.want = j.roots \cup j.todo

OneHolder == \A r, q \in SongSaves : r # q => save[r].roots \cap save[q].roots = {}

\* The row lock keeps what a schedule save has read; only administrators pass it.
ScheduleSaveHolds(j) ==
    j.pc \in {"delete", "create"} =>
       \A s \in DOMAIN j.want \ j.meanwhile :
          /\ ~j.may => songs[s] = j.want[s]
          /\ j.pc = "create" => RowsOf(s, songs[s]) \subseteq j.gone

Seen(j, s) == {x \in Tunes : <<s, x>> \in j.snap}

\* A worship order deals with schedules one by one; those it is through with, or
\* whose songs it has written, have lost what was seen and is not wanted.
Through(j) == j.roots \cup (IF j.pc = "root" THEN {Current(j)} ELSE {})

OrderHolds(j) ==
    j.pc \in {"songs", "root"} =>
       /\ j.roots \cap j.staleRoots = {}
       /\ \A s \in DOMAIN j.want :
             /\ s \notin j.meanwhile \cup j.staleRoots => songs[s] = Seen(j, s)
             /\ ~j.may => j.want[s] = Seen(j, s)
       /\ \A s \in Through(j) : \A x \in Seen(j, s) : x \in j.want[s] \/ <<s, x>> \in j.gone

Good(j) == Divides(j) /\ ScheduleSaveHolds(j) /\ OrderHolds(j)

SongInv == SongShape /\ OneHolder /\ \A r \in SongSaves : Good(save[r])
-----------------------------------------------------------------------------
\* A set of numbers has a least member, by the well-foundedness of <.
LEMMA Least == ASSUME NEW T \in SUBSET Nat, T # {} PROVE \E n \in T : \A m \in T : n <= m
<1>1. IsWellFoundedOn(OpToRel(<, Nat), Nat)
  BY NatLessThanWellFounded
<1>2. OpToRel(<, Nat) = {ss \in Nat \X Nat : ss[1] < ss[2]}
  BY DEF OpToRel
<1>3. PICK n \in T : \A m \in T : ~(<<m, n>> \in OpToRel(<, Nat))
  BY <1>1, WFMin
<1>4. \A m \in T : ~(m < n)
  BY <1>2, <1>3
<1> QED
  BY <1>4

LEMMA CurrentIsLeft ==
    ASSUME NEW j \in SongJobs, j.todo # {}
    PROVE  Current(j) \in j.todo
<1>1. j.todo \in SUBSET Nat
  BY SongAssumption DEF SongJobs
<1>2. \E n \in j.todo : \A m \in j.todo : n <= m
  BY <1>1, Least
<1> QED
  BY <1>2 DEF Current

LEMMA WantsElim ==
    ASSUME NEW w \in Wants
    PROVE  DOMAIN w \in SUBSET Services /\ w \in [DOMAIN w -> SUBSET Tunes]
<1>1. PICK ss \in SUBSET Services : w \in [ss -> SUBSET Tunes]
  BY DEF Wants
<1> QED
  BY <1>1

LEMMA WantsIntro ==
    ASSUME NEW ss \in SUBSET Services, NEW w \in [ss -> SUBSET Tunes]
    PROVE  w \in Wants
  BY DEF Wants

LEMMA NoSaveIsGood ==
    /\ NoSave \in SongJobs /\ Good(NoSave)
    /\ [NoSave EXCEPT !.pc = "failed"] \in SongJobs /\ Good([NoSave EXCEPT !.pc = "failed"])
<1>1. <<>> \in [{} -> SUBSET Tunes]
  OBVIOUS
<1>2. <<>> \in Wants
  BY <1>1, WantsIntro
<1> QED
  BY <1>2 DEF NoSave, SongJobs, Good, Divides, ScheduleSaveHolds, OrderHolds

LEMMA SongStarts == ASSUME SongInit PROVE SongInv
  BY NoSaveIsGood DEF SongInit, SongInv, SongShape, OneHolder, NoSave

\* A step of one transaction that writes no songs yet.
LEMMA GoesKeeps ==
    ASSUME SongInv, NEW r \in SongSaves, NEW j \in SongJobs, Good(j),
           \A q \in SongSaves \ {r} : save[q].roots \cap j.roots = {},
           Goes(r, j)
    PROVE  SongInv'
<1> USE DEF Goes
<1>1. SongShape'
  BY DEF SongInv, SongShape
<1>2. \A q \in SongSaves : save'[q] = IF q = r THEN j ELSE save[q]
  BY DEF SongInv, SongShape
<1>3. OneHolder'
  BY <1>2 DEF SongInv, OneHolder
<1>4. ASSUME NEW q \in SongSaves PROVE Good(save[q])'
  <2>1. CASE q = r
    BY <2>1, <1>2 DEF Good, Divides, ScheduleSaveHolds, OrderHolds
  <2>2. CASE q # r
    BY <2>2, <1>2 DEF SongInv, Good, Divides, ScheduleSaveHolds, OrderHolds
  <2> QED
    BY <2>1, <2>2
<1> QED
  BY <1>1, <1>3, <1>4 DEF SongInv

LEMMA FailsKeeps ==
    ASSUME SongInv, NEW r \in SongSaves, Fails(r)
    PROVE  SongInv'
<1>1. [NoSave EXCEPT !.pc = "failed"].roots = {}
  BY DEF NoSave
<1> QED
  BY <1>1, NoSaveIsGood, GoesKeeps DEF Fails

\* What telling changes of a transaction.
Told(j, k, roots, admins) ==
    /\ k \in SongJobs
    /\ k.pc = j.pc /\ k.may = j.may /\ k.want = j.want /\ k.snap = j.snap
    /\ k.todo = j.todo /\ k.roots = j.roots /\ k.gone = j.gone
    /\ k.staleRoots = j.staleRoots \cup (roots \cap j.todo)
    /\ k.meanwhile = j.meanwhile \cup (admins \cap DOMAIN j.want)

LEMMA Tells ==
    ASSUME NEW j \in SongJobs, NEW roots \in SUBSET Services, NEW rows,
           NEW admins \in SUBSET Services
    PROVE  Told(j, Tell(j, roots, rows, admins), roots, admins)
<1> DEFINE sr == j.staleRoots \cup (roots \cap j.todo)
           sw == j.staleRows \cup (rows \cap j.snap)
           mw == j.meanwhile \cup (admins \cap DOMAIN j.want)
<1>1. sr \in SUBSET Services /\ sw \in SUBSET Rows /\ mw \in SUBSET Services
  BY DEF SongJobs
<1>2. Tell(j, roots, rows, admins) =
          [j EXCEPT !.staleRoots = sr, !.staleRows = sw, !.meanwhile = mw]
  BY DEF Tell, SongJobs
<1> HIDE DEF sr, sw, mw
<1> DEFINE k == [j EXCEPT !.staleRoots = sr, !.staleRows = sw, !.meanwhile = mw]
<1>3. /\ k \in SongJobs
      /\ k.pc = j.pc /\ k.may = j.may /\ k.want = j.want /\ k.snap = j.snap
      /\ k.todo = j.todo /\ k.roots = j.roots /\ k.gone = j.gone
      /\ k.staleRoots = sr /\ k.meanwhile = mw
  BY <1>1 DEF SongJobs
<1> HIDE DEF k
<1>4. Told(j, k, roots, admins)
  BY <1>3 DEF Told, sr, mw
<1> QED
  BY <1>2, <1>4 DEF k

\* What others commit is told to a transaction, or is about rows it does not hold.
LEMMA TellKeeps ==
    ASSUME SongInv, NEW q \in SongSaves, NEW roots \in SUBSET Services, NEW rows,
           NEW admins \in SUBSET Services,
           save'[q] = Tell(save[q], roots, rows, admins),
           save[q].roots \cap roots = {},
           \A s \in Services : s \notin roots \cup admins => songs'[s] = songs[s]
    PROVE  save'[q] \in SongJobs /\ save'[q].roots = save[q].roots /\ Good(save[q])'
<1>1. save[q] \in SongJobs /\ Good(save[q])
  BY DEF SongInv, SongShape
<1>2. Told(save[q], save'[q], roots, admins)
  BY <1>1, Tells
<1> DEFINE j == save[q]
           k == save'[q]
<1> USE <1>2 DEF Told
<1>3. Divides(save[q])'
  BY <1>1, <1>2 DEF Good, Divides
<1>4. DOMAIN j.want \in SUBSET Services
  BY <1>1, WantsElim DEF SongJobs
<1>5. ScheduleSaveHolds(save[q])'
  <2> SUFFICES ASSUME k.pc \in {"delete", "create"},
                      NEW s \in DOMAIN k.want \ k.meanwhile
               PROVE  /\ ~k.may => songs'[s] = k.want[s]
                      /\ k.pc = "create" => RowsOf(s, songs'[s]) \subseteq k.gone
    BY DEF ScheduleSaveHolds, RowsOf
  <2>1. s \in Services /\ s \in j.roots /\ s \notin admins /\ s \notin j.meanwhile
    BY <1>1, <1>2, <1>4 DEF Good, Divides
  <2>2. songs'[s] = songs[s]
    BY <2>1
  <2> QED
    BY <1>1, <1>2, <2>1, <2>2 DEF Good, ScheduleSaveHolds
<1>6. OrderHolds(save[q])'
  <2> SUFFICES ASSUME k.pc \in {"songs", "root"}
               PROVE  OrderHolds(save[q])'
    BY DEF OrderHolds
  <2>1. j.roots \cap k.staleRoots = {}
    BY <1>1, <1>2 DEF Good, Divides, OrderHolds
  <2>2. ASSUME NEW s \in DOMAIN j.want, s \notin k.meanwhile \cup k.staleRoots
        PROVE  songs'[s] = songs[s] /\ s \notin j.meanwhile \cup j.staleRoots
    <3>1. s \in Services /\ s \notin admins
      BY <1>2, <1>4, <2>2
    <3>2. s \notin roots
      BY <1>1, <1>2, <2>2 DEF Good, Divides
    <3> QED
      BY <1>2, <2>2, <3>1, <3>2
  <2>3. Current(k) = Current(j) /\ Through(k) = Through(j)
    BY <1>2 DEF Current, Through
  <2>4. \A s : Seen(k, s) = Seen(j, s)
    BY <1>2 DEF Seen
  <2>5. /\ k.roots \cap k.staleRoots = {}
        /\ \A s \in DOMAIN k.want :
              /\ s \notin k.meanwhile \cup k.staleRoots => songs'[s] = Seen(k, s)
              /\ ~k.may => k.want[s] = Seen(k, s)
        /\ \A s \in Through(k) : \A x \in Seen(k, s) :
              x \in k.want[s] \/ <<s, x>> \in k.gone
    BY <1>1, <1>2, <2>1, <2>2, <2>3, <2>4 DEF Good, OrderHolds
  <2> QED
    BY <2>5 DEF OrderHolds, Seen, Through, Current
<1> QED
  BY <1>2, <1>3, <1>5, <1>6 DEF Good

\* A transaction at its last step: it holds, or may take, all it writes.
AtLastStep(r) ==
    LET j == save[r] IN
    \/ j.pc = "create"
    \/ j.pc = "root" /\ j.todo = {Current(j)} /\ RootFree(r, Current(j))
                     /\ ~RootConflicts(j, Current(j))

LEMMA Apart ==
    ASSUME SongInv, NEW r \in SongSaves, AtLastStep(r), NEW q \in SongSaves, q # r
    PROVE  save[q].roots \cap DOMAIN save[r].want = {}
<1>1. Divides(save[r]) /\ save[q].roots \cap save[r].roots = {}
  BY DEF SongInv, Good, OneHolder
<1>2. CASE save[r].pc = "create"
  BY <1>1, <1>2 DEF Divides
<1>3. CASE /\ save[r].pc = "root" /\ save[r].todo = {Current(save[r])}
           /\ RootFree(r, Current(save[r]))
  BY <1>1, <1>3 DEF Divides, RootFree
<1> QED
  BY <1>2, <1>3 DEF AtLastStep

\* What a commit leaves of the songs of a schedule.
LEMMA CommitWrites ==
    ASSUME SongInv, NEW r \in SongSaves, AtLastStep(r), Commit(r)
    PROVE  /\ \A s \in Services \ DOMAIN save[r].want : songs'[s] = songs[s]
           /\ \A s \in DOMAIN save[r].want \ save[r].meanwhile :
                 /\ songs'[s] = save[r].want[s]
                 /\ ~save[r].may => songs'[s] = songs[s]
           /\ songs' \in [Services -> SUBSET Tunes]
<1> DEFINE j == save[r]
<1>1. j \in SongJobs /\ Good(j) /\ songs \in [Services -> SUBSET Tunes]
  BY DEF SongInv, SongShape
<1>2. DOMAIN j.want \in SUBSET Services /\ j.want \in [DOMAIN j.want -> SUBSET Tunes]
  BY <1>1, WantsElim DEF SongJobs
<1>3. songs' = [s \in Services |->
             IF s \in DOMAIN j.want THEN {x \in songs[s] : <<s, x>> \notin j.gone} \cup j.want[s]
                                    ELSE songs[s]]
  BY DEF Commit
<1>4. \A s \in Services \ DOMAIN j.want : songs'[s] = songs[s]
  BY <1>3
<1>5. \A s \in DOMAIN j.want :
         songs'[s] = {x \in songs[s] : <<s, x>> \notin j.gone} \cup j.want[s]
  BY <1>2, <1>3
<1>6. songs' \in [Services -> SUBSET Tunes]
  BY <1>1, <1>2, <1>3
<1>7. ASSUME NEW s \in DOMAIN j.want \ j.meanwhile
      PROVE  songs'[s] = j.want[s] /\ (~j.may => songs'[s] = songs[s])
  <2>1. s \in Services /\ songs[s] \in SUBSET Tunes
    BY <1>1, <1>2
  <2>2. (\A x \in songs[s] : x \in j.want[s] \/ <<s, x>> \in j.gone)
        /\ (~j.may => songs[s] = j.want[s])
    <3>1. CASE j.pc = "create"
      <4>1. (~j.may => songs[s] = j.want[s]) /\ RowsOf(s, songs[s]) \subseteq j.gone
        BY <1>1, <3>1 DEF Good, ScheduleSaveHolds
      <4> QED
        BY <4>1 DEF RowsOf
    <3>2. CASE /\ j.pc = "root" /\ j.todo = {Current(j)}
               /\ ~RootConflicts(j, Current(j))
      <4>1. Divides(j) /\ OrderHolds(j)
        BY <1>1 DEF Good
      <4>2. s \in Through(j)
        BY <3>2, <4>1 DEF Divides, Through
      <4>3. s \notin j.staleRoots
        BY <3>2, <4>1, <4>2 DEF OrderHolds, RootConflicts, Through
      <4>4. songs[s] = Seen(j, s) /\ (~j.may => j.want[s] = Seen(j, s))
        BY <3>2, <4>1, <4>3 DEF OrderHolds
      <4>5. \A x \in Seen(j, s) : x \in j.want[s] \/ <<s, x>> \in j.gone
        BY <3>2, <4>1, <4>2 DEF OrderHolds
      <4> QED
        BY <4>4, <4>5
    <3> QED
      BY <3>1, <3>2 DEF AtLastStep
  <2> QED
    BY <1>5, <2>2
<1> QED
  BY <1>4, <1>6, <1>7

LEMMA CommitKeeps ==
    ASSUME SongInv, NEW r \in SongSaves, AtLastStep(r), Commit(r)
    PROVE  SongInv'
<1> DEFINE ss == DOMAIN save[r].want
           j == save[r]
<1>1. save \in [SongSaves -> SongJobs] /\ ss \in SUBSET Services
  BY WantsElim DEF SongInv, SongShape, SongJobs
<1>2. save' = [q \in SongSaves |-> IF q = r THEN NoSave ELSE Tell(save[q], ss, j.rows, {})]
  BY DEF Commit
<1>3. ASSUME NEW q \in SongSaves \ {r}
      PROVE  save'[q] \in SongJobs /\ save'[q].roots = save[q].roots /\ Good(save[q])'
  <2>1. save'[q] = Tell(save[q], ss, j.rows, {})
    BY <1>2, <1>3
  <2>2. save[q].roots \cap ss = {}
    BY <1>3, Apart
  <2>3. \A s \in Services : s \notin ss \cup {} => songs'[s] = songs[s]
    BY CommitWrites
  <2> QED
    BY <1>1, <2>1, <2>2, <2>3, TellKeeps
<1>4. save'[r] = NoSave /\ NoSave \in SongJobs /\ NoSave.roots = {} /\ Good(save[r])'
  <2>1. save'[r] = NoSave
    BY <1>2
  <2>2. NoSave.roots = {} /\ NoSave.pc = "none"
    BY DEF NoSave
  <2> QED
    BY <2>1, <2>2, NoSaveIsGood DEF Good, Divides, ScheduleSaveHolds, OrderHolds
<1>5. SongShape'
  BY <1>2, <1>3, <1>4, CommitWrites DEF SongShape
<1>6. OneHolder'
  BY <1>3, <1>4 DEF SongInv, OneHolder
<1> QED
  BY <1>3, <1>4, <1>5, <1>6 DEF SongInv

LEMMA AdminKeeps ==
    ASSUME SongInv, NEW s \in Services, NEW x \in Tunes, AdminWritesSong(s, x)
    PROVE  SongInv'
<1>1. songs' \in [Services -> SUBSET Tunes] /\ \A t \in Services : t # s => songs'[t] = songs[t]
  BY DEF AdminWritesSong, SongInv, SongShape
<1>2. save' = [q \in SongSaves |-> Tell(save[q], {}, {<<s, x>>}, {s})]
  BY DEF AdminWritesSong
<1>3. ASSUME NEW q \in SongSaves
      PROVE  save'[q] \in SongJobs /\ save'[q].roots = save[q].roots /\ Good(save[q])'
  <2>1. save'[q] = Tell(save[q], {}, {<<s, x>>}, {s})
    BY <1>2
  <2>2. \A t \in Services : t \notin {} \cup {s} => songs'[t] = songs[t]
    BY <1>1
  <2> QED
    BY <2>1, <2>2, TellKeeps
<1>4. SongShape'
  BY <1>1, <1>2, <1>3 DEF SongShape
<1>5. OneHolder'
  BY <1>3 DEF SongInv, OneHolder
<1> QED
  BY <1>3, <1>4, <1>5 DEF SongInv

LEMMA StartScheduleKeeps ==
    ASSUME SongInv, NEW r \in SongSaves, NEW s \in Services, NEW xs \in SUBSET Tunes,
           NEW may \in BOOLEAN, StartScheduleSave(r, s, xs, may)
    PROVE  SongInv'
<1> DEFINE w == [x \in {s} |-> xs]
           j == [NoSave EXCEPT !.pc = "delete", !.may = may, !.want = w, !.roots = {s}]
<1>1. w \in [{s} -> SUBSET Tunes] /\ DOMAIN w = {s} /\ w[s] = xs
  OBVIOUS
<1>2. w \in Wants
  BY <1>1, WantsIntro
<1>3. /\ may \/ xs = songs[s]
      /\ Goes(r, j) /\ RootFree(r, s)
  BY DEF StartScheduleSave
<1> HIDE DEF w
<1>4. /\ j \in SongJobs
      /\ j.pc = "delete" /\ j.may = may /\ j.want = w /\ j.roots = {s} /\ j.todo = {}
  BY <1>2, NoSaveIsGood DEF SongJobs, NoSave
<1> HIDE DEF j
<1>5. Good(j)
  BY <1>1, <1>3, <1>4 DEF Good, Divides, ScheduleSaveHolds, OrderHolds
<1>6. \A q \in SongSaves \ {r} : save[q].roots \cap j.roots = {}
  BY <1>3, <1>4 DEF RootFree
<1> QED
  BY <1>3, <1>4, <1>5, <1>6, GoesKeeps

LEMMA DeleteKeeps ==
    ASSUME SongInv, NEW r \in SongSaves, DeleteSongs(r)
    PROVE  SongInv'
<1> DEFINE s == CHOOSE x \in save[r].roots : TRUE
           gone == RowsOf(s, songs[s])
           j == [save[r] EXCEPT !.pc = "create", !.rows = gone, !.gone = gone]
<1>1. /\ save[r] \in SongJobs /\ Good(save[r]) /\ save[r].pc = "delete"
      /\ songs \in [Services -> SUBSET Tunes]
  BY DEF SongInv, SongShape, DeleteSongs
<1>2. s \in Services /\ save[r].roots = {s} /\ DOMAIN save[r].want = {s} /\ save[r].todo = {}
  BY <1>1 DEF Good, Divides
<1>3. gone \in SUBSET Rows
  BY <1>1, <1>2 DEF RowsOf, Rows
<1>4. Goes(r, j)
  BY DEF DeleteSongs
<1>5. gone = RowsOf(s, songs[s])
  OBVIOUS
<1> HIDE DEF s, gone
<1>6. /\ j \in SongJobs /\ j.pc = "create" /\ j.gone = gone /\ j.may = save[r].may
      /\ j.want = save[r].want /\ j.roots = save[r].roots /\ j.todo = save[r].todo
      /\ j.meanwhile = save[r].meanwhile
  BY <1>1, <1>3 DEF SongJobs
<1> HIDE DEF j
<1>7. Good(j)
  BY <1>1, <1>2, <1>5, <1>6 DEF Good, Divides, ScheduleSaveHolds, OrderHolds
<1>8. \A q \in SongSaves \ {r} : save[q].roots \cap j.roots = {}
  BY <1>6 DEF SongInv, OneHolder
<1> QED
  BY <1>4, <1>6, <1>7, <1>8, GoesKeeps

LEMMA StartOrderKeeps ==
    ASSUME SongInv, NEW r \in SongSaves, NEW ss \in SUBSET Services, ss # {},
           NEW want \in [ss -> SUBSET Tunes], NEW may \in BOOLEAN, StartOrderSave(r, want, may)
    PROVE  SongInv'
<1> DEFINE sn == {row \in Present : row[1] \in DOMAIN want}
           j == [NoSave EXCEPT !.pc = "songs", !.may = may, !.want = want,
                               !.snap = sn, !.todo = DOMAIN want]
<1>1. /\ may \/ \A s \in DOMAIN want : want[s] = songs[s]
      /\ Goes(r, j) /\ DOMAIN want = ss
  BY DEF StartOrderSave
<1>2. want \in Wants
  BY WantsIntro
<1>3. sn \in SUBSET Rows
  BY DEF Present
<1>4. songs \in [Services -> SUBSET Tunes]
  BY DEF SongInv, SongShape
<1>5. ASSUME NEW s \in ss PROVE {x \in Tunes : <<s, x>> \in sn} = songs[s]
  <2>1. \A x \in Tunes : <<s, x>> \in sn <=> x \in songs[s]
    BY <1>1 DEF Present, Rows
  <2> QED
    BY <1>4, <2>1
<1> HIDE DEF sn
<1>6. /\ j \in SongJobs /\ j.pc = "songs" /\ j.may = may /\ j.want = want
      /\ j.snap = sn /\ j.roots = {} /\ j.todo = ss
  BY <1>1, <1>2, <1>3, NoSaveIsGood DEF SongJobs, NoSave
<1> HIDE DEF j
<1>7. OrderHolds(j)
  <2>1. \A s \in ss : Seen(j, s) = songs[s]
    BY <1>5, <1>6 DEF Seen
  <2>2. Through(j) = {}
    BY <1>6 DEF Through
  <2> QED
    BY <1>1, <1>6, <2>1, <2>2 DEF OrderHolds
<1>8. Good(j)
  BY <1>1, <1>6, <1>7 DEF Good, Divides, ScheduleSaveHolds
<1> QED
  BY <1>1, <1>6, <1>8, GoesKeeps

LEMMA SaveSongsKeeps ==
    ASSUME SongInv, NEW r \in SongSaves, SaveOrderSongs(r)
    PROVE  SongInv'
<1> DEFINE o == save[r]
           s == Current(o)
           saw == o.snap \cap RowsOf(s, Tunes)
           wanted == RowsOf(s, o.want[s])
           rw == o.rows \cup saw \cup wanted
           gn == o.gone \cup (saw \ wanted)
           j == [o EXCEPT !.pc = "root", !.rows = rw, !.gone = gn]
<1>1. o \in SongJobs /\ Good(o) /\ o.pc = "songs"
  BY DEF SongInv, SongShape, SaveOrderSongs
<1>2. s \in o.todo /\ s \in DOMAIN o.want
  BY <1>1, CurrentIsLeft DEF Good, Divides
<1>3. s \in Services /\ o.want[s] \in SUBSET Tunes
  BY <1>1, <1>2, WantsElim DEF SongJobs
<1>4. rw \in SUBSET Rows /\ gn \in SUBSET Rows
  BY <1>1, <1>3 DEF SongJobs, RowsOf, Rows
<1>5. CASE Fails(r)
  BY <1>5, FailsKeeps
<1>6. CASE Goes(r, j)
  <2>1. \A x \in Seen(o, s) : x \in o.want[s] \/ <<s, x>> \in gn
    BY <1>3 DEF Seen, RowsOf
  <2>2. o.gone \subseteq gn
    OBVIOUS
  <2> HIDE DEF rw, gn
  <2>3. /\ j \in SongJobs /\ j.pc = "root" /\ j.gone = gn /\ j.may = o.may
        /\ j.want = o.want /\ j.roots = o.roots /\ j.todo = o.todo /\ j.snap = o.snap
        /\ j.meanwhile = o.meanwhile /\ j.staleRoots = o.staleRoots
    BY <1>1, <1>4 DEF SongJobs
  <2> HIDE DEF j
  <2>4. /\ Current(j) = s /\ Through(j) = o.roots \cup {s} /\ Through(o) = o.roots
        /\ \A t : Seen(j, t) = Seen(o, t)
    BY <1>1, <2>3 DEF Current, Through, Seen
  <2>5. OrderHolds(j)
    BY <1>1, <2>1, <2>2, <2>3, <2>4 DEF Good, OrderHolds
  <2>6. Good(j)
    BY <1>1, <2>3, <2>5 DEF Good, Divides, ScheduleSaveHolds
  <2>7. \A q \in SongSaves \ {r} : save[q].roots \cap j.roots = {}
    BY <2>3 DEF SongInv, OneHolder
  <2> QED
    BY <1>6, <2>3, <2>6, <2>7, GoesKeeps
<1> QED
  BY <1>5, <1>6 DEF SaveOrderSongs

LEMMA ScheduleRowKeeps ==
    ASSUME SongInv, NEW r \in SongSaves, UpdateScheduleRow(r)
    PROVE  SongInv'
<1> DEFINE o == save[r]
           s == Current(o)
           td == o.todo \ {s}
           rt == o.roots \cup {s}
           j == [o EXCEPT !.pc = "songs", !.todo = td, !.roots = rt]
<1>1. o \in SongJobs /\ Good(o) /\ o.pc = "root" /\ RootFree(r, s)
  BY DEF SongInv, SongShape, UpdateScheduleRow
<1>2. s \in o.todo /\ s \in Services
  BY <1>1, CurrentIsLeft DEF Good, Divides, SongJobs
<1>3. CASE Fails(r)
  BY <1>3, FailsKeeps
<1>4. CASE ~RootConflicts(o, s) /\ o.todo = {s} /\ Commit(r)
  BY <1>1, <1>4, CommitKeeps DEF AtLastStep
<1>5. CASE ~RootConflicts(o, s) /\ o.todo # {s} /\ Goes(r, j)
  <2>1. /\ td \in SUBSET Services /\ rt \in SUBSET Services /\ td # {}
        /\ rt \cap td = {} /\ rt \cup td = o.roots \cup o.todo
    BY <1>1, <1>2, <1>5 DEF SongJobs, Good, Divides
  <2>2. Through(o) = rt
    BY <1>1 DEF Through
  <2> HIDE DEF td, rt
  <2>3. /\ j \in SongJobs /\ j.pc = "songs" /\ j.gone = o.gone /\ j.may = o.may
        /\ j.want = o.want /\ j.roots = rt /\ j.todo = td /\ j.snap = o.snap
        /\ j.meanwhile = o.meanwhile /\ j.staleRoots = o.staleRoots
    BY <1>1, <2>1 DEF SongJobs
  <2> HIDE DEF j
  <2>4. Through(j) = rt /\ \A t : Seen(j, t) = Seen(o, t)
    BY <2>3 DEF Through, Seen
  <2>5. rt \cap o.staleRoots = {}
    BY <1>1, <1>5 DEF rt, Good, OrderHolds, RootConflicts
  <2>6. OrderHolds(j)
    BY <1>1, <2>2, <2>3, <2>4, <2>5 DEF Good, OrderHolds
  <2>7. Good(j)
    BY <1>1, <2>1, <2>3, <2>6 DEF Good, Divides, ScheduleSaveHolds
  <2>8. \A q \in SongSaves \ {r} : save[q].roots \cap j.roots = {}
    BY <1>1, <2>3 DEF SongInv, OneHolder, RootFree, rt
  <2> QED
    BY <1>5, <2>3, <2>7, <2>8, GoesKeeps
<1> QED
  BY <1>3, <1>4, <1>5 DEF UpdateScheduleRow

LEMMA SongStep == ASSUME SongInv, [SongNext]_songVars PROVE SongInv'
<1>1. ASSUME NEW r \in SongSaves, NEW may \in BOOLEAN, NEW s \in Services,
             NEW xs \in SUBSET Tunes, StartScheduleSave(r, s, xs, may)
      PROVE  SongInv'
  BY <1>1, StartScheduleKeeps
<1>2. ASSUME NEW r \in SongSaves, NEW may \in BOOLEAN, NEW ss \in (SUBSET Services) \ {{}},
             NEW want \in [ss -> SUBSET Tunes], StartOrderSave(r, want, may)
      PROVE  SongInv'
  BY <1>2, StartOrderKeeps
<1>3. ASSUME NEW r \in SongSaves, DeleteSongs(r) PROVE SongInv'
  BY <1>3, DeleteKeeps
<1>4. ASSUME NEW r \in SongSaves, CreateSongs(r) PROVE SongInv'
  BY <1>4, CommitKeeps DEF CreateSongs, AtLastStep
<1>5. ASSUME NEW r \in SongSaves, SaveOrderSongs(r) PROVE SongInv'
  BY <1>5, SaveSongsKeeps
<1>6. ASSUME NEW r \in SongSaves, UpdateScheduleRow(r) PROVE SongInv'
  BY <1>6, ScheduleRowKeeps
<1>7. ASSUME NEW r \in SongSaves, RollBack(r) PROVE SongInv'
  BY <1>7, FailsKeeps DEF RollBack
<1>8. ASSUME NEW s \in Services, NEW x \in Tunes, AdminWritesSong(s, x) PROVE SongInv'
  BY <1>8, AdminKeeps
<1>9. CASE UNCHANGED songVars
  BY <1>9 DEF songVars, SongInv, SongShape, OneHolder, Good, Divides, ScheduleSaveHolds,
     OrderHolds
<1> QED
  BY <1>1, <1>2, <1>3, <1>4, <1>5, <1>6, <1>7, <1>8, <1>9 DEF SongNext

\* The songs of the schedules and the saves have their types.
THEOREM SongTypes == SongSpec => []SongTypeOK
<1>1. SongInv => SongTypeOK
  BY DEF SongInv, SongShape, SongTypeOK, SongJobs
<1> QED
  BY <1>1, SongStarts, SongStep, PTL DEF SongSpec

\* A transaction ends with nothing underway only by a commit.
LEMMA CommitsAtLastStep ==
    ASSUME SongInv, SongNext, NEW r \in SongSaves, Commits(r)
    PROVE  AtLastStep(r) /\ Commit(r)
<1> DEFINE j == save[r]
<1>1. save \in [SongSaves -> SongJobs] /\ j \in SongJobs /\ NoSave.pc = "none"
  BY DEF SongInv, SongShape, NoSave
<1>2. j.pc \in {"create", "root"} /\ save'[r].pc = "none"
  BY DEF Commits
<1>3. ASSUME NEW q \in SongSaves, NEW k, Goes(q, k), k.pc # "none" PROVE FALSE
  BY <1>1, <1>2, <1>3 DEF Goes
<1>4. ASSUME NEW q \in SongSaves, Fails(q) PROVE FALSE
  BY <1>3, <1>4 DEF Fails, NoSave
<1>5. ASSUME NEW q \in SongSaves, q # r, Commit(q) PROVE FALSE
  <2>1. save'[r] = Tell(j, DOMAIN save[q].want, save[q].rows, {})
    BY <1>5 DEF Commit
  <2>2. save'[r].pc = j.pc
    BY <1>1, <2>1 DEF Tell, SongJobs
  <2> QED
    BY <1>2, <2>2
<1>6. ASSUME NEW q \in SongSaves, NEW may \in BOOLEAN, NEW s \in Services,
             NEW xs \in SUBSET Tunes, StartScheduleSave(q, s, xs, may)
      PROVE  FALSE
  BY <1>3, <1>6 DEF StartScheduleSave, NoSave
<1>7. ASSUME NEW q \in SongSaves, NEW may \in BOOLEAN, NEW ss \in (SUBSET Services) \ {{}},
             NEW want \in [ss -> SUBSET Tunes], StartOrderSave(q, want, may)
      PROVE  FALSE
  BY <1>3, <1>7 DEF StartOrderSave, NoSave
<1>8. ASSUME NEW q \in SongSaves, DeleteSongs(q) PROVE FALSE
  <2>1. save[q].pc = "delete" /\ save[q] \in SongJobs
    BY <1>1, <1>8 DEF DeleteSongs
  <2> QED
    BY <1>3, <1>8, <2>1 DEF DeleteSongs, SongJobs
<1>9. ASSUME NEW q \in SongSaves, SaveOrderSongs(q) PROVE FALSE
  <2>1. save[q] \in SongJobs
    BY <1>1
  <2> QED
    BY <1>3, <1>4, <1>9, <2>1 DEF SaveOrderSongs, SongJobs
<1>10. ASSUME NEW s \in Services, NEW x \in Tunes, AdminWritesSong(s, x) PROVE FALSE
  <2>1. save'[r] = Tell(j, {}, {<<s, x>>}, {s})
    BY <1>10 DEF AdminWritesSong
  <2>2. save'[r].pc = j.pc
    BY <1>1, <2>1 DEF Tell, SongJobs
  <2> QED
    BY <1>2, <2>2
<1>11. ASSUME NEW q \in SongSaves, CreateSongs(q) PROVE AtLastStep(r) /\ Commit(r)
  BY <1>5, <1>11 DEF CreateSongs, AtLastStep
<1>12. ASSUME NEW q \in SongSaves, UpdateScheduleRow(q) PROVE AtLastStep(r) /\ Commit(r)
  <2>1. save[q] \in SongJobs
    BY <1>1
  <2>2. CASE Commit(q) /\ save[q].todo = {Current(save[q])}
                       /\ ~RootConflicts(save[q], Current(save[q]))
    BY <1>5, <1>12, <2>2 DEF UpdateScheduleRow, AtLastStep
  <2>3. CASE Goes(q, [save[q] EXCEPT !.pc = "songs", !.todo = @ \ {Current(save[q])},
                                     !.roots = @ \cup {Current(save[q])}])
    BY <1>3, <2>1, <2>3 DEF SongJobs
  <2> QED
    BY <1>4, <1>12, <2>2, <2>3 DEF UpdateScheduleRow
<1> QED
  BY <1>4, <1>6, <1>7, <1>8, <1>9, <1>10, <1>11, <1>12 DEF SongNext, RollBack

\* Whatever schedule saves and worship orders overlap, in any number, a save that
\* commits leaves the songs it asked for and no others, unless an administrator wrote
\* rows of the schedule while it ran (ScheduleRepository and WorshipOrderRepository,
\* SongsAreOneSave).
THEOREM SongsOneSave == SongSpec => SongsAreOneSave
<1>1. ASSUME SongInv, [SongNext]_songVars
      PROVE  [\A r \in SongSaves : Commits(r) =>
                \A s \in DOMAIN save[r].want \ save[r].meanwhile :
                   songs'[s] = save[r].want[s]]_songVars
  BY <1>1, CommitsAtLastStep, CommitWrites
<1> QED
  BY <1>1, SongStarts, SongStep, PTL DEF SongSpec, SongsAreOneSave

\* A save by somebody who may not change songs leaves those of every schedule as they
\* are when it commits, but for rows an administrator wrote meanwhile
\* (ScheduleRepository and WorshipOrderRepository, UnpermittedSavesKeepSongs).
THEOREM UnpermittedKeep == SongSpec => UnpermittedSavesKeepSongs
<1>1. ASSUME SongInv, [SongNext]_songVars
      PROVE  [\A r \in SongSaves : Commits(r) /\ ~save[r].may =>
                \A s \in Services \ save[r].meanwhile : songs'[s] = songs[s]]_songVars
  BY <1>1, CommitsAtLastStep, CommitWrites
<1> QED
  BY <1>1, SongStarts, SongStep, PTL DEF SongSpec, UnpermittedSavesKeepSongs

-----------------------------------------------------------------------------
(***************************************************************************)
(* Import of songs. An import writes what its user confirmed and nothing   *)
(* else, for any number of songs, imports and edits that cross.            *)
(***************************************************************************)
Statuses == {"CREATE", "RESTORE", "CONFLICT", "LINK", "ALREADY_LINKED"}

SongRows == [state: {"none", "active", "deleted"}, content: Contents, linked: BOOLEAN]

\* Functions from some of the songs to S.
PartialTo(S) == UNION {[f -> S] : f \in SUBSET Songs}

Writes == [song: Songs, how: Statuses, read: Contents]

ImportRecords ==
    [step: {"none", "reviewed", "applying"}, file: PartialTo(Contents),
     review: PartialTo(Statuses), left: SUBSET Songs, at: SUBSET Writes, wrote: SUBSET Writes]

TransferShape ==
    /\ song \in [Songs -> SongRows]
    /\ import \in [Imports -> ImportRecords]
    /\ editing \subseteq Songs
    /\ \A i \in Imports : DOMAIN import[i].review = DOMAIN import[i].file

\* A write that was confirmed, and looked at before it was made.
Confirmed(w, imp) ==
    /\ w.song \in Applicable(imp.review)
    /\ w.how = "CREATE" \/ w.read = imp.file[w.song]

WritesAreConfirmed ==
    \A i \in Imports :
        /\ import[i].left \subseteq Applicable(import[i].review)
        /\ \A w \in import[i].at \cup import[i].wrote : Confirmed(w, import[i])

TransferInv == TransferShape /\ WritesAreConfirmed

-----------------------------------------------------------------------------
LEMMA PartialIntro ==
    ASSUME NEW S, NEW f \in SUBSET Songs, NEW g \in [f -> S]
    PROVE  g \in PartialTo(S) /\ DOMAIN g = f
  BY DEF PartialTo

LEMMA PartialElim ==
    ASSUME NEW S, NEW g \in PartialTo(S)
    PROVE  g \in [DOMAIN g -> S] /\ DOMAIN g \in SUBSET Songs
<1>1. PICK f \in SUBSET Songs : g \in [f -> S]
  BY DEF PartialTo
<1> QED
  BY <1>1

LEMMA NoImportShape == NoImport \in ImportRecords /\ DOMAIN NoImport.review = DOMAIN NoImport.file
<1>1. NoFile \in [{} -> Contents] /\ NoFile \in [{} -> Statuses]
  BY DEF NoFile
<1>2. NoFile \in PartialTo(Contents) /\ NoFile \in PartialTo(Statuses)
  BY <1>1, PartialIntro
<1> QED
  BY <1>2 DEF NoImport, ImportRecords

\* The five cases of a review cover every row.
LEMMA StatusType ==
    ASSUME TransferShape, NEW s \in Songs, NEW file
    PROVE  Status(s, file) \in Statuses
<1>1. song[s].state \in {"none", "active", "deleted"}
  BY DEF TransferShape, SongRows
<1> QED
  BY <1>1 DEF Status, Statuses

LEMMA PreviewType ==
    ASSUME TransferShape, NEW file \in PartialTo(Contents)
    PROVE  Preview(file) \in PartialTo(Statuses) /\ DOMAIN Preview(file) = DOMAIN file
<1>1. DOMAIN file \in SUBSET Songs
  BY PartialElim
<1>2. Preview(file) \in [DOMAIN file -> Statuses]
  BY <1>1, StatusType DEF Preview
<1> QED
  BY <1>1, <1>2, PartialIntro

LEMMA TransferInitInv == TransferInit => TransferInv
<1> SUFFICES ASSUME TransferInit PROVE TransferInv
  OBVIOUS
<1>1. song \in [Songs -> SongRows] /\ editing \subseteq Songs
  <2>1. PICK c \in Contents :
            song \in [Songs -> {[state |-> "none", content |-> c, linked |-> FALSE]}]
    BY DEF TransferInit
  <2>2. [state |-> "none", content |-> c, linked |-> FALSE] \in SongRows
    BY DEF SongRows
  <2> QED
    BY <2>1, <2>2 DEF TransferInit
<1>2. \A i \in Imports : import[i] = NoImport
  BY DEF TransferInit
<1>3. TransferShape
  BY <1>1, <1>2, NoImportShape DEF TransferInit, TransferShape
<1>4. WritesAreConfirmed
  BY <1>2 DEF WritesAreConfirmed, NoImport
<1> QED
  BY <1>3, <1>4 DEF TransferInv

\* One import changes, to a record of the right shape with confirmed writes.
LEMMA OneImportChanges ==
    ASSUME TransferInv, NEW i \in Imports, NEW new,
           import' = [import EXCEPT ![i] = new], UNCHANGED <<song, editing>>,
           new \in ImportRecords, DOMAIN new.review = DOMAIN new.file,
           new.left \subseteq Applicable(new.review),
           \A w \in new.at \cup new.wrote : Confirmed(w, new)
    PROVE  TransferInv'
<1>1. TransferShape'
  BY DEF TransferInv, TransferShape
<1>2. \A j \in Imports : import'[j] = IF j = i THEN new ELSE import[j]
  BY DEF TransferInv, TransferShape
<1>3. WritesAreConfirmed'
  BY <1>2 DEF TransferInv, WritesAreConfirmed, Confirmed
<1> QED
  BY <1>1, <1>3 DEF TransferInv

LEMMA ImportEnds ==
    ASSUME TransferInv, NEW i \in Imports, import' = [import EXCEPT ![i] = NoImport],
           UNCHANGED <<song, editing>>
    PROVE  TransferInv'
<1>1. NoImport.left = {} /\ NoImport.at \cup NoImport.wrote = {}
  BY DEF NoImport
<1> QED
  BY <1>1, NoImportShape, OneImportChanges

LEMMA SongsChange ==
    ASSUME TransferInv, song' \in [Songs -> SongRows], editing' \subseteq Songs, import' = import
    PROVE  TransferInv'
  BY DEF TransferInv, TransferShape, WritesAreConfirmed, Confirmed

-----------------------------------------------------------------------------
LEMMA ReviewFileInv ==
    ASSUME TransferInv, NEW i \in Imports, NEW file \in Files, ReviewFile(i, file)
    PROVE  TransferInv'
<1> DEFINE new == [NoImport EXCEPT !.step = "reviewed", !.file = file, !.review = Preview(file)]
<1>1. file \in PartialTo(Contents)
  BY DEF Files, PartialTo
<1>2. new = [NoImport EXCEPT !.step = "reviewed", !.file = file, !.review = Preview(file)]
  OBVIOUS
<1> HIDE DEF new
<1>3. /\ new \in ImportRecords /\ DOMAIN new.review = DOMAIN new.file
      /\ new.left = {} /\ new.at = {} /\ new.wrote = {}
  BY <1>1, <1>2, PreviewType, NoImportShape DEF ImportRecords, NoImport, TransferInv
<1>4. import' = [import EXCEPT ![i] = new] /\ UNCHANGED <<song, editing>>
  BY <1>2 DEF ReviewFile
<1> QED
  BY <1>3, <1>4, OneImportChanges

LEMMA CommitImportInv ==
    ASSUME TransferInv, NEW i \in Imports, CommitImport(i)
    PROVE  TransferInv'
<1>1. CASE SameReview(i)
  <2> DEFINE new == [import[i] EXCEPT !.step = "applying", !.left = Applicable(Preview(import[i].file))]
  <2>1. import[i] \in ImportRecords /\ DOMAIN import[i].review = DOMAIN import[i].file
    BY DEF TransferInv, TransferShape
  <2>2. Applicable(import[i].review) \in SUBSET Songs
    BY <2>1, PartialElim DEF ImportRecords, Applicable
  <2>3. new = [import[i] EXCEPT !.step = "applying", !.left = Applicable(import[i].review)]
    BY <1>1 DEF SameReview
  <2>4. import' = [import EXCEPT ![i] = new] /\ UNCHANGED <<song, editing>>
    BY <1>1 DEF CommitImport, TransferInv, TransferShape
  <2> HIDE DEF new
  <2>5. /\ new \in ImportRecords
        /\ new.review = import[i].review /\ new.file = import[i].file
        /\ new.left = Applicable(import[i].review)
        /\ new.at = import[i].at /\ new.wrote = import[i].wrote
    BY <2>1, <2>2, <2>3 DEF ImportRecords
  <2>6. \A w \in new.at \cup new.wrote : Confirmed(w, new)
    BY <2>5 DEF Confirmed, TransferInv, WritesAreConfirmed
  <2> QED
    BY <2>1, <2>4, <2>5, <2>6, OneImportChanges
<1>2. CASE ~SameReview(i)
  BY <1>2, ImportEnds DEF CommitImport
<1> QED
  BY <1>1, <1>2

\* What is read is confirmed: it was left to do, and a song that differs is refused.
LEMMA ReadItemInv ==
    ASSUME TransferInv, NEW i \in Imports, NEW s \in Songs, ReadItem(i, s)
    PROVE  TransferInv'
<1> DEFINE file == import[i].file
           w == [song |-> s, how |-> Status(s, file), read |-> song[s].content]
           at == IF Status(s, file) = "ALREADY_LINKED" THEN {} ELSE {w}
           new == [import[i] EXCEPT !.left = import[i].left \ {s}, !.at = at]
<1>1. CASE Refused(s, file)
  BY <1>1, ImportEnds DEF ReadItem
<1>2. CASE ~Refused(s, file)
  <2>1. import[i] \in ImportRecords /\ DOMAIN import[i].review = DOMAIN import[i].file
    BY DEF TransferInv, TransferShape
  <2>2. w \in Writes
    BY StatusType DEF Writes, TransferInv, TransferShape, SongRows
  <2>3. song[s].state = "none" => Status(s, file) = "CREATE"
    BY DEF Status
  <2>4. Confirmed(w, import[i])
    BY <1>2, <2>3 DEF Confirmed, Refused, Differs, ReadItem, TransferInv, WritesAreConfirmed
  <2>5. import' = [import EXCEPT ![i] = new] /\ UNCHANGED <<song, editing>>
    BY <1>2 DEF ReadItem, TransferInv, TransferShape
  <2>6. at \subseteq {w}
    OBVIOUS
  <2>7. new = [import[i] EXCEPT !.left = import[i].left \ {s}, !.at = at]
    OBVIOUS
  <2> HIDE DEF new, at, w
  <2>8. /\ new \in ImportRecords
        /\ new.review = import[i].review /\ new.file = import[i].file
        /\ new.left \subseteq import[i].left
        /\ new.at = at /\ new.wrote = import[i].wrote
    BY <2>1, <2>2, <2>6, <2>7 DEF ImportRecords
  <2>9. \A v \in new.at \cup new.wrote : Confirmed(v, new)
    BY <2>4, <2>6, <2>8 DEF Confirmed, TransferInv, WritesAreConfirmed
  <2>10. new.left \subseteq Applicable(new.review)
    BY <2>8 DEF TransferInv, WritesAreConfirmed
  <2> QED
    BY <2>1, <2>5, <2>8, <2>9, <2>10, OneImportChanges
<1> QED
  BY <1>1, <1>2

LEMMA WriteItemInv ==
    ASSUME TransferInv, NEW i \in Imports, WriteItem(i)
    PROVE  TransferInv'
<1>1. PICK w \in import[i].at :
          /\ import' = [import EXCEPT ![i] =
                IF w.how = "CREATE" /\ song[w.song].state # "none" THEN NoImport
                ELSE [@ EXCEPT !.at = {}, !.wrote = import[i].wrote \cup {w}]]
          /\ UNCHANGED <<song, editing>>
  BY DEF WriteItem
<1> DEFINE new == [import[i] EXCEPT !.at = {}, !.wrote = import[i].wrote \cup {w}]
<1>2. CASE w.how = "CREATE" /\ song[w.song].state # "none"
  BY <1>1, <1>2, ImportEnds
<1>3. CASE ~(w.how = "CREATE" /\ song[w.song].state # "none")
  <2>1. import[i] \in ImportRecords /\ DOMAIN import[i].review = DOMAIN import[i].file
    BY DEF TransferInv, TransferShape
  <2>2. import' = [import EXCEPT ![i] = new] /\ UNCHANGED <<song, editing>>
    BY <1>1, <1>3 DEF TransferInv, TransferShape
  <2>3. new = [import[i] EXCEPT !.at = {}, !.wrote = import[i].wrote \cup {w}]
    OBVIOUS
  <2> HIDE DEF new
  <2>4. /\ new \in ImportRecords
        /\ new.review = import[i].review /\ new.file = import[i].file
        /\ new.left = import[i].left
        /\ new.at = {} /\ new.wrote = import[i].wrote \cup {w}
    BY <2>1, <2>3 DEF ImportRecords
  <2>5. \A v \in new.at \cup new.wrote : Confirmed(v, new)
    BY <2>4 DEF Confirmed, TransferInv, WritesAreConfirmed
  <2>6. new.left \subseteq Applicable(new.review)
    BY <2>4 DEF TransferInv, WritesAreConfirmed
  <2> QED
    BY <2>1, <2>2, <2>4, <2>5, <2>6, OneImportChanges
<1> QED
  BY <1>2, <1>3

LEMMA FinishImportInv ==
    ASSUME TransferInv, NEW i \in Imports, FinishImport(i)
    PROVE  TransferInv'
<1>1. ASSUME NEW s \in Songs PROVE Written(i, s) \in SongRows
  <2>1. import[i] \in ImportRecords /\ DOMAIN import[i].review = DOMAIN import[i].file
    BY DEF TransferInv, TransferShape
  <2>2. import[i].file \in [DOMAIN import[i].file -> Contents]
    BY <2>1, PartialElim DEF ImportRecords
  <2>3. ASSUME NEW w \in import[i].wrote, w.song = s PROVE import[i].file[s] \in Contents
    BY <2>1, <2>2, <2>3 DEF TransferInv, WritesAreConfirmed, Confirmed, Applicable
  <2>4. /\ song[s] \in SongRows /\ song[s].state \in {"none", "active", "deleted"}
        /\ song[s].content \in Contents
    BY DEF TransferInv, TransferShape, SongRows
  <2> QED
    BY <2>3, <2>4 DEF Written, SongRows
<1>2. song' \in [Songs -> SongRows]
  BY <1>1 DEF FinishImport
<1>3. import' = [import EXCEPT ![i] = NoImport] /\ editing' = editing
  BY DEF FinishImport
<1>4. TransferShape'
  BY <1>2, <1>3, NoImportShape DEF TransferInv, TransferShape
<1>5. \A j \in Imports : import'[j] = IF j = i THEN NoImport ELSE import[j]
  BY <1>3 DEF TransferInv, TransferShape
<1>6. NoImport.left = {} /\ NoImport.at \cup NoImport.wrote = {}
  BY DEF NoImport
<1>7. WritesAreConfirmed'
  BY <1>5, <1>6 DEF TransferInv, WritesAreConfirmed, Confirmed
<1> QED
  BY <1>4, <1>7 DEF TransferInv

LEMMA TransferNextInv == TransferInv /\ [TransferNext]_transferVars => TransferInv'
<1> SUFFICES ASSUME TransferInv, [TransferNext]_transferVars PROVE TransferInv'
  OBVIOUS
<1>1. ASSUME NEW i \in Imports, ImportFails(i) PROVE TransferInv'
  BY <1>1, ImportEnds DEF ImportFails
<1>2. ASSUME NEW s \in Songs, NEW c \in Contents, CreateSong(s, c) \/ UpdateSong(s, c)
      PROVE  TransferInv'
  BY <1>2, SongsChange DEF CreateSong, UpdateSong, TransferInv, TransferShape, SongRows
<1>3. ASSUME NEW s \in Songs, StartSongUpdate(s) \/ DeleteSong(s) PROVE TransferInv'
  BY <1>3, SongsChange DEF StartSongUpdate, DeleteSong, TransferInv, TransferShape, SongRows
<1>4. ASSUME NEW s \in Songs, NEW on \in BOOLEAN, SetSongLink(s, on) PROVE TransferInv'
  BY <1>4, SongsChange DEF SetSongLink, TransferInv, TransferShape, SongRows
<1>5. CASE UNCHANGED transferVars
  BY <1>5, SongsChange DEF transferVars, TransferInv, TransferShape
<1> QED
  BY <1>1, <1>2, <1>3, <1>4, <1>5, ReviewFileInv, CommitImportInv, ReadItemInv, WriteItemInv,
     FinishImportInv DEF TransferNext

LEMMA TransferInductive == TransferSpec => []TransferInv
  BY TransferInitInv, TransferNextInv, PTL DEF TransferSpec

-----------------------------------------------------------------------------
\* The types of the songs, the imports and the edits.
THEOREM TransferTypes == TransferSpec => []TransferTypeOK
<1>1. TransferInv => TransferTypeOK
  <2> SUFFICES ASSUME TransferInv PROVE TransferTypeOK
    OBVIOUS
  <2>1. \A i \in Imports : /\ import[i].step \in {"none", "reviewed", "applying"}
                           /\ import[i].left \subseteq DOMAIN import[i].file
                           /\ DOMAIN import[i].review = DOMAIN import[i].file
    BY DEF TransferInv, TransferShape, ImportRecords, WritesAreConfirmed, Applicable
  <2> QED
    BY <2>1 DEF TransferTypeOK, TransferInv, TransferShape, SongRows
<1> QED
  BY <1>1, TransferInductive, PTL

\* What an import changes is what its user confirmed, however its items, other
\* imports and edits interleave: the review was computed again before the first item,
\* and each item was looked at before its write.
THEOREM ConfirmedIsApplied == TransferSpec => OnlyReviewedIsApplied
<1>1. TransferInv => \A i \in Imports : \A w \in import[i].wrote :
                        /\ w.song \in Applicable(import[i].review)
                        /\ w.how = "CREATE" \/ w.read = import[i].file[w.song]
  BY DEF TransferInv, WritesAreConfirmed, Confirmed
<1>2. TransferInv =>
        [\A i \in Imports :
          FinishImport(i) =>
              \A w \in import[i].wrote :
                  /\ w.song \in Applicable(import[i].review)
                  /\ w.how = "CREATE" \/ w.read = import[i].file[w.song]]_transferVars
  BY <1>1
<1> QED
  BY <1>2, TransferInductive, PTL DEF OnlyReviewedIsApplied

-----------------------------------------------------------------------------
(***************************************************************************)
(* MCServerData. A behaviour of the composition is one of each part, since *)
(* what moves one of them leaves the others alone.                         *)
(***************************************************************************)
LEMMA PartsStart ==
    MCInit => /\ ResetInit /\ AdminInit /\ SupportInit /\ MemberInit /\ SongInit
              /\ TransferInit /\ InviteInit
  BY DEF MCInit

LEMMA PartsMove ==
    [MCNext]_MCVars => /\ [ResetNext]_resetVars /\ [AdminNext]_adminVars
                       /\ [SupportNext]_supportVars /\ [MemberNext]_memberVars
                       /\ [SongNext]_songVars /\ [TransferNext]_transferVars
                       /\ [InviteNext]_inviteVars
  BY DEF MCNext, MCVars

\* Every part of the composition behaves as its own module says, so that all of the
\* theorems above hold of it.
LEMMA PartsBehave ==
    MCSpec => /\ ResetSpec /\ AdminSpec /\ SupportSpec /\ MemberSpec /\ SongSpec
              /\ TransferSpec /\ InviteSpec
  BY PartsStart, PartsMove, PTL
  DEF MCSpec, ResetSpec, AdminSpec, SupportSpec, MemberSpec, SongSpec, TransferSpec, InviteSpec

\* The rows and the requests of all of the services have their types; a challenge never
\* counts more wrong PINs than its limit (ServerTypes).
THEOREM ServerTypesHold == MCSpec => []ServerTypes
<1>1. ResetTypeOK /\ AdminTypeOK /\ SupportTypeOK /\ MemberTypeOK /\ SongTypeOK
         /\ TransferTypeOK /\ InviteTypeOK => ServerTypes
  BY DEF ServerTypes
<1> QED
  BY <1>1, PartsBehave, ResetTypes, AdminTypes, SupportTypes, MemberTypes, SongTypes,
     TransferTypes, InviteTypes, PTL
=============================================================================

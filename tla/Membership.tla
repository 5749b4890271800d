------------------------------ MODULE Membership ------------------------------
(***************************************************************************)
(* Who belongs to which ministry of a church, and the person's role:       *)
(* src/src/services/ministryService.ts and memberService.ts with           *)
(* src/src/repositories/MinistryRepository.ts and MemberRepository.ts.     *)
(*                                                                         *)
(* Saving somebody's permissions replaces role and memberships in one      *)
(* READ COMMITTED transaction, which writes the user row first and so      *)
(* makes other saves of that person wait.  Everything else writes single   *)
(* memberships, some of it after looking whether there is one.             *)
(***************************************************************************)
EXTENDS Naturals, FiniteSets

CONSTANTS Members, Ministries,
          Managers,     \* requests being served at a time
          NotMember, Unsaved

MemberRoles == {"MEMBER", "MINISTRY_LEADER"}
Link == [leader: BOOLEAN, status: {"ACTIVE", "INACTIVE"}]

ASSUME MembershipAssumption == NotMember \notin Link /\ Unsaved \notin Managers

VARIABLES
    role,       \* User.role
    link,       \* link[u][m]: the MinistryMember row, or NotMember
    exists,     \* ministries that exist
    manage,     \* what each request is doing
    last,       \* history: what the last permissions save of u asked for
    touched     \* history: somebody else wrote a membership of u since that save looked

memberVars == <<role, link, exists, manage, last, touched>>

Free == [pc |-> "free"]

MemberInit ==
    /\ role = [u \in Members |-> "MEMBER"]
    /\ link = [u \in Members |-> [m \in Ministries |-> NotMember]]
    /\ exists = Ministries
    /\ manage = [r \in Managers |-> Free]
    /\ last = [u \in Members |-> Unsaved]
    /\ touched = [u \in Members |-> FALSE]

MemberTypeOK ==
    /\ role \in [Members -> MemberRoles]
    /\ link \in [Members -> [Ministries -> Link \cup {NotMember}]]
    /\ exists \subseteq Ministries
    /\ \A r \in Managers : manage[r].pc \in {"free", "wait", "delete", "commit", "toggle", "assign"}
    /\ touched \in [Members -> BOOLEAN]

Saving(r, u) == manage[r].pc \in {"delete", "commit"} /\ manage[r].user = u

\* The user row, written first, is locked until the save commits; so are the
\* memberships it has deleted.
UserRowFree(u) == \A r \in Managers : ~Saving(r, u)
RowFree(u, m) == \A r \in Managers : manage[r].pc = "commit" /\ manage[r].user = u =>
                                         m \notin manage[r].deleted

Links(ms) == UNION {[s -> BOOLEAN] : s \in SUBSET ms}

-----------------------------------------------------------------------------
\* A leader of any ministry gets the role; the ministries have been looked up.
StartPermissions(r, u, input, leads) ==
    /\ manage[r] = Free /\ DOMAIN leads \subseteq exists
    /\ manage' = [manage EXCEPT ![r] =
          [pc |-> "wait", user |-> u, leads |-> leads,
           role |-> IF \E m \in DOMAIN leads : leads[m] THEN "MINISTRY_LEADER" ELSE input]]
    /\ UNCHANGED <<role, link, exists, last, touched>>

\* Mutant: the save does not begin with the user row.
StartWithoutLock(r) ==
    /\ manage[r].pc = "wait"
    /\ manage' = [manage EXCEPT ![r] = IF DOMAIN manage[r].leads \subseteq exists
                                       THEN [manage[r] EXCEPT !.pc = "delete"] ELSE Free]
    /\ UNCHANGED <<role, link, exists, last, touched>>

LockUser(r) ==
    /\ manage[r].pc = "wait" /\ UserRowFree(manage[r].user)
    /\ manage' = [manage EXCEPT ![r] = IF DOMAIN manage[r].leads \subseteq exists
                                       THEN [manage[r] EXCEPT !.pc = "delete"] ELSE Free]
    /\ UNCHANGED <<role, link, exists, last, touched>>

DeleteOthers(r) ==
    LET j == manage[r]
        gone == {m \in Ministries \ DOMAIN j.leads : link[j.user][m] # NotMember}
    IN /\ j.pc = "delete" /\ \A m \in gone : RowFree(j.user, m)
       /\ manage' = [manage EXCEPT ![r] = [pc |-> "commit", user |-> j.user, leads |-> j.leads,
                                           role |-> j.role, deleted |-> gone]]
       /\ touched' = [touched EXCEPT ![j.user] = FALSE]
       /\ UNCHANGED <<role, link, exists, last>>

\* The upserts, which make old members active again, and the commit.  A ministry
\* deleted meanwhile breaks the foreign key and rolls everything back.
UpsertAndCommit(r) ==
    LET j == manage[r]
        u == j.user
    IN /\ j.pc = "commit"
       /\ IF DOMAIN j.leads \subseteq exists
          THEN /\ role' = [role EXCEPT ![u] = j.role]
               /\ link' = [link EXCEPT ![u] = [m \in Ministries |->
                     IF m \in DOMAIN j.leads THEN [leader |-> j.leads[m], status |-> "ACTIVE"]
                     ELSE IF m \in j.deleted THEN NotMember ELSE @[m]]]
               /\ last' = [last EXCEPT ![u] = [role |-> j.role, leads |-> j.leads]]
               /\ UNCHANGED touched
          ELSE /\ touched' = [touched EXCEPT ![u] = TRUE]
               /\ UNCHANGED <<role, link, last>>
       /\ manage' = [manage EXCEPT ![r] = Free]
       /\ UNCHANGED exists

-----------------------------------------------------------------------------
SetLink(u, m, row) ==
    /\ RowFree(u, m)
    /\ link' = [link EXCEPT ![u][m] = row]
    /\ touched' = [touched EXCEPT ![u] = TRUE]
    /\ UNCHANGED <<role, exists, last>>

\* MinistryRepository.addMember makes an old member active again,
\* MemberRepository.addMinistry does not, and an invite leaves a member as is.
AddMember(u, m, leader) ==
    /\ m \in exists /\ SetLink(u, m, [leader |-> leader, status |-> "ACTIVE"])
    /\ UNCHANGED manage

AddMinistry(u, m, leader) ==
    /\ m \in exists
    /\ SetLink(u, m, [leader |-> leader,
                      status |-> IF link[u][m] = NotMember THEN "ACTIVE" ELSE link[u][m].status])
    /\ UNCHANGED manage

AddUserToMinistry(u, m) ==
    /\ m \in exists /\ link[u][m] = NotMember
    /\ SetLink(u, m, [leader |-> FALSE, status |-> "ACTIVE"])
    /\ UNCHANGED manage

\* toggleMember and assignMember look first.
Look(r, op, u, m, row) ==
    /\ manage[r] = Free /\ m \in exists
    /\ op = "assign" => link[u][m] = NotMember
    /\ manage' = [manage EXCEPT ![r] = [pc |-> op, user |-> u, ministry |-> m, row |-> row,
                                        had |-> link[u][m] # NotMember]]
    /\ UNCHANGED <<role, link, exists, last, touched>>

\* An existing membership makes the creation fail, and so does a missing ministry.
ToggleOrAssign(r) ==
    LET j == manage[r]
    IN /\ j.pc \in {"toggle", "assign"}
       /\ IF j.had THEN SetLink(j.user, j.ministry, NotMember)
          ELSE IF link[j.user][j.ministry] = NotMember /\ j.ministry \in exists
               THEN SetLink(j.user, j.ministry, j.row)
               ELSE UNCHANGED <<role, link, exists, last, touched>>
       /\ manage' = [manage EXCEPT ![r] = Free]

\* Somebody who is not active any more stops leading; a flag alone is taken as it is.
UpdateMemberAssignment(u, m, row) ==
    /\ link[u][m] # NotMember
    /\ row.leader => row.status = link[u][m].status \/ row.status = "ACTIVE"
    /\ SetLink(u, m, row)
    /\ UNCHANGED manage

RemoveMember(u, m) ==
    /\ link[u][m] # NotMember /\ SetLink(u, m, NotMember)
    /\ UNCHANGED manage

\* Its schedules, links of songs and invitations go in the same transaction and are
\* left out.
DeleteMinistry(m) ==
    /\ m \in exists /\ \A u \in Members : RowFree(u, m)
    /\ exists' = exists \ {m}
    /\ link' = [u \in Members |-> [link[u] EXCEPT ![m] = NotMember]]
    /\ touched' = [u \in Members |-> TRUE]
    /\ UNCHANGED <<role, manage, last>>

MemberNext ==
    \/ \E r \in Managers, u \in Members :
          \E leads \in Links(Ministries), input \in MemberRoles :
              StartPermissions(r, u, input, leads)
    \/ \E r \in Managers :
          LockUser(r) \/ DeleteOthers(r) \/ UpsertAndCommit(r) \/ ToggleOrAssign(r)
    \/ \E r \in Managers, u \in Members, m \in Ministries :
          \/ Look(r, "toggle", u, m, [leader |-> FALSE, status |-> "ACTIVE"])
          \/ \E row \in Link : Look(r, "assign", u, m, row)
    \/ \E u \in Members, m \in Ministries :
          \/ \E leader \in BOOLEAN : AddMember(u, m, leader) \/ AddMinistry(u, m, leader)
          \/ AddUserToMinistry(u, m) \/ RemoveMember(u, m)
          \/ \E row \in Link : UpdateMemberAssignment(u, m, row)
    \/ \E m \in Ministries : DeleteMinistry(m)

MemberSpec == MemberInit /\ [][MemberNext]_memberVars

-----------------------------------------------------------------------------
\* Role and memberships are those of one save, never a mixture of two that
\* overlapped, as long as nobody else wrote a membership since; whoever that save
\* made a leader does not have the role of a plain member.
PermissionsAreOneSave ==
    \A u \in Members :
        last[u] # Unsaved =>
           /\ role[u] = last[u].role
           /\ ~touched[u] /\ UserRowFree(u) =>
                 /\ \A m \in Ministries :
                       link[u][m] = IF m \in DOMAIN last[u].leads
                                    THEN [leader |-> last[u].leads[m], status |-> "ACTIVE"]
                                    ELSE NotMember
                 /\ role[u] = "MEMBER" => \A m \in Ministries : link[u][m] = NotMember
                                                                \/ ~link[u][m].leader
=============================================================================

----------------------------- MODULE Invitations ------------------------------
(***************************************************************************)
(* Registration and invitations (src/src/services/authService.ts and       *)
(* src/src/repositories/authRepository.ts).                                *)
(*                                                                         *)
(* A church, or one of its ministries, has an invitation code; who has it  *)
(* registers as a member, or, having an account already, joins the         *)
(* ministry when logging in.  Asking for the code makes one if there is    *)
(* none; regenerating it deactivates what is active and makes another, in  *)
(* two transactions.  One holder of codes (a church or a ministry of it)   *)
(* is modelled; the session that follows is AuthSessions'.                 *)
(***************************************************************************)
EXTENDS Naturals, FiniteSets

CONSTANTS Invites,      \* invitation rows
          Emails,
          Joins,        \* requests being served at a time
          NoInvite

ASSUME InvitesAssumption == NoInvite \notin Invites

VARIABLES
    invite,     \* rows: made, active
    account,    \* the e-mails with an account in the church
    church,     \* whether the church is active
    join,       \* what each request is doing, with its invitation and e-mail
    stopped,    \* history: invitations that a finished regeneration followed
    admitted    \* history: those of them that let in a request that came later

inviteVars == <<invite, account, church, join, stopped, admitted>>

NoJoin == [step |-> "none", invite |-> NoInvite, email |-> NoInvite, barred |-> {}]

InviteInit ==
    /\ invite = [i \in Invites |-> [made |-> FALSE, active |-> FALSE]]
    /\ account = {} /\ church = FALSE
    /\ join = [j \in Joins |-> NoJoin]
    /\ stopped = {} /\ admitted = {}

InviteTypeOK ==
    /\ invite \in [Invites -> [made: BOOLEAN, active: BOOLEAN]]
    /\ account \subseteq Emails /\ church \in BOOLEAN
    /\ join \in [Joins -> [step: {"none", "create", "replace", "register", "apply"},
                           invite: Invites \cup {NoInvite}, email: Emails \cup {NoInvite},
                           barred: SUBSET Invites]]
    /\ stopped \subseteq Invites /\ admitted \subseteq Invites

-----------------------------------------------------------------------------
Active(i) == invite[i].active /\ church

\* A church registers with its first administrator, whose e-mail must be new.
Register(e) ==
    /\ ~church /\ account = {}
    /\ church' = TRUE
    /\ account' = {e}
    /\ UNCHANGED <<invite, join, stopped, admitted>>

SwitchChurch(on) ==
    /\ account # {} /\ church # on
    /\ church' = on
    /\ UNCHANGED <<invite, account, join, stopped, admitted>>

\* The request is answered with an active code, or goes on to make one.
GetMemberInvite(j) ==
    /\ account # {} /\ join[j].step = "none"
    /\ ~ \E i \in Invites : Active(i)
    /\ join' = [join EXCEPT ![j].step = "create"]
    /\ UNCHANGED <<invite, account, church, stopped, admitted>>

\* Mutant: only the code that was shown last is deactivated.
DeactivateOneInvite ==
    IF \E i \in Invites : invite[i].active
    THEN \E i \in Invites : invite[i].active /\ invite' = [invite EXCEPT ![i].active = FALSE]
    ELSE UNCHANGED invite

DeactivateMemberInvites ==
    invite' = [i \in Invites |-> [invite[i] EXCEPT !.active = FALSE]]

\* What is active now is never to let in anybody whose request comes after the end of
\* this regeneration.
RegenerateMemberInvite(j) ==
    /\ account # {} /\ join[j].step = "none"
    /\ DeactivateMemberInvites
    /\ join' = [join EXCEPT ![j] = [NoJoin EXCEPT !.step = "replace",
                                          !.barred = {i \in Invites : invite[i].active}]]
    /\ UNCHANGED <<account, church, stopped, admitted>>

\* A code that is taken is drawn again: only the new row remains.
CreateMemberInvite(j, i) ==
    /\ join[j].step \in {"create", "replace"} /\ ~invite[i].made
    /\ invite' = [invite EXCEPT ![i] = [made |-> TRUE, active |-> TRUE]]
    /\ stopped' = stopped \cup join[j].barred
    /\ join' = [join EXCEPT ![j] = NoJoin]
    /\ UNCHANGED <<account, church, admitted>>

\* The process dies, or the database refuses: the deactivation stays.
JoinFails(j) ==
    /\ join[j].step # "none"
    /\ join' = [join EXCEPT ![j] = NoJoin]
    /\ UNCHANGED <<invite, account, church, stopped, admitted>>

\* A new member, and a member with an account: the code is looked at here, and its row
\* is not looked at again.
StartRegistration(j, i, e) ==
    /\ join[j].step = "none"
    /\ Active(i)
    /\ e \notin account
    /\ join' = [join EXCEPT ![j] = [step |-> "register", invite |-> i, email |-> e,
                                    barred |-> stopped]]
    /\ UNCHANGED <<invite, account, church, stopped, admitted>>

StartApplying(j, i, e) ==
    /\ join[j].step = "none"
    /\ Active(i)
    /\ e \in account
    /\ join' = [join EXCEPT ![j] = [step |-> "apply", invite |-> i, email |-> e,
                                    barred |-> stopped]]
    /\ UNCHANGED <<invite, account, church, stopped, admitted>>

\* An e-mail that has got an account meanwhile fails on the unique index.
Joined(j) ==
    /\ join[j].step \in {"register", "apply"}
    /\ IF join[j].step = "register" /\ join[j].email \in account
       THEN UNCHANGED <<account, admitted>>
       ELSE /\ account' = account \cup {join[j].email}
            /\ admitted' = admitted \cup ({join[j].invite} \cap join[j].barred)
    /\ join' = [join EXCEPT ![j] = NoJoin]
    /\ UNCHANGED <<invite, church, stopped>>

InviteNext ==
    \/ \E e \in Emails : Register(e)
    \/ \E on \in BOOLEAN : SwitchChurch(on)
    \/ \E j \in Joins :
          \/ GetMemberInvite(j) \/ RegenerateMemberInvite(j) \/ JoinFails(j) \/ Joined(j)
          \/ \E i \in Invites :
                \/ CreateMemberInvite(j, i)
                \/ \E e \in Emails : StartRegistration(j, i, e) \/ StartApplying(j, i, e)

InviteSpec == InviteInit /\ [][InviteNext]_inviteVars

-----------------------------------------------------------------------------
\* Regenerating an invitation stops every earlier one, also where requests that came
\* together had left several active: none lets in a request that comes later.
RegeneratedCodesAdmitNobody == admitted = {}
=============================================================================

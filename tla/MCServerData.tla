----------------------------- MODULE MCServerData -----------------------------
(***************************************************************************)
(* What requests that overlap do to rows of the database: password resets, *)
(* administration, support grants, memberships, songs of schedules, the    *)
(* import of songs, and invitations.  They share no modelled state, so one *)
(* of them, "focus", moves in a behaviour and the others stand still.      *)
(***************************************************************************)
EXTENDS PasswordReset, Administration, SupportAccess, Membership, ScheduleSongs,
        SongTransfer, Invitations, TLC

CONSTANTS c1, c2, text

\* Updates of users that concern sessions, each in another way.
MCChanges == {[role |-> "GLOBAL_ADMIN", church |-> NoChurch, password |-> FALSE],
              [role |-> "MEMBER", church |-> c1, password |-> FALSE],
              [role |-> Same, church |-> c2, password |-> FALSE],
              [role |-> Same, church |-> Same, password |-> TRUE]}

\* The parts are given the same model values for their requests, and others for what
\* comes in pairs: permuting these two sets is sound for all of them.
Symmetry == Permutations(AdminRequests) \cup Permutations(Logins)

VARIABLE focus

MCVars == <<focus, resetVars, adminVars, supportVars, memberVars, songVars, transferVars,
            inviteVars>>

MCInit ==
    /\ focus \in {"reset", "admin", "support", "members", "order", "import", "invite"}
    /\ ResetInit /\ AdminInit /\ SupportInit /\ MemberInit /\ SongInit /\ TransferInit
    /\ InviteInit
    /\ focus = "admin" \/ \A u \in People : person[u].church # c2
    /\ focus = "import" \/ \A s \in Songs : song[s].content = text

MCNext ==
    \/ focus = "reset" /\ ResetNext
       /\ UNCHANGED <<focus, adminVars, supportVars, memberVars, songVars, transferVars,
                      inviteVars>>
    \/ focus = "admin" /\ AdminNext
       /\ UNCHANGED <<focus, resetVars, supportVars, memberVars, songVars, transferVars,
                      inviteVars>>
    \/ focus = "support" /\ SupportNext
       /\ UNCHANGED <<focus, resetVars, adminVars, memberVars, songVars, transferVars,
                      inviteVars>>
    \/ focus = "members" /\ MemberNext
       /\ UNCHANGED <<focus, resetVars, adminVars, supportVars, songVars, transferVars,
                      inviteVars>>
    \/ focus = "order" /\ SongNext
       /\ UNCHANGED <<focus, resetVars, adminVars, supportVars, memberVars, transferVars,
                      inviteVars>>
    \/ focus = "import" /\ TransferNext
       /\ UNCHANGED <<focus, resetVars, adminVars, supportVars, memberVars, songVars,
                      inviteVars>>
    \/ focus = "invite" /\ InviteNext
       /\ UNCHANGED <<focus, resetVars, adminVars, supportVars, memberVars, songVars,
                      transferVars>>

MCSpec == MCInit /\ [][MCNext]_MCVars

\* The variables have their types; the count of wrong PINs stays within its limit.
ServerTypes == /\ ResetTypeOK /\ AdminTypeOK /\ SupportTypeOK /\ MemberTypeOK /\ SongTypeOK
               /\ TransferTypeOK /\ InviteTypeOK
=============================================================================

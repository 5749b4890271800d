----------------------------- MODULE SupportAccess -----------------------------
(***************************************************************************)
(* Support grants (src/src/services/privilegedAccessService.ts and         *)
(* src/src/middlewares/supportAccessMiddleware.ts).                        *)
(*                                                                         *)
(* A grant lets one person, in one session, read records of a church until *)
(* it lapses or is revoked.  A use searches the grant and then updates it  *)
(* with the session: two statements of one READ COMMITTED transaction.     *)
(* Whether grantee and church are active, which other requests change, is  *)
(* open at every search.  Scopes and the audit log are left out.           *)
(***************************************************************************)
EXTENDS Naturals, FiniteSets

CONSTANTS Grants,
          SupportSessions,  \* sessions of the grantees
          SupportUses,      \* requests with a grant being served at a time
          Unbound

ASSUME SupportAssumption == Unbound \notin SupportSessions

VARIABLES
    grant,      \* SupportAccessGrant: made, boundSessionId, lapsed, revoked
    use,        \* what each request is doing
    served      \* history: served[g]: <<session, whether g was revoked by then>>

supportVars == <<grant, use, served>>

NotInUse == [grant |-> Unbound, session |-> Unbound]

SupportInit ==
    /\ grant = [g \in Grants |-> [made |-> FALSE, bound |-> Unbound,
                                  lapsed |-> FALSE, revoked |-> FALSE]]
    /\ use = [r \in SupportUses |-> NotInUse]
    /\ served = [g \in Grants |-> {}]

SupportTypeOK ==
    /\ grant \in [Grants -> [made: BOOLEAN, bound: SupportSessions \cup {Unbound},
                             lapsed: BOOLEAN, revoked: BOOLEAN]]
    /\ use \in [SupportUses -> [grant: Grants \cup {Unbound},
                                session: SupportSessions \cup {Unbound}]]
    /\ served \in [Grants -> SUBSET (SupportSessions \X BOOLEAN)]

CreateSupportGrant(g) ==
    /\ ~grant[g].made
    /\ grant' = [grant EXCEPT ![g].made = TRUE]
    /\ UNCHANGED <<use, served>>

\* Revoking again is allowed; a grant in use is revoked like any other.
RevokeSupportGrant(g) ==
    /\ grant[g].made
    /\ grant' = [grant EXCEPT ![g].revoked = TRUE]
    /\ UNCHANGED <<use, served>>

GrantLapses(g) ==
    /\ grant[g].made /\ ~grant[g].lapsed
    /\ grant' = [grant EXCEPT ![g].lapsed = TRUE]
    /\ UNCHANGED <<use, served>>

Usable(g, s) ==
    grant[g].made /\ ~grant[g].revoked /\ grant[g].bound \in {Unbound, s}

FindGrant(r, g, s) ==
    /\ use[r] = NotInUse
    /\ Usable(g, s) /\ ~grant[g].lapsed
    /\ use' = [use EXCEPT ![r] = [grant |-> g, session |-> s]]
    /\ UNCHANGED <<grant, served>>

\* Mutant: the grant found is bound without a second look.
BindFoundGrant(r) ==
    LET g == use[r].grant
        s == use[r].session
    IN /\ use[r] # NotInUse
       /\ grant' = [grant EXCEPT ![g].bound = s]
       /\ served' = [served EXCEPT ![g] = @ \cup {<<s, grant[g].revoked>>}]
       /\ use' = [use EXCEPT ![r] = NotInUse]

\* The update repeats the condition, but with the time of the search: a grant that
\* lapses in between still serves.
BindSession(r) ==
    LET g == use[r].grant
        s == use[r].session
    IN /\ use[r] # NotInUse
       /\ IF Usable(g, s)
          THEN /\ grant' = [grant EXCEPT ![g].bound = s]
               /\ served' = [served EXCEPT ![g] = @ \cup {<<s, grant[g].revoked>>}]
          ELSE UNCHANGED <<grant, served>>
       /\ use' = [use EXCEPT ![r] = NotInUse]

SupportNext ==
    \/ \E g \in Grants : CreateSupportGrant(g) \/ RevokeSupportGrant(g) \/ GrantLapses(g)
    \/ \E r \in SupportUses :
          \/ \E g \in Grants, s \in SupportSessions : FindGrant(r, g, s)
          \/ BindSession(r)

SupportSpec == SupportInit /\ [][SupportNext]_supportVars

-----------------------------------------------------------------------------
\* A support grant lets one session in, and none whose use commits after the grant
\* was revoked, however the uses and the revocation interleave.
GrantServesOneSession ==
    \A g \in Grants : /\ \A x, y \in served[g] : x[1] = y[1]
                      /\ \A x \in served[g] : ~x[2]
=============================================================================

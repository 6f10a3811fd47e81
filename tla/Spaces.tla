------------------------------- MODULE Spaces -------------------------------
(***************************************************************************)
(* The members of one shared space, its invitations, and the access the    *)
(* members give to their agents (spaces/repository.ts, management.ts and   *)
(* agents/repository.ts).                                                  *)
(*                                                                         *)
(* Whatever changes members or invitations locks the row of the space      *)
(* first, so each of these transactions is one action.  A grant to an      *)
(* agent is checked and inserted in two statements without that lock.      *)
(* Editors, contributors and viewers are all "member" here.                *)
(***************************************************************************)
EXTENDS Naturals, FiniteSets

CONSTANTS User,
          Creator,   \* the user who created the space
          Email,
          Holder,    \* the user who can prove an address
          NoEmail,
          Agent,
          OwnerOf    \* the user an agent acts for

ASSUME SpacesAssumption ==
    /\ Creator \in User
    /\ NoEmail \notin Email
    /\ Holder \in [Email -> User]
    /\ OwnerOf \in [Agent -> User]

VARIABLES role,        \* space_members
          invitation,  \* the row per address that was not accepted
          mail,        \* users.email
          credential,  \* agent_credentials
          granted,     \* agent_space_grants
          checked,     \* grant() calls between their check and their insert
          decider      \* history: who decided the last change of a role

agents == <<credential, granted, checked>>
vars   == <<role, invitation, mail, agents, decider>>

Role == {"none", "member", "admin", "owner"}
Managers == {"owner", "admin"}
NoInvitation == [status |-> "none", role |-> "member", by |-> Creator]

Init ==
    /\ role = [u \in User |-> IF u = Creator THEN "owner" ELSE "none"]
    /\ invitation = [e \in Email |-> NoInvitation]
    /\ mail \in {f \in [User -> Email \cup {NoEmail}] : \A u \in User : f[u] \in Email => Holder[f[u]] = u}
    /\ credential = [a \in Agent |-> "none"]
    /\ granted = [a \in Agent |-> FALSE]
    /\ checked = [a \in Agent |-> FALSE]
    /\ decider = Creator

-----------------------------------------------------------------------------
(* Invitations.                                                            *)

\* A second invitation of an address overwrites one that was not accepted,
\* revoked or not.
Invite(u, e, r) ==
    /\ role[u] \in Managers
    /\ r = "admin" => role[u] = "owner"
    /\ invitation' = [invitation EXCEPT ![e] = [status |-> "pending", role |-> r, by |-> u]]
    /\ UNCHANGED <<role, mail, agents, decider>>

\* 1 to 168 hours passed.
Expire(e) ==
    /\ invitation[e].status = "pending"
    /\ invitation' = [invitation EXCEPT ![e].status = "void"]
    /\ UNCHANGED <<role, mail, agents, decider>>

Revoke(u, e) ==
    /\ role[u] \in Managers
    /\ invitation[e].status # "none"
    /\ invitation' = [invitation EXCEPT ![e].status = "void"]
    /\ UNCHANGED <<role, mail, agents, decider>>

\* Mutation: an issuer who still manages the space may have sent any invitation.
IssuerStillManages(by, r) == role[by] \in Managers

IssuerMayStill(by, r) ==
    /\ role[by] \in Managers
    /\ r = "admin" => role[by] = "owner"

\* ON CONFLICT DO NOTHING
Joined(u, r) == [role EXCEPT ![u] = IF @ = "none" THEN r ELSE @]

\* A user proves the address and has the token that was sent to it last.
\* A row that was accepted no longer conflicts with a new invitation, so the
\* address has none.
Accept(u, e) ==
    LET i == invitation[e] IN
    /\ Holder[e] = u
    /\ i.status = "pending"
    /\ IssuerMayStill(i.by, i.role)
    /\ role' = Joined(u, i.role)
    /\ decider' = i.by
    /\ invitation' = [invitation EXCEPT ![e] = NoInvitation]
    /\ UNCHANGED <<mail, agents>>

\* ensureUser() puts the address of the provider on file; one typed into a
\* local profile is not modelled.
SignIn(u, e) ==
    /\ Holder[e] = u
    /\ mail' = [mail EXCEPT ![u] = e]
    /\ UNCHANGED <<role, invitation, agents, decider>>

-----------------------------------------------------------------------------
(* Members.                                                                *)

IsLastOwner(u) == role[u] = "owner" /\ \A v \in User : role[v] = "owner" => v = u

\* Mutation: the user who transfers is not compared with the target.
TransferToAnyone(u, t) ==
    /\ role[u] = "owner"
    /\ role[t] # "none"
    /\ role' = [[role EXCEPT ![t] = "owner"] EXCEPT ![u] = "admin"]
    /\ decider' = u
    /\ UNCHANGED <<invitation, mail, agents>>

\* The pending invitations of the old owner stay.
Transfer(u, t) ==
    /\ role[u] = "owner"
    /\ role[t] # "none"
    /\ u # t
    /\ role' = [[role EXCEPT ![t] = "owner"] EXCEPT ![u] = "admin"]
    /\ decider' = u
    /\ UNCHANGED <<invitation, mail, agents>>

MayChange(u, t, next) ==
    /\ role[u] \in Managers
    /\ role[t] # "none"
    /\ ~IsLastOwner(t)
    /\ role[u] = "owner" \/ (role[t] = "member" /\ next # "admin")

\* Invitations that a change of t revokes: those t sent, and those to the
\* address on file of a t who is removed.
Revoked(t, next) ==
    {e \in Email : invitation[e].by = t \/ (next = "none" /\ mail[t] = e)}

\* next is "none" when t is removed.
Change(u, t, next) ==
    /\ MayChange(u, t, next)
    /\ role' = [role EXCEPT ![t] = next]
    /\ decider' = u
    /\ invitation' = [e \in Email |->
           IF e \in Revoked(t, next) /\ invitation[e].status # "none"
           THEN [invitation[e] EXCEPT !.status = "void"] ELSE invitation[e]]
    /\ granted' = [a \in Agent |-> granted[a] /\ ~(next = "none" /\ OwnerOf[a] = t)]
    /\ UNCHANGED <<mail, credential, checked>>

-----------------------------------------------------------------------------
(* Agents.                                                                 *)

CreateAgent(a) ==
    /\ credential[a] = "none"
    /\ credential' = [credential EXCEPT ![a] = "live"]
    /\ UNCHANGED <<role, invitation, mail, granted, checked, decider>>

\* The credential's grants cascade.
RemoveAgent(a) ==
    /\ credential[a] = "live"
    /\ credential' = [credential EXCEPT ![a] = "gone"]
    /\ granted' = [granted EXCEPT ![a] = FALSE]
    /\ UNCHANGED <<role, invitation, mail, checked, decider>>

CheckGrant(a) ==
    /\ ~checked[a]
    /\ role[OwnerOf[a]] # "none"
    /\ credential[a] = "live"
    /\ checked' = [checked EXCEPT ![a] = TRUE]
    /\ UNCHANGED <<role, invitation, mail, credential, granted, decider>>

\* The insert fails if the credential is gone.
InsertGrant(a) ==
    /\ checked[a]
    /\ checked' = [checked EXCEPT ![a] = FALSE]
    /\ granted' = [granted EXCEPT ![a] = (credential[a] = "live")]
    /\ UNCHANGED <<role, invitation, mail, credential, decider>>

RevokeGrant(a) ==
    /\ granted[a]
    /\ granted' = [granted EXCEPT ![a] = FALSE]
    /\ UNCHANGED <<role, invitation, mail, credential, checked, decider>>

InvitationStep ==
    \/ \E u \in User, e \in Email : Revoke(u, e) \/ Accept(u, e) \/ SignIn(u, e)
    \/ \E u \in User, e \in Email, r \in {"member", "admin"} : Invite(u, e, r)
    \/ \E e \in Email : Expire(e)

MemberStep ==
    \E u, t \in User :
        Transfer(u, t) \/ \E next \in {"none", "member", "admin"} : Change(u, t, next)

AgentStep ==
    \E a \in Agent :
        CreateAgent(a) \/ RemoveAgent(a) \/ CheckGrant(a) \/ InsertGrant(a) \/ RevokeGrant(a)

Next == InvitationStep \/ MemberStep \/ AgentStep

Spec == Init /\ [][Next]_vars

-----------------------------------------------------------------------------
TypeOK ==
    /\ role \in [User -> Role]
    /\ invitation \in [Email -> [status: {"none", "pending", "void"}, role: {"member", "admin"}, by: User]]
    /\ mail \in [User -> Email \cup {NoEmail}]
    /\ credential \in [Agent -> {"none", "live", "gone"}]
    /\ granted \in [Agent -> BOOLEAN]
    /\ checked \in [Agent -> BOOLEAN]
    /\ decider \in User

\* A shared space has one owner at all times, through every order of
\* transfers, removals and accepted invitations (management-upgrade.md:37).
OneOwner == \E o \in User : \A u \in User : role[u] = "owner" <=> u = o

\* Administrators are made and unmade by whoever owns the space at that moment:
\* an invitation that an earlier owner sent makes no administrator
\* (management.ts:46-47, repository.ts:78).
PowerComesFromOwner ==
    [][\A u \in User :
          (role'[u] # role[u] /\ "admin" \in {role[u], role'[u]}) => role[decider'] = "owner"]_vars
=============================================================================

---------------------------- MODULE SpacesProofs ----------------------------
(***************************************************************************)
(* Proofs about Spaces for any number of users, addresses and agents.      *)
(***************************************************************************)
EXTENDS Spaces, TLAPS

\* Inductive: who may transfer or remove is decided by the role held now, and
\* there is one owner to decide it.
IInv == TypeOK /\ OneOwner

LEMMA Initial == Init => IInv
  BY SpacesAssumption DEF Init, IInv, TypeOK, OneOwner, Role, NoInvitation

LEMMA Inductive == IInv /\ [Next]_vars => IInv'
  <1> SUFFICES ASSUME IInv, [Next]_vars PROVE IInv'
    OBVIOUS
  <1> USE SpacesAssumption
  <1>1. ASSUME NEW u \in User, NEW e \in Email, NEW r \in {"member", "admin"}, Invite(u, e, r)
        PROVE  IInv'
    BY <1>1 DEF IInv, TypeOK, OneOwner, Invite, agents
  <1>2. ASSUME NEW e \in Email, Expire(e) PROVE IInv'
    BY <1>2 DEF IInv, TypeOK, OneOwner, Expire, agents
  <1>3. ASSUME NEW u \in User, NEW e \in Email, Revoke(u, e) PROVE IInv'
    BY <1>3 DEF IInv, TypeOK, OneOwner, Revoke, agents
  <1>4. ASSUME NEW u \in User, NEW e \in Email, Accept(u, e) PROVE IInv'
    <2>1. TypeOK'
      BY <1>4 DEF IInv, TypeOK, Accept, Joined, NoInvitation, Role, agents
    <2>2. \A v \in User : role'[v] = "owner" <=> role[v] = "owner"
      BY <1>4 DEF IInv, TypeOK, Accept, Joined, Role
    <2>3. OneOwner'
      BY <2>2 DEF IInv, OneOwner
    <2> QED BY <2>1, <2>3 DEF IInv
  <1>5. ASSUME NEW u \in User, NEW e \in Email, SignIn(u, e) PROVE IInv'
    BY <1>5 DEF IInv, TypeOK, OneOwner, SignIn, agents
  <1>6. ASSUME NEW u \in User, NEW t \in User, Transfer(u, t) PROVE IInv'
    <2>1. TypeOK'
      BY <1>6 DEF IInv, TypeOK, Transfer, Role, agents
    <2>2. \A v \in User : role'[v] = "owner" <=> v = t
      BY <1>6 DEF IInv, TypeOK, OneOwner, Transfer, Role
    <2>3. OneOwner'
      BY <2>2 DEF OneOwner
    <2> QED BY <2>1, <2>3 DEF IInv
  <1>7. ASSUME NEW u \in User, NEW t \in User, NEW next \in {"none", "member", "admin"},
               Change(u, t, next)
        PROVE  IInv'
    <2>1. TypeOK'
      BY <1>7 DEF IInv, TypeOK, Change, Role
    <2>2. role[t] # "owner"
      BY <1>7 DEF IInv, OneOwner, Change, MayChange, IsLastOwner
    <2>3. \A v \in User : role'[v] = "owner" <=> role[v] = "owner"
      BY <1>7, <2>2 DEF IInv, TypeOK, Change
    <2>4. OneOwner'
      BY <2>3 DEF IInv, OneOwner
    <2> QED BY <2>1, <2>4 DEF IInv
  <1>8. ASSUME NEW a \in Agent, CreateAgent(a) \/ RemoveAgent(a) \/ CheckGrant(a) \/ InsertGrant(a) \/ RevokeGrant(a)
        PROVE  IInv'
    <2>1. UNCHANGED <<role, invitation, mail, decider>>
      BY <1>8 DEF CreateAgent, RemoveAgent, CheckGrant, InsertGrant, RevokeGrant
    <2>2. credential' \in [Agent -> {"none", "live", "gone"}]
      BY <1>8 DEF IInv, TypeOK, CreateAgent, RemoveAgent, CheckGrant, InsertGrant, RevokeGrant
    <2>3. granted' \in [Agent -> BOOLEAN]
      <3>1. CASE InsertGrant(a)
        BY <3>1, Zenon DEF IInv, TypeOK, InsertGrant
      <3>2. CASE ~InsertGrant(a)
        BY <1>8, <3>2 DEF IInv, TypeOK, CreateAgent, RemoveAgent, CheckGrant, RevokeGrant
      <3> QED BY <3>1, <3>2
    <2>4. checked' \in [Agent -> BOOLEAN]
      BY <1>8 DEF IInv, TypeOK, CreateAgent, RemoveAgent, CheckGrant, InsertGrant, RevokeGrant
    <2> QED BY <2>1, <2>2, <2>3, <2>4 DEF IInv, TypeOK, OneOwner
  <1>9. CASE UNCHANGED vars
    BY <1>9 DEF IInv, TypeOK, OneOwner, vars, agents
  <1> QED
    BY <1>1, <1>2, <1>3, <1>4, <1>5, <1>6, <1>7, <1>8, <1>9
    DEF Next, InvitationStep, MemberStep, AgentStep

LEMMA Invariance == Spec => []IInv
  BY Initial, Inductive, PTL DEF Spec

\* Every variable of a space keeps its type.
THEOREM TypeCorrect == Spec => []TypeOK
  BY Invariance, PTL DEF IInv

\* A shared space has one owner at all times (spaces/management.ts:41-46).
THEOREM OwnerIsUnique == Spec => []OneOwner
  BY Invariance, PTL DEF IInv

\* No step makes or unmakes an administrator unless the owner at that moment
\* decided it (spaces/repository.ts:78, spaces/management.ts:46).
THEOREM OwnersAppoint == Spec => PowerComesFromOwner
  <1> DEFINE Appointed ==
        \A u \in User : (role'[u] # role[u] /\ "admin" \in {role[u], role'[u]}) => role[decider'] = "owner"
  <1>1. IInv /\ [Next]_vars => [Appointed]_vars
    <2> SUFFICES ASSUME IInv, Next PROVE Appointed
      OBVIOUS
    <2>1. CASE InvitationStep
      BY <2>1, SpacesAssumption DEF InvitationStep, Invite, Expire, Revoke, Accept, SignIn, Joined,
         IssuerMayStill, IInv, TypeOK
    <2>2. CASE MemberStep
      BY <2>2 DEF MemberStep, Transfer, Change, MayChange, IInv, TypeOK, Role, Managers
    <2>3. CASE AgentStep
      BY <2>3 DEF AgentStep, CreateAgent, RemoveAgent, CheckGrant, InsertGrant, RevokeGrant
    <2> QED BY <2>1, <2>2, <2>3 DEF Next
  <1> QED
    BY <1>1, Invariance, PTL DEF Spec, PowerComesFromOwner
=============================================================================

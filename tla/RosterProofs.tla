---------------------------- MODULE RosterProofs ----------------------------
(* What holds of Roster for every number of organizations, users, keys and *)
(* requests.                                                               *)
EXTENDS Roster, FiniteSetTheorems, TLAPS

-----------------------------------------------------------------------------
(* Type correctness: one lemma per group of actions.                       *)

LEMMA InitTypeOK == Init => TypeOK
BY RosterAssumption DEF Init, TypeOK, Call, Idle

LEMMA ArriveTypeOK ==
  ASSUME TypeOK, NEW r \in Req, Arrive(r)
  PROVE  TypeOK'
<1>1. CASE \E o \in Org, caller \in User \cup {NoUser}, e \in Email, role \in Role :
             CreateInvite(r, o, caller, e, role)
  BY <1>1 DEF TypeOK, CreateInvite, Tables, Call, CreateCall
<1>2. CASE \E invite \in invites, u \in User : AcceptInvite(r, invite, u)
  BY <1>2 DEF TypeOK, AcceptInvite, Tables, Call, AcceptCall
<1>3. CASE \E invite \in invites : RevokeInvite(r, invite)
  BY <1>3 DEF TypeOK, RevokeInvite, Tables, Call, RevokeCall, InviteRow
<1>4. CASE \E target \in memberships, caller \in User, role \in Role :
             UpdateMembership(r, target, caller, role)
  BY <1>4 DEF TypeOK, UpdateMembership, Tables, Call, UpdateCall, MembershipRow
<1>5. CASE \E target \in memberships, caller \in User \cup {NoUser} :
             RemoveMembership(r, target, caller)
  BY <1>5 DEF TypeOK, RemoveMembership, Tables, Call, RemoveCall, MembershipRow
<1>6. CASE \E o \in Org : RemoveOrganization(r, o)
  BY <1>6 DEF TypeOK, RemoveOrganization, Tables, Call, DropCall
<1> QED
  BY <1>1, <1>2, <1>3, <1>4, <1>5, <1>6 DEF Arrive

\* Which record a request is, from the await it stands at.
LEMMA CallAt ==
  ASSUME NEW c \in Call
  PROVE  /\ c.pc \in {"countMembers", "checkInviter", "checkActive", "insertInvite"}
              <=> c \in CreateCall
         /\ c.pc \in {"checkMember", "insertMember", "consumeInvite"}
              <=> c \in AcceptCall
         /\ c.pc \in {"checkUpdater", "updateRole"} <=> c \in UpdateCall
         /\ c.pc \in {"checkRemover", "deleteMember"} <=> c \in RemoveCall
         /\ c.pc = "emitCreated" <=> c \in EmitCall
         /\ c.pc = "deleteInvite" <=> c \in RevokeCall
         /\ c.pc = "deleteOrg" <=> c \in DropCall
BY DEF Call, Idle, CreateCall, EmitCall, AcceptCall, RevokeCall, UpdateCall,
       RemoveCall, DropCall

LEMMA ReturnTypeOK ==
  ASSUME req \in [Req -> Call], NEW r \in Req, Return(r)
  PROVE  req' \in [Req -> Call]
BY DEF Return, Call

LEMMA GotoTypeOK ==
  ASSUME req \in [Req -> Call], NEW r \in Req, NEW pc, Goto(r, pc),
         \/ req[r] \in CreateCall /\ pc \in {"checkInviter", "checkActive", "insertInvite"}
         \/ req[r] \in AcceptCall /\ pc \in {"insertMember", "consumeInvite"}
         \/ req[r] \in UpdateCall /\ pc = "updateRole"
         \/ req[r] \in RemoveCall /\ pc = "deleteMember"
  PROVE  req' \in [Req -> Call]
<1>1. CASE req[r] \in CreateCall /\ pc \in {"checkInviter", "checkActive", "insertInvite"}
  BY <1>1 DEF Goto, Call, CreateCall
<1>2. CASE req[r] \in AcceptCall /\ pc \in {"insertMember", "consumeInvite"}
  BY <1>2 DEF Goto, Call, AcceptCall
<1>3. CASE req[r] \in UpdateCall /\ pc = "updateRole"
  BY <1>3 DEF Goto, Call, UpdateCall
<1>4. CASE req[r] \in RemoveCall /\ pc = "deleteMember"
  BY <1>4 DEF Goto, Call, RemoveCall
<1> QED
  BY <1>1, <1>2, <1>3, <1>4

LEMMA StepTypeOK ==
  ASSUME TypeOK, NEW r \in Req, Step(r)
  PROVE  TypeOK'
<1> req \in [Req -> Call] /\ req[r] \in Call
  BY DEF TypeOK
<1>1. CASE CountMembers(r) \/ CheckActive(r)
  <2>1. req[r] \in CreateCall
    BY <1>1, CallAt DEF CountMembers, CheckActive
  <2>2. req' \in [Req -> Call]
    BY <1>1, <2>1, GotoTypeOK, ReturnTypeOK DEF CountMembers, CheckActive
  <2> QED
    BY <1>1, <2>2 DEF CountMembers, CheckActive, Tables, TypeOK
<1>2. CASE CheckInviter(r) \/ CheckUpdater(r) \/ CheckRemover(r)
  <2>1. req' \in [Req -> Call]
    BY <1>2, CallAt, GotoTypeOK, ReturnTypeOK
       DEF CheckInviter, CheckUpdater, CheckRemover, AdminGate
  <2> QED
    BY <1>2, <2>1 DEF CheckInviter, CheckUpdater, CheckRemover, Tables, TypeOK
<1>3. CASE InsertInvite(r)
  <2>1. req[r] \in CreateCall
    BY <1>3, CallAt DEF InsertInvite
  <2>2. CASE ForeignKey(req[r].org)
    <3>1. PICK i \in InvId \ invIds :
            /\ invIds' = invIds \cup {i}
            /\ invites' = invites \cup
                 {[id |-> i, org |-> req[r].org, email |-> req[r].email,
                   role |-> req[r].role, expired |-> FALSE]}
            /\ req' = [req EXCEPT ![r] = [pc |-> "emitCreated", id |-> i]]
      BY <1>3, <2>2 DEF InsertInvite
    <3>2. invites' \subseteq InviteRow
      <4>1. /\ i \in InvId
            /\ req[r].org \in Org
            /\ req[r].email \in Email
            /\ req[r].role \in Role
        BY <2>1 DEF CreateCall
      <4>2. [id |-> i, org |-> req[r].org, email |-> req[r].email,
             role |-> req[r].role, expired |-> FALSE] \in InviteRow
        BY <4>1, Zenon DEF InviteRow
      <4> QED
        BY <3>1, <4>2 DEF TypeOK
    <3>3. [pc |-> "emitCreated", id |-> i] \in Call
      BY DEF Call, EmitCall
    <3>4. req' \in [Req -> Call]
      BY <3>1, <3>3
    <3> QED
      BY <1>3, <3>1, <3>2, <3>4 DEF InsertInvite, TypeOK
  <2>3. CASE ~ForeignKey(req[r].org)
    BY <1>3, <2>3, ReturnTypeOK DEF InsertInvite, TypeOK
  <2> QED
    BY <2>2, <2>3
<1>4. CASE EmitCreated(r)
  <2>1. req[r] \in EmitCall
    BY <1>4, CallAt DEF EmitCreated
  <2> QED
    BY <1>4, <2>1, ReturnTypeOK DEF EmitCreated, EmitCall, TypeOK
<1>5. CASE CheckMember(r)
  BY <1>5, CallAt, GotoTypeOK, ReturnTypeOK DEF CheckMember, Tables, TypeOK
<1>6. CASE InsertMember(r)
  <2>1. req[r] \in AcceptCall
    BY <1>6, CallAt DEF InsertMember
  <2>2. CASE ForeignKey(req[r].invite.org)
    <3>1. req' \in [Req -> Call]
      BY <1>6, <2>1, <2>2, GotoTypeOK DEF InsertMember
    <3>2. uses' \in [InvId -> Nat]
      BY <1>6, <2>1, <2>2 DEF InsertMember, AcceptCall, InviteRow, TypeOK
    <3>3. memberships' \subseteq MembershipRow /\ memIds' \subseteq MemId
      BY <1>6, <2>1, <2>2
         DEF InsertMember, AcceptCall, InviteRow, MembershipRow, TypeOK
    <3> QED
      BY <1>6, <3>1, <3>2, <3>3 DEF InsertMember, TypeOK
  <2>3. CASE ~ForeignKey(req[r].invite.org)
    BY <1>6, <2>3, ReturnTypeOK DEF InsertMember, TypeOK
  <2> QED
    BY <2>2, <2>3
<1>7. CASE ConsumeInvite(r) \/ DeleteInvite(r)
  BY <1>7, ReturnTypeOK DEF ConsumeInvite, DeleteInvite, WithoutInvite, TypeOK
<1>8. CASE UpdateRole(r)
  <2>1. req[r] \in UpdateCall
    BY <1>8, CallAt DEF UpdateRole
  <2>2. memberships' \subseteq MembershipRow
    BY <1>8, <2>1 DEF UpdateRole, WithRole, UpdateCall, MembershipRow, TypeOK
  <2> QED
    BY <1>8, <2>2, ReturnTypeOK DEF UpdateRole, TypeOK
<1>9. CASE DeleteMember(r)
  BY <1>9, ReturnTypeOK DEF DeleteMember, TypeOK
<1>10. CASE DeleteOrg(r)
  BY <1>10, ReturnTypeOK DEF DeleteOrg, TypeOK
<1> QED
  BY <1>1, <1>2, <1>3, <1>4, <1>5, <1>6, <1>7, <1>8, <1>9, <1>10 DEF Step

LEMMA NextTypeOK == TypeOK /\ [Next]_vars => TypeOK'
<1> SUFFICES ASSUME TypeOK, [Next]_vars PROVE TypeOK'
  OBVIOUS
<1>1. ASSUME NEW r \in Req, Fail(r) PROVE TypeOK'
  BY <1>1, ReturnTypeOK, RosterAssumption DEF Fail, TypeOK
<1>2. ASSUME NEW i \in invites, Expire(i) PROVE TypeOK'
  BY <1>2 DEF Expire, TypeOK, InviteRow
<1>3. CASE UNCHANGED vars
  BY <1>3 DEF vars, TypeOK
<1> QED
  BY <1>1, <1>2, <1>3, ArriveTypeOK, StepTypeOK DEF Next

\* Every table and every request in flight keeps its type, for all instances.
THEOREM TypeCorrect == Spec => []TypeOK
BY InitTypeOK, NextTypeOK, PTL DEF Spec

-----------------------------------------------------------------------------
(* Referential integrity.                                                  *)

LEMMA NextReferentialIntegrity ==
  TypeOK /\ ReferentialIntegrity /\ [Next]_vars => ReferentialIntegrity'
<1> SUFFICES ASSUME TypeOK, ReferentialIntegrity, [Next]_vars
             PROVE  ReferentialIntegrity'
  OBVIOUS
<1> USE DEF ReferentialIntegrity
<1>1. ASSUME NEW r \in Req, Arrive(r) \/ Fail(r) PROVE ReferentialIntegrity'
  BY <1>1 DEF Arrive, CreateInvite, AcceptInvite, RevokeInvite, UpdateMembership,
              RemoveMembership, RemoveOrganization, Fail, Tables
<1>2. ASSUME NEW r \in Req, Step(r) PROVE ReferentialIntegrity'
  <2>1. CASE \/ CountMembers(r) \/ CheckInviter(r) \/ CheckActive(r) \/ EmitCreated(r)
             \/ CheckMember(r) \/ CheckUpdater(r) \/ CheckRemover(r)
    BY <2>1 DEF CountMembers, CheckInviter, CheckActive, EmitCreated, CheckMember,
                CheckUpdater, CheckRemover, Tables
  <2>2. CASE InsertInvite(r)
    BY <2>2 DEF InsertInvite, ForeignKey
  <2>3. CASE InsertMember(r)
    BY <2>3 DEF InsertMember, ForeignKey
  <2>4. CASE ConsumeInvite(r) \/ DeleteInvite(r)
    BY <2>4 DEF ConsumeInvite, DeleteInvite, WithoutInvite
  <2>5. CASE UpdateRole(r)
    BY <2>5 DEF UpdateRole, WithRole, TypeOK, MembershipRow
  <2>6. CASE DeleteMember(r)
    BY <2>6 DEF DeleteMember
  <2>7. CASE DeleteOrg(r)
    BY <2>7 DEF DeleteOrg, Members
  <2> QED
    BY <1>2, <2>1, <2>2, <2>3, <2>4, <2>5, <2>6, <2>7 DEF Step
<1>3. ASSUME NEW i \in invites, Expire(i) PROVE ReferentialIntegrity'
  BY <1>3 DEF Expire, TypeOK, InviteRow
<1>4. CASE UNCHANGED vars
  BY <1>4 DEF vars
<1> QED
  BY <1>1, <1>2, <1>3, <1>4 DEF Next

\* No row outlives its organization, however deletion and insertion interleave.
THEOREM IntegrityHolds == Spec => []ReferentialIntegrity
<1>1. Init => ReferentialIntegrity
  BY DEF Init, ReferentialIntegrity
<1> QED
  BY <1>1, TypeCorrect, NextReferentialIntegrity, PTL DEF Spec

-----------------------------------------------------------------------------
(* Counting requests.                                                      *)

LEMMA ReqFinite ==
  /\ Cardinality(Req) \in Nat
  /\ \A S \in SUBSET Req : /\ IsFiniteSet(S)
                           /\ Cardinality(S) \in Nat
                           /\ Cardinality(S) <= Cardinality(Req)
BY RosterAssumption, FS_CardinalityType, FS_Subset

LEMMA ReqEnter ==
  ASSUME NEW S \in SUBSET Req, NEW r \in Req, r \notin S
  PROVE  /\ Cardinality(S \cup {r}) = Cardinality(S) + 1
         /\ Cardinality(S) + 1 <= Cardinality(Req)
<1>1. IsFiniteSet(S) /\ S \cup {r} \in SUBSET Req
  BY ReqFinite
<1>2. Cardinality(S \cup {r}) = Cardinality(S) + 1
  BY <1>1, FS_AddElement
<1>3. Cardinality(S \cup {r}) <= Cardinality(Req)
  BY <1>1, ReqFinite
<1> QED
  BY <1>2, <1>3

LEMMA ReqLeave ==
  ASSUME NEW S \in SUBSET Req, NEW r \in S
  PROVE  Cardinality(S \ {r}) = Cardinality(S) - 1
BY ReqFinite, FS_RemoveElement

LEMMA Smaller ==
  ASSUME NEW S, NEW T, IsFiniteSet(S), T \subseteq S
  PROVE  /\ Cardinality(S) \in Nat
         /\ Cardinality(T) \in Nat
         /\ Cardinality(T) <= Cardinality(S)
BY FS_Subset, FS_CardinalityType

LEMMA OneMore ==
  ASSUME NEW S, NEW T, NEW x, IsFiniteSet(S), T = S \cup {x}
  PROVE  /\ Cardinality(S) \in Nat
         /\ Cardinality(T) \in Nat
         /\ Cardinality(T) <= Cardinality(S) + 1
<1>1. Cardinality(S) \in Nat /\ IsFiniteSet(T)
  BY FS_CardinalityType, FS_AddElement
<1>2. Cardinality(T) \in Nat
  BY <1>1, FS_CardinalityType
<1>3. CASE x \in S
  <2>1. T = S
    BY <1>3
  <2> QED
    BY <1>1, <2>1
<1>4. CASE x \notin S
  <2>1. Cardinality(T) = Cardinality(S) + 1
    BY <1>4, FS_AddElement
  <2> QED
    BY <1>1, <1>2, <2>1
<1> QED
  BY <1>3, <1>4

\* The rows an update writes are at most as many as those it reads.
LEMMA Image ==
  ASSUME NEW S, NEW T, NEW f \in [S -> T], IsFiniteSet(S),
         \A t \in T : \E s \in S : f[s] = t
  PROVE  IsFiniteSet(T) /\ Cardinality(T) <= Cardinality(S)
<1>1. f \in Surjection(S, T)
  BY DEF Surjection
<1> QED
  BY <1>1, FS_Surjection

-----------------------------------------------------------------------------
(* Finite tables.                                                          *)

LEMMA InitFiniteTables == Init => FiniteTables
BY FS_EmptySet DEF Init, FiniteTables

LEMMA NextFiniteTables == FiniteTables /\ [Next]_vars => FiniteTables'
<1> SUFFICES ASSUME FiniteTables, [Next]_vars PROVE FiniteTables'
  OBVIOUS
<1> USE DEF FiniteTables
<1>1. ASSUME NEW r \in Req, Arrive(r) \/ Fail(r) PROVE FiniteTables'
  BY <1>1 DEF Arrive, CreateInvite, AcceptInvite, RevokeInvite, UpdateMembership,
              RemoveMembership, RemoveOrganization, Fail, Tables
<1>2. ASSUME NEW r \in Req, Step(r) PROVE FiniteTables'
  <2>1. CASE \/ CountMembers(r) \/ CheckInviter(r) \/ CheckActive(r) \/ EmitCreated(r)
             \/ CheckMember(r) \/ CheckUpdater(r) \/ CheckRemover(r)
    BY <2>1 DEF CountMembers, CheckInviter, CheckActive, EmitCreated, CheckMember,
                CheckUpdater, CheckRemover, Tables
  <2>2. CASE InsertInvite(r)
    <3>1. invites' = invites \/ \E x : invites' = invites \cup {x}
      BY <2>2, Zenon DEF InsertInvite
    <3> QED
      BY <2>2, <3>1, FS_AddElement DEF InsertInvite
  <2>3. CASE InsertMember(r)
    <3>1. memberships' = memberships \/ \E x : memberships' = memberships \cup {x}
      BY <2>3, Zenon DEF InsertMember
    <3> QED
      BY <2>3, <3>1, FS_AddElement DEF InsertMember
  <2>4. CASE ConsumeInvite(r) \/ DeleteInvite(r)
    <3>1. invites' \subseteq invites /\ memberships' = memberships
      BY <2>4 DEF ConsumeInvite, DeleteInvite, WithoutInvite
    <3> QED
      BY <3>1, FS_Subset
  <2>5. CASE UpdateRole(r)
    <3> DEFINE f == [m \in memberships |->
                      IF m.id = req[r].id THEN [m EXCEPT !.role = req[r].role] ELSE m]
    <3>1. /\ f \in [memberships -> memberships']
          /\ \A n \in memberships' : \E m \in memberships : f[m] = n
      BY <2>5 DEF UpdateRole, WithRole
    <3> HIDE DEF f
    <3>2. IsFiniteSet(memberships')
      BY <3>1, Image
    <3> QED
      BY <2>5, <3>2 DEF UpdateRole
  <2>6. CASE DeleteMember(r) \/ DeleteOrg(r)
    <3>1. invites' \subseteq invites /\ memberships' \subseteq memberships
      BY <2>6 DEF DeleteMember, DeleteOrg
    <3> QED
      BY <3>1, FS_Subset
  <2> QED
    BY <1>2, <2>1, <2>2, <2>3, <2>4, <2>5, <2>6 DEF Step
<1>3. ASSUME NEW i \in invites, Expire(i) PROVE FiniteTables'
  <2>1. invites' = (invites \ {i}) \cup {[i EXCEPT !.expired = TRUE]}
    BY <1>3 DEF Expire
  <2>2. IsFiniteSet(invites')
    BY <2>1, FS_RemoveElement, FS_AddElement
  <2> QED
    BY <1>3, <2>2 DEF Expire
<1>4. CASE UNCHANGED vars
  BY <1>4 DEF vars
<1> QED
  BY <1>1, <1>2, <1>3, <1>4 DEF Next

-----------------------------------------------------------------------------
(* What a step does to the request that makes it.                          *)

LEMMA GotoMoves ==
  ASSUME TypeOK, NEW r \in Req, NEW pc, Goto(r, pc),
         \/ req[r] \in CreateCall \/ req[r] \in AcceptCall
         \/ req[r] \in UpdateCall \/ req[r] \in RemoveCall
  PROVE  /\ \A q \in Req : q # r => req'[q] = req[q]
         /\ req'[r].pc = pc
         /\ req[r] \in CreateCall =>
              /\ req'[r].org = req[r].org
              /\ req'[r].email = req[r].email
              /\ req'[r].role = req[r].role
         /\ req[r] \in AcceptCall =>
              /\ req'[r].invite = req[r].invite
              /\ req'[r].user = req[r].user
<1>1. req' = [req EXCEPT ![r] = [req[r] EXCEPT !.pc = pc]] /\ req \in [Req -> Call]
  BY DEF Goto, TypeOK
<1>2. req'[r] = [req[r] EXCEPT !.pc = pc] /\ \A q \in Req : q # r => req'[q] = req[q]
  BY <1>1
<1>3. CASE req[r] \in CreateCall
  <2>1. req[r] \notin AcceptCall
    BY <1>3 DEF CreateCall, AcceptCall
  <2> QED
    BY <1>2, <1>3, <2>1 DEF CreateCall
<1>4. CASE req[r] \in AcceptCall
  <2>1. req[r] \notin CreateCall
    BY <1>4 DEF CreateCall, AcceptCall
  <2> QED
    BY <1>2, <1>4, <2>1 DEF AcceptCall
<1>5. CASE req[r] \in UpdateCall
  BY <1>2, <1>5 DEF UpdateCall, CreateCall, AcceptCall
<1>6. CASE req[r] \in RemoveCall
  BY <1>2, <1>6 DEF RemoveCall, CreateCall, AcceptCall
<1> QED
  BY <1>3, <1>4, <1>5, <1>6

LEMMA ReturnMoves ==
  ASSUME TypeOK, NEW r \in Req, Return(r)
  PROVE  /\ \A q \in Req : q # r => req'[q] = req[q]
         /\ req'[r] = Idle
BY DEF TypeOK, Return

\* The only ways into the awaits that the bounds count.
LEMMA RequestMoves ==
  ASSUME TypeOK, NEW r \in Req, Arrive(r) \/ Step(r) \/ Fail(r)
  PROVE  /\ \A q \in Req : q # r => req'[q] = req[q]
         /\ req'[r].pc = "insertInvite" => CheckActive(r)
         /\ req'[r].pc = "insertMember" => CheckMember(r)
         /\ req'[r].pc = "checkMember" =>
              \E invite \in invites, u \in User : AcceptInvite(r, invite, u)
         /\ req'[r].pc = "consumeInvite" => InsertMember(r)
<1> req \in [Req -> Call] /\ req[r] \in Call
  BY DEF TypeOK
<1>1. CASE Arrive(r)
  BY <1>1 DEF Arrive, CreateInvite, AcceptInvite, RevokeInvite, UpdateMembership,
              RemoveMembership, RemoveOrganization
<1>2. CASE CountMembers(r) \/ CheckActive(r)
  <2>1. req[r] \in CreateCall
    BY <1>2, CallAt DEF CountMembers, CheckActive
  <2> QED
    BY <1>2, <2>1, GotoMoves, ReturnMoves DEF CountMembers, CheckActive, Idle
<1>3. CASE CheckInviter(r) \/ CheckUpdater(r) \/ CheckRemover(r)
  BY <1>3, CallAt, GotoMoves, ReturnMoves
     DEF CheckInviter, CheckUpdater, CheckRemover, AdminGate, Idle
<1>4. CASE InsertInvite(r)
  BY <1>4, ReturnMoves DEF InsertInvite, Idle
<1>5. CASE CheckMember(r)
  <2>1. req[r] \in AcceptCall
    BY <1>5, CallAt DEF CheckMember
  <2> QED
    BY <1>5, <2>1, GotoMoves, ReturnMoves DEF CheckMember, Idle
<1>6. CASE InsertMember(r)
  <2>1. req[r] \in AcceptCall
    BY <1>6, CallAt DEF InsertMember
  <2> QED
    BY <1>6, <2>1, GotoMoves, ReturnMoves DEF InsertMember, Idle
<1>7. CASE \/ EmitCreated(r) \/ ConsumeInvite(r) \/ DeleteInvite(r) \/ UpdateRole(r)
           \/ DeleteMember(r) \/ DeleteOrg(r) \/ Fail(r)
  BY <1>7, ReturnMoves
     DEF EmitCreated, ConsumeInvite, DeleteInvite, UpdateRole, DeleteMember,
         DeleteOrg, Fail, Idle
<1> QED
  BY <1>1, <1>2, <1>3, <1>4, <1>5, <1>6, <1>7 DEF Step

-----------------------------------------------------------------------------
(* Memberships of one user.                                                *)

\* A step that adds neither a row nor a joiner keeps the bound.
LEMMA JoinersShrink ==
  ASSUME FiniteTables, JoinersBounded, NEW o \in Org, NEW u \in User,
         MembersAs(o, u)' \subseteq MembersAs(o, u),
         Joiners(o, u)' \subseteq Joiners(o, u)
  PROVE  Cardinality(MembersAs(o, u)') + Cardinality(Joiners(o, u)')
           <= Cardinality(Req)
<1>1. IsFiniteSet(MembersAs(o, u))
  BY FS_Subset DEF FiniteTables, MembersAs
<1>2. Joiners(o, u) \in SUBSET Req
  BY DEF Joiners
<1>3. IsFiniteSet(Joiners(o, u))
  BY <1>2, ReqFinite
<1>4. /\ Cardinality(MembersAs(o, u)') <= Cardinality(MembersAs(o, u))
      /\ Cardinality(MembersAs(o, u)) \in Nat
      /\ Cardinality(MembersAs(o, u)') \in Nat
  BY <1>1, Smaller
<1>5. /\ Cardinality(Joiners(o, u)') <= Cardinality(Joiners(o, u))
      /\ Cardinality(Joiners(o, u)) \in Nat
      /\ Cardinality(Joiners(o, u)') \in Nat
  BY <1>3, Smaller
<1>6. Cardinality(MembersAs(o, u)) + Cardinality(Joiners(o, u)) <= Cardinality(Req)
  BY DEF JoinersBounded
<1> QED
  BY <1>4, <1>5, <1>6, ReqFinite

\* Only a membership insert adds rows to a user, and only a role update
\* rewrites them.
LEMMA MembersShrink ==
  ASSUME NEW r \in Req, Arrive(r) \/ Step(r) \/ Fail(r),
         ~InsertMember(r), ~UpdateRole(r)
  PROVE  memberships' \subseteq memberships
BY DEF Arrive, CreateInvite, AcceptInvite, RevokeInvite, UpdateMembership,
       RemoveMembership, RemoveOrganization, Step, CountMembers, CheckInviter,
       CheckActive, InsertInvite, EmitCreated, CheckMember, ConsumeInvite,
       DeleteInvite, CheckUpdater, CheckRemover, DeleteMember, DeleteOrg, Fail, Tables

LEMMA NextJoinersBounded ==
  TypeOK /\ FiniteTables /\ JoinersBounded /\ [Next]_vars => JoinersBounded'
<1> SUFFICES ASSUME TypeOK, FiniteTables, JoinersBounded, [Next]_vars,
                    NEW o \in Org, NEW u \in User
             PROVE  Cardinality(MembersAs(o, u)') + Cardinality(Joiners(o, u)')
                      <= Cardinality(Req)
  BY DEF JoinersBounded
<1>1. CASE UNCHANGED vars
  <2>1. MembersAs(o, u)' = MembersAs(o, u) /\ Joiners(o, u)' = Joiners(o, u)
    BY <1>1 DEF vars, MembersAs, Joiners
  <2> QED
    BY <2>1, JoinersShrink
<1>2. ASSUME NEW i \in invites, Expire(i)
      PROVE  Cardinality(MembersAs(o, u)') + Cardinality(Joiners(o, u)')
               <= Cardinality(Req)
  <2>1. MembersAs(o, u)' = MembersAs(o, u) /\ Joiners(o, u)' = Joiners(o, u)
    BY <1>2 DEF Expire, MembersAs, Joiners
  <2> QED
    BY <2>1, JoinersShrink
<1>3. ASSUME NEW r \in Req, Arrive(r) \/ Step(r) \/ Fail(r)
      PROVE  Cardinality(MembersAs(o, u)') + Cardinality(Joiners(o, u)')
               <= Cardinality(Req)
  <2>0. /\ IsFiniteSet(MembersAs(o, u))
        /\ Joiners(o, u) \in SUBSET Req
        /\ Cardinality(MembersAs(o, u)) + Cardinality(Joiners(o, u)) <= Cardinality(Req)
    BY FS_Subset DEF FiniteTables, MembersAs, Joiners, JoinersBounded
  <2>1. CASE CheckMember(r)
    <3>1. MembersAs(o, u)' = MembersAs(o, u)
      BY <2>1 DEF CheckMember, Tables, MembersAs
    <3>2. r \notin Joiners(o, u)
      BY <2>1 DEF CheckMember, Joiners
    <3>3. CASE r \in Joiners(o, u)'
      <4>1. req[r] \in AcceptCall
        BY <2>1, CallAt DEF CheckMember, TypeOK
      <4>2. MembersAs(req[r].invite.org, req[r].user) = {}
        BY <2>1, <3>3, ReturnMoves DEF CheckMember, Joiners, Idle
      <4>3. Goto(r, "insertMember")
        BY <2>1, <4>2 DEF CheckMember
      <4>4. o = req[r].invite.org /\ u = req[r].user
        BY <3>3, <4>1, <4>3, GotoMoves DEF Joiners
      <4>5. MembersAs(o, u) = {}
        BY <4>2, <4>4
      <4>6. Joiners(o, u)' = Joiners(o, u) \cup {r}
        BY <3>3, <1>3, RequestMoves DEF Joiners
      <4> QED
        BY <2>0, <3>1, <3>2, <4>5, <4>6, ReqEnter, FS_EmptySet, ReqFinite
    <3>4. CASE r \notin Joiners(o, u)'
      <4>1. Joiners(o, u)' \subseteq Joiners(o, u)
        BY <3>4, <1>3, RequestMoves DEF Joiners
      <4> QED
        BY <3>1, <4>1, JoinersShrink
    <3> QED
      BY <3>3, <3>4
  <2>2. CASE ~CheckMember(r)
    <3>1. r \notin Joiners(o, u)'
      BY <1>3, <2>2, RequestMoves DEF Joiners
    <3>2. Joiners(o, u)' \subseteq Joiners(o, u)
      BY <3>1, <1>3, RequestMoves DEF Joiners
    <3>3. CASE InsertMember(r)
      <4>1. CASE r \in Joiners(o, u)
        <5>1. Joiners(o, u)' = Joiners(o, u) \ {r}
          BY <3>1, <1>3, RequestMoves DEF Joiners
        <5>2. Cardinality(Joiners(o, u)') = Cardinality(Joiners(o, u)) - 1
          BY <2>0, <4>1, <5>1, ReqLeave
        <5>3. \/ MembersAs(o, u)' \subseteq MembersAs(o, u)
              \/ \E x : MembersAs(o, u)' = MembersAs(o, u) \cup {x}
          <6>1. \/ memberships' = memberships
                \/ \E x : memberships' = memberships \cup {x}
            BY <3>3, Zenon DEF InsertMember
          <6>2. ASSUME NEW x, memberships' = memberships \cup {x},
                       ~(MembersAs(o, u)' \subseteq MembersAs(o, u))
                PROVE  MembersAs(o, u)' = MembersAs(o, u) \cup {x}
            BY <6>2 DEF MembersAs
          <6>3. CASE memberships' = memberships
            BY <6>3 DEF MembersAs
          <6> QED
            BY <6>1, <6>2, <6>3
        <5>4. CASE MembersAs(o, u)' \subseteq MembersAs(o, u)
          BY <5>4, <3>2, JoinersShrink
        <5>5. ASSUME NEW x, MembersAs(o, u)' = MembersAs(o, u) \cup {x}
              PROVE  Cardinality(MembersAs(o, u)') + Cardinality(Joiners(o, u)')
                       <= Cardinality(Req)
          <6>1. /\ Cardinality(MembersAs(o, u)) \in Nat
                /\ Cardinality(MembersAs(o, u)') \in Nat
                /\ Cardinality(MembersAs(o, u)') <= Cardinality(MembersAs(o, u)) + 1
            BY <5>5, <2>0, OneMore
          <6> QED
            BY <6>1, <5>2, <2>0, ReqFinite
        <5> QED
          BY <5>3, <5>4, <5>5
      <4>2. CASE r \notin Joiners(o, u)
        <5>1. MembersAs(o, u)' \subseteq MembersAs(o, u)
          BY <3>3, <4>2 DEF InsertMember, MembersAs, Joiners
        <5> QED
          BY <5>1, <3>2, JoinersShrink
      <4> QED
        BY <4>1, <4>2
    <3>4. CASE UpdateRole(r)
      <4> DEFINE f == [m \in MembersAs(o, u) |->
                        IF m.id = req[r].id THEN [m EXCEPT !.role = req[r].role] ELSE m]
      <4>1. /\ f \in [MembersAs(o, u) -> MembersAs(o, u)']
            /\ \A n \in MembersAs(o, u)' : \E m \in MembersAs(o, u) : f[m] = n
        BY <3>4 DEF UpdateRole, WithRole, MembersAs, TypeOK, MembershipRow
      <4> HIDE DEF f
      <4>2. /\ IsFiniteSet(MembersAs(o, u)')
            /\ Cardinality(MembersAs(o, u)') <= Cardinality(MembersAs(o, u))
        BY <4>1, <2>0, Image
      <4>3. /\ Cardinality(MembersAs(o, u)) \in Nat
            /\ Cardinality(MembersAs(o, u)') \in Nat
        BY <4>2, <2>0, FS_CardinalityType
      <4>4. /\ Cardinality(Joiners(o, u)') <= Cardinality(Joiners(o, u))
            /\ Cardinality(Joiners(o, u)) \in Nat
            /\ Cardinality(Joiners(o, u)') \in Nat
        BY <2>0, <3>2, ReqFinite, Smaller
      <4> QED
        BY <4>2, <4>3, <4>4, <2>0, ReqFinite
    <3>5. CASE ~InsertMember(r) /\ ~UpdateRole(r)
      <4>1. MembersAs(o, u)' \subseteq MembersAs(o, u)
        BY <1>3, <3>5, MembersShrink DEF MembersAs
      <4> QED
        BY <4>1, <3>2, JoinersShrink
    <3> QED
      BY <3>3, <3>4, <3>5
  <2> QED
    BY <2>1, <2>2
<1> QED
  BY <1>1, <1>2, <1>3 DEF Next

LEMMA InitJoinersBounded == Init => JoinersBounded
<1> SUFFICES ASSUME Init, NEW o \in Org, NEW u \in User
             PROVE  Cardinality(MembersAs(o, u)) + Cardinality(Joiners(o, u))
                      <= Cardinality(Req)
  BY DEF JoinersBounded
<1>1. MembersAs(o, u) = {} /\ Joiners(o, u) = {}
  BY DEF Init, MembersAs, Joiners, Idle
<1> QED
  BY <1>1, FS_EmptySet, ReqFinite

\* No user ever has more memberships in an organization than there can be
\* requests in flight; with requests one at a time, one.
THEOREM MembershipsStayBounded == Spec => []MembershipsBounded
<1>1. TypeOK /\ FiniteTables /\ JoinersBounded => MembershipsBounded
  <2> SUFFICES ASSUME TypeOK, FiniteTables, JoinersBounded,
                      NEW o \in Org, NEW u \in User
               PROVE  Cardinality(MembersAs(o, u)) <= Cardinality(Req)
    BY DEF MembershipsBounded
  <2>1. IsFiniteSet(MembersAs(o, u)) /\ Joiners(o, u) \in SUBSET Req
    BY FS_Subset DEF FiniteTables, MembersAs, Joiners
  <2>2. Cardinality(MembersAs(o, u)) \in Nat /\ Cardinality(Joiners(o, u)) \in Nat
    BY <2>1, FS_CardinalityType, ReqFinite
  <2> QED
    BY <2>2, ReqFinite DEF JoinersBounded
<1> QED
  BY <1>1, TypeCorrect, InitFiniteTables, NextFiniteTables, InitJoinersBounded,
     NextJoinersBounded, PTL DEF Spec

-----------------------------------------------------------------------------
(* Active invites of one address.                                          *)

\* A step that adds neither an active invite nor a creator keeps the bound.
LEMMA CreatorsShrink ==
  ASSUME FiniteTables, CreatorsBounded, NEW o \in Org, NEW e \in Email,
         ActiveInvites(o, e)' \subseteq ActiveInvites(o, e),
         Creators(o, e)' \subseteq Creators(o, e)
  PROVE  Cardinality(ActiveInvites(o, e)') + Cardinality(Creators(o, e)')
           <= Cardinality(Req)
<1>1. IsFiniteSet(ActiveInvites(o, e))
  BY FS_Subset DEF FiniteTables, ActiveInvites
<1>2. Creators(o, e) \in SUBSET Req
  BY DEF Creators
<1>3. IsFiniteSet(Creators(o, e))
  BY <1>2, ReqFinite
<1>4. /\ Cardinality(ActiveInvites(o, e)') <= Cardinality(ActiveInvites(o, e))
      /\ Cardinality(ActiveInvites(o, e)) \in Nat
      /\ Cardinality(ActiveInvites(o, e)') \in Nat
  BY <1>1, Smaller
<1>5. /\ Cardinality(Creators(o, e)') <= Cardinality(Creators(o, e))
      /\ Cardinality(Creators(o, e)) \in Nat
      /\ Cardinality(Creators(o, e)') \in Nat
  BY <1>3, Smaller
<1>6. Cardinality(ActiveInvites(o, e)) + Cardinality(Creators(o, e)) <= Cardinality(Req)
  BY DEF CreatorsBounded
<1> QED
  BY <1>4, <1>5, <1>6, ReqFinite

LEMMA InvitesShrink ==
  ASSUME NEW r \in Req, Arrive(r) \/ Step(r) \/ Fail(r), ~InsertInvite(r)
  PROVE  invites' \subseteq invites
BY DEF Arrive, CreateInvite, AcceptInvite, RevokeInvite, UpdateMembership,
       RemoveMembership, RemoveOrganization, Step, CountMembers, CheckInviter,
       CheckActive, EmitCreated, CheckMember, InsertMember, ConsumeInvite,
       DeleteInvite, CheckUpdater, UpdateRole, CheckRemover, DeleteMember,
       DeleteOrg, WithoutInvite, Fail, Tables

LEMMA NextCreatorsBounded ==
  TypeOK /\ FiniteTables /\ CreatorsBounded /\ [Next]_vars => CreatorsBounded'
<1> SUFFICES ASSUME TypeOK, FiniteTables, CreatorsBounded, [Next]_vars,
                    NEW o \in Org, NEW e \in Email
             PROVE  Cardinality(ActiveInvites(o, e)') + Cardinality(Creators(o, e)')
                      <= Cardinality(Req)
  BY DEF CreatorsBounded
<1>1. CASE UNCHANGED vars
  <2>1. ActiveInvites(o, e)' = ActiveInvites(o, e) /\ Creators(o, e)' = Creators(o, e)
    BY <1>1 DEF vars, ActiveInvites, Creators
  <2> QED
    BY <2>1, CreatorsShrink
<1>2. ASSUME NEW i \in invites, Expire(i)
      PROVE  Cardinality(ActiveInvites(o, e)') + Cardinality(Creators(o, e)')
               <= Cardinality(Req)
  <2>1. Creators(o, e)' = Creators(o, e)
    BY <1>2 DEF Expire, Creators
  <2>2. i \in InviteRow
    BY DEF TypeOK
  <2>3. [i EXCEPT !.expired = TRUE].expired = TRUE
    BY <2>2 DEF InviteRow
  <2>4. ActiveInvites(o, e)' \subseteq ActiveInvites(o, e)
    BY <1>2, <2>3 DEF Expire, ActiveInvites
  <2> QED
    BY <2>1, <2>4, CreatorsShrink
<1>3. ASSUME NEW r \in Req, Arrive(r) \/ Step(r) \/ Fail(r)
      PROVE  Cardinality(ActiveInvites(o, e)') + Cardinality(Creators(o, e)')
               <= Cardinality(Req)
  <2>0. /\ IsFiniteSet(ActiveInvites(o, e))
        /\ Creators(o, e) \in SUBSET Req
        /\ Cardinality(ActiveInvites(o, e)) + Cardinality(Creators(o, e))
             <= Cardinality(Req)
    BY FS_Subset DEF FiniteTables, ActiveInvites, Creators, CreatorsBounded
  <2>1. CASE CheckActive(r)
    <3>1. ActiveInvites(o, e)' = ActiveInvites(o, e)
      BY <2>1 DEF CheckActive, Tables, ActiveInvites
    <3>2. r \notin Creators(o, e)
      BY <2>1 DEF CheckActive, Creators
    <3>3. CASE r \in Creators(o, e)'
      <4>1. req[r] \in CreateCall
        BY <2>1, CallAt DEF CheckActive, TypeOK
      <4>2. ActiveInvites(req[r].org, req[r].email) = {}
        BY <2>1, <3>3, ReturnMoves DEF CheckActive, Creators, Idle
      <4>3. Goto(r, "insertInvite")
        BY <2>1, <4>2 DEF CheckActive
      <4>4. o = req[r].org /\ e = req[r].email
        BY <3>3, <4>1, <4>3, GotoMoves DEF Creators
      <4>5. ActiveInvites(o, e) = {}
        BY <4>2, <4>4
      <4>6. Creators(o, e)' = Creators(o, e) \cup {r}
        BY <3>3, <1>3, RequestMoves DEF Creators
      <4> QED
        BY <2>0, <3>1, <3>2, <4>5, <4>6, ReqEnter, FS_EmptySet, ReqFinite
    <3>4. CASE r \notin Creators(o, e)'
      <4>1. Creators(o, e)' \subseteq Creators(o, e)
        BY <3>4, <1>3, RequestMoves DEF Creators
      <4> QED
        BY <3>1, <4>1, CreatorsShrink
    <3> QED
      BY <3>3, <3>4
  <2>2. CASE ~CheckActive(r)
    <3>1. r \notin Creators(o, e)'
      BY <1>3, <2>2, RequestMoves DEF Creators
    <3>2. Creators(o, e)' \subseteq Creators(o, e)
      BY <3>1, <1>3, RequestMoves DEF Creators
    <3>3. CASE InsertInvite(r) /\ r \in Creators(o, e)
      <4>1. Creators(o, e)' = Creators(o, e) \ {r}
        BY <3>1, <1>3, RequestMoves DEF Creators
      <4>2. Cardinality(Creators(o, e)') = Cardinality(Creators(o, e)) - 1
        BY <2>0, <3>3, <4>1, ReqLeave
      <4>3. invites' = invites \/ \E x : invites' = invites \cup {x}
        BY <3>3, Zenon DEF InsertInvite
      <4>4. CASE ActiveInvites(o, e)' \subseteq ActiveInvites(o, e)
        BY <4>4, <3>2, CreatorsShrink
      <4>5. ASSUME NEW x, invites' = invites \cup {x},
                   ~(ActiveInvites(o, e)' \subseteq ActiveInvites(o, e))
            PROVE  Cardinality(ActiveInvites(o, e)') + Cardinality(Creators(o, e)')
                     <= Cardinality(Req)
        <5>1. ActiveInvites(o, e)' = ActiveInvites(o, e) \cup {x}
          BY <4>5 DEF ActiveInvites
        <5>2. /\ Cardinality(ActiveInvites(o, e)) \in Nat
              /\ Cardinality(ActiveInvites(o, e)') \in Nat
              /\ Cardinality(ActiveInvites(o, e)') <= Cardinality(ActiveInvites(o, e)) + 1
          BY <5>1, <2>0, OneMore
        <5> QED
          BY <5>2, <4>2, <2>0, ReqFinite
      <4>6. CASE invites' = invites
        BY <4>6, <4>4 DEF ActiveInvites
      <4> QED
        BY <4>3, <4>4, <4>5, <4>6
    <3>4. CASE InsertInvite(r) /\ r \notin Creators(o, e)
      <4>1. ActiveInvites(o, e)' \subseteq ActiveInvites(o, e)
        BY <3>4 DEF InsertInvite, ActiveInvites, Creators
      <4> QED
        BY <4>1, <3>2, CreatorsShrink
    <3>5. CASE ~InsertInvite(r)
      <4>1. ActiveInvites(o, e)' \subseteq ActiveInvites(o, e)
        BY <1>3, <3>5, InvitesShrink DEF ActiveInvites
      <4> QED
        BY <4>1, <3>2, CreatorsShrink
    <3> QED
      BY <3>3, <3>4, <3>5
  <2> QED
    BY <2>1, <2>2
<1> QED
  BY <1>1, <1>2, <1>3 DEF Next

LEMMA InitCreatorsBounded == Init => CreatorsBounded
<1> SUFFICES ASSUME Init, NEW o \in Org, NEW e \in Email
             PROVE  Cardinality(ActiveInvites(o, e)) + Cardinality(Creators(o, e))
                      <= Cardinality(Req)
  BY DEF CreatorsBounded
<1>1. ActiveInvites(o, e) = {} /\ Creators(o, e) = {}
  BY DEF Init, ActiveInvites, Creators, Idle
<1> QED
  BY <1>1, FS_EmptySet, ReqFinite

\* No address ever has more active invites in an organization than there can
\* be requests in flight; with requests one at a time, one.
THEOREM ActiveInvitesStayBounded == Spec => []ActiveInvitesBounded
<1>1. FiniteTables /\ CreatorsBounded => ActiveInvitesBounded
  <2> SUFFICES ASSUME FiniteTables, CreatorsBounded, NEW o \in Org, NEW e \in Email
               PROVE  Cardinality(ActiveInvites(o, e)) <= Cardinality(Req)
    BY DEF ActiveInvitesBounded
  <2>1. IsFiniteSet(ActiveInvites(o, e)) /\ Creators(o, e) \in SUBSET Req
    BY FS_Subset DEF FiniteTables, ActiveInvites, Creators
  <2>2. Cardinality(ActiveInvites(o, e)) \in Nat /\ Cardinality(Creators(o, e)) \in Nat
    BY <2>1, FS_CardinalityType, ReqFinite
  <2> QED
    BY <2>2, ReqFinite DEF CreatorsBounded
<1> QED
  BY <1>1, TypeCorrect, InitFiniteTables, NextFiniteTables, InitCreatorsBounded,
     NextCreatorsBounded, PTL DEF Spec

-----------------------------------------------------------------------------
(* The uses of an invite.                                                  *)

AcceptPc == {"checkMember", "insertMember", "consumeInvite"}

LEMMA DisjointRequests ==
  ASSUME NEW S \in SUBSET Req, NEW T \in SUBSET Req, S \cap T = {},
         NEW r \in Req, r \notin S, r \notin T
  PROVE  Cardinality(S) + Cardinality(T) + 1 <= Cardinality(Req)
<1>1. IsFiniteSet(S) /\ IsFiniteSet(T) /\ S \cup T \in SUBSET Req
  BY ReqFinite
<1>2. Cardinality(S \cup T) = Cardinality(S) + Cardinality(T)
  <2>1. Cardinality(S \cup T) = Cardinality(S) + Cardinality(T) - Cardinality(S \cap T)
    BY <1>1, FS_Union
  <2>2. Cardinality(S \cap T) = 0
    BY FS_EmptySet
  <2> QED
    BY <2>1, <2>2, ReqFinite
<1>3. Cardinality(S \cup T) + 1 <= Cardinality(Req)
  BY <1>1, ReqEnter
<1> QED
  BY <1>2, <1>3

LEMMA UseSets ==
  \A i : /\ Readers(i) \in SUBSET Req
        /\ Consumers(i) \in SUBSET Req
        /\ Readers(i) \cap Consumers(i) = {}
        /\ Cardinality(Readers(i)) \in Nat
        /\ Cardinality(Consumers(i)) \in Nat
<1>1. \A i : /\ Readers(i) \in SUBSET Req
            /\ Consumers(i) \in SUBSET Req
            /\ Readers(i) \cap Consumers(i) = {}
  BY DEF Readers, Consumers
<1> QED
  BY <1>1, ReqFinite

\* Steps that draw no key, use no invite and let no request read one.
LEMMA UsesQuiet ==
  ASSUME TypeOK, TypeOK', UsesInv,
         uses' = uses, invIds' = invIds, failures' = failures,
         \A i \in InvId : Consumers(i)' = Consumers(i),
         \A i \in InvId : Readers(i)' \subseteq Readers(i),
         \A i \in invites' : \E j \in invites : j.id = i.id,
         \A r \in Req : req'[r] \in AcceptCall =>
           req[r] \in AcceptCall /\ req'[r].invite = req[r].invite
  PROVE  UsesInv'
<1>1. KeysDrawn'
  BY DEF UsesInv, KeysDrawn
<1>2. LiveUses'
  BY DEF UsesInv, LiveUses, TypeOK, InviteRow
<1>3. AllUses'
  <2> SUFFICES ASSUME NEW i \in InvId
               PROVE  uses[i] + Cardinality(Readers(i)') <= Cardinality(Req) + failures
    BY DEF AllUses
  <2>1. /\ Cardinality(Readers(i)') <= Cardinality(Readers(i))
        /\ Cardinality(Readers(i)') \in Nat
    BY UseSets, ReqFinite, Smaller
  <2>2. uses[i] + Cardinality(Readers(i)) <= Cardinality(Req) + failures
    BY DEF UsesInv, AllUses
  <2> QED
    BY <2>1, <2>2, UseSets, ReqFinite, RosterAssumption DEF TypeOK
<1>4. ConsumersUsed'
  BY DEF UsesInv, ConsumersUsed
<1> QED
  BY <1>1, <1>2, <1>3, <1>4 DEF UsesInv

\* A step of a request that is not accepting an invite, before or after.
LEMMA Bystander ==
  ASSUME TypeOK, TypeOK', NEW r \in Req,
         \A q \in Req : q # r => req'[q] = req[q],
         req[r].pc \notin AcceptPc, req'[r].pc \notin AcceptPc
  PROVE  /\ \A i \in InvId : Readers(i)' = Readers(i) /\ Consumers(i)' = Consumers(i)
         /\ \A q \in Req : req'[q] \in AcceptCall =>
              req[q] \in AcceptCall /\ req'[q].invite = req[q].invite
<1>1. req'[r] \notin AcceptCall
  BY DEF AcceptCall, AcceptPc
<1>2. \A i \in InvId : Readers(i)' = Readers(i)
  BY DEF Readers, AcceptPc
<1>3. \A i \in InvId : Consumers(i)' = Consumers(i)
  BY DEF Consumers, AcceptPc
<1> QED
  BY <1>1, <1>2, <1>3

LEMMA AcceptInviteUses ==
  ASSUME TypeOK, TypeOK', UsesInv, NEW r \in Req, NEW invite \in invites, NEW u \in User,
         AcceptInvite(r, invite, u)
  PROVE  UsesInv'
<1>1. /\ uses' = uses /\ invIds' = invIds /\ failures' = failures /\ invites' = invites
      /\ req'[r] = [pc |-> "checkMember", invite |-> invite, user |-> u]
      /\ \A q \in Req : q # r => req'[q] = req[q]
      /\ req[r] = Idle
      /\ invite.id \in InvId
  BY DEF AcceptInvite, Tables, TypeOK, InviteRow
<1>2. \A i \in InvId : Consumers(i)' = Consumers(i)
  BY <1>1 DEF Consumers, Idle
<1>3. \A i \in InvId \ {invite.id} : Readers(i)' = Readers(i)
  BY <1>1 DEF Readers, Idle
<1>4. Readers(invite.id)' = Readers(invite.id) \cup {r}
  BY <1>1 DEF Readers
<1>5. r \notin Readers(invite.id) /\ r \notin Consumers(invite.id)
  BY <1>1 DEF Readers, Consumers, Idle
<1>6. KeysDrawn'
  BY <1>1 DEF UsesInv, KeysDrawn
<1>7. LiveUses'
  BY <1>1, <1>2 DEF UsesInv, LiveUses, TypeOK, InviteRow
<1>8. uses[invite.id] + Cardinality(Readers(invite.id)') <= Cardinality(Req) + failures
  <2>1. Cardinality(Readers(invite.id)) + Cardinality(Consumers(invite.id)) + 1
          <= Cardinality(Req)
    BY <1>5, UseSets, DisjointRequests
  <2>2. Cardinality(Readers(invite.id)') = Cardinality(Readers(invite.id)) + 1
    BY <1>4, <1>5, UseSets, ReqEnter
  <2>3. uses[invite.id] <= Cardinality(Consumers(invite.id)) + failures
    BY DEF UsesInv, LiveUses
  <2> QED
    BY <1>1, <2>1, <2>2, <2>3, UseSets, ReqFinite, RosterAssumption DEF TypeOK
<1>9. AllUses'
  BY <1>1, <1>3, <1>8 DEF UsesInv, AllUses
<1>10. ConsumersUsed'
  BY <1>1, <1>2 DEF UsesInv, ConsumersUsed
<1> QED
  BY <1>6, <1>7, <1>9, <1>10 DEF UsesInv

LEMMA InsertMemberUses ==
  ASSUME TypeOK, TypeOK', UsesInv, NEW r \in Req, InsertMember(r)
  PROVE  UsesInv'
<1>0. req[r] \in AcceptCall /\ req[r].invite.id \in InvId
  BY CallAt DEF InsertMember, TypeOK, AcceptCall, InviteRow
<1> PICK j \in InvId : j = req[r].invite.id
  BY <1>0
<1>1. /\ req[r] \in AcceptCall
      /\ r \in Readers(j)
      /\ \A i \in InvId \ {j} : r \notin Readers(i)
      /\ \A i : r \notin Consumers(i)
  BY <1>0 DEF InsertMember, Readers, Consumers
<1>2. CASE ForeignKey(req[r].invite.org)
  <2>1. /\ uses' = [uses EXCEPT ![j] = @ + 1]
        /\ invIds' = invIds /\ failures' = failures /\ invites' = invites
        /\ Goto(r, "consumeInvite")
    BY <1>2 DEF InsertMember
  <2>2. /\ \A q \in Req : q # r => req'[q] = req[q]
        /\ req'[r].pc = "consumeInvite"
        /\ req'[r].invite = req[r].invite
    BY <1>1, <2>1, GotoMoves
  <2>3. /\ uses'[j] = uses[j] + 1
        /\ \A i \in InvId \ {j} : uses'[i] = uses[i]
        /\ j \in invIds
    BY <1>1, <2>1 DEF TypeOK, UsesInv, KeysDrawn
  <2>4. \A i \in InvId \ {j} : Readers(i)' = Readers(i) /\ Consumers(i)' = Consumers(i)
    BY <1>1, <2>2 DEF Readers, Consumers
  <2>5. Readers(j)' = Readers(j) \ {r} /\ Consumers(j)' = Consumers(j) \cup {r}
    BY <1>1, <2>2 DEF Readers, Consumers
  <2>6. /\ Cardinality(Readers(j)') = Cardinality(Readers(j)) - 1
        /\ Cardinality(Consumers(j)') = Cardinality(Consumers(j)) + 1
    BY <1>1, <2>5, UseSets, ReqEnter, ReqLeave
  <2>types. uses[j] \in Nat /\ failures \in Nat
    BY <1>1, RosterAssumption DEF TypeOK
  <2>7. KeysDrawn'
    <3>1. \A q \in Req : req'[q] \in AcceptCall => req'[q].invite.id \in invIds
      BY <1>1, <2>2 DEF UsesInv, KeysDrawn
    <3> QED
      BY <2>1, <2>3, <3>1 DEF UsesInv, KeysDrawn
  <2>8. LiveUses'
    <3> SUFFICES ASSUME NEW i \in invites
                 PROVE  uses'[i.id] <= Cardinality(Consumers(i.id)') + failures
      BY <2>1 DEF LiveUses
    <3>1. i.id \in InvId /\ uses[i.id] <= Cardinality(Consumers(i.id)) + failures
      BY DEF UsesInv, LiveUses, TypeOK, InviteRow
    <3>2. CASE i.id = j
      <4>1. uses[j] <= Cardinality(Consumers(j)) + failures
        BY <3>1, <3>2
      <4>2. uses'[j] <= Cardinality(Consumers(j)') + failures
        BY <4>1, <2>3, <2>6, <2>types, UseSets
      <4> QED
        BY <4>2, <3>2
    <3>3. CASE i.id # j
      BY <2>3, <2>4, <3>1, <3>3
    <3> QED
      BY <3>2, <3>3
  <2>9. AllUses'
    <3> SUFFICES ASSUME NEW i \in InvId
                 PROVE  uses'[i] + Cardinality(Readers(i)') <= Cardinality(Req) + failures
      BY <2>1 DEF AllUses
    <3>1. uses[i] + Cardinality(Readers(i)) <= Cardinality(Req) + failures
      BY DEF UsesInv, AllUses
    <3>2. CASE i = j
      <4>1. uses[j] + Cardinality(Readers(j)) <= Cardinality(Req) + failures
        BY <3>1, <3>2
      <4>2. uses'[j] + Cardinality(Readers(j)') <= Cardinality(Req) + failures
        BY <4>1, <2>3, <2>6, <2>types, UseSets, ReqFinite
      <4> QED
        BY <4>2, <3>2
    <3>3. CASE i # j
      BY <2>3, <2>4, <3>1, <3>3
    <3> QED
      BY <3>2, <3>3
  <2>10. ConsumersUsed'
    <3>1. uses'[j] > 0
      BY <1>1, <2>3 DEF TypeOK
    <3> QED
      BY <2>3, <2>4, <3>1 DEF UsesInv, ConsumersUsed
  <2> QED
    BY <2>7, <2>8, <2>9, <2>10 DEF UsesInv
<1>3. CASE ~ForeignKey(req[r].invite.org)
  <2>1. /\ uses' = uses /\ invIds' = invIds /\ failures' = failures /\ invites' = invites
        /\ Return(r)
    BY <1>3 DEF InsertMember
  <2>2. /\ \A q \in Req : q # r => req'[q] = req[q]
        /\ req'[r] = Idle
    BY <2>1, ReturnMoves
  <2>3. \A i \in InvId : Consumers(i)' = Consumers(i) /\ Readers(i)' \subseteq Readers(i)
    BY <1>1, <2>2 DEF Readers, Consumers, Idle
  <2>4. \A q \in Req : req'[q] \in AcceptCall =>
          req[q] \in AcceptCall /\ req'[q].invite = req[q].invite
    BY <2>2 DEF AcceptCall, Idle
  <2> QED
    BY <2>1, <2>3, <2>4, UsesQuiet
<1> QED
  BY <1>2, <1>3

LEMMA ConsumeInviteUses ==
  ASSUME TypeOK, TypeOK', UsesInv, NEW r \in Req, ConsumeInvite(r)
  PROVE  UsesInv'
<1>1. req[r] \in AcceptCall /\ req[r].invite.id \in InvId
  BY CallAt DEF ConsumeInvite, TypeOK, AcceptCall, InviteRow
<1> PICK j \in InvId : j = req[r].invite.id
  BY <1>1
<1>2. /\ uses' = uses /\ invIds' = invIds /\ failures' = failures
      /\ invites' = {i \in invites : i.id # j}
      /\ Return(r)
  BY DEF ConsumeInvite, WithoutInvite
<1>3. /\ \A q \in Req : q # r => req'[q] = req[q]
      /\ req'[r] = Idle
  BY <1>2, ReturnMoves
<1>4. \A i \in InvId : Readers(i)' = Readers(i)
  BY <1>3 DEF Readers, ConsumeInvite, Idle
<1>5. \A i \in InvId \ {j} : Consumers(i)' = Consumers(i)
  BY <1>3 DEF Consumers, Idle
<1>6. Consumers(j)' \subseteq Consumers(j)
  BY <1>3 DEF Consumers, Idle
<1>7. KeysDrawn'
  BY <1>2, <1>3 DEF UsesInv, KeysDrawn, AcceptCall, Idle
<1>8. LiveUses'
  BY <1>2, <1>5 DEF UsesInv, LiveUses, TypeOK, InviteRow
<1>9. AllUses'
  BY <1>2, <1>4 DEF UsesInv, AllUses
<1>10. ConsumersUsed'
  BY <1>2, <1>5, <1>6 DEF UsesInv, ConsumersUsed
<1> QED
  BY <1>7, <1>8, <1>9, <1>10 DEF UsesInv

LEMMA FailUses ==
  ASSUME TypeOK, TypeOK', UsesInv, NEW r \in Req, Fail(r)
  PROVE  UsesInv'
<1>1. /\ uses' = uses /\ invIds' = invIds /\ invites' = invites
      /\ failures' = failures + 1
      /\ Return(r)
  BY DEF Fail
<1>2. /\ \A q \in Req : q # r => req'[q] = req[q]
      /\ req'[r] = Idle
  BY <1>1, ReturnMoves
<1>3. failures \in Nat
  BY RosterAssumption DEF TypeOK
<1>4. \A i \in InvId : /\ Readers(i)' \subseteq Readers(i)
                       /\ Consumers(i)' = Consumers(i) \ {r}
  BY <1>2 DEF Readers, Consumers, Idle
<1>5. KeysDrawn'
  BY <1>1, <1>2 DEF UsesInv, KeysDrawn, AcceptCall, Idle
<1>6. LiveUses'
  <2> SUFFICES ASSUME NEW i \in invites
               PROVE  uses[i.id] <= Cardinality(Consumers(i.id)') + (failures + 1)
    BY <1>1, <1>3 DEF LiveUses
  <2> PICK k \in InvId : k = i.id
    BY DEF TypeOK, InviteRow
  <2>1. uses[k] \in Nat /\ uses[k] <= Cardinality(Consumers(k)) + failures
    BY DEF UsesInv, LiveUses, TypeOK
  <2>2. /\ Cardinality(Consumers(k)') \in Nat
        /\ Cardinality(Consumers(k)) <= Cardinality(Consumers(k)') + 1
    <3>1. CASE r \in Consumers(k)
      BY <1>4, <3>1, UseSets, ReqLeave, ReqFinite
    <3>2. CASE r \notin Consumers(k)
      <4>1. Consumers(k)' = Consumers(k)
        BY <1>4, <3>2
      <4> QED
        BY <4>1, UseSets
    <3> QED
      BY <3>1, <3>2
  <2>3. uses[k] <= Cardinality(Consumers(k)') + (failures + 1)
    BY <1>3, <2>1, <2>2, UseSets
  <2> QED
    BY <2>3
<1>7. AllUses'
  <2> SUFFICES ASSUME NEW i \in InvId
               PROVE  uses[i] + Cardinality(Readers(i)')
                        <= Cardinality(Req) + (failures + 1)
    BY <1>1, <1>3 DEF AllUses
  <2>1. /\ uses[i] \in Nat
        /\ uses[i] + Cardinality(Readers(i)) <= Cardinality(Req) + failures
    BY DEF UsesInv, AllUses, TypeOK
  <2>2. /\ Cardinality(Readers(i)') <= Cardinality(Readers(i))
        /\ Cardinality(Readers(i)') \in Nat
    BY <1>4, UseSets, ReqFinite, Smaller
  <2> QED
    BY <1>3, <2>1, <2>2, UseSets, ReqFinite
<1>8. ConsumersUsed'
  BY <1>1, <1>4 DEF UsesInv, ConsumersUsed
<1> QED
  BY <1>5, <1>6, <1>7, <1>8 DEF UsesInv

LEMMA InsertInviteUses ==
  ASSUME TypeOK, TypeOK', UsesInv, NEW r \in Req, InsertInvite(r)
  PROVE  UsesInv'
<1>1. uses' = uses /\ failures' = failures
  BY DEF InsertInvite
<1>2. req[r].pc \notin AcceptPc /\ req'[r].pc \notin AcceptPc
  BY ReturnMoves DEF InsertInvite, AcceptPc, Idle, TypeOK
<1>3. \A q \in Req : q # r => req'[q] = req[q]
  BY ReturnMoves DEF InsertInvite, TypeOK
<1>4. /\ \A i \in InvId : Readers(i)' = Readers(i) /\ Consumers(i)' = Consumers(i)
      /\ \A q \in Req : req'[q] \in AcceptCall =>
           req[q] \in AcceptCall /\ req'[q].invite = req[q].invite
  BY <1>2, <1>3, Bystander
<1>5. CASE invites' = invites /\ invIds' = invIds
  BY <1>1, <1>4, <1>5, UsesQuiet
<1>6. ASSUME NEW i \in InvId \ invIds, NEW row,
             invIds' = invIds \cup {i}, invites' = invites \cup {row}, row.id = i
      PROVE  UsesInv'
  <2>1. KeysDrawn'
    BY <1>1, <1>4, <1>6 DEF UsesInv, KeysDrawn
  <2>2. LiveUses'
    <3>1. uses[i] <= Cardinality(Consumers(i)) + failures
      <4>1. uses[i] = 0
        BY DEF UsesInv, KeysDrawn
      <4> QED
        BY <4>1, UseSets, RosterAssumption DEF TypeOK
    <3> QED
      BY <1>1, <1>4, <1>6, <3>1 DEF UsesInv, LiveUses, TypeOK, InviteRow
  <2>3. AllUses' /\ ConsumersUsed'
    BY <1>1, <1>4 DEF UsesInv, AllUses, ConsumersUsed
  <2> QED
    BY <2>1, <2>2, <2>3 DEF UsesInv
<1>7. \/ invites' = invites /\ invIds' = invIds
      \/ \E i \in InvId \ invIds : \E row :
           invIds' = invIds \cup {i} /\ invites' = invites \cup {row} /\ row.id = i
  BY DEF InsertInvite
<1> QED
  BY <1>5, <1>6, <1>7

LEMMA NextUsesInv == TypeOK /\ UsesInv /\ [Next]_vars => UsesInv'
<1> SUFFICES ASSUME TypeOK, UsesInv, [Next]_vars PROVE UsesInv'
  OBVIOUS
<1>1. TypeOK'
  BY NextTypeOK
<1>2. ASSUME NEW r \in Req, Arrive(r) \/ Step(r) \/ Fail(r) PROVE UsesInv'
  <2>1. CASE \E invite \in invites, u \in User : AcceptInvite(r, invite, u)
    BY <1>1, <2>1, AcceptInviteUses
  <2>2. CASE CheckMember(r)
    <3>1. req[r] \in AcceptCall
      BY <2>2, CallAt DEF CheckMember, TypeOK
    <3>2. /\ \A q \in Req : q # r => req'[q] = req[q]
          /\ \/ req'[r].pc = "insertMember" /\ req'[r].invite = req[r].invite
             \/ req'[r] = Idle
      BY <2>2, <3>1, GotoMoves, ReturnMoves DEF CheckMember
    <3>3. \A i \in InvId : Readers(i)' \subseteq Readers(i)
      BY <2>2, <3>2 DEF CheckMember, Readers, Idle
    <3>4. \A i \in InvId : Consumers(i)' = Consumers(i)
      BY <2>2, <3>2 DEF CheckMember, Consumers, Idle
    <3>5. \A q \in Req : req'[q] \in AcceptCall =>
            req[q] \in AcceptCall /\ req'[q].invite = req[q].invite
      BY <3>1, <3>2 DEF AcceptCall, Idle
    <3> QED
      BY <1>1, <2>2, <3>3, <3>4, <3>5, UsesQuiet DEF CheckMember, Tables
  <2>3. CASE InsertMember(r)
    BY <1>1, <2>3, InsertMemberUses
  <2>4. CASE ConsumeInvite(r)
    BY <1>1, <2>4, ConsumeInviteUses
  <2>5. CASE Fail(r)
    BY <1>1, <2>5, FailUses
  <2>6. CASE InsertInvite(r)
    BY <1>1, <2>6, InsertInviteUses
  <2>7. CASE /\ ~ \E invite \in invites, u \in User : AcceptInvite(r, invite, u)
             /\ ~CheckMember(r) /\ ~InsertMember(r) /\ ~ConsumeInvite(r)
             /\ ~Fail(r) /\ ~InsertInvite(r)
    <3>1. /\ uses' = uses /\ invIds' = invIds /\ failures' = failures
          /\ req[r].pc \notin AcceptPc
      BY <1>2, <2>7
         DEF Arrive, CreateInvite, RevokeInvite, UpdateMembership, RemoveMembership,
             RemoveOrganization, Step, CountMembers, CheckInviter, CheckActive,
             EmitCreated, DeleteInvite, CheckUpdater, UpdateRole, CheckRemover,
             DeleteMember, DeleteOrg, Tables, Idle, AcceptPc
    <3>2. invites' \subseteq invites
      BY <1>2, <2>7, InvitesShrink
    <3>3. /\ req'[r].pc \notin AcceptPc
          /\ \A q \in Req : q # r => req'[q] = req[q]
      BY <1>2, <2>7, RequestMoves DEF AcceptPc
    <3>4. /\ \A i \in InvId : Readers(i)' = Readers(i) /\ Consumers(i)' = Consumers(i)
          /\ \A q \in Req : req'[q] \in AcceptCall =>
               req[q] \in AcceptCall /\ req'[q].invite = req[q].invite
      BY <1>1, <3>1, <3>3, Bystander
    <3> QED
      BY <1>1, <3>1, <3>2, <3>4, UsesQuiet
  <2> QED
    BY <2>1, <2>2, <2>3, <2>4, <2>5, <2>6, <2>7
<1>3. ASSUME NEW i \in invites, Expire(i) PROVE UsesInv'
  <2>1. /\ uses' = uses /\ invIds' = invIds /\ failures' = failures /\ req' = req
        /\ invites' = (invites \ {i}) \cup {[i EXCEPT !.expired = TRUE]}
    BY <1>3 DEF Expire
  <2>2. [i EXCEPT !.expired = TRUE].id = i.id
    BY DEF TypeOK, InviteRow
  <2>3. \A k \in invites' : \E j \in invites : j.id = k.id
    BY <2>1, <2>2
  <2>4. \A k \in InvId : Readers(k)' = Readers(k) /\ Consumers(k)' = Consumers(k)
    BY <2>1 DEF Readers, Consumers
  <2> QED
    BY <1>1, <2>1, <2>3, <2>4, UsesQuiet
<1>4. CASE UNCHANGED vars
  BY <1>4 DEF vars, UsesInv, KeysDrawn, LiveUses, AllUses, ConsumersUsed, Readers,
              Consumers
<1> QED
  BY <1>2, <1>3, <1>4 DEF Next

LEMMA InitUsesInv == Init => UsesInv
<1> SUFFICES ASSUME Init PROVE UsesInv
  OBVIOUS
<1>1. KeysDrawn /\ LiveUses
  BY DEF Init, KeysDrawn, LiveUses, AcceptCall, Idle
<1>2. \A i \in InvId : Readers(i) = {} /\ Consumers(i) = {}
  BY DEF Init, Readers, Consumers, Idle
<1>3. AllUses /\ ConsumersUsed
  BY <1>2, FS_EmptySet, ReqFinite DEF Init, AllUses, ConsumersUsed
<1> QED
  BY <1>1, <1>3 DEF UsesInv

LEMMA UsesInvariant == Spec => []UsesInv
BY TypeCorrect, InitUsesInv, NextUsesInv, PTL DEF Spec

\* Over its whole life an invite makes at most one membership per request that
\* can be in flight and per request that died half-way.
THEOREM InviteUsesStayBounded == Spec => []InviteUsesBounded
<1>1. TypeOK /\ UsesInv => InviteUsesBounded
  <2> SUFFICES ASSUME TypeOK, UsesInv, NEW i \in InvId
               PROVE  uses[i] <= Cardinality(Req) + failures
    BY DEF InviteUsesBounded
  <2>1. /\ uses[i] \in Nat
        /\ failures \in Nat
        /\ uses[i] + Cardinality(Readers(i)) <= Cardinality(Req) + failures
    BY RosterAssumption DEF UsesInv, AllUses, TypeOK
  <2> QED
    BY <2>1, UseSets, ReqFinite
<1> QED
  BY <1>1, TypeCorrect, UsesInvariant, PTL

\* An invite leaves its table revoked, with its organization, or used.
THEOREM NoInviteIsLost == Spec => ConsumedInviteLeftMembership
<1>1. TypeOK /\ UsesInv /\ [Next]_vars => [InviteNotLost]_vars
  <2> SUFFICES ASSUME TypeOK, UsesInv, Next, NEW i \in invites
               PROVE  \/ \E j \in invites' : j.id = i.id
                      \/ i.org \notin orgs'
                      \/ uses[i.id] > 0
                      \/ \E r \in Req : req[r].pc = "deleteInvite" /\ req[r].id = i.id
    BY DEF InviteNotLost
  <2>1. ASSUME NEW k \in invites, Expire(k) PROVE \E j \in invites' : j.id = i.id
    <3>1. [k EXCEPT !.expired = TRUE].id = k.id
      BY DEF TypeOK, InviteRow
    <3> QED
      BY <2>1, <3>1 DEF Expire
  <2>2. ASSUME NEW r \in Req, ConsumeInvite(r)
        PROVE  (\E j \in invites' : j.id = i.id) \/ uses[i.id] > 0
    <3>1. CASE req[r].invite.id = i.id
      <4>1. r \in Consumers(i.id) /\ i.id \in InvId
        BY <2>2, <3>1 DEF ConsumeInvite, Consumers, TypeOK, InviteRow
      <4> QED
        BY <4>1 DEF UsesInv, ConsumersUsed
    <3>2. CASE req[r].invite.id # i.id
      BY <2>2, <3>2 DEF ConsumeInvite, WithoutInvite
    <3> QED
      BY <3>1, <3>2
  <2>3. ASSUME NEW r \in Req, DeleteInvite(r)
        PROVE  \/ \E j \in invites' : j.id = i.id
               \/ req[r].pc = "deleteInvite" /\ req[r].id = i.id
    BY <2>3 DEF DeleteInvite, WithoutInvite
  <2>4. ASSUME NEW r \in Req, DeleteOrg(r)
        PROVE  (\E j \in invites' : j.id = i.id) \/ i.org \notin orgs'
    BY <2>4 DEF DeleteOrg
  <2>5. ASSUME NEW r \in Req, Arrive(r) \/ Step(r) \/ Fail(r),
               ~ConsumeInvite(r), ~DeleteInvite(r), ~DeleteOrg(r)
        PROVE  i \in invites'
    BY <2>5 DEF Arrive, CreateInvite, AcceptInvite, RevokeInvite, UpdateMembership,
         RemoveMembership, RemoveOrganization, Step, CountMembers, CheckInviter,
         CheckActive, InsertInvite, EmitCreated, CheckMember, InsertMember,
         CheckUpdater, UpdateRole, CheckRemover, DeleteMember, Fail, Tables
  <2> QED
    BY <2>1, <2>2, <2>3, <2>4, <2>5 DEF Next
<1> QED
  BY <1>1, TypeCorrect, UsesInvariant, PTL DEF Spec, ConsumedInviteLeftMembership

-----------------------------------------------------------------------------
(* The targets of role updates and removals.                               *)

TargetPc == {"checkUpdater", "updateRole", "checkRemover", "deleteMember"}

\* The only ways into those awaits; the key and the organization stay in hand.
LEMMA TargetMoves ==
  ASSUME TypeOK, NEW r \in Req, Arrive(r) \/ Step(r) \/ Fail(r),
         req'[r].pc \in TargetPc
  PROVE  \/ \E m \in memberships : req'[r].id = m.id /\ req'[r].org = m.org
         \/ /\ req[r].pc \in TargetPc
            /\ req'[r].id = req[r].id /\ req'[r].org = req[r].org
<1> req \in [Req -> Call] /\ req[r] \in Call
  BY DEF TypeOK
<1>1. CASE Arrive(r)
  BY <1>1 DEF Arrive, CreateInvite, AcceptInvite, RevokeInvite, UpdateMembership,
              RemoveMembership, RemoveOrganization, TargetPc
<1>2. CASE CheckUpdater(r) \/ CheckRemover(r)
  <2>1. req[r] \in UpdateCall \/ req[r] \in RemoveCall
    BY <1>2, CallAt DEF CheckUpdater, CheckRemover
  <2>2. CASE Return(r)
    BY <2>2, ReturnMoves DEF Idle, TargetPc
  <2>3. ASSUME NEW pc, Goto(r, pc)
        PROVE  req'[r].id = req[r].id /\ req'[r].org = req[r].org
    <3>1. req'[r] = [req[r] EXCEPT !.pc = pc]
      BY <2>3 DEF Goto
    <3> QED
      BY <2>1, <3>1 DEF UpdateCall, RemoveCall
  <2>4. Return(r) \/ \E pc : Goto(r, pc)
    BY <1>2 DEF CheckUpdater, CheckRemover, AdminGate
  <2> QED
    BY <1>2, <2>2, <2>3, <2>4 DEF CheckUpdater, CheckRemover, TargetPc
<1>3. CASE CountMembers(r) \/ CheckInviter(r) \/ CheckActive(r) \/ CheckMember(r)
           \/ InsertMember(r)
  <2>1. req[r] \in CreateCall \/ req[r] \in AcceptCall
    BY <1>3, CallAt
       DEF CountMembers, CheckInviter, CheckActive, CheckMember, InsertMember
  <2> QED
    BY <1>3, <2>1, GotoMoves, ReturnMoves
       DEF CountMembers, CheckInviter, CheckActive, CheckMember, InsertMember,
           AdminGate, Idle, TargetPc
<1>4. CASE InsertInvite(r)
  BY <1>4, ReturnMoves DEF InsertInvite, Idle, TargetPc
<1>5. CASE \/ EmitCreated(r) \/ ConsumeInvite(r) \/ DeleteInvite(r) \/ UpdateRole(r)
           \/ DeleteMember(r) \/ DeleteOrg(r) \/ Fail(r)
  BY <1>5, ReturnMoves
     DEF EmitCreated, ConsumeInvite, DeleteInvite, UpdateRole, DeleteMember,
         DeleteOrg, Fail, Idle, TargetPc
<1> QED
  BY <1>1, <1>2, <1>3, <1>4, <1>5 DEF Step

\* Rows of memberships never change key or organization: a row is new, under a
\* key never drawn, or it was there.
LEMMA RowsKeepOrg ==
  ASSUME TypeOK, NEW r \in Req, Arrive(r) \/ Step(r) \/ Fail(r)
  PROVE  /\ memIds \subseteq memIds'
         /\ \/ \A m \in memberships' : \E n \in memberships : m.id = n.id /\ m.org = n.org
            \/ \E row : /\ row.id \notin memIds
                        /\ row.id \in memIds'
                        /\ memberships' = memberships \cup {row}
<1>1. CASE InsertMember(r)
  BY <1>1 DEF InsertMember
<1>2. CASE UpdateRole(r)
  BY <1>2 DEF UpdateRole, WithRole, TypeOK, MembershipRow
<1>3. CASE ~InsertMember(r) /\ ~UpdateRole(r)
  <2>1. memIds' = memIds
    BY <1>3 DEF Arrive, CreateInvite, AcceptInvite, RevokeInvite, UpdateMembership,
         RemoveMembership, RemoveOrganization, Step, CountMembers, CheckInviter,
         CheckActive, InsertInvite, EmitCreated, CheckMember, ConsumeInvite,
         DeleteInvite, CheckUpdater, CheckRemover, DeleteMember, DeleteOrg, Fail,
         Tables
  <2> QED
    BY <1>3, <2>1, MembersShrink
<1> QED
  BY <1>1, <1>2, <1>3

LEMMA NextTargetsKnown == TypeOK /\ TargetsKnown /\ [Next]_vars => TargetsKnown'
<1> SUFFICES ASSUME TypeOK, TargetsKnown, [Next]_vars PROVE TargetsKnown'
  OBVIOUS
<1> USE DEF TargetPc
<1>1. ASSUME NEW r \in Req, Arrive(r) \/ Step(r) \/ Fail(r) PROVE TargetsKnown'
  <2>1. /\ \A m \in memberships' : m.id \in memIds'
        /\ \A m, n \in memberships' : m.id = n.id => m.org = n.org
    BY <1>1, RowsKeepOrg DEF TargetsKnown
  <2>2. ASSUME NEW q \in Req, req'[q].pc \in TargetPc
        PROVE  /\ req'[q].id \in memIds
               /\ \A m \in memberships : m.id = req'[q].id => m.org = req'[q].org
    <3>1. CASE q = r
      BY <1>1, <2>2, <3>1, TargetMoves DEF TargetsKnown
    <3>2. CASE q # r
      BY <1>1, <2>2, <3>2, RequestMoves DEF TargetsKnown
    <3> QED
      BY <3>1, <3>2
  <2>3. ASSUME NEW q \in Req, req'[q].pc \in TargetPc
        PROVE  /\ req'[q].id \in memIds'
               /\ \A m \in memberships' : m.id = req'[q].id => m.org = req'[q].org
    BY <1>1, <2>2, <2>3, RowsKeepOrg DEF TargetsKnown
  <2> QED
    BY <2>1, <2>3 DEF TargetsKnown
<1>2. ASSUME NEW i \in invites, Expire(i) PROVE TargetsKnown'
  BY <1>2 DEF Expire, TargetsKnown
<1>3. CASE UNCHANGED vars
  BY <1>3 DEF vars, TargetsKnown
<1> QED
  BY <1>1, <1>2, <1>3 DEF Next

LEMMA InitTargetsKnown == Init => TargetsKnown
BY DEF Init, TargetsKnown, Idle

\* The inductive invariant the runs check is one.
THEOREM RosterInvHolds == Spec => []RosterInv
BY TypeCorrect, InitFiniteTables, NextFiniteTables, InitCreatorsBounded,
   NextCreatorsBounded, InitJoinersBounded, NextJoinersBounded, UsesInvariant,
   InitTargetsKnown, NextTargetsKnown, PTL
   DEF Spec, RosterInv

-----------------------------------------------------------------------------
(* An organization without an admin stays without one.                     *)

\* Members of a locked-out organization fail every permission test.
LEMMA LockedGate ==
  ASSUME NEW r \in Req, NEW o \in Org, LockedOut(o), req[r].org = o,
         NEW next, AdminGate(r, next)
  PROVE  Return(r)
BY DEF LockedOut, AdminGate, CallerRows, Members

\* What the step of a request can have left in hand, in a locked organization.
LEMMA NoRescueBySelf ==
  ASSUME TypeOK, TargetsKnown, NEW r \in Req, Arrive(r) \/ Step(r) \/ Fail(r),
         NEW o \in Org, LockedOut(o)
  PROVE  ~MayRescue(r, o)'
<1> req \in [Req -> Call] /\ req[r] \in Call
  BY DEF TypeOK
<1> SUFFICES ASSUME MayRescue(r, o)' PROVE FALSE
  OBVIOUS
<1>1. req'[r].pc \in {"checkActive", "insertInvite", "checkMember", "insertMember",
                     "updateRole", "deleteMember"}
  BY DEF MayRescue
<1>2. ~MayRescue(r, o)
  BY DEF LockedOut
<1>3. CASE Arrive(r)
  <2>1. PICK invite \in invites, u \in User : AcceptInvite(r, invite, u)
    BY <1>1, <1>3 DEF Arrive, CreateInvite, RevokeInvite, UpdateMembership,
                      RemoveMembership, RemoveOrganization
  <2> QED
    BY <2>1 DEF AcceptInvite, MayRescue, LockedOut
<1>4. CASE CountMembers(r)
  <2>1. req[r] \in CreateCall
    BY <1>4, CallAt DEF CountMembers
  <2>2. req'[r].pc = "checkActive" /\ req'[r].org = req[r].org
        /\ Members(req[r].org) = {}
    BY <1>1, <1>4, <2>1, GotoMoves DEF CountMembers
  <2> QED
    BY <2>2 DEF MayRescue, LockedOut
<1>5. CASE CheckInviter(r)
  <2>1. req[r] \in CreateCall
    BY <1>5, CallAt DEF CheckInviter
  <2>2. ~Return(r)
    BY <1>1, ReturnMoves DEF Idle
  <2>3. Goto(r, "checkActive")
    BY <1>5, <2>2 DEF CheckInviter, AdminGate
  <2>4. req'[r].pc = "checkActive" /\ req'[r].org = req[r].org
    BY <2>1, <2>3, GotoMoves
  <2>5. req[r].org = o
    BY <2>4 DEF MayRescue
  <2> QED
    BY <1>5, <2>2, <2>5, LockedGate DEF CheckInviter
<1>6. CASE CheckActive(r)
  <2>1. req[r] \in CreateCall
    BY <1>6, CallAt DEF CheckActive
  <2>2. Goto(r, "insertInvite")
    BY <1>1, <1>6, ReturnMoves DEF CheckActive, Idle
  <2> QED
    BY <1>2, <1>6, <2>1, <2>2, GotoMoves DEF CheckActive, MayRescue
<1>7. CASE CheckMember(r)
  <2>1. req[r] \in AcceptCall
    BY <1>7, CallAt DEF CheckMember
  <2>2. Goto(r, "insertMember")
    BY <1>1, <1>7, ReturnMoves DEF CheckMember, Idle
  <2> QED
    BY <1>2, <1>7, <2>1, <2>2, GotoMoves DEF CheckMember, MayRescue
<1>8. CASE InsertMember(r)
  <2>1. req[r] \in AcceptCall
    BY <1>8, CallAt DEF InsertMember
  <2>2. Return(r) \/ Goto(r, "consumeInvite")
    BY <1>8 DEF InsertMember
  <2> QED
    BY <1>1, <2>1, <2>2, GotoMoves, ReturnMoves DEF Idle
<1>9. CASE CheckUpdater(r) \/ CheckRemover(r)
  <2>1. ~Return(r)
    BY <1>1, ReturnMoves DEF Idle
  <2>2. req[r].pc \in TargetPc /\ req[r] \in UpdateCall \cup RemoveCall
    BY <1>9, CallAt DEF CheckUpdater, CheckRemover, TargetPc
  <2>3. PICK pc \in {"updateRole", "deleteMember"} : Goto(r, pc)
    BY <1>9, <2>1 DEF CheckUpdater, CheckRemover, AdminGate
  <2>4. req'[r].pc = pc
    BY <2>2, <2>3, GotoMoves
  <2>5. req'[r].id = req[r].id
    <3>1. req'[r] = [req[r] EXCEPT !.pc = pc]
      BY <2>3 DEF Goto
    <3> QED
      BY <2>2, <3>1 DEF UpdateCall, RemoveCall
  <2>6. PICK m \in Members(o) : m.id = req[r].id
    BY <1>9, <2>4, <2>5
       DEF MayRescue, CheckUpdater, CheckRemover, Tables, Members
  <2>7. req[r].org = o
    BY <2>2, <2>6 DEF TargetsKnown, TargetPc, Members
  <2> QED
    BY <1>9, <2>1, <2>7, LockedGate DEF CheckUpdater, CheckRemover
<1>10. CASE InsertInvite(r)
  BY <1>1, <1>10, ReturnMoves DEF InsertInvite, Idle
<1>11. CASE \/ EmitCreated(r) \/ ConsumeInvite(r) \/ DeleteInvite(r) \/ UpdateRole(r)
            \/ DeleteMember(r) \/ DeleteOrg(r) \/ Fail(r)
  BY <1>1, <1>11, ReturnMoves
     DEF EmitCreated, ConsumeInvite, DeleteInvite, UpdateRole, DeleteMember,
         DeleteOrg, Fail, Idle
<1> QED
  BY <1>3, <1>4, <1>5, <1>6, <1>7, <1>8, <1>9, <1>10, <1>11 DEF Step

\* Nor does a step give other requests a target in that organization.
LEMMA NoRescueByOthers ==
  ASSUME TypeOK, TargetsKnown, NEW r \in Req, Arrive(r) \/ Step(r) \/ Fail(r),
         NEW o \in Org, LockedOut(o), NEW q \in Req, q # r
  PROVE  ~MayRescue(q, o)'
<1>1. req'[q] = req[q] /\ ~MayRescue(q, o)
  BY RequestMoves DEF LockedOut
<1>2. ASSUME req[q].pc \in TargetPc, NEW m \in Members(o)', m.id = req[q].id
      PROVE  \E n \in Members(o) : n.id = req[q].id
  <2>1. req[q].id \in memIds
    BY <1>2 DEF TargetsKnown, TargetPc
  <2> QED
    BY <1>2, <2>1, RowsKeepOrg DEF Members
<1> QED
  BY <1>1, <1>2 DEF MayRescue, TargetPc

\* Its members stay, none of them an ADMIN.
LEMMA LockedMembers ==
  ASSUME TypeOK, TargetsKnown, NEW r \in Req, Arrive(r) \/ Step(r) \/ Fail(r),
         NEW o \in Org, LockedOut(o), o \in orgs'
  PROVE  Members(o)' # {} /\ \A m \in Members(o)' : m.role # "ADMIN"
<1>0. ~MayRescue(r, o) /\ Members(o) # {} /\ \A m \in Members(o) : m.role # "ADMIN"
  BY DEF LockedOut
<1>1. CASE InsertMember(r)
  <2>1. CASE memberships' = memberships
    BY <1>0, <2>1 DEF Members
  <2>2. ASSUME NEW m \in MemId,
               memberships' = memberships \cup
                 {[id |-> m, org |-> req[r].invite.org, user |-> req[r].user,
                   role |-> req[r].invite.role]}
        PROVE  Members(o)' # {} /\ \A n \in Members(o)' : n.role # "ADMIN"
    <3>1. req[r].invite.org = o => req[r].invite.role # "ADMIN"
      BY <1>0, <1>1 DEF InsertMember, MayRescue
    <3>2. Members(o) \subseteq Members(o)'
      BY <2>2 DEF Members
    <3>3. ASSUME NEW n \in Members(o)' PROVE n.role # "ADMIN"
      BY <1>0, <2>2, <3>1, <3>3 DEF Members
    <3> QED
      BY <1>0, <3>2, <3>3
  <2>3. \/ memberships' = memberships
        \/ \E m \in MemId :
             memberships' = memberships \cup
               {[id |-> m, org |-> req[r].invite.org, user |-> req[r].user,
                 role |-> req[r].invite.role]}
    BY <1>1, Zenon DEF InsertMember
  <2> QED
    BY <2>1, <2>2, <2>3
<1>2. CASE UpdateRole(r)
  <2>1. req[r] \in UpdateCall
    BY <1>2, CallAt DEF UpdateRole, TypeOK
  <2>2. PICK m \in memberships : m.org = o
    BY <1>0 DEF Members
  <2>3. \E n \in Members(o)' : n.id = m.id
    <3> DEFINE n == IF m.id = req[r].id THEN [m EXCEPT !.role = req[r].role] ELSE m
    <3>1. n \in memberships'
      BY <1>2 DEF UpdateRole, WithRole
    <3>2. n.id = m.id /\ n.org = o
      BY <2>2 DEF TypeOK, MembershipRow
    <3> QED
      BY <3>1, <3>2 DEF Members
  <2>4. ASSUME NEW n \in Members(o)' PROVE n.role # "ADMIN"
    <3>1. PICK k \in memberships :
            n = IF k.id = req[r].id THEN [k EXCEPT !.role = req[r].role] ELSE k
      BY <1>2, <2>4 DEF UpdateRole, WithRole, Members
    <3>2. k \in Members(o)
      BY <2>4, <3>1 DEF Members, TypeOK, MembershipRow
    <3> QED
      BY <1>0, <1>2, <3>1, <3>2 DEF UpdateRole, MayRescue, TypeOK, MembershipRow
  <2> QED
    BY <2>3, <2>4
<1>3. CASE DeleteMember(r)
  BY <1>0, <1>3 DEF DeleteMember, MayRescue, Members
<1>4. CASE DeleteOrg(r)
  BY <1>0, <1>4 DEF DeleteOrg, Members
<1>5. CASE ~InsertMember(r) /\ ~UpdateRole(r) /\ ~DeleteMember(r) /\ ~DeleteOrg(r)
  <2>1. memberships' = memberships
    BY <1>5 DEF Arrive, CreateInvite, AcceptInvite, RevokeInvite, UpdateMembership,
         RemoveMembership, RemoveOrganization, Step, CountMembers, CheckInviter,
         CheckActive, InsertInvite, EmitCreated, CheckMember, ConsumeInvite,
         DeleteInvite, CheckUpdater, CheckRemover, Fail, Tables
  <2> QED
    BY <1>0, <2>1 DEF Members
<1> QED
  BY <1>1, <1>2, <1>3, <1>4, <1>5

\* No ADMIN invite becomes acceptable.
LEMMA LockedInvites ==
  ASSUME TypeOK, NEW r \in Req, Arrive(r) \/ Step(r) \/ Fail(r),
         NEW o \in Org, LockedOut(o)
  PROVE  \A i \in invites' : i.org = o /\ i.role = "ADMIN" => i.expired
<1>1. CASE InsertInvite(r)
  <2>1. ~MayRescue(r, o)
    BY DEF LockedOut
  <2>2. \/ invites' = invites
        \/ \E i \in InvId :
             invites' = invites \cup
               {[id |-> i, org |-> req[r].org, email |-> req[r].email,
                 role |-> req[r].role, expired |-> FALSE]}
    BY <1>1, Zenon DEF InsertInvite
  <2>3. req[r].org = o => req[r].role # "ADMIN"
    BY <1>1, <2>1 DEF InsertInvite, MayRescue
  <2>4. \A i \in invites : i.org = o /\ i.role = "ADMIN" => i.expired
    BY DEF LockedOut
  <2> QED
    BY <2>2, <2>3, <2>4
<1>2. CASE ~InsertInvite(r)
  BY <1>2, InvitesShrink DEF LockedOut
<1> QED
  BY <1>1, <1>2

\* Once an organization has members but no admin and none on the way, it has
\* none until it is deleted.
THEOREM LockoutHolds == Spec => LockoutIsForever
<1>1. TypeOK /\ TargetsKnown /\ [Next]_vars => [StaysLockedOut]_vars
  <2> SUFFICES ASSUME TypeOK, TargetsKnown, Next,
                      NEW o \in Org, LockedOut(o), o \in orgs'
               PROVE  LockedOut(o)'
    BY DEF StaysLockedOut
  <2>1. ASSUME NEW r \in Req, Arrive(r) \/ Step(r) \/ Fail(r) PROVE LockedOut(o)'
    <3>1. \A q \in Req : ~MayRescue(q, o)'
      BY <2>1, NoRescueBySelf, NoRescueByOthers
    <3>2. Members(o)' # {} /\ \A m \in Members(o)' : m.role # "ADMIN"
      BY <2>1, LockedMembers
    <3>3. \A i \in invites' : i.org = o /\ i.role = "ADMIN" => i.expired
      BY <2>1, LockedInvites
    <3> QED
      BY <3>1, <3>2, <3>3 DEF LockedOut
  <2>2. ASSUME NEW i \in invites, Expire(i) PROVE LockedOut(o)'
    <3>1. [i EXCEPT !.expired = TRUE].expired = TRUE
      BY DEF TypeOK, InviteRow
    <3> QED
      BY <2>2, <3>1 DEF Expire, LockedOut, Members, MayRescue
  <2> QED
    BY <2>1, <2>2 DEF Next
<1>2. Spec => []TargetsKnown
  BY TypeCorrect, InitTargetsKnown, NextTargetsKnown, PTL DEF Spec
<1> QED
  BY <1>1, <1>2, TypeCorrect, PTL DEF Spec, LockoutIsForever

-----------------------------------------------------------------------------
(* Requests one at a time.                                                 *)

\* "Prevent duplicate invites and memberships" holds where no two requests overlap,
\* whichever of them die half-way: the findFirst of the handlers is enough there,
\* and the duplicates that MembershipsBounded allows are all due to overlap.
THEOREM NoDuplicatesWhenSequential ==
  ASSUME Cardinality(Req) = 1
  PROVE  Spec => [](/\ NoDuplicateMemberships
                    /\ \A o \in Org, e \in Email : \A i, j \in ActiveInvites(o, e) : i = j)
<1>1. MembershipsBounded => NoDuplicateMemberships
  BY DEF MembershipsBounded, NoDuplicateMemberships
<1>2. FiniteTables /\ ActiveInvitesBounded =>
        \A o \in Org, e \in Email : \A i, j \in ActiveInvites(o, e) : i = j
  <2> SUFFICES ASSUME FiniteTables, ActiveInvitesBounded, NEW o \in Org, NEW e \in Email,
                      NEW i \in ActiveInvites(o, e), NEW j \in ActiveInvites(o, e)
               PROVE  i = j
    OBVIOUS
  <2>1. /\ IsFiniteSet(ActiveInvites(o, e)) /\ {i, j} \in SUBSET ActiveInvites(o, e)
        /\ Cardinality(ActiveInvites(o, e)) <= 1
    BY FS_Subset DEF FiniteTables, ActiveInvites, ActiveInvitesBounded
  <2>2. CASE i # j
    <3>1. IsFiniteSet({i}) /\ Cardinality({i}) = 1 /\ {i} \cup {j} = {i, j} /\ j \notin {i}
      BY <2>2, FS_Singleton
    <3>2. Cardinality({i, j}) = 2
      BY <3>1, FS_AddElement
    <3>3. Cardinality({i, j}) <= Cardinality(ActiveInvites(o, e))
      BY <2>1, FS_Subset
    <3>4. Cardinality(ActiveInvites(o, e)) \in Nat
      BY <2>1, FS_CardinalityType
    <3> QED  BY <2>1, <3>2, <3>3, <3>4
  <2> QED  BY <2>2
<1>3. Spec => []FiniteTables
  BY TypeCorrect, InitFiniteTables, NextFiniteTables, PTL DEF Spec
<1> QED
  BY <1>1, <1>2, <1>3, MembershipsStayBounded, ActiveInvitesStayBounded, PTL

=============================================================================

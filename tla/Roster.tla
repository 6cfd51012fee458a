------------------------------- MODULE Roster -------------------------------
(***************************************************************************)
(* Who belongs to an organization, and who is invited to it: the handlers  *)
(* of InvitesService, MembershipsService and OrganizationsService.remove   *)
(* of the organization service.                                            *)
(*                                                                         *)
(* A handler is a chain of awaited Prisma calls with no transaction around *)
(* it.  Each call is atomic in PostgreSQL; between two of them any other   *)
(* request of the same process or of another replica may run.  So one      *)
(* action is one awaited call with the code that runs until the next       *)
(* await, and a request is the record of where it is and what it has in    *)
(* its local variables.  A request refused on its very first read changes  *)
(* nothing and has no action.                                              *)
(*                                                                         *)
(* Tables are sets of rows.  Neither memberships nor invites carries a     *)
(* unique constraint besides its key; both reference organizations with    *)
(* ON DELETE CASCADE.  Keys are UUIDs: a key once drawn is never drawn     *)
(* again.                                                                  *)
(***************************************************************************)
EXTENDS Naturals, FiniteSets

CONSTANTS
  Org,          \* organizations registered at the start
  User,         \* user ids
  NoUser,       \* the userId a caller left out: Prisma drops the condition
  Email,        \* invited addresses
  MemId,        \* membership keys
  InvId,        \* invite keys
  Req,          \* requests that can be in flight together, over all replicas
  MaxFailures   \* bound on requests that die half-way

ASSUME RosterAssumption ==
  /\ NoUser \notin User
  /\ IsFiniteSet(Req)
  /\ IsFiniteSet(MemId)
  /\ IsFiniteSet(InvId)
  /\ MaxFailures \in Nat

VARIABLES
  orgs,         \* keys of the rows of table organizations
  memberships,  \* rows of table memberships
  invites,      \* rows of table invites
  memIds,       \* membership keys drawn so far
  invIds,       \* invite keys drawn so far
  emitted,      \* invites whose invite.created event reached the channel
  req,          \* the state of each request
  uses,         \* history: memberships created out of each invite
  failures      \* requests that died half-way so far

vars == <<orgs, memberships, invites, memIds, invIds, emitted, req, uses, failures>>

Role == {"ADMIN", "USER"}

MembershipRow == [id : MemId, org : Org, user : User, role : Role]

\* expired abstracts expiresAt: the two tests of the code, "expiresAt >= now"
\* and "now > expiresAt", are each other's negation.
InviteRow ==
  [id : InvId, org : Org, email : Email, role : Role, expired : BOOLEAN]

-----------------------------------------------------------------------------
(* A request in flight: pc names the awaited call it makes next.           *)

Idle == [pc |-> "idle"]

CreateCall ==
  [pc : {"countMembers", "checkInviter", "checkActive", "insertInvite"},
   org : Org, caller : User \cup {NoUser}, email : Email, role : Role]

EmitCall == [pc : {"emitCreated"}, id : InvId]

AcceptCall ==
  [pc : {"checkMember", "insertMember", "consumeInvite"},
   invite : InviteRow, user : User]

RevokeCall == [pc : {"deleteInvite"}, id : InvId]

UpdateCall ==
  [pc : {"checkUpdater", "updateRole"},
   id : MemId, org : Org, caller : User, role : Role]

RemoveCall ==
  [pc : {"checkRemover", "deleteMember"},
   id : MemId, org : Org, caller : User \cup {NoUser}]

DropCall == [pc : {"deleteOrg"}, org : Org]

Call == {Idle} \cup CreateCall \cup EmitCall \cup AcceptCall \cup RevokeCall
          \cup UpdateCall \cup RemoveCall \cup DropCall

TypeOK ==
  /\ orgs \subseteq Org
  /\ memberships \subseteq MembershipRow
  /\ invites \subseteq InviteRow
  /\ memIds \subseteq MemId
  /\ invIds \subseteq InvId
  /\ emitted \subseteq InvId
  /\ req \in [Req -> Call]
  /\ uses \in [InvId -> Nat]
  /\ failures \in 0..MaxFailures

Init ==
  /\ orgs = Org
  /\ memberships = {}
  /\ invites = {}
  /\ memIds = {}
  /\ invIds = {}
  /\ emitted = {}
  /\ req = [r \in Req |-> Idle]
  /\ uses = [i \in InvId |-> 0]
  /\ failures = 0

-----------------------------------------------------------------------------
(* Queries.                                                                *)

Members(o) == {m \in memberships : m.org = o}

MembersAs(o, u) == {m \in memberships : m.org = o /\ m.user = u}

\* membership.findFirst: some row of the organization with that user, any row
\* of it when userId is undefined.
CallerRows(o, caller) ==
  {m \in memberships : m.org = o /\ (caller = NoUser \/ m.user = caller)}

ActiveInvites(o, e) ==
  {i \in invites : i.org = o /\ i.email = e /\ ~i.expired}

\* Move request r on to its next awaited call, keeping its locals.
Goto(r, pc) == req' = [req EXCEPT ![r] = [@ EXCEPT !.pc = pc]]

Return(r) == req' = [req EXCEPT ![r] = Idle]

Tables == <<orgs, memberships, invites, memIds, invIds, emitted, uses, failures>>

-----------------------------------------------------------------------------
(* Mutated forms of definitions below: the bugs the properties must catch. *)

\* The schema without its foreign keys.
NoForeignKey(o) == TRUE

\* A role outside the enum reaches the row.
WithAnyRole(id, role) ==
  {IF m.id = id THEN [m EXCEPT !.role = "OWNER"] ELSE m : m \in memberships}

\* The permission test forgets to look at the role.
MemberGate(r, next) ==
  IF CallerRows(req[r].org, req[r].caller) = {} THEN Return(r) ELSE Goto(r, next)

\* No look for an active invite before inserting one.
SkipActiveCheck(r) ==
  /\ req[r].pc = "checkActive"
  /\ Goto(r, "insertInvite")
  /\ UNCHANGED Tables

\* No look for a membership before inserting one.
SkipMemberCheck(r) ==
  /\ req[r].pc = "checkMember"
  /\ Goto(r, "insertMember")
  /\ UNCHANGED Tables

\* The accepted invite is not deleted.
KeepInvite(r) ==
  /\ req[r].pc = "consumeInvite"
  /\ Return(r)
  /\ UNCHANGED Tables

\* The invite is deleted before the membership is created.
ConsumeFirst(r) ==
  /\ req[r].pc = "checkMember"
  /\ IF MembersAs(req[r].invite.org, req[r].user) = {}
     THEN /\ Goto(r, "insertMember")
          /\ invites' = {i \in invites : i.id # req[r].invite.id}
     ELSE Return(r) /\ UNCHANGED invites
  /\ UNCHANGED <<orgs, memberships, memIds, invIds, emitted, uses, failures>>

-----------------------------------------------------------------------------
\* The permission test shared by three handlers: the row found must say ADMIN.
AdminGate(r, next) ==
  \/ /\ CallerRows(req[r].org, req[r].caller) = {}
     /\ Return(r)
  \/ \E m \in CallerRows(req[r].org, req[r].caller) :
       IF m.role = "ADMIN" THEN Goto(r, next) ELSE Return(r)

(* The foreign key of memberships and invites: an insert needs the row it  *)
(* references.                                                             *)
ForeignKey(o) == o \in orgs

-----------------------------------------------------------------------------
(* POST /invites: InvitesService.create.                                   *)

CreateInvite(r, o, caller, e, role) ==
  /\ req[r] = Idle
  /\ o \in orgs
  /\ req' = [req EXCEPT ![r] = [pc |-> "countMembers", org |-> o,
                                caller |-> caller, email |-> e, role |-> role]]
  /\ UNCHANGED Tables

CountMembers(r) ==
  /\ req[r].pc = "countMembers"
  /\ IF Members(req[r].org) = {} THEN Goto(r, "checkActive")
                                 ELSE Goto(r, "checkInviter")
  /\ UNCHANGED Tables

CheckInviter(r) ==
  /\ req[r].pc = "checkInviter"
  /\ AdminGate(r, "checkActive")
  /\ UNCHANGED Tables

CheckActive(r) ==
  /\ req[r].pc = "checkActive"
  /\ IF ActiveInvites(req[r].org, req[r].email) = {} THEN Goto(r, "insertInvite")
                                                     ELSE Return(r)
  /\ UNCHANGED Tables

\* expiresInDays is at least 1, so a new invite is active.
InsertInvite(r) ==
  /\ req[r].pc = "insertInvite"
  /\ \/ /\ ForeignKey(req[r].org)
        /\ \E i \in InvId \ invIds :
             /\ invIds' = invIds \cup {i}
             /\ invites' = invites \cup
                  {[id |-> i, org |-> req[r].org, email |-> req[r].email,
                    role |-> req[r].role, expired |-> FALSE]}
             /\ req' = [req EXCEPT ![r] = [pc |-> "emitCreated", id |-> i]]
     \/ /\ ~ForeignKey(req[r].org)
        /\ Return(r)
        /\ UNCHANGED <<invites, invIds>>
  /\ UNCHANGED <<orgs, memberships, memIds, emitted, uses, failures>>

\* The invite is returned whether or not its event could be published.
EmitCreated(r) ==
  /\ req[r].pc = "emitCreated"
  /\ \/ emitted' = emitted \cup {req[r].id}
     \/ emitted' = emitted
  /\ Return(r)
  /\ UNCHANGED <<orgs, memberships, invites, memIds, invIds, uses, failures>>

-----------------------------------------------------------------------------
(* PATCH /invites/:id/accept: InvitesService.acceptInvite.                 *)

\* The caller holds the invite's token; a wrong one is refused right here.
AcceptInvite(r, invite, u) ==
  /\ req[r] = Idle
  /\ invite \in invites
  /\ ~invite.expired
  /\ req' = [req EXCEPT ![r] =
               [pc |-> "checkMember", invite |-> invite, user |-> u]]
  /\ UNCHANGED Tables

CheckMember(r) ==
  /\ req[r].pc = "checkMember"
  /\ IF MembersAs(req[r].invite.org, req[r].user) = {} THEN Goto(r, "insertMember")
                                                       ELSE Return(r)
  /\ UNCHANGED Tables

InsertMember(r) ==
  /\ req[r].pc = "insertMember"
  /\ LET invite == req[r].invite IN
       \/ /\ ForeignKey(invite.org)
          /\ \E m \in MemId \ memIds :
               /\ memIds' = memIds \cup {m}
               /\ memberships' = memberships \cup
                    {[id |-> m, org |-> invite.org, user |-> req[r].user,
                      role |-> invite.role]}
          /\ uses' = [uses EXCEPT ![invite.id] = @ + 1]
          /\ Goto(r, "consumeInvite")
       \/ /\ ~ForeignKey(invite.org)
          /\ Return(r)
          /\ UNCHANGED <<memberships, memIds, uses>>
  /\ UNCHANGED <<orgs, invites, invIds, emitted, failures>>

\* Deleting a row that is gone throws and the request fails: the tables stay
\* as they are either way.
WithoutInvite(id) == {i \in invites : i.id # id}

ConsumeInvite(r) ==
  /\ req[r].pc = "consumeInvite"
  /\ invites' = WithoutInvite(req[r].invite.id)
  /\ Return(r)
  /\ UNCHANGED <<orgs, memberships, memIds, invIds, emitted, uses, failures>>

-----------------------------------------------------------------------------
(* DELETE /invites/:id: InvitesService.remove.                             *)

RevokeInvite(r, invite) ==
  /\ req[r] = Idle
  /\ invite \in invites
  /\ req' = [req EXCEPT ![r] = [pc |-> "deleteInvite", id |-> invite.id]]
  /\ UNCHANGED Tables

DeleteInvite(r) ==
  /\ req[r].pc = "deleteInvite"
  /\ invites' = WithoutInvite(req[r].id)
  /\ Return(r)
  /\ UNCHANGED <<orgs, memberships, memIds, invIds, emitted, uses, failures>>

-----------------------------------------------------------------------------
(* PATCH and DELETE /memberships/:id: MembershipsService.                  *)

UpdateMembership(r, target, caller, role) ==
  /\ req[r] = Idle
  /\ target \in memberships
  /\ req' = [req EXCEPT ![r] = [pc |-> "checkUpdater", id |-> target.id,
                                org |-> target.org, caller |-> caller,
                                role |-> role]]
  /\ UNCHANGED Tables

CheckUpdater(r) ==
  /\ req[r].pc = "checkUpdater"
  /\ AdminGate(r, "updateRole")
  /\ UNCHANGED Tables

WithRole(id, role) ==
  {IF m.id = id THEN [m EXCEPT !.role = role] ELSE m : m \in memberships}

UpdateRole(r) ==
  /\ req[r].pc = "updateRole"
  /\ memberships' = WithRole(req[r].id, req[r].role)
  /\ Return(r)
  /\ UNCHANGED <<orgs, invites, memIds, invIds, emitted, uses, failures>>

RemoveMembership(r, target, caller) ==
  /\ req[r] = Idle
  /\ target \in memberships
  /\ req' = [req EXCEPT ![r] = [pc |-> "checkRemover", id |-> target.id,
                                org |-> target.org, caller |-> caller]]
  /\ UNCHANGED Tables

CheckRemover(r) ==
  /\ req[r].pc = "checkRemover"
  /\ AdminGate(r, "deleteMember")
  /\ UNCHANGED Tables

DeleteMember(r) ==
  /\ req[r].pc = "deleteMember"
  /\ memberships' = {m \in memberships : m.id # req[r].id}
  /\ Return(r)
  /\ UNCHANGED <<orgs, invites, memIds, invIds, emitted, uses, failures>>

-----------------------------------------------------------------------------
(* DELETE /organizations/:id: OrganizationsService.remove.                 *)

RemoveOrganization(r, o) ==
  /\ req[r] = Idle
  /\ o \in orgs
  /\ req' = [req EXCEPT ![r] = [pc |-> "deleteOrg", org |-> o]]
  /\ UNCHANGED Tables

\* The foreign keys cascade in the statement that deletes the organization.
DeleteOrg(r) ==
  /\ req[r].pc = "deleteOrg"
  /\ orgs' = orgs \ {req[r].org}
  /\ memberships' = memberships \ Members(req[r].org)
  /\ invites' = {i \in invites : i.org # req[r].org}
  /\ Return(r)
  /\ UNCHANGED <<memIds, invIds, emitted, uses, failures>>

-----------------------------------------------------------------------------
(* The environment.                                                        *)

Expire(i) ==
  /\ i \in invites
  /\ ~i.expired
  /\ invites' = (invites \ {i}) \cup {[i EXCEPT !.expired = TRUE]}
  /\ UNCHANGED <<orgs, memberships, memIds, invIds, emitted, req, uses, failures>>

\* The awaited call rejects (database unreachable, statement timed out), or the
\* process dies: the handler stops where it is and undoes nothing.  A call that
\* took effect although its answer was lost is that call followed by Fail.
Fail(r) ==
  /\ req[r] # Idle
  /\ failures < MaxFailures
  /\ failures' = failures + 1
  /\ Return(r)
  /\ UNCHANGED <<orgs, memberships, invites, memIds, invIds, emitted, uses>>

Arrive(r) ==
  \/ \E o \in Org, caller \in User \cup {NoUser}, e \in Email, role \in Role :
       CreateInvite(r, o, caller, e, role)
  \/ \E invite \in invites, u \in User : AcceptInvite(r, invite, u)
  \/ \E invite \in invites : RevokeInvite(r, invite)
  \/ \E target \in memberships, caller \in User, role \in Role :
       UpdateMembership(r, target, caller, role)
  \/ \E target \in memberships, caller \in User \cup {NoUser} :
       RemoveMembership(r, target, caller)
  \/ \E o \in Org : RemoveOrganization(r, o)

Step(r) ==
  \/ CountMembers(r) \/ CheckInviter(r) \/ CheckActive(r) \/ InsertInvite(r)
  \/ EmitCreated(r)
  \/ CheckMember(r) \/ InsertMember(r) \/ ConsumeInvite(r)
  \/ DeleteInvite(r)
  \/ CheckUpdater(r) \/ UpdateRole(r)
  \/ CheckRemover(r) \/ DeleteMember(r)
  \/ DeleteOrg(r)

Next ==
  \/ \E r \in Req : Arrive(r) \/ Step(r) \/ Fail(r)
  \/ \E i \in invites : Expire(i)

Spec == Init /\ [][Next]_vars

-----------------------------------------------------------------------------
(* Properties.                                                             *)

\* No membership and no invite outlives its organization, although the
\* handlers look for the organization long before they insert: the row they
\* found may have been deleted in between (invites.service.ts 26-93, 160-196).
ReferentialIntegrity ==
  /\ \A m \in memberships : m.org \in orgs
  /\ \A i \in invites : i.org \in orgs

\* The look for an active invite and the insert are two calls, so concurrent
\* creators can all pass the look.  They are the only source of duplicates: an
\* address never has more active invites in an organization than there can be
\* requests in flight, and exactly one when requests do not overlap.
ActiveInvitesBounded ==
  \A o \in Org, e \in Email : Cardinality(ActiveInvites(o, e)) <= Cardinality(Req)

\* The same for memberships: a user has at most as many rows in an
\* organization as there can be requests in flight, whatever invites expire,
\* are revoked or are accepted twice.
MembershipsBounded ==
  \A o \in Org, u \in User : Cardinality(MembersAs(o, u)) <= Cardinality(Req)

\* An invite is consumed only after its membership is inserted, so it can be
\* used again by whoever read it before, and, when the request that used it
\* died in between, by anyone after.  Those are all its uses: over its whole
\* life an invite makes at most one membership per request that can be in
\* flight and per request that died.
InviteUsesBounded ==
  \A i \in InvId : uses[i] <= Cardinality(Req) + failures

\* An invite leaves its table only by being revoked, with its organization, or
\* after it made a membership: no failure of acceptInvite loses an invitation.
InviteNotLost ==
  \A i \in invites :
    \/ \E j \in invites' : j.id = i.id
    \/ i.org \notin orgs'
    \/ uses[i.id] > 0
    \/ \E r \in Req : req[r].pc = "deleteInvite" /\ req[r].id = i.id

ConsumedInviteLeftMembership == [][InviteNotLost]_vars

(***************************************************************************)
(* The inductive invariant behind the bounds.  What a request has already  *)
(* checked and not yet written is counted with what is in the tables.      *)
(***************************************************************************)

Creators(o, e) ==
  {r \in Req : req[r].pc = "insertInvite" /\ req[r].org = o /\ req[r].email = e}

Joiners(o, u) ==
  {r \in Req : /\ req[r].pc = "insertMember"
               /\ req[r].invite.org = o
               /\ req[r].user = u}

Readers(i) ==
  {r \in Req : /\ req[r].pc \in {"checkMember", "insertMember"}
               /\ req[r].invite.id = i}

Consumers(i) ==
  {r \in Req : req[r].pc = "consumeInvite" /\ req[r].invite.id = i}

FiniteTables == IsFiniteSet(memberships) /\ IsFiniteSet(invites)

CreatorsBounded ==
  \A o \in Org, e \in Email :
    Cardinality(ActiveInvites(o, e)) + Cardinality(Creators(o, e)) <= Cardinality(Req)

JoinersBounded ==
  \A o \in Org, u \in User :
    Cardinality(MembersAs(o, u)) + Cardinality(Joiners(o, u)) <= Cardinality(Req)

\* Only drawn keys are in the tables, in hand, or used.
KeysDrawn ==
  /\ \A i \in invites : i.id \in invIds
  /\ \A r \in Req : req[r] \in AcceptCall => req[r].invite.id \in invIds
  /\ \A i \in InvId \ invIds : uses[i] = 0

\* A use of an invite that is still there belongs to a request that is about
\* to consume it or that died before it could.
LiveUses ==
  \A i \in invites : uses[i.id] <= Cardinality(Consumers(i.id)) + failures

AllUses ==
  \A i \in InvId :
    uses[i] + Cardinality(Readers(i)) <= Cardinality(Req) + failures

ConsumersUsed == \A i \in InvId : Consumers(i) # {} => uses[i] > 0

\* The bounds above hold together with what requests in flight may still add
\* to them (the two calls of invites.service.ts 60-82 and 173-187, and the
\* window between 187 and 199): this is the inductive form of the properties.
UsesInv == KeysDrawn /\ LiveUses /\ AllUses /\ ConsumersUsed

\* The organization a role update or a removal has in hand is that of its
\* target, which no later row can impersonate: keys are not drawn twice.
TargetsKnown ==
  /\ \A m \in memberships : m.id \in memIds
  /\ \A m, n \in memberships : m.id = n.id => m.org = n.org
  /\ \A r \in Req :
       req[r].pc \in {"checkUpdater", "updateRole", "checkRemover", "deleteMember"} =>
         /\ req[r].id \in memIds
         /\ \A m \in memberships : m.id = req[r].id => m.org = req[r].org

RosterInv ==
  FiniteTables /\ CreatorsBounded /\ JoinersBounded /\ UsesInv /\ TargetsKnown

\* Request r may still put an ADMIN into organization o, or empty it.
MayRescue(r, o) ==
  \/ /\ req[r].pc \in {"checkActive", "insertInvite"}
     /\ req[r].org = o
     /\ req[r].role = "ADMIN"
  \/ /\ req[r].pc \in {"checkMember", "insertMember"}
     /\ req[r].invite.org = o
     /\ req[r].invite.role = "ADMIN"
  \/ /\ req[r].pc = "updateRole"
     /\ req[r].role = "ADMIN"
     /\ \E m \in Members(o) : m.id = req[r].id
  \/ /\ req[r].pc = "deleteMember"
     /\ \E m \in Members(o) : m.id = req[r].id

\* The organization has members but no admin, and none is on the way.
LockedOut(o) ==
  /\ o \in orgs
  /\ Members(o) # {}
  /\ \A m \in Members(o) : m.role # "ADMIN"
  /\ \A i \in invites : i.org = o /\ i.role = "ADMIN" => i.expired
  /\ \A r \in Req : ~MayRescue(r, o)

\* Nothing keeps the last admin from leaving or from being demoted, and then
\* the permission tests of all three handlers refuse everyone: such an
\* organization has no admin, and no fewer members, until it is deleted.
StaysLockedOut == \A o \in Org : LockedOut(o) /\ o \in orgs' => LockedOut(o)'

LockoutIsForever == [][StaysLockedOut]_vars

-----------------------------------------------------------------------------
(* A claim of the service's documentation that the code does not keep.     *)

\* "Prevent duplicate invites and memberships" (README.md of the service, line
\* 89), for memberships: no user has two rows in one organization.
NoDuplicateMemberships ==
  \A o \in Org, u \in User : Cardinality(MembersAs(o, u)) <= 1

=============================================================================

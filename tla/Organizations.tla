---------------------------- MODULE Organizations ----------------------------
(***************************************************************************)
(* OrganizationsService: create, update and remove over the table          *)
(* organizations, which has no unique constraint besides its key.  A       *)
(* handler looks for another row with the same subdomain, then for one     *)
(* with the same e-mail, and then writes: three awaited calls without a    *)
(* transaction.  One action is one of these calls.                         *)
(*                                                                         *)
(* A subdomain and an e-mail are members of Name; the other fields are     *)
(* written along and tested by nobody.                                     *)
(***************************************************************************)
EXTENDS Naturals, FiniteSets

CONSTANTS
  Id,      \* keys of the table: UUIDs, drawn once
  Name,
  None,    \* no row, no value given
  Req      \* requests in flight over all replicas

ASSUME OrganizationsAssumption ==
  /\ None \notin Id \cup Name \cup [{"subdomain", "email"} -> Name]
  /\ IsFiniteSet(Id)
  /\ IsFiniteSet(Req)

VARIABLES
  org,     \* the table: the row of each key, or None
  drawn,   \* keys drawn so far
  req      \* the call a request makes next, its target and its body

vars == <<org, drawn, req>>

Key == {"subdomain", "email"}

\* The validated bodies.  An update may leave out anything.
CreateDto == [Key -> Name]
UpdateDto == [Key -> Name \cup {None}]

Pc == {"subdomain", "email", "write", "delete"}

\* The target of a creation is None.
Idle == [pc |-> "idle", id |-> None, body |-> [k \in Key |-> None]]

TypeOK ==
  /\ org \in [Id -> CreateDto \cup {None}]
  /\ drawn \subseteq Id
  /\ \A i \in Id \ drawn : org[i] = None
  /\ req \in [Req -> {Idle} \cup [pc : Pc, id : Id \cup {None}, body : UpdateDto]]
  /\ \A r \in Req :
       /\ req[r].pc \in {"subdomain", "email", "write"} /\ req[r].id = None
            => req[r].body \in CreateDto
       /\ req[r].id # None => req[r].id \in drawn

Init ==
  /\ org = [i \in Id |-> None]
  /\ drawn = {}
  /\ req = [r \in Req |-> Idle]

At(r, pc) == req[r].pc = pc
Goto(r, pc) == req' = [req EXCEPT ![r].pc = pc]
Begin(r, pc, i, body) == req' = [req EXCEPT ![r] = [pc |-> pc, id |-> i, body |-> body]]

\* Mutated form of Done: a request that is done keeps its body.
DoneKeepsBody(r) == Goto(r, "idle")

Done(r) == req' = [req EXCEPT ![r] = Idle]

Rows == {i \in Id : org[i] # None}
Holders(k, n) == {i \in Rows : org[i][k] = n}

-----------------------------------------------------------------------------
(* Mutated forms of definitions below: the bugs the properties must catch. *)

\* The test looks at the row of the request instead of the others.
TakenBySelf(r, k) == Holders(k, req[r].body[k]) \cap {req[r].id} # {}

\* What an update leaves out is overwritten too.
Replaced(old, body) == body

\* An update inserts the row when it is not there.
UpdateInserts(r) ==
  /\ At(r, "write")
  /\ req[r].id # None
  /\ org' = [org EXCEPT ![req[r].id] = req[r].body]
  /\ Done(r)
  /\ UNCHANGED drawn

-----------------------------------------------------------------------------
(* The tests, the same in create and update; update leaves out its own row *)
(* and skips the test of what is not given.                                *)

Taken(r, k) == Holders(k, req[r].body[k]) \ {req[r].id} # {}

SecondTest(body) == IF body["email"] # None THEN "email" ELSE "write"
FirstTest(body) == IF body["subdomain"] # None THEN "subdomain" ELSE SecondTest(body)

TestSubdomain(r) ==
  /\ At(r, "subdomain")
  /\ IF Taken(r, "subdomain") THEN Done(r) ELSE Goto(r, SecondTest(req[r].body))
  /\ UNCHANGED <<org, drawn>>

TestEmail(r) ==
  /\ At(r, "email")
  /\ IF Taken(r, "email") THEN Done(r) ELSE Goto(r, "write")
  /\ UNCHANGED <<org, drawn>>

-----------------------------------------------------------------------------
(* create: POST /organizations/register and POST /organizations            *)

Create(r, body) ==
  /\ At(r, "idle")
  /\ Begin(r, "subdomain", None, body)
  /\ UNCHANGED <<org, drawn>>

InsertOrg(r) ==
  /\ At(r, "write")
  /\ req[r].id = None
  /\ \E i \in Id \ drawn :
       /\ org' = [org EXCEPT ![i] = req[r].body]
       /\ drawn' = drawn \cup {i}
  /\ Done(r)

-----------------------------------------------------------------------------
(* update: PATCH and PUT /organizations/:id                                *)

Update(r, i, body) ==
  /\ At(r, "idle")
  /\ i \in Rows
  /\ Begin(r, FirstTest(body), i, body)
  /\ UNCHANGED <<org, drawn>>

Merged(old, body) == [k \in Key |-> IF body[k] = None THEN old[k] ELSE body[k]]

\* Prisma rejects the update of a row that is gone.
UpdateOrg(r) ==
  LET i == req[r].id
  IN
  /\ At(r, "write")
  /\ i # None
  /\ org' = IF i \in Rows THEN [org EXCEPT ![i] = Merged(org[i], req[r].body)] ELSE org
  /\ Done(r)
  /\ UNCHANGED drawn

-----------------------------------------------------------------------------
(* remove: DELETE /organizations/:id                                       *)

Remove(r, i) ==
  /\ At(r, "idle")
  /\ i \in Rows
  /\ Begin(r, "delete", i, Idle.body)
  /\ UNCHANGED <<org, drawn>>

DeleteOrg(r) ==
  /\ At(r, "delete")
  /\ org' = [org EXCEPT ![req[r].id] = None]
  /\ Done(r)
  /\ UNCHANGED drawn

-----------------------------------------------------------------------------

\* A call rejects or the replica dies.  A write that took effect although its
\* answer was lost looks like one that succeeded.
Fail(r) ==
  /\ ~At(r, "idle")
  /\ Done(r)
  /\ UNCHANGED <<org, drawn>>

Step(r) ==
  \/ TestSubdomain(r) \/ TestEmail(r)
  \/ InsertOrg(r) \/ UpdateOrg(r) \/ DeleteOrg(r)
  \/ Fail(r)

Arrive(r) ==
  \/ \E body \in CreateDto : Create(r, body)
  \/ \E i \in Id, body \in UpdateDto : Update(r, i, body)
  \/ \E i \in Id : Remove(r, i)

Next == \E r \in Req : Arrive(r) \/ Step(r)

Spec == Init /\ [][Next]_vars

-----------------------------------------------------------------------------
(* Properties.                                                             *)

\* Request r gives a value for k, has found it free, and has yet to write it.
Passed(r, k) ==
  /\ req[r].pc \in (IF k = "subdomain" THEN {"email", "write"} ELSE {"write"})
  /\ req[r].body[k] # None

\* A name is never shared by more organizations than there can be requests in
\* flight, however creations, updates and removals alternate: the overlap of
\* tests and writes (organizations.service.ts 16-34, 67-94) does not add up over
\* time, and names are unique where requests do not overlap.
NamesBounded ==
  \A k \in Key, n \in Name : Cardinality(Holders(k, n)) <= Cardinality(Req)

Creators(k, n) == {r \in Req : Passed(r, k) /\ req[r].id = None /\ req[r].body[k] = n}
Updaters(k, n) == {r \in Req : Passed(r, k) /\ req[r].id # None /\ req[r].body[k] = n}
Targets(k, n) == {req[r].id : r \in Updaters(k, n)}

\* The inductive form: organizations that hold a name or are about to get it, and
\* those about to be created with it, are no more than the requests.
ClaimsBounded ==
  \A k \in Key, n \in Name :
    Cardinality(Holders(k, n) \cup Targets(k, n)) + Cardinality(Creators(k, n))
      <= Cardinality(Req)

\* A row's subdomain or e-mail changes only to what a request gave and went to
\* the tests with: an update undoes no other one that ran beside it (lines 95-98).
OnlyTestedNames ==
  \A i \in Id, k \in Key :
    org'[i] # None /\ (org[i] = None \/ org'[i][k] # org[i][k]) =>
      \E r \in Req : Passed(r, k) /\ org'[i][k] = req[r].body[k]

WritesAreTested == [][OnlyTestedNames]_vars

\* An organization that was removed stays so, although updates that found it
\* earlier are still to write.
RemovedStaysRemoved == [][\A i \in drawn : org[i] = None => org'[i] = None]_vars

-----------------------------------------------------------------------------
(* A claim of the documentation that the code does not keep.               *)

\* "Each organization has a unique subdomain" (README.md of the service, line 73):
\* the look of create and update for another row and their write are two awaited
\* calls, and two requests that both find the subdomain free both write it.
SubdomainsUnique == \A n \in Name : Cardinality(Holders("subdomain", n)) <= 1

=============================================================================
